------------------------ MODULE ClusterConsoleProofs ------------------------
(***************************************************************************)
(* Proofs about ClusterConsole: its type invariant, and that a browser     *)
(* shows the cluster except where an event is known to have been missed,   *)
(* whatever the number of nodes, of users' operations, of changes of state *)
(* and of lost sockets, and however long the channel.                      *)
(***************************************************************************)
EXTENDS ClusterConsole, SequenceTheorems, TLAPS

(* --- The inductive invariant -------------------------------------------- *)

Shown == States \cup {"absent"}

\* node-added always says follower, node-removed that there is none.
Events ==
  {e \in [type : {"node-added", "node-removed", "state-changed"}, port : Ports,
          to : Shown, now : Shown] :
     /\ e.type = "node-added" => e.to = "Follower"
     /\ e.type = "node-removed" => e.to = "absent"
     /\ e.type = "state-changed" => e.to # "absent"}

Operations ==
  [id : Nat, kind : {"create", "add", "remove", "config"}, port : Ports,
   mine : BOOLEAN, at : {"asked", "spawned", "orphaned", "ready", "announced",
                         "deleted", "updated"}, seen : PartialNodes]

Answers ==
  [id : Nat, at : {"asked", "served"}, nodes : PartialNodes, behind : Nat,
   missed : SUBSET Ports]

TablesOK ==
  /\ nodes \in PartialNodes /\ view \in PartialNodes
  /\ joined \subseteq DOMAIN nodes /\ outside \subseteq DOMAIN nodes \ joined
  /\ emits \subseteq [id : Nat, port : Ports, to : States] /\ moves \in Nat

OpsOK ==
  ops \subseteq Operations /\ asked \in Nat /\ \A o \in ops : o.id \in 1..asked

ChannelOK ==
  /\ queue \in Seq(Events) /\ Len(queue) <= QueueCap
  /\ lists \subseteq Answers
  /\ \A l \in lists : l.behind <= Len(queue) /\ (l.at = "asked" => l.behind = 0)
  /\ doubt \subseteq Ports

\* At most one operation has spawned the node of a port, and that node is in no
\* cluster and not beside one.
SpawnsOK ==
  \A o \in ops : o.at = "spawned" =>
    /\ o.port \in DOMAIN nodes /\ o.port \notin joined /\ o.port \notin outside
    /\ \A x \in ops : x.at = "spawned" /\ x.port = o.port => x = o

PendingAdd(p) == \E o \in ops : o.port = p /\ o.at \in {"spawned", "orphaned", "ready"}

\* Nothing about p waits to be published.
Calm(p) ==
  /\ ~PendingAdd(p)
  /\ \A o \in ops : o.port = p => o.at # "deleted"
  /\ \A m \in emits : m.port # p

\* What the events of q make of a port p that is shown in state a.
About(q, p) == {i \in DOMAIN q : q[i].port = p}
Timely(q, p) == \A i \in About(q, p) : ~Outdated(q[i])
Present(a, q, p) ==
  \/ \E i \in About(q, p) : /\ q[i].type = "node-added"
                            /\ \A j \in About(q, p) : j > i => q[j].type # "node-removed"
  \/ a # "absent" /\ \A j \in About(q, p) : q[j].type # "node-removed"
Ends(a, q, p, x) ==
  /\ About(q, p) = {} => x = a
  /\ \A i \in About(q, p) : (\A j \in About(q, p) : j <= i) =>
       x = IF q[i].type = "state-changed" /\ ~Present(a, q, p) THEN "absent" ELSE q[i].to

\* With the events of q it will show the node, and when all is said its state.
Right(a, q, p) ==
  /\ At(nodes, p) # "absent" /\ ~PendingAdd(p) => Present(a, q, p)
  /\ Calm(p) => Ends(a, q, p, At(nodes, p))

Rest(l) == SubSeq(queue, l.behind + 1, Len(queue))

ViewOK == \A p \in Ports \ doubt : Timely(queue, p) /\ Right(At(view, p), queue, p)

ListsOK ==
  \A l \in lists : l.at = "served" =>
    \A p \in Ports \ l.missed : Timely(Rest(l), p) => Right(At(l.nodes, p), Rest(l), p)

TInv == TablesOK /\ OpsOK /\ ChannelOK /\ SpawnsOK

IInv == TInv /\ ViewOK /\ ListsOK

(* --- Lemmas about tables and queues ------------------------------------- *)

LEMMA NodeStates ==
  "Follower" \in States /\ "Leader" \in States /\ "absent" \notin States
BY KnownStates

LEMMA PartialType ==
  ASSUME NEW P \in SUBSET Ports, NEW f \in [P -> States]
  PROVE  f \in PartialNodes
BY DEF PartialNodes

LEMMA PartialShape ==
  ASSUME NEW f \in PartialNodes
  PROVE  /\ DOMAIN f \subseteq Ports
         /\ f \in [DOMAIN f -> States]
         /\ \A p \in DOMAIN f : f[p] \in States
BY DEF PartialNodes

\* What a table says of a port is a state of a node or "absent", and says of
\* which ports it has a node.
LEMMA AtType ==
  ASSUME NEW f \in PartialNodes, NEW p
  PROVE  At(f, p) \in Shown /\ (At(f, p) # "absent" <=> p \in DOMAIN f)
BY PartialShape, NodeStates DEF At, Shown

LEMMA EmptyTable ==
  /\ Empty \in PartialNodes
  /\ DOMAIN Empty = {}
  /\ \A p : At(Empty, p) = "absent"
<1>1. Empty \in [{} -> States]
  BY DEF Empty
<1>. QED
  BY <1>1, PartialType DEF Empty, At

LEMMA PutTable ==
  ASSUME NEW f \in PartialNodes, NEW p \in Ports, NEW s \in States
  PROVE  /\ Put(f, p, s) \in PartialNodes
         /\ DOMAIN Put(f, p, s) = DOMAIN f \cup {p}
         /\ At(Put(f, p, s), p) = s
         /\ \A q : q # p => At(Put(f, p, s), q) = At(f, q)
<1>1. DOMAIN f \subseteq Ports /\ \A q \in DOMAIN f : f[q] \in States
  BY PartialShape
<1>2. Put(f, p, s) \in [DOMAIN f \cup {p} -> States]
  BY <1>1 DEF Put
<1>3. DOMAIN f \cup {p} \in SUBSET Ports
  BY <1>1
<1>. QED
  BY <1>2, <1>3, PartialType DEF Put, At

LEMMA PutOther ==
  ASSUME NEW f, NEW p, NEW s, NEW q, q # p
  PROVE  At(Put(f, p, s), q) = At(f, q)
BY DEF At, Put

LEMMA DropTable ==
  ASSUME NEW f \in PartialNodes, NEW p
  PROVE  /\ Drop(f, p) \in PartialNodes
         /\ DOMAIN Drop(f, p) = DOMAIN f \ {p}
         /\ At(Drop(f, p), p) = "absent"
         /\ \A q : q # p => At(Drop(f, p), q) = At(f, q)
<1>1. DOMAIN f \subseteq Ports /\ \A q \in DOMAIN f : f[q] \in States
  BY PartialShape
<1>2. Drop(f, p) \in [DOMAIN f \ {p} -> States]
  BY <1>1 DEF Drop, Restrict
<1>3. DOMAIN f \ {p} \in SUBSET Ports
  BY <1>1
<1>. QED
  BY <1>2, <1>3, PartialType DEF Drop, Restrict, At

\* Two queues that say the same of p, but for where.
LEMMA Shifted ==
  ASSUME NEW q, NEW r, NEW p, NEW k \in Nat, NEW a, NEW x,
         DOMAIN q \subseteq Nat, DOMAIN r \subseteq Nat,
         \A i \in About(r, p) : i + k \in About(q, p) /\ q[i + k] = r[i],
         \A i \in About(q, p) : i > k /\ i - k \in About(r, p)
  PROVE  /\ Timely(q, p) <=> Timely(r, p)
         /\ Present(a, q, p) <=> Present(a, r, p)
         /\ Ends(a, q, p, x) <=> Ends(a, r, p, x)
<1>. DEFINE A == About(q, p)  B == About(r, p)
<1>1. A \subseteq Nat /\ B \subseteq Nat
  BY DEF About
<1>. HIDE DEF A, B
<1>2. \A i \in B : i + k \in A /\ q[i + k] = r[i]
  BY DEF A, B
<1>3. \A i \in A : i > k /\ i - k \in B /\ (i - k) + k = i /\ r[i - k] = q[i]
  <2>1. \A i \in A : i > k /\ i - k \in B
    BY DEF A, B
  <2>. QED
    BY <2>1, <1>1, <1>2
<1>4. Timely(q, p) <=> Timely(r, p)
  <2>1. (\A i \in A : ~Outdated(q[i])) => (\A i \in B : ~Outdated(r[i]))
    BY <1>2
  <2>2. (\A i \in B : ~Outdated(r[i])) => (\A i \in A : ~Outdated(q[i]))
    BY <1>3
  <2>. QED
    BY <2>1, <2>2 DEF Timely, A, B
<1>5. (\A j \in A : q[j].type # "node-removed") <=> (\A j \in B : r[j].type # "node-removed")
  BY <1>2, <1>3
<1>6. (\E i \in A : q[i].type = "node-added" /\ \A j \in A : j > i => q[j].type # "node-removed")
      <=> (\E i \in B : r[i].type = "node-added" /\ \A j \in B : j > i => r[j].type # "node-removed")
  <2>1. ASSUME NEW i \in A, q[i].type = "node-added",
               \A j \in A : j > i => q[j].type # "node-removed"
        PROVE  \E n \in B : r[n].type = "node-added" /\ \A j \in B : j > n => r[j].type # "node-removed"
    <3>1. i - k \in B /\ r[i - k].type = "node-added"
      BY <1>3, <2>1
    <3>2. ASSUME NEW j \in B, j > i - k
          PROVE  r[j].type # "node-removed"
      BY <1>1, <1>2, <2>1, <3>2
    <3>. QED
      BY <3>1, <3>2
  <2>2. ASSUME NEW i \in B, r[i].type = "node-added",
               \A j \in B : j > i => r[j].type # "node-removed"
        PROVE  \E n \in A : q[n].type = "node-added" /\ \A j \in A : j > n => q[j].type # "node-removed"
    <3>1. i + k \in A /\ q[i + k].type = "node-added"
      BY <1>2, <2>2
    <3>2. ASSUME NEW j \in A, j > i + k
          PROVE  q[j].type # "node-removed"
      BY <1>1, <1>3, <2>2, <3>2
    <3>. QED
      BY <3>1, <3>2
  <2>. QED
    BY <2>1, <2>2
<1>7. Present(a, q, p) <=> Present(a, r, p)
  BY <1>5, <1>6 DEF Present, A, B
<1>8. A = {} <=> B = {}
  BY <1>2, <1>3
<1>9. Ends(a, q, p, x) => Ends(a, r, p, x)
  <2>. SUFFICES ASSUME Ends(a, q, p, x), NEW i \in B, \A j \in B : j <= i
                PROVE  x = IF r[i].type = "state-changed" /\ ~Present(a, r, p)
                             THEN "absent" ELSE r[i].to
    BY <1>8 DEF Ends, A, B
  <2>1. i + k \in A /\ q[i + k] = r[i]
    BY <1>2
  <2>2. \A j \in A : j <= i + k
    BY <1>1, <1>3
  <2>. QED
    BY <2>1, <2>2, <1>7 DEF Ends, A
<1>10. Ends(a, r, p, x) => Ends(a, q, p, x)
  <2>. SUFFICES ASSUME Ends(a, r, p, x), NEW i \in A, \A j \in A : j <= i
                PROVE  x = IF q[i].type = "state-changed" /\ ~Present(a, q, p)
                             THEN "absent" ELSE q[i].to
    BY <1>8 DEF Ends, A, B
  <2>1. i - k \in B /\ r[i - k] = q[i]
    BY <1>3
  <2>2. \A j \in B : j <= i - k
    BY <1>1, <1>2
  <2>. QED
    BY <2>1, <2>2, <1>7 DEF Ends, B
<1>. QED
  BY <1>4, <1>7, <1>9, <1>10

LEMMA EventShape ==
  ASSUME NEW q \in Seq(Events)
  PROVE  /\ DOMAIN q = 1..Len(q) /\ Len(q) \in Nat /\ DOMAIN q \subseteq Nat
         /\ \A i \in DOMAIN q : q[i] \in Events
  OBVIOUS

LEMMA EventType ==
  ASSUME NEW e \in Events
  PROVE  /\ e.type \in {"node-added", "node-removed", "state-changed"}
         /\ e.port \in Ports /\ e.to \in Shown /\ e.now \in Shown
         /\ e.type = "node-added" => e.to = "Follower"
         /\ e.type = "node-removed" => e.to = "absent"
         /\ e.type = "state-changed" => e.to # "absent"
BY DEF Events

\* The queue after one more event.
LEMMA AppendShape ==
  ASSUME NEW q \in Seq(Events), NEW e \in Events
  PROVE  /\ Append(q, e) \in Seq(Events)
         /\ Len(Append(q, e)) = Len(q) + 1
         /\ \A i \in DOMAIN q : Append(q, e)[i] = q[i]
         /\ Append(q, e)[Len(q) + 1] = e
         /\ DOMAIN Append(q, e) = DOMAIN q \cup {Len(q) + 1}
         /\ Len(q) + 1 \notin DOMAIN q
<1>. HIDE DEF Events
<1>. QED
  OBVIOUS

LEMMA AppendOther ==
  ASSUME NEW q \in Seq(Events), NEW e \in Events, NEW p, NEW a, NEW x, e.port # p
  PROVE  /\ Timely(Append(q, e), p) <=> Timely(q, p)
         /\ Present(a, Append(q, e), p) <=> Present(a, q, p)
         /\ Ends(a, Append(q, e), p, x) <=> Ends(a, q, p, x)
<1>. PICK r \in Seq(Events) : r = Append(q, e)
  BY AppendShape
<1>1. \A i \in DOMAIN r : i \in DOMAIN q \/ i = Len(q) + 1
  BY AppendShape
<1>2. (\A i \in DOMAIN q : i \in DOMAIN r /\ r[i] = q[i]) /\ r[Len(q) + 1] = e
  BY AppendShape
<1>3. DOMAIN q \subseteq Nat /\ DOMAIN r \subseteq Nat
  BY EventShape
<1>4. \A i \in About(q, p) : i + 0 \in About(r, p) /\ r[i + 0] = q[i]
  BY <1>2, <1>3 DEF About
<1>5. \A i \in About(r, p) : i > 0 /\ i - 0 \in About(q, p)
  <2>1. \A i \in About(r, p) : i \in About(q, p)
    BY <1>1, <1>2 DEF About
  <2>2. \A i \in DOMAIN q : i > 0 /\ i - 0 = i
    BY EventShape
  <2>. QED
    BY <2>1, <2>2 DEF About
<1>. QED
  BY <1>3, <1>4, <1>5, Shifted

LEMMA AppendSame ==
  ASSUME NEW q \in Seq(Events), NEW e \in Events, NEW a, NEW x
  PROVE  /\ Timely(Append(q, e), e.port) => Timely(q, e.port) /\ ~Outdated(e)
         /\ Timely(q, e.port) /\ ~Outdated(e) => Timely(Append(q, e), e.port)
         /\ e.type = "node-added" => Present(a, Append(q, e), e.port)
         /\ e.type = "state-changed" /\ Present(a, q, e.port) =>
              Present(a, Append(q, e), e.port)
         /\ x = (IF e.type = "state-changed" /\ ~Present(a, Append(q, e), e.port)
                   THEN "absent" ELSE e.to) => Ends(a, Append(q, e), e.port, x)
<1>. PICK r \in Seq(Events) : r = Append(q, e)
  BY AppendShape
<1>. DEFINE n == Len(q) + 1  p == e.port  A == About(q, p)  B == About(r, p)
<1>1. B = A \cup {n} /\ n \notin A /\ r[n] = e /\ \A i \in A : r[i] = q[i]
  BY AppendShape DEF About
<1>2. \A i \in A : i \in Nat /\ i < n
  BY EventShape DEF About
<1>3. n \in Nat
  BY EventShape
<1>. HIDE DEF n, A, B
<1>4. Timely(r, p) <=> Timely(q, p) /\ ~Outdated(e)
  <2>1. (\A i \in B : ~Outdated(r[i])) <=> (\A i \in A : ~Outdated(q[i])) /\ ~Outdated(e)
    BY <1>1
  <2>. QED
    BY <2>1 DEF Timely, A, B
<1>5. ASSUME e.type = "node-added"  PROVE Present(a, r, p)
  <2>1. n \in B /\ r[n].type = "node-added" /\ \A j \in B : ~(j > n)
    BY <1>1, <1>2, <1>3, <1>5
  <2>. QED
    BY <2>1 DEF Present, B
<1>6. ASSUME e.type = "state-changed", Present(a, q, p)  PROVE Present(a, r, p)
  <2>1. CASE \E i \in A : q[i].type = "node-added"
                          /\ \A j \in A : j > i => q[j].type # "node-removed"
    <3>. PICK i \in A : q[i].type = "node-added"
                        /\ \A j \in A : j > i => q[j].type # "node-removed"
      BY <2>1
    <3>1. i \in B /\ r[i].type = "node-added"
          /\ \A j \in B : j > i => r[j].type # "node-removed"
      BY <1>1, <1>6
    <3>. QED
      BY <3>1 DEF Present, B
  <2>2. CASE a # "absent" /\ \A j \in A : q[j].type # "node-removed"
    <3>1. \A j \in B : r[j].type # "node-removed"
      BY <1>1, <1>6, <2>2
    <3>. QED
      BY <3>1, <2>2 DEF Present, B
  <2>. QED
    BY <1>6, <2>1, <2>2 DEF Present, A
<1>7. ASSUME x = IF e.type = "state-changed" /\ ~Present(a, r, p) THEN "absent" ELSE e.to
      PROVE  Ends(a, r, p, x)
  <2>1. B # {}
    BY <1>1
  <2>2. ASSUME NEW i \in B, \A j \in B : j <= i
        PROVE  i = n
    BY <1>1, <1>2, <1>3, <2>2
  <2>3. r[n] = e
    BY <1>1
  <2>. QED
    BY <1>7, <2>1, <2>2, <2>3 DEF Ends, B
<1>. QED
  BY <1>4, <1>5, <1>6, <1>7

\* The queue without its first event, which is about another port ...
LEMMA TailShape ==
  ASSUME NEW q \in Seq(Events), q # <<>>
  PROVE  /\ Head(q) \in Events /\ Tail(q) \in Seq(Events)
         /\ Len(q) >= 1 /\ Len(Tail(q)) = Len(q) - 1
         /\ 1 \in DOMAIN q /\ q[1] = Head(q)
         /\ \A i \in DOMAIN Tail(q) : i + 1 \in DOMAIN q /\ q[i + 1] = Tail(q)[i]
         /\ \A i \in DOMAIN q : i # 1 => i > 1 /\ i - 1 \in DOMAIN Tail(q)
                                        /\ Tail(q)[i - 1] = q[i]
<1>. HIDE DEF Events
<1>1. Len(q) \in Nat /\ DOMAIN q = 1..Len(q) /\ Len(q) # 0
  OBVIOUS
<1>2. Head(q) \in Events /\ Head(q) = q[1] /\ Tail(q) \in Seq(Events) /\ Len(Tail(q)) = Len(q) - 1
  OBVIOUS
<1>3. DOMAIN Tail(q) = 1..(Len(q) - 1)
  BY <1>2
<1>4. \A i \in 1..(Len(q) - 1) : Tail(q)[i] = q[i + 1]
  OBVIOUS
<1>. QED
  BY <1>1, <1>2, <1>3, <1>4

LEMMA TailOther ==
  ASSUME NEW q \in Seq(Events), q # <<>>, NEW p, NEW a, NEW x, Head(q).port # p
  PROVE  /\ Timely(q, p) <=> Timely(Tail(q), p)
         /\ Present(a, q, p) <=> Present(a, Tail(q), p)
         /\ Ends(a, q, p, x) <=> Ends(a, Tail(q), p, x)
<1>. PICK r \in Seq(Events) : r = Tail(q)
  BY TailShape
<1>1. q[1].port # p
  BY TailShape
<1>2. /\ \A i \in DOMAIN r : i + 1 \in DOMAIN q /\ q[i + 1] = r[i]
      /\ \A i \in DOMAIN q : i # 1 => i > 1 /\ i - 1 \in DOMAIN r /\ r[i - 1] = q[i]
  BY TailShape
<1>3. DOMAIN q \subseteq Nat /\ DOMAIN r \subseteq Nat
  BY EventShape
<1>4. \A i \in About(r, p) : i + 1 \in About(q, p) /\ q[i + 1] = r[i]
  BY <1>2 DEF About
<1>5. \A i \in About(q, p) : i > 1 /\ i - 1 \in About(r, p)
  BY <1>1, <1>2 DEF About
<1>. QED
  BY <1>3, <1>4, <1>5, Shifted

\* ... and when it is about p, what handling it makes of a port shown in state a.
Turn(a, e) ==
  IF e.type = "node-added" THEN "Follower"
  ELSE IF e.type = "node-removed" THEN "absent"
  ELSE IF a # "absent" THEN e.to ELSE "absent"

LEMMA AfterTable ==
  ASSUME view \in PartialNodes, NEW e \in Events
  PROVE  /\ After(e) \in PartialNodes
         /\ \A p : At(After(e), p) = IF e.port = p THEN Turn(At(view, p), e) ELSE At(view, p)
<1>1. e.port \in Ports /\ "Follower" \in States
  BY EventType, NodeStates
<1>2. CASE e.type = "node-added"
  <2>1. After(e) = Put(view, e.port, "Follower")
    BY <1>2 DEF After
  <2>2. /\ Put(view, e.port, "Follower") \in PartialNodes
        /\ At(Put(view, e.port, "Follower"), e.port) = "Follower"
        /\ \A q : q # e.port => At(Put(view, e.port, "Follower"), q) = At(view, q)
    BY ZenonT(30), <1>1, PutTable
  <2>. QED
    BY <1>2, <2>1, <2>2 DEF Turn
<1>3. CASE e.type = "node-removed"
  <2>1. After(e) = Drop(view, e.port)
    BY <1>3 DEF After
  <2>2. /\ Drop(view, e.port) \in PartialNodes
        /\ At(Drop(view, e.port), e.port) = "absent"
        /\ \A q : q # e.port => At(Drop(view, e.port), q) = At(view, q)
    BY DropTable
  <2>. QED
    BY <1>3, <2>1, <2>2 DEF Turn
<1>4. CASE e.type = "state-changed" /\ e.port \in DOMAIN view
  <2>1. After(e) = Put(view, e.port, e.to)
    BY <1>4 DEF After
  <2>2. e.to \in States /\ At(view, e.port) # "absent"
    BY <1>4, EventType, AtType DEF Shown
  <2>3. /\ Put(view, e.port, e.to) \in PartialNodes
        /\ At(Put(view, e.port, e.to), e.port) = e.to
        /\ \A q : q # e.port => At(Put(view, e.port, e.to), q) = At(view, q)
    BY ZenonT(30), <1>1, <2>2, PutTable
  <2>. QED
    BY <1>4, <2>1, <2>2, <2>3 DEF Turn
<1>5. CASE e.type = "state-changed" /\ e.port \notin DOMAIN view
  <2>1. After(e) = view
    BY <1>5 DEF After
  <2>2. At(view, e.port) = "absent"
    BY <1>5 DEF At
  <2>. QED
    BY <1>5, <2>1, <2>2 DEF Turn
<1>. QED
  BY <1>2, <1>3, <1>4, <1>5, EventType

LEMMA TailSame ==
  ASSUME NEW q \in Seq(Events), q # <<>>, NEW a, NEW x
  PROVE  LET e == Head(q)
             p == e.port
         IN  /\ Timely(q, p) => Timely(Tail(q), p)
             /\ Present(a, q, p) => Present(Turn(a, e), Tail(q), p)
             /\ Ends(a, q, p, x) => Ends(Turn(a, e), Tail(q), p, x)
<1>. PICK r \in Seq(Events) : r = Tail(q)
  BY TailShape
<1>. PICK e \in Events : e = Head(q)
  BY TailShape
<1>. PICK p : p = e.port
  OBVIOUS
<1>. DEFINE A == About(q, p)  B == About(r, p)
<1>1. /\ 1 \in DOMAIN q /\ q[1] = e
      /\ \A i \in DOMAIN r : i + 1 \in DOMAIN q /\ q[i + 1] = r[i]
      /\ \A i \in DOMAIN q : i # 1 => i > 1 /\ i - 1 \in DOMAIN r /\ r[i - 1] = q[i]
  BY TailShape
<1>2. (\A i \in A : i \in Nat) /\ \A i \in B : i \in Nat /\ i >= 1
  BY EventShape DEF About
<1>3. 1 \in A /\ q[1] = e
  BY <1>1 DEF About
<1>4. \A i \in B : i + 1 \in A /\ q[i + 1] = r[i]
  BY <1>1 DEF About
<1>5. \A i \in A : i # 1 => i > 1 /\ i - 1 \in B /\ r[i - 1] = q[i]
  BY <1>1 DEF About
<1>6. \A i \in A : i > 1 => i - 1 \in B /\ r[i - 1] = q[i]
  <2>1. \A i \in A : i > 1 => i # 1
    BY <1>2
  <2>. QED
    BY <2>1, <1>5
<1>7. /\ e.type \in {"node-added", "node-removed", "state-changed"}
      /\ e.type = "node-added" => e.to = "Follower"
      /\ e.type = "node-removed" => e.to = "absent"
      /\ e.type = "state-changed" => e.to # "absent"
  BY EventType
<1>. HIDE DEF A, B, Events
<1>8. Timely(q, p) => Timely(r, p)
  <2>1. (\A i \in A : ~Outdated(q[i])) => (\A i \in B : ~Outdated(r[i]))
    BY <1>4
  <2>. QED
    BY <2>1 DEF Timely, A, B
<1>9. (\A j \in B : r[j].type # "node-removed")
      <=> (\A j \in A : j > 1 => q[j].type # "node-removed")
  <2>1. ASSUME \A j \in B : r[j].type # "node-removed", NEW j \in A, j > 1
        PROVE  q[j].type # "node-removed"
    BY <1>6, <2>1
  <2>2. ASSUME \A j \in A : j > 1 => q[j].type # "node-removed", NEW j \in B
        PROVE  r[j].type # "node-removed"
    <3>1. j + 1 > 1
      BY <1>2
    <3>. QED
      BY <1>4, <2>2, <3>1
  <2>. QED
    BY <2>1, <2>2
<1>10. (\E i \in B : r[i].type = "node-added" /\ \A j \in B : j > i => r[j].type # "node-removed")
       <=> (\E i \in A : i > 1 /\ q[i].type = "node-added"
                         /\ \A j \in A : j > i => q[j].type # "node-removed")
  <2>1. ASSUME NEW i \in A, i > 1, q[i].type = "node-added",
               \A j \in A : j > i => q[j].type # "node-removed"
        PROVE  \E n \in B : r[n].type = "node-added"
                            /\ \A j \in B : j > n => r[j].type # "node-removed"
    <3>1. i - 1 \in B /\ r[i - 1].type = "node-added"
      BY <1>6, <2>1
    <3>2. ASSUME NEW j \in B, j > i - 1
          PROVE  r[j].type # "node-removed"
      <4>1. i \in Nat /\ j \in Nat
        BY <1>2
      <4>2. j + 1 > i
        BY <3>2, <4>1
      <4>3. j + 1 \in A /\ q[j + 1] = r[j]
        BY <1>4
      <4>. QED
        BY <2>1, <4>2, <4>3
    <3>. QED
      BY <3>1, <3>2
  <2>2. ASSUME NEW i \in B, r[i].type = "node-added",
               \A j \in B : j > i => r[j].type # "node-removed"
        PROVE  \E n \in A : n > 1 /\ q[n].type = "node-added"
                            /\ \A j \in A : j > n => q[j].type # "node-removed"
    <3>1. i + 1 \in A /\ q[i + 1].type = "node-added"
      BY <1>4, <2>2
    <3>3. i + 1 > 1
      BY <1>2
    <3>2. ASSUME NEW j \in A, j > i + 1
          PROVE  q[j].type # "node-removed"
      <4>1. j # 1 /\ j - 1 > i
        BY <1>2, <3>2
      <4>. QED
        BY <1>5, <2>2, <4>1
    <3>. QED
      BY <3>1, <3>2, <3>3
  <2>. QED
    BY <2>1, <2>2
<1>. DEFINE
       Again == \E i \in A : i > 1 /\ q[i].type = "node-added"
                             /\ \A j \in A : j > i => q[j].type # "node-removed"
       Stays == \A j \in A : j > 1 => q[j].type # "node-removed"
<1>11. \A b : Present(b, r, p) <=> Again \/ (b # "absent" /\ Stays)
  BY <1>9, <1>10 DEF Present, B
<1>12. Present(a, q, p)
       <=> \/ Again
           \/ e.type = "node-added" /\ Stays
           \/ a # "absent" /\ e.type # "node-removed" /\ Stays
  <2>1. (\A j \in A : q[j].type # "node-removed") <=> e.type # "node-removed" /\ Stays
    BY <1>3, <1>5
  <2>2. (\E i \in A : q[i].type = "node-added" /\ \A j \in A : j > i => q[j].type # "node-removed")
        <=> Again \/ (e.type = "node-added" /\ Stays)
    BY <1>3, <1>5
  <2>. QED
    BY <2>1, <2>2 DEF Present, A
<1>. HIDE DEF Again, Stays
<1>13. Present(a, q, p) <=> Present(Turn(a, e), r, p)
  BY <1>7, <1>11, <1>12 DEF Turn
<1>14. ASSUME Ends(a, q, p, x)
       PROVE  Ends(Turn(a, e), r, p, x)
  <2>1. ASSUME B = {}
        PROVE  x = Turn(a, e)
    <3>1. A = {1}
      BY <1>3, <1>5, <2>1
    <3>2. x = IF e.type = "state-changed" /\ ~Present(a, q, p) THEN "absent" ELSE e.to
      BY <1>3, <1>14, <3>1 DEF Ends, A
    <3>3. Stays /\ ~Again
      BY <3>1 DEF Stays, Again
    <3>. QED
      BY <1>7, <1>12, <3>2, <3>3 DEF Turn
  <2>2. ASSUME NEW i \in B, \A j \in B : j <= i
        PROVE  x = IF r[i].type = "state-changed" /\ ~Present(Turn(a, e), r, p)
                     THEN "absent" ELSE r[i].to
    <3>1. i + 1 \in A /\ q[i + 1] = r[i]
      BY <1>4
    <3>2. ASSUME NEW j \in A
          PROVE  j <= i + 1
      <4>1. CASE j = 1
        BY <4>1, <1>2
      <4>2. CASE j # 1
        <5>1. j - 1 \in B
          BY <4>2, <1>5
        <5>2. j - 1 <= i
          BY <5>1, <2>2
        <5>. QED
          BY <5>2, <1>2
      <4>. QED
        BY <4>1, <4>2
    <3>. QED
      BY <1>13, <1>14, <3>1, <3>2 DEF Ends, A
  <2>. QED
    BY <2>1, <2>2 DEF Ends, B
<1>. QED
  BY <1>8, <1>13, <1>14

\* What s says of p is what q says of it after its first k events.
Resumes(q, s, p, k) ==
  /\ \A i \in About(s, p) : i + k \in About(q, p) /\ q[i + k] = s[i]
  /\ \A i \in About(q, p) : i > k => i - k \in About(s, p) /\ s[i - k] = q[i]

\* A list that was made when the queue was shorter by k events than q and that
\* is set while all of q is still to be handled.
LEMMA Resent ==
  ASSUME NEW q \in Seq(Events), NEW s \in Seq(Events), NEW p, NEW k \in Nat,
         NEW a, NEW v, NEW x,
         Resumes(q, s, p, k)
  PROVE  /\ Present(v, q, p) /\ Present(a, s, p) => Present(a, q, p)
         /\ Ends(v, q, p, x) /\ Ends(a, s, p, x) => Ends(a, q, p, x)
<1>. DEFINE A == About(q, p)  B == About(s, p)
<1>1. (\A i \in A : i \in Nat /\ q[i] \in Events) /\ (\A i \in B : i \in Nat /\ i >= 1)
  BY EventShape DEF About
<1>2. \A i \in B : i + k \in A /\ q[i + k] = s[i]
  BY DEF A, B, Resumes
<1>3. \A i \in A : i > k => i - k \in B /\ s[i - k] = q[i]
  BY DEF A, B, Resumes
<1>. HIDE DEF A, B, Events
<1>. DEFINE
       Again == \E i \in A : q[i].type = "node-added"
                             /\ \A j \in A : j > i => q[j].type # "node-removed"
       Stays == \A j \in A : q[j].type # "node-removed"
<1>4. \A b : Present(b, q, p) <=> Again \/ (b # "absent" /\ Stays)
  BY DEF Present, A
<1>5. ASSUME Stays, Present(a, s, p)
      PROVE  Present(a, q, p)
  <2>1. CASE \E i \in B : s[i].type = "node-added"
    <3>. PICK i \in B : s[i].type = "node-added"
      BY <2>1
    <3>1. i + k \in A /\ q[i + k].type = "node-added"
      BY <1>2
    <3>. QED
      BY <3>1, <1>4, <1>5
  <2>2. CASE a # "absent"
    BY <2>2, <1>4, <1>5
  <2>. QED
    BY <1>5, <2>1, <2>2 DEF Present, B
<1>6. ASSUME Stays, a # "absent"
      PROVE  Present(a, s, p)
  <2>1. \A j \in B : s[j].type # "node-removed"
    BY <1>2, <1>6
  <2>. QED
    BY <2>1, <1>6 DEF Present, B
<1>. HIDE DEF Again, Stays
<1>7. Present(v, q, p) /\ Present(a, s, p) => Present(a, q, p)
  BY <1>4, <1>5
<1>8. ~Present(v, q, p) /\ ~Present(a, s, p) => ~Present(a, q, p)
  BY <1>4, <1>6
<1>9. ASSUME Ends(v, q, p, x), Ends(a, s, p, x)
      PROVE  Ends(a, q, p, x)
  <2>1. ASSUME A = {}
        PROVE  x = a
    <3>1. B = {}
      BY <1>2, <2>1
    <3>. QED
      BY <3>1, <1>9 DEF Ends, B
  <2>2. ASSUME NEW i \in A, \A j \in A : j <= i
        PROVE  x = IF q[i].type = "state-changed" /\ ~Present(a, q, p)
                     THEN "absent" ELSE q[i].to
    <3>1. x = IF q[i].type = "state-changed" /\ ~Present(v, q, p) THEN "absent" ELSE q[i].to
      BY <1>9, <2>2 DEF Ends, A
    <3>2. q[i].type = "state-changed" => q[i].to # "absent"
      BY <1>1, EventType
    <3>3. CASE i > k
      <4>1. i - k \in B /\ s[i - k] = q[i]
        BY <1>3, <3>3
      <4>2. ASSUME NEW j \in B
            PROVE  j <= i - k
        <5>1. j + k <= i
          BY <1>2, <2>2
        <5>. QED
          BY <5>1, <1>1
      <4>3. x = IF q[i].type = "state-changed" /\ ~Present(a, s, p) THEN "absent" ELSE q[i].to
        BY <1>9, <4>1, <4>2 DEF Ends, B
      <4>. QED
        BY <3>1, <3>2, <4>3, <1>7, <1>8
    <3>4. CASE ~(i > k)
      <4>1. B = {}
        <5>. SUFFICES ASSUME NEW j \in B PROVE FALSE
          OBVIOUS
        <5>1. j + k <= i
          BY <1>2, <2>2
        <5>. QED
          BY <5>1, <3>4, <1>1
      <4>2. x = a
        BY <4>1, <1>9 DEF Ends, B
      <4>3. Present(a, s, p) <=> a # "absent"
        BY <4>1 DEF Present, B
      <4>. QED
        BY <3>1, <3>2, <4>2, <4>3, <1>7, <1>8
    <3>. QED
      BY <3>3, <3>4
  <2>. QED
    BY <2>1, <2>2 DEF Ends, A
<1>. QED
  BY <1>7, <1>9

\* A queue that says nothing of p.
LEMMA Untold ==
  ASSUME NEW q, NEW p, NEW a, NEW x, About(q, p) = {}
  PROVE  /\ Timely(q, p)
         /\ Present(a, q, p) <=> a # "absent"
         /\ Ends(a, q, p, x) <=> x = a
BY DEF Timely, Present, Ends

LEMMA UntoldPorts ==
  ASSUME NEW q, NEW p, p \notin PortsOf(q)
  PROVE  About(q, p) = {}
BY DEF About, PortsOf

LEMMA EmptyQueue ==
  <<>> \in Seq(Events) /\ Len(<<>>) = 0 /\ \A p : About(<<>>, p) = {}
BY DEF About

\* What is still to come when a list is k events behind.
LEMMA RestShape ==
  ASSUME NEW q \in Seq(Events), NEW k \in Nat, k <= Len(q)
  PROVE  LET s == SubSeq(q, k + 1, Len(q))
         IN  /\ s \in Seq(Events) /\ Len(s) = Len(q) - k
             /\ \A i \in DOMAIN s : i + k \in DOMAIN q /\ s[i] = q[i + k]
             /\ \A i \in DOMAIN q : i > k => i - k \in DOMAIN s /\ s[i - k] = q[i]
<1>. DEFINE s == SubSeq(q, k + 1, Len(q))
<1>. HIDE DEF Events
<1>1. Len(q) \in Nat /\ DOMAIN q = 1..Len(q)
  OBVIOUS
<1>2. s \in Seq(Events)
  BY <1>1
<1>3. Len(s) = Len(q) - k /\ DOMAIN s = 1..(Len(q) - k)
  <2>1. \A i \in k + 1 .. Len(q) : q[i] \in Events
    BY <1>1
  <2>2. Len(s) = IF k + 1 <= Len(q) THEN Len(q) - (k + 1) + 1 ELSE 0
    BY <1>1, <2>1, SubSeqProperties
  <2>3. Len(s) = Len(q) - k
    <3>. PICK n \in Nat : n = Len(q)
      BY <1>1
    <3>. PICK m : m = Len(s)
      OBVIOUS
    <3>1. m = (IF k + 1 <= n THEN n - (k + 1) + 1 ELSE 0) /\ k <= n
      BY <2>2
    <3>2. m = n - k
      BY <3>1
    <3>. QED
      BY <3>2
  <2>4. DOMAIN s = 1..Len(s)
    BY <1>2
  <2>. QED
    BY <2>3, <2>4
<1>4. \A i \in 1..(Len(q) - k) : s[i] = q[i + k]
  BY <1>1
<1>. HIDE DEF s
<1>5. \A i \in DOMAIN s : i + k \in DOMAIN q /\ s[i] = q[i + k]
  BY <1>1, <1>3, <1>4
<1>6. ASSUME NEW i \in DOMAIN q, i > k
      PROVE  i - k \in DOMAIN s /\ s[i - k] = q[i]
  <2>1. i - k \in 1..(Len(q) - k) /\ (i - k) + k = i
    BY <1>1, <1>6
  <2>. QED
    BY <2>1, <1>3, <1>4
<1>. QED
  BY <1>2, <1>3, <1>5, <1>6 DEF s

LEMMA RestAppend ==
  ASSUME NEW q \in Seq(Events), NEW e \in Events, NEW k \in Nat, k <= Len(q)
  PROVE  SubSeq(Append(q, e), k + 1, Len(Append(q, e))) = Append(SubSeq(q, k + 1, Len(q)), e)
<1>. PICK r \in Seq(Events) : r = Append(q, e)
  BY AppendShape
<1>. PICK s \in Seq(Events) : s = SubSeq(q, k + 1, Len(q))
  BY RestShape
<1>. PICK t \in Seq(Events) : t = SubSeq(r, k + 1, Len(r))
  <2>1. Len(r) = Len(q) + 1 /\ Len(q) \in Nat
    BY AppendShape, EventShape
  <2>2. k <= Len(r)
    BY <2>1
  <2>3. SubSeq(r, k + 1, Len(r)) \in Seq(Events)
    BY <2>2, RestShape
  <2>. QED
    BY <2>3
<1>. PICK u \in Seq(Events) : u = Append(s, e)
  BY AppendShape
<1>1. Len(r) = Len(q) + 1 /\ Len(q) \in Nat /\ k <= Len(r)
  BY AppendShape, EventShape
<1>2. Len(s) = Len(q) - k /\ \A i \in DOMAIN s : i + k \in DOMAIN q /\ s[i] = q[i + k]
  BY RestShape
<1>3. Len(t) = Len(r) - k /\ \A i \in DOMAIN t : i + k \in DOMAIN r /\ t[i] = r[i + k]
  BY <1>1, RestShape
<1>4. Len(u) = Len(s) + 1 /\ u[Len(s) + 1] = e /\ \A i \in DOMAIN s : u[i] = s[i]
  BY AppendShape
<1>5. r[Len(q) + 1] = e /\ \A i \in DOMAIN q : r[i] = q[i]
  BY AppendShape
<1>. PICK n \in Nat : n = Len(q)
  BY <1>1
<1>6. Len(t) = (n + 1) - k /\ Len(s) = n - k /\ Len(u) = (n - k) + 1 /\ (n + 1) - k = (n - k) + 1
  <2>1. Len(t) = (n + 1) - k
    BY <1>1, <1>3
  <2>2. Len(s) = n - k
    BY <1>2
  <2>. QED
    BY <2>1, <2>2, <1>4
<1>7. ASSUME NEW i \in 1..Len(t)
      PROVE  t[i] = u[i]
  <2>0. DOMAIN t = 1..Len(t) /\ DOMAIN s = 1..Len(s)
    BY EventShape
  <2>1. CASE i = Len(s) + 1
    <3>1. i + k = Len(q) + 1
      BY <2>1, <1>6
    <3>2. t[i] = r[i + k]
      BY <2>0, <1>3
    <3>3. t[i] = e
      BY <3>1, <3>2, <1>5
    <3>. QED
      BY <3>3, <2>1, <1>4
  <2>2. CASE i # Len(s) + 1
    <3>0. i \in 1..((n + 1) - k) /\ i # (n - k) + 1 /\ k <= n
      BY <2>2, <1>6
    <3>3. i \in 1..(n - k)
      <4>1. i \in Nat /\ i >= 1 /\ i <= (n + 1) - k
        BY <3>0
      <4>2. i <= n - k
        BY <3>0, <4>1
      <4>. QED
        BY <4>1, <4>2
    <3>1. i \in DOMAIN s
      BY <2>0, <3>3, <1>6
    <3>2. t[i] = r[i + k] /\ r[i + k] = q[i + k]
      BY <3>1, <2>0, <1>2, <1>3, <1>5
    <3>. QED
      BY <3>1, <3>2, <1>2, <1>4
  <2>. QED
    BY <2>1, <2>2
<1>8. t = u
  <2>1. Len(t) = Len(u)
    BY <1>6
  <2>. HIDE DEF Events
  <2>. QED
    BY <2>1, <1>7, SeqEqual
<1>. QED
  BY <1>8

LEMMA OneLess == \A m, k, n \in Nat : n + 1 = k => m - k = (m - 1) - n
OBVIOUS

LEMMA RestSame ==
  ASSUME NEW q \in Seq(Events), NEW r \in Seq(Events), NEW k \in Nat, NEW n \in Nat,
         n + 1 = k, k <= Len(q), Len(r) = Len(q) - 1, \A i \in DOMAIN r : r[i] = q[i + 1]
  PROVE  SubSeq(r, n + 1, Len(r)) = SubSeq(q, k + 1, Len(q))
<1>. PICK m \in Nat : m = Len(q)
  BY EventShape
<1>0. Len(q) \in Nat /\ n <= Len(r)
  BY EventShape
<1>1. PICK s \in Seq(Events) :
        /\ s = SubSeq(q, k + 1, Len(q)) /\ Len(s) = Len(q) - k
        /\ \A i \in DOMAIN s : i + k \in DOMAIN q /\ s[i] = q[i + k]
  BY ZenonT(30), RestShape
<1>2. PICK t \in Seq(Events) :
        /\ t = SubSeq(r, n + 1, Len(r)) /\ Len(t) = Len(r) - n
        /\ \A i \in DOMAIN t : i + n \in DOMAIN r /\ t[i] = r[i + n]
  BY ZenonT(30), <1>0, RestShape
<1>3. Len(s) = Len(t)
  <2>1. Len(s) = m - k
    BY <1>1
  <2>2. Len(t) = (m - 1) - n
    BY <1>2
  <2>3. m - k = (m - 1) - n
    BY OneLess
  <2>. QED
    BY <2>1, <2>2, <2>3
<1>4. ASSUME NEW i \in 1..Len(t)
      PROVE  t[i] = s[i]
  <2>1. i \in DOMAIN t /\ i \in DOMAIN s
    BY <1>3, EventShape
  <2>2. t[i] = r[i + n] /\ i + n \in DOMAIN r
    BY <2>1, <1>2
  <2>3. (i + n) + 1 = i + k
    OBVIOUS
  <2>. QED
    BY <2>1, <2>2, <2>3, <1>1
<1>5. t = s
  <2>. HIDE DEF Events
  <2>. QED
    BY <1>3, <1>4, SeqEqual
<1>. QED
  BY <1>1, <1>2, <1>5

LEMMA RestTail ==
  ASSUME NEW q \in Seq(Events), q # <<>>, NEW k \in Nat, k > 0, k <= Len(q)
  PROVE  SubSeq(Tail(q), (k - 1) + 1, Len(Tail(q))) = SubSeq(q, k + 1, Len(q))
<1>1. Tail(q) \in Seq(Events) /\ Len(Tail(q)) = Len(q) - 1
      /\ \A i \in DOMAIN Tail(q) : Tail(q)[i] = q[i + 1]
  BY TailShape
<1>2. k - 1 \in Nat /\ (k - 1) + 1 = k
  OBVIOUS
<1>. PICK r, n : r = Tail(q) /\ n = k - 1
  OBVIOUS
<1>3. SubSeq(r, n + 1, Len(r)) = SubSeq(q, k + 1, Len(q))
  BY <1>1, <1>2, RestSame
<1>. QED
  BY <1>3

LEMMA RestAll ==
  ASSUME NEW q \in Seq(Events)
  PROVE  SubSeq(q, 0 + 1, Len(q)) = q
<1>. PICK s \in Seq(Events) : s = SubSeq(q, 0 + 1, Len(q))
  BY RestShape, EventShape
<1>1. Len(s) = Len(q) - 0 /\ Len(q) \in Nat /\ \A i \in DOMAIN s : s[i] = q[i + 0]
  BY RestShape, EventShape
<1>2. Len(s) = Len(q) /\ \A i \in 1..Len(s) : s[i] = q[i]
  BY <1>1, EventShape
<1>3. s = q
  <2>. HIDE DEF Events
  <2>. QED
    BY <1>2, SeqEqual
<1>. QED
  BY <1>3

LEMMA RestNone ==
  ASSUME NEW q \in Seq(Events)
  PROVE  SubSeq(q, Len(q) + 1, Len(q)) = <<>>
<1>1. Len(q) \in Nat
  BY EventShape
<1>2. Len(SubSeq(q, Len(q) + 1, Len(q))) = 0 /\ SubSeq(q, Len(q) + 1, Len(q)) \in Seq(Events)
  BY <1>1, RestShape
<1>. QED
  BY <1>2

(* --- Types --------------------------------------------------------------- *)

LEMMA EventTyped ==
  ASSUME NEW p \in Ports, nodes' \in PartialNodes, NEW type, NEW to,
         \/ type = "node-added" /\ to = "Follower"
         \/ type = "node-removed" /\ to = "absent"
         \/ type = "state-changed" /\ to \in States
  PROVE  Event(type, p, to) \in Events
<1>1. At(nodes', p) \in Shown
  BY AtType
<1>2. to \in Shown /\ (type = "state-changed" => to # "absent")
  BY NodeStates DEF Shown
<1>3. type \in {"node-added", "node-removed", "state-changed"}
  OBVIOUS
<1>. QED
  BY <1>1, <1>2, <1>3 DEF Event, Events

LEMMA AnswerShape ==
  ASSUME NEW l \in Answers
  PROVE  /\ l.nodes \in PartialNodes /\ l.behind \in Nat /\ l.missed \in SUBSET Ports
         /\ l.at \in {"asked", "served"}
         /\ l = [id |-> l.id, at |-> l.at, nodes |-> l.nodes, behind |-> l.behind,
                 missed |-> l.missed]
BY DEF Answers

LEMMA AnswerMissed ==
  ASSUME NEW l \in Answers, NEW m \in SUBSET Ports
  PROVE  /\ [l EXCEPT !.missed = @ \cup m] \in Answers
         /\ [l EXCEPT !.missed = @ \cup m].behind = l.behind
         /\ [l EXCEPT !.missed = @ \cup m].nodes = l.nodes
         /\ [l EXCEPT !.missed = @ \cup m].at = l.at
         /\ [l EXCEPT !.missed = @ \cup m].missed = l.missed \cup m
BY DEF Answers

LEMMA AnswerBehind ==
  ASSUME NEW l \in Answers, NEW b \in Nat
  PROVE  /\ [l EXCEPT !.behind = b] \in Answers
         /\ [l EXCEPT !.behind = b].behind = b
         /\ [l EXCEPT !.behind = b].nodes = l.nodes
         /\ [l EXCEPT !.behind = b].at = l.at
         /\ [l EXCEPT !.behind = b].missed = l.missed
BY DEF Answers

LEMMA AnswerClosed ==
  ASSUME NEW l \in Answers, NEW m \in SUBSET Ports
  PROVE  LET n == [l EXCEPT !.behind = 0, !.missed = @ \cup m]
         IN  n \in Answers /\ n.at = l.at /\ n.nodes = l.nodes /\ n.behind = 0
             /\ n.missed = l.missed \cup m
BY DEF Answers

LEMMA ChannelSilent ==
  ASSUME ChannelOK, UNCHANGED <<queue, lists, doubt>>
  PROVE  ChannelOK'
BY DEF ChannelOK

LEMMA ChannelPublish ==
  ASSUME ChannelOK, NEW e \in Events, Publish(e)
  PROVE  ChannelOK'
<1>1. e.port \in Ports
  BY EventType
<1>2. CASE Room
  <2>1. queue' = Append(queue, e) /\ lists' = lists /\ Len(queue) < QueueCap
    BY <1>2 DEF Publish, Room
  <2>2. queue' \in Seq(Events) /\ Len(queue') = Len(queue) + 1 /\ Len(queue) \in Nat
    BY <2>1, AppendShape, EventShape DEF ChannelOK
  <2>3. Len(queue') <= QueueCap
    BY <2>1, <2>2, Bounds
  <2>4. \A l \in lists' : l.behind <= Len(queue') /\ (l.at = "asked" => l.behind = 0)
    <3>. SUFFICES ASSUME NEW l \in lists PROVE l.behind <= Len(queue')
      BY <2>1 DEF ChannelOK
    <3>1. l.behind \in Nat /\ l.behind <= Len(queue)
      BY AnswerShape DEF ChannelOK
    <3>. QED
      BY <3>1, <2>2
  <2>5. doubt' \subseteq Ports
    BY <1>1 DEF Publish, ChannelOK
  <2>. QED
    BY <2>1, <2>2, <2>3, <2>4, <2>5 DEF ChannelOK
<1>3. CASE ~Room
  <2>1. queue' = queue /\ lists' = Missed(lists, {e.port})
    BY <1>3 DEF Publish
  <2>2. ASSUME NEW l \in lists'
        PROVE  l \in Answers /\ l.behind <= Len(queue') /\ (l.at = "asked" => l.behind = 0)
    <3>. PICK n \in lists : l = IF n.at = "asked" THEN n
                                ELSE [n EXCEPT !.missed = @ \cup {e.port}]
      BY <2>1 DEF Missed
    <3>1. n \in Answers /\ n.behind <= Len(queue) /\ (n.at = "asked" => n.behind = 0)
      BY DEF ChannelOK
    <3>2. {e.port} \in SUBSET Ports
      BY <1>1
    <3>. QED
      BY <2>1, <3>1, <3>2, AnswerMissed
  <2>3. doubt' \subseteq Ports
    BY <1>1 DEF Publish, ChannelOK
  <2>. QED
    BY <2>1, <2>2, <2>3 DEF ChannelOK
<1>. QED
  BY <1>2, <1>3

LEMMA OpShape ==
  ASSUME OpsOK, NEW o \in ops
  PROVE  /\ o.port \in Ports /\ o.id \in Nat /\ o.id \in 1..asked
         /\ o.kind \in {"create", "add", "remove", "config"}
         /\ o.mine \in BOOLEAN /\ o.seen \in PartialNodes
BY DEF OpsOK, Operations

LEMMA OpAt ==
  ASSUME OpsOK, NEW o \in ops,
         NEW at \in {"asked", "spawned", "orphaned", "ready", "announced", "deleted", "updated"}
  PROVE  /\ [o EXCEPT !.at = at] \in Operations
         /\ [o EXCEPT !.at = at].at = at
         /\ [o EXCEPT !.at = at].port = o.port
         /\ [o EXCEPT !.at = at].id = o.id
         /\ [o EXCEPT !.at = at].kind = o.kind
BY DEF OpsOK, Operations

LEMMA OpsAdvance ==
  ASSUME OpsOK, NEW o \in ops,
         NEW at \in {"asked", "spawned", "orphaned", "ready", "announced", "deleted", "updated"},
         Advance(o, at), asked' = asked
  PROVE  OpsOK'
<1>1. [o EXCEPT !.at = at] \in Operations /\ [o EXCEPT !.at = at].id \in 1..asked
  BY ZenonT(30), OpAt, OpShape
<1>. QED
  BY <1>1 DEF OpsOK, Advance

LEMMA OpsAnswer ==
  ASSUME OpsOK, NEW o \in ops, Answer(o), asked' = asked
  PROVE  OpsOK'
BY DEF OpsOK, Answer

\* Nothing that is spawned is touched.
LEMMA SpawnsKept ==
  ASSUME SpawnsOK,
         \A x \in ops' : x.at = "spawned" =>
           /\ x \in ops
           /\ x.port \in DOMAIN nodes => x.port \in DOMAIN nodes'
           /\ x.port \notin joined => x.port \notin joined'
           /\ x.port \notin outside => x.port \notin outside'
  PROVE  SpawnsOK'
BY DEF SpawnsOK

LEMMA AdvanceSpawned ==
  ASSUME OpsOK, NEW o \in ops, NEW at \in {"asked", "orphaned", "ready", "announced", "deleted", "updated"},
         Advance(o, at)
  PROVE  \A x \in ops' : x.at = "spawned" => x \in ops /\ x # o
<1>1. [o EXCEPT !.at = at].at = at
  BY OpAt
<1>. QED
  BY <1>1 DEF Advance

\* An operation asked for in a form, or in another browser.
LEMMA AskTypes ==
  ASSUME TInv, NEW p \in Ports, NEW kind \in {"create", "add", "remove", "config"},
         NEW mine \in BOOLEAN, NEW seen \in PartialNodes, Ask(kind, p, mine, seen)
  PROVE  TInv'
<1>. DEFINE o == [id |-> asked + 1, kind |-> kind, port |-> p, mine |-> mine,
                  at |-> "asked", seen |-> seen]
<1>1. /\ asked' = asked + 1 /\ ops' = ops \cup {o}
      /\ UNCHANGED <<nodes, joined, outside, emits, view, moves, queue, lists, doubt>>
  BY DEF Ask, Silent
<1>2. o \in Operations /\ o.at = "asked" /\ o.id = asked + 1
  BY DEF Operations, TInv, OpsOK
<1>. HIDE DEF o
<1>3. TablesOK'
  BY <1>1 DEF TInv, TablesOK
<1>4. OpsOK'
  <2>1. asked \in Nat /\ asked' \in Nat
    BY <1>1 DEF TInv, OpsOK
  <2>2. \A x \in ops : x.id \in 1..asked
    BY DEF TInv, OpsOK
  <2>3. \A x \in ops' : x.id \in 1..asked'
    BY <1>1, <1>2, <2>1, <2>2
  <2>4. ops' \subseteq Operations
    BY <1>1, <1>2 DEF TInv, OpsOK
  <2>. QED
    BY <2>1, <2>3, <2>4 DEF OpsOK
<1>5. ChannelOK'
  BY <1>1, ChannelSilent DEF TInv
<1>6. SpawnsOK'
  BY <1>1, <1>2, SpawnsKept DEF TInv
<1>. QED
  BY <1>3, <1>4, <1>5, <1>6 DEF TInv

LEMMA RefuseTypes ==
  ASSUME TInv, NEW o \in ops, Refuse(o)
  PROVE  TInv'
<1>1. Answer(o) /\ UNCHANGED <<nodes, joined, outside, emits, view, asked, moves,
                               queue, lists, doubt>>
  BY DEF Refuse, Silent
<1>2. OpsOK'
  BY <1>1, OpsAnswer DEF TInv
<1>3. SpawnsOK'
  BY <1>1, SpawnsKept DEF TInv, Answer
<1>4. TablesOK' /\ ChannelOK'
  BY <1>1, ChannelSilent DEF TInv, TablesOK
<1>. QED
  BY <1>2, <1>3, <1>4 DEF TInv

LEMMA SpawnTypes ==
  ASSUME TInv, NEW o \in ops, Spawn(o)
  PROVE  TInv'
<1>1. /\ o.port \notin DOMAIN nodes /\ nodes' = Put(nodes, o.port, "Follower")
      /\ Advance(o, "spawned")
      /\ UNCHANGED <<joined, outside, emits, view, asked, moves, queue, lists, doubt>>
  BY DEF Spawn, Silent
<1>2. o.port \in Ports /\ nodes \in PartialNodes
  BY OpShape DEF TInv, TablesOK
<1>3. nodes' \in PartialNodes /\ DOMAIN nodes' = DOMAIN nodes \cup {o.port}
  BY <1>1, <1>2, PutTable, NodeStates
<1>4. TablesOK'
  BY <1>1, <1>3 DEF TInv, TablesOK
<1>5. OpsOK' /\ ChannelOK'
  BY <1>1, OpsAdvance, ChannelSilent DEF TInv
<1>6. SpawnsOK'
  <2>0. [o EXCEPT !.at = "spawned"].port = o.port
    BY OpAt DEF TInv
  <2>1. PICK n : n = [o EXCEPT !.at = "spawned"] /\ n.port = o.port
    BY <2>0
  <2>2. ops' = (ops \ {o}) \cup {n}
    BY <1>1, <2>1 DEF Advance
  <2>3. \A x \in ops : x.at = "spawned" => x.port \in DOMAIN nodes
    BY DEF TInv, SpawnsOK
  <2>4. o.port \notin joined /\ o.port \notin outside
    BY <1>1 DEF TInv, TablesOK
  <2>5. ASSUME NEW x \in ops', x.at = "spawned"
        PROVE  /\ x.port \in DOMAIN nodes' /\ x.port \notin joined' /\ x.port \notin outside'
               /\ \A y \in ops' : y.at = "spawned" /\ y.port = x.port => y = x
    <3>1. CASE x = n
      <4>1. \A y \in ops' : y.at = "spawned" /\ y.port = o.port => y = n
        BY <1>1, <2>2, <2>3
      <4>. QED
        BY <3>1, <4>1, <1>1, <1>3, <2>1, <2>4
    <3>2. CASE x # n
      <4>1. x \in ops /\ x.port \in DOMAIN nodes /\ x.port # o.port
        BY <3>2, <2>2, <2>3, <2>5, <1>1
      <4>2. /\ x.port \notin joined /\ x.port \notin outside
            /\ \A y \in ops : y.at = "spawned" /\ y.port = x.port => y = x
        BY <4>1, <2>5 DEF TInv, SpawnsOK
      <4>. QED
        BY <4>1, <4>2, <1>1, <1>3, <2>1, <2>2
    <3>. QED
      BY <3>1, <3>2
  <2>. QED
    BY <2>5 DEF SpawnsOK
<1>. QED
  BY <1>4, <1>5, <1>6 DEF TInv

\* The event of a step that publishes one, and what it is published with.
LEMMA BootstrapEvent ==
  ASSUME TInv, NEW o \in ops, Bootstrap(o)
  PROVE  /\ nodes' \in PartialNodes
         /\ \E e \in Events : /\ e = Event("state-changed", o.port, "Leader")
                              /\ Publish(e)
<1>1. o.port \in Ports /\ nodes \in PartialNodes
  BY OpShape DEF TInv, TablesOK
<1>2. nodes' = Put(nodes, o.port, "Leader") \/ nodes' = nodes
  BY DEF Bootstrap
<1>3. nodes' \in PartialNodes
  <2>1. Put(nodes, o.port, "Leader") \in PartialNodes
    BY <1>1, PutTable, NodeStates
  <2>. QED
    BY <1>1, <1>2, <2>1
<1>4. Event("state-changed", o.port, "Leader") \in Events
  BY <1>1, <1>3, NodeStates, EventTyped
<1>5. PICK e \in Events : e = Event("state-changed", o.port, "Leader")
  BY <1>4
<1>6. Publish(e)
  BY <1>5 DEF Bootstrap, Publish
<1>. QED
  BY <1>3, <1>5, <1>6

LEMMA BootstrapTypes ==
  ASSUME TInv, NEW o \in ops, Bootstrap(o)
  PROVE  TInv'
<1>1. Advance(o, "ready") /\ UNCHANGED <<outside, emits, view, asked, moves>>
  BY DEF Bootstrap
<1>2. OpsOK'
  BY <1>1, OpsAdvance DEF TInv
<1>3. ChannelOK'
  BY BootstrapEvent, ChannelPublish DEF TInv
<1>4. o.port \in Ports /\ nodes \in PartialNodes
  BY OpShape DEF TInv, TablesOK
<1>5. \A x \in ops' : x.at = "spawned" => x \in ops /\ x # o
  BY <1>1, AdvanceSpawned DEF TInv
<1>6. CASE o.at = "spawned"
  <2>1. nodes' = Put(nodes, o.port, "Leader") /\ joined' = joined \cup {o.port}
    BY <1>6 DEF Bootstrap
  <2>2. o.port \in DOMAIN nodes /\ o.port \notin joined /\ o.port \notin outside
    BY <1>6 DEF TInv, SpawnsOK
  <2>3. nodes' \in PartialNodes /\ DOMAIN nodes' = DOMAIN nodes
    <3>1. nodes' \in PartialNodes /\ DOMAIN nodes' = DOMAIN nodes \cup {o.port}
      BY <1>4, <2>1, PutTable, NodeStates
    <3>. QED
      BY <3>1, <2>2
  <2>4. TablesOK'
    BY <1>1, <2>1, <2>2, <2>3 DEF TInv, TablesOK
  <2>5. ASSUME NEW x \in ops', x.at = "spawned"
        PROVE  x.port # o.port
    <3>1. x \in ops /\ x # o
      BY <1>5, <2>5
    <3>. QED
      BY <3>1, <2>5, <1>6 DEF TInv, SpawnsOK
  <2>6. SpawnsOK'
    <3>1. \A x \in ops' : x.at = "spawned" =>
            /\ x \in ops
            /\ x.port \in DOMAIN nodes => x.port \in DOMAIN nodes'
            /\ x.port \notin joined => x.port \notin joined'
            /\ x.port \notin outside => x.port \notin outside'
      BY <1>1, <1>5, <2>1, <2>3, <2>5
    <3>. QED
      BY <3>1, SpawnsKept DEF TInv
  <2>. QED
    BY <1>2, <1>3, <2>4, <2>6 DEF TInv
<1>7. CASE o.at # "spawned"
  <2>1. UNCHANGED <<nodes, joined>>
    BY <1>7 DEF Bootstrap
  <2>2. TablesOK'
    BY <1>1, <2>1 DEF TInv, TablesOK
  <2>3. SpawnsOK'
    BY <1>1, <1>5, <2>1, SpawnsKept DEF TInv
  <2>. QED
    BY <1>2, <1>3, <2>2, <2>3 DEF TInv
<1>. QED
  BY <1>6, <1>7

LEMMA JoinTypes ==
  ASSUME TInv, NEW o \in ops, Join(o)
  PROVE  TInv'
<1>1. /\ Advance(o, "ready") /\ UNCHANGED <<nodes, emits, view, asked, moves, queue, lists, doubt>>
  BY DEF Join, Silent
<1>2. /\ joined' = joined \/ (joined' = joined \cup Here(o) /\ outside' = outside)
      /\ outside' = outside \/ (outside' = outside \cup Here(o) /\ joined' = joined)
  BY DEF Join
<1>3. Here(o) \subseteq DOMAIN nodes \ (joined \cup outside)
  BY DEF Here, TInv, SpawnsOK
<1>4. TablesOK'
  <2>1. joined' \subseteq DOMAIN nodes'
    BY <1>1, <1>2, <1>3 DEF TInv, TablesOK
  <2>2. outside' \subseteq DOMAIN nodes' \ joined'
    BY <1>1, <1>2, <1>3 DEF TInv, TablesOK
  <2>. QED
    BY <1>1, <2>1, <2>2 DEF TInv, TablesOK
<1>5. OpsOK' /\ ChannelOK'
  BY <1>1, OpsAdvance, ChannelSilent DEF TInv
<1>6. \A x \in ops' : x.at = "spawned" => x \in ops /\ x # o
  BY <1>1, AdvanceSpawned DEF TInv
<1>7. ASSUME NEW x \in ops', x.at = "spawned"
      PROVE  x.port \notin Here(o)
  BY <1>6, <1>7 DEF Here, TInv, SpawnsOK
<1>8. SpawnsOK'
  <2>1. \A x \in ops' : x.at = "spawned" =>
          /\ x \in ops
          /\ x.port \in DOMAIN nodes => x.port \in DOMAIN nodes'
          /\ x.port \notin joined => x.port \notin joined'
          /\ x.port \notin outside => x.port \notin outside'
    BY <1>1, <1>2, <1>6, <1>7
  <2>. QED
    BY <2>1, SpawnsKept DEF TInv
<1>. QED
  BY <1>4, <1>5, <1>8 DEF TInv

LEMMA AnnounceEvent ==
  ASSUME TInv, NEW o \in ops, Announce(o)
  PROVE  /\ nodes' = nodes
         /\ \E e \in Events : /\ e = Event("node-added", o.port, "Follower")
                              /\ Publish(e)
<1>1. o.port \in Ports /\ nodes \in PartialNodes /\ nodes' = nodes
  BY OpShape DEF TInv, TablesOK, Announce
<1>2. Event("node-added", o.port, "Follower") \in Events
  BY <1>1, EventTyped
<1>3. PICK e \in Events : e = Event("node-added", o.port, "Follower")
  BY <1>2
<1>4. Publish(e)
  BY <1>3 DEF Announce, Publish
<1>. QED
  BY <1>1, <1>3, <1>4

LEMMA AnnounceTypes ==
  ASSUME TInv, NEW o \in ops, Announce(o)
  PROVE  TInv'
<1>1. /\ Advance(o, "announced")
      /\ UNCHANGED <<nodes, joined, outside, emits, view, asked, moves>>
  BY DEF Announce
<1>2. OpsOK'
  BY <1>1, OpsAdvance DEF TInv
<1>3. ChannelOK'
  BY AnnounceEvent, ChannelPublish DEF TInv
<1>4. SpawnsOK'
  <2>1. \A x \in ops' : x.at = "spawned" => x \in ops /\ x # o
    BY <1>1, AdvanceSpawned DEF TInv
  <2>. QED
    BY <1>1, <2>1, SpawnsKept DEF TInv
<1>5. TablesOK'
  BY <1>1 DEF TInv, TablesOK
<1>. QED
  BY <1>2, <1>3, <1>4, <1>5 DEF TInv

LEMMA AnsweredTypes ==
  ASSUME TInv, NEW o \in ops, Answered(o)
  PROVE  TInv'
<1>. DEFINE l == [id |-> o.id, at |-> "asked", nodes |-> Empty, behind |-> 0, missed |-> {}]
<1>1. /\ Answer(o) /\ lists' \subseteq lists \cup {l}
      /\ UNCHANGED <<nodes, joined, outside, emits, queue, view, asked, moves, doubt>>
  BY DEF Answered
<1>2. OpsOK'
  BY <1>1, OpsAnswer DEF TInv
<1>3. SpawnsOK'
  BY <1>1, SpawnsKept DEF TInv, Answer
<1>4. l \in Answers /\ l.behind = 0
  BY OpShape, EmptyTable DEF TInv, Answers
<1>5. Len(queue) \in Nat
  BY EventShape DEF TInv, ChannelOK
<1>. HIDE DEF l
<1>6. ChannelOK'
  BY <1>1, <1>4, <1>5 DEF TInv, ChannelOK
<1>7. TablesOK'
  BY <1>1 DEF TInv, TablesOK
<1>. QED
  BY <1>2, <1>3, <1>6, <1>7 DEF TInv

LEMMA DeleteOps ==
  ASSUME OpsOK, NEW o \in ops, Delete(o), NEW x \in ops'
  PROVE  \/ x = [o EXCEPT !.at = "deleted"]
         \/ x \in ops /\ x # o /\ (x.at = "spawned" => x.port # o.port)
         \/ \E y \in ops : /\ y.port = o.port /\ y.at = "spawned" /\ y # o
                           /\ x = [y EXCEPT !.at = "orphaned"]
<1>1. CASE x = [o EXCEPT !.at = "deleted"]
  BY <1>1
<1>2. CASE x # [o EXCEPT !.at = "deleted"]
  <2>. PICK y \in ops \ {o} : x = Orphaned(y, o.port)
    BY <1>2 DEF Delete
  <2>. QED
    BY DEF Orphaned
<1>. QED
  BY <1>1, <1>2

LEMMA DeleteTypes ==
  ASSUME TInv, NEW o \in ops, Delete(o)
  PROVE  TInv'
<1>1. /\ nodes' = Drop(nodes, o.port) /\ joined' = joined \ {o.port}
      /\ outside' = outside \ {o.port}
      /\ UNCHANGED <<emits, view, asked, moves, queue, lists, doubt>>
  BY DEF Delete, Silent
<1>2. nodes' \in PartialNodes /\ DOMAIN nodes' = DOMAIN nodes \ {o.port}
  BY <1>1, DropTable DEF TInv, TablesOK
<1>3. TablesOK'
  BY <1>1, <1>2 DEF TInv, TablesOK
<1>4. OpsOK'
  <2>1. ASSUME NEW x \in ops'
        PROVE  x \in Operations /\ x.id \in 1..asked
    <3>1. CASE x = [o EXCEPT !.at = "deleted"]
      BY <3>1, OpAt, OpShape DEF TInv
    <3>2. CASE x \in ops
      BY <3>2 DEF TInv, OpsOK
    <3>3. CASE \E y \in ops : x = [y EXCEPT !.at = "orphaned"]
      <4>. PICK y \in ops : x = [y EXCEPT !.at = "orphaned"]
        BY <3>3
      <4>. QED
        BY OpAt, OpShape DEF TInv
    <3>. QED
      BY <3>1, <3>2, <3>3, DeleteOps DEF TInv
  <2>. QED
    BY <2>1, <1>1 DEF TInv, OpsOK
<1>5. SpawnsOK'
  <2>1. ASSUME NEW x \in ops', x.at = "spawned"
        PROVE  x \in ops /\ x.port # o.port
    <3>1. [o EXCEPT !.at = "deleted"].at = "deleted"
      BY OpAt DEF TInv
    <3>2. \A y \in ops : [y EXCEPT !.at = "orphaned"].at = "orphaned"
      BY OpAt DEF TInv
    <3>3. \/ x = [o EXCEPT !.at = "deleted"]
          \/ x \in ops /\ x # o /\ (x.at = "spawned" => x.port # o.port)
          \/ \E y \in ops : x = [y EXCEPT !.at = "orphaned"]
      BY DeleteOps DEF TInv
    <3>4. x # [o EXCEPT !.at = "deleted"]
      BY <2>1, <3>1
    <3>5. ~\E y \in ops : x = [y EXCEPT !.at = "orphaned"]
      BY <2>1, <3>2
    <3>. QED
      BY <2>1, <3>3, <3>4, <3>5
  <2>2. \A x \in ops' : x.at = "spawned" =>
          /\ x \in ops
          /\ x.port \in DOMAIN nodes => x.port \in DOMAIN nodes'
          /\ x.port \notin joined => x.port \notin joined'
          /\ x.port \notin outside => x.port \notin outside'
    BY <1>1, <1>2, <2>1
  <2>. QED
    BY <2>2, SpawnsKept DEF TInv
<1>6. ChannelOK'
  BY <1>1, ChannelSilent DEF TInv
<1>. QED
  BY <1>3, <1>4, <1>5, <1>6 DEF TInv

LEMMA AnnounceRemovedEvent ==
  ASSUME TInv, NEW o \in ops, AnnounceRemoved(o)
  PROVE  /\ nodes' = nodes
         /\ \E e \in Events : /\ e = Event("node-removed", o.port, "absent")
                              /\ Publish(e)
<1>1. o.port \in Ports /\ nodes \in PartialNodes /\ nodes' = nodes
  BY OpShape DEF TInv, TablesOK, AnnounceRemoved
<1>2. Event("node-removed", o.port, "absent") \in Events
  BY <1>1, EventTyped
<1>3. PICK e \in Events : e = Event("node-removed", o.port, "absent")
  BY <1>2
<1>4. Publish(e)
  BY <1>3 DEF AnnounceRemoved, Publish
<1>. QED
  BY <1>1, <1>3, <1>4

LEMMA AnnounceRemovedTypes ==
  ASSUME TInv, NEW o \in ops, AnnounceRemoved(o)
  PROVE  TInv'
<1>1. Answer(o) /\ UNCHANGED <<nodes, joined, outside, emits, view, asked, moves>>
  BY DEF AnnounceRemoved
<1>2. OpsOK'
  BY <1>1, OpsAnswer DEF TInv
<1>3. ChannelOK'
  BY AnnounceRemovedEvent, ChannelPublish DEF TInv
<1>4. SpawnsOK'
  BY <1>1, SpawnsKept DEF TInv, Answer
<1>5. TablesOK'
  BY <1>1 DEF TInv, TablesOK
<1>. QED
  BY <1>2, <1>3, <1>4, <1>5 DEF TInv

LEMMA UpdateConfigTypes ==
  ASSUME TInv, NEW o \in ops, UpdateConfig(o)
  PROVE  TInv'
<1>1. /\ Advance(o, "updated")
      /\ UNCHANGED <<nodes, joined, outside, emits, view, asked, moves, queue, lists, doubt>>
  BY DEF UpdateConfig, Silent
<1>2. OpsOK' /\ ChannelOK'
  BY <1>1, OpsAdvance, ChannelSilent DEF TInv
<1>3. SpawnsOK'
  <2>1. \A x \in ops' : x.at = "spawned" => x \in ops /\ x # o
    BY <1>1, AdvanceSpawned DEF TInv
  <2>. QED
    BY <1>1, <2>1, SpawnsKept DEF TInv
<1>4. TablesOK'
  BY <1>1 DEF TInv, TablesOK
<1>. QED
  BY <1>2, <1>3, <1>4 DEF TInv

LEMMA ConfiguredTypes ==
  ASSUME TInv, NEW o \in ops, Configured(o)
  PROVE  TInv'
<1>1. /\ Answer(o) /\ view' = o.seen /\ doubt' \subseteq doubt \cup Ports
      /\ UNCHANGED <<nodes, joined, outside, emits, asked, moves, queue, lists>>
  BY DEF Configured
<1>2. OpsOK'
  BY <1>1, OpsAnswer DEF TInv
<1>3. ChannelOK'
  BY <1>1 DEF TInv, ChannelOK
<1>4. SpawnsOK'
  BY <1>1, SpawnsKept DEF TInv, Answer
<1>5. o.seen \in PartialNodes
  BY OpShape DEF TInv
<1>6. TablesOK'
  BY <1>1, <1>5 DEF TInv, TablesOK
<1>. QED
  BY <1>2, <1>3, <1>4, <1>6 DEF TInv

LEMMA MoveTypes ==
  ASSUME TInv, NEW p \in Ports, NEW s \in States, Move(p, s)
  PROVE  TInv'
<1>1. /\ moves' = moves + 1 /\ p \in joined /\ nodes' = [nodes EXCEPT ![p] = s]
      /\ emits' = emits \cup {[id |-> moves', port |-> p, to |-> s]}
      /\ UNCHANGED <<joined, outside, ops, view, asked, queue, lists, doubt>>
  BY DEF Move, Silent
<1>2. nodes \in [DOMAIN nodes -> States] /\ DOMAIN nodes \subseteq Ports
  BY PartialShape DEF TInv, TablesOK
<1>3. nodes' \in [DOMAIN nodes -> States]
  BY <1>1, <1>2
<1>4. nodes' \in PartialNodes /\ DOMAIN nodes' = DOMAIN nodes
  BY <1>2, <1>3, PartialType
<1>5. moves' \in Nat
  BY <1>1 DEF TInv, TablesOK
<1>6. TablesOK'
  BY <1>1, <1>4, <1>5 DEF TInv, TablesOK
<1>7. OpsOK' /\ ChannelOK'
  BY <1>1, ChannelSilent DEF TInv, OpsOK
<1>8. SpawnsOK'
  BY <1>1, <1>4, SpawnsKept DEF TInv
<1>. QED
  BY <1>6, <1>7, <1>8 DEF TInv

LEMMA EmitEvent ==
  ASSUME TInv, NEW m \in emits, Emit(m)
  PROVE  /\ nodes' = nodes
         /\ \E e \in Events : /\ e = Event("state-changed", m.port, m.to)
                              /\ Publish(e)
<1>1. m.port \in Ports /\ m.to \in States /\ nodes \in PartialNodes /\ nodes' = nodes
  BY DEF TInv, TablesOK, Emit
<1>2. Event("state-changed", m.port, m.to) \in Events
  BY <1>1, EventTyped
<1>3. PICK e \in Events : e = Event("state-changed", m.port, m.to)
  BY <1>2
<1>4. Publish(e)
  BY <1>3 DEF Emit, Publish
<1>. QED
  BY <1>1, <1>3, <1>4

LEMMA EmitTypes ==
  ASSUME TInv, NEW m \in emits, Emit(m)
  PROVE  TInv'
<1>1. emits' = emits \ {m} /\ UNCHANGED <<nodes, joined, outside, ops, view, asked, moves>>
  BY DEF Emit
<1>2. ChannelOK'
  BY EmitEvent, ChannelPublish DEF TInv
<1>3. SpawnsOK'
  BY <1>1, SpawnsKept DEF TInv
<1>4. TablesOK' /\ OpsOK'
  BY <1>1 DEF TInv, TablesOK, OpsOK
<1>. QED
  BY <1>2, <1>3, <1>4 DEF TInv

\* What happens to the channel at the browser's end.
LEMMA ServeListTypes ==
  ASSUME TInv, NEW l \in lists, ServeList(l)
  PROVE  TInv'
<1>1. UNCHANGED <<nodes, joined, outside, ops, emits, queue, view, asked, moves, doubt>>
  BY DEF ServeList
<1>2. PICK n : n = [l EXCEPT !.at = "served", !.nodes = nodes, !.behind = Len(queue)]
  OBVIOUS
<1>3. lists' = (lists \ {l}) \cup {n}
  BY <1>2 DEF ServeList
<1>4. l \in Answers /\ nodes \in PartialNodes /\ Len(queue) \in Nat
  BY EventShape DEF TInv, TablesOK, ChannelOK
<1>5. n \in Answers /\ n.behind = Len(queue) /\ n.at = "served"
  BY <1>2, <1>4 DEF Answers
<1>6. ChannelOK'
  BY <1>1, <1>3, <1>4, <1>5 DEF TInv, ChannelOK
<1>7. TablesOK' /\ OpsOK' /\ SpawnsOK'
  BY <1>1 DEF TInv, TablesOK, OpsOK, SpawnsOK
<1>. QED
  BY <1>6, <1>7 DEF TInv

LEMMA SetNodeListTypes ==
  ASSUME TInv, NEW l \in lists, SetNodeList(l)
  PROVE  TInv'
<1>1. /\ lists' = lists \ {l} /\ view' = l.nodes
      /\ UNCHANGED <<nodes, joined, outside, ops, emits, queue, asked, moves>>
  BY DEF SetNodeList, NodeList
<1>2. l.nodes \in PartialNodes /\ l.missed \subseteq Ports
  BY AnswerShape DEF TInv, ChannelOK
<1>3. doubt' \subseteq Ports
  <2>1. doubt \subseteq Ports
    BY DEF TInv, ChannelOK
  <2>2. {e.port : e \in {f \in Range(queue) : Outdated(f)}} \subseteq Ports
    BY EventShape, EventType DEF TInv, ChannelOK, Range
  <2>. QED
    BY <1>2, <2>1, <2>2 DEF SetNodeList
<1>4. ChannelOK'
  BY <1>1, <1>3 DEF TInv, ChannelOK
<1>5. TablesOK'
  BY <1>1, <1>2 DEF TInv, TablesOK
<1>6. OpsOK' /\ SpawnsOK'
  BY <1>1 DEF TInv, OpsOK, SpawnsOK
<1>. QED
  BY <1>4, <1>5, <1>6 DEF TInv

LEMMA ListFailsTypes ==
  ASSUME TInv, NEW l \in lists, ListFails(l)
  PROVE  TInv'
<1>1. /\ lists' = lists \ {l}
      /\ UNCHANGED <<nodes, joined, outside, ops, emits, queue, view, asked, moves, doubt>>
  BY DEF ListFails
<1>. QED
  BY <1>1 DEF TInv, TablesOK, OpsOK, SpawnsOK, ChannelOK

\* The lists after the socket has been lost, and after an event has been handled.
LEMMA CloseLists ==
  ASSUME ChannelOK, Close, NEW n \in lists'
  PROVE  \/ n \in lists /\ n.at = "asked"
         \/ \E l \in lists :
              /\ l.at # "asked" /\ n \in Answers /\ n.at = l.at /\ n.nodes = l.nodes
              /\ n.behind = 0
              /\ n.missed = l.missed \cup PortsOf(SubSeq(queue, l.behind + 1, Len(queue)))
<1>. PICK l \in lists :
       n = IF l.at = "asked" THEN l
           ELSE [l EXCEPT !.behind = 0, !.missed = @ \cup
                   PortsOf(SubSeq(queue, l.behind + 1, Len(queue)))]
  BY DEF Close
<1>1. l \in Answers /\ l.behind \in Nat /\ l.behind <= Len(queue) /\ queue \in Seq(Events)
  BY AnswerShape DEF ChannelOK
<1>2. SubSeq(queue, l.behind + 1, Len(queue)) \in Seq(Events)
  BY <1>1, RestShape
<1>3. PICK m : m = PortsOf(SubSeq(queue, l.behind + 1, Len(queue)))
  OBVIOUS
<1>4. m \subseteq Ports
  BY <1>2, <1>3, EventShape, EventType DEF PortsOf
<1>5. CASE l.at = "asked"
  BY <1>5
<1>6. CASE l.at # "asked"
  <2>1. n = [l EXCEPT !.behind = 0, !.missed = @ \cup m]
    BY <1>3, <1>6
  <2>2. n \in Answers /\ n.at = l.at /\ n.nodes = l.nodes /\ n.behind = 0
        /\ n.missed = l.missed \cup m
    <3>. PICK x : x = [l EXCEPT !.behind = 0, !.missed = @ \cup m]
      OBVIOUS
    <3>1. x \in Answers /\ x.at = l.at /\ x.nodes = l.nodes /\ x.behind = 0
          /\ x.missed = l.missed \cup m
      BY <1>1, <1>4, AnswerClosed
    <3>. QED
      BY <2>1, <3>1
  <2>. QED
    BY <1>3, <1>6, <2>2
<1>. QED
  BY <1>5, <1>6

LEMMA CloseTypes ==
  ASSUME TInv, Close
  PROVE  TInv'
<1>1. /\ queue' = <<>> /\ doubt' = doubt \cup PortsOf(queue)
      /\ UNCHANGED <<nodes, joined, outside, ops, emits, view, asked, moves>>
  BY DEF Close
<1>2. PortsOf(queue) \subseteq Ports
  BY EventShape, EventType DEF TInv, ChannelOK, PortsOf
<1>3. ASSUME NEW n \in lists'
      PROVE  n \in Answers /\ n.behind = 0
  <2>1. CASE n \in lists /\ n.at = "asked"
    BY <2>1 DEF TInv, ChannelOK
  <2>2. CASE n \in Answers /\ n.behind = 0
    BY <2>2
  <2>. QED
    BY <2>1, <2>2, CloseLists DEF TInv
<1>4. Len(<<>>) = 0 /\ <<>> \in Seq(Events) /\ 0 <= QueueCap
  BY EmptyQueue, Bounds
<1>5. ChannelOK'
  <2>1. queue' \in Seq(Events) /\ Len(queue') <= QueueCap
    BY <1>1, <1>4
  <2>2. \A n \in lists' : n.behind <= Len(queue') /\ (n.at = "asked" => n.behind = 0)
    BY <1>1, <1>3, <1>4
  <2>3. lists' \subseteq Answers /\ doubt' \subseteq Ports
    BY <1>1, <1>2, <1>3 DEF TInv, ChannelOK
  <2>. QED
    BY <2>1, <2>2, <2>3 DEF ChannelOK
<1>6. TablesOK' /\ OpsOK' /\ SpawnsOK'
  BY <1>1 DEF TInv, TablesOK, OpsOK, SpawnsOK
<1>. QED
  BY <1>5, <1>6 DEF TInv

LEMMA HandledLists ==
  ASSUME ChannelOK, HandleEvent, NEW n \in lists'
  PROVE  \/ n \in lists /\ n.at = "asked"
         \/ \E l \in lists :
              /\ l.at # "asked" /\ n \in Answers /\ n.at = l.at /\ n.nodes = l.nodes
              /\ \/ l.behind > 0 /\ n.behind = l.behind - 1 /\ n.missed = l.missed
                 \/ /\ l.behind = 0 /\ n.behind = 0
                    /\ n.missed = l.missed \cup {Head(queue).port}
<1>0. PICK l \in lists :
       n = IF l.at = "asked" THEN l
           ELSE IF l.behind > 0 THEN [l EXCEPT !.behind = @ - 1]
           ELSE [l EXCEPT !.missed = @ \cup {Head(queue).port}]
  BY DEF HandleEvent
<1>1. l \in Answers /\ l.behind \in Nat /\ queue \in Seq(Events) /\ queue # <<>>
  BY AnswerShape DEF ChannelOK, HandleEvent
<1>2. Head(queue) \in Events
  BY <1>1, TailShape
<1>3. PICK m : m = {Head(queue).port} /\ m \in SUBSET Ports
  BY <1>2, EventType
<1>4. CASE l.at = "asked"
  BY <1>0, <1>4
<1>5. CASE l.at # "asked" /\ l.behind > 0
  <2>1. PICK b \in Nat : b = l.behind - 1
    BY <1>1, <1>5
  <2>2. n = [l EXCEPT !.behind = b]
    BY <1>0, <1>5, <2>1
  <2>3. n \in Answers /\ n.behind = b /\ n.nodes = l.nodes /\ n.at = l.at /\ n.missed = l.missed
    <3>. PICK x : x = [l EXCEPT !.behind = b]
      OBVIOUS
    <3>1. x \in Answers /\ x.behind = b /\ x.nodes = l.nodes /\ x.at = l.at
          /\ x.missed = l.missed
      BY <1>1, AnswerBehind
    <3>. QED
      BY <2>2, <3>1
  <2>. QED
    BY <1>5, <2>1, <2>3
<1>6. CASE l.at # "asked" /\ ~(l.behind > 0)
  <2>1. n = [l EXCEPT !.missed = @ \cup m]
    BY <1>0, <1>3, <1>6
  <2>2. n \in Answers /\ n.behind = l.behind /\ n.nodes = l.nodes /\ n.at = l.at
        /\ n.missed = l.missed \cup m
    <3>1. PICK x : /\ x = [l EXCEPT !.missed = @ \cup m] /\ x \in Answers
                   /\ x.behind = l.behind /\ x.nodes = l.nodes /\ x.at = l.at
                   /\ x.missed = l.missed \cup m
      BY <1>1, <1>3, AnswerMissed
    <3>2. n = x
      BY <2>1, <3>1
    <3>. QED
      BY <3>1, <3>2
  <2>3. l.behind = 0
    BY <1>1, <1>6
  <2>. QED
    BY <1>3, <1>6, <2>2, <2>3
<1>. QED
  BY <1>4, <1>5, <1>6

LEMMA HandleEventTypes ==
  ASSUME TInv, HandleEvent
  PROVE  TInv'
<1>1. /\ queue # <<>> /\ queue' = Tail(queue) /\ view' = After(Head(queue))
      /\ UNCHANGED <<nodes, joined, outside, ops, emits, asked, moves, doubt>>
  BY DEF HandleEvent
<1>2. queue \in Seq(Events) /\ Len(queue) <= QueueCap /\ Len(queue) \in Nat
  BY EventShape DEF TInv, ChannelOK
<1>3. /\ Head(queue) \in Events /\ queue' \in Seq(Events)
      /\ Len(queue) >= 1 /\ Len(queue') = Len(queue) - 1
  BY <1>1, <1>2, TailShape
<1>4. view' \in PartialNodes
  BY <1>1, <1>3, AfterTable DEF TInv, TablesOK
<1>5. ASSUME NEW n \in lists'
      PROVE  n \in Answers /\ n.behind <= Len(queue') /\ (n.at = "asked" => n.behind = 0)
  <2>1. CASE n \in lists /\ n.at = "asked"
    BY <2>1, <1>2, <1>3 DEF TInv, ChannelOK
  <2>2. CASE \E l \in lists :
              /\ l.at # "asked" /\ n \in Answers /\ n.at = l.at
              /\ \/ l.behind > 0 /\ n.behind = l.behind - 1
                 \/ n.behind = 0
    <3>. PICK l \in lists :
              /\ l.at # "asked" /\ n \in Answers /\ n.at = l.at
              /\ \/ l.behind > 0 /\ n.behind = l.behind - 1
                 \/ n.behind = 0
      BY <2>2
    <3>1. l.behind \in Nat /\ l.behind <= Len(queue)
      BY AnswerShape DEF TInv, ChannelOK
    <3>2. n.behind <= Len(queue')
      BY <3>1, <1>2, <1>3
    <3>. QED
      BY <3>2
  <2>3. \/ n \in lists /\ n.at = "asked"
        \/ \E l \in lists :
              /\ l.at # "asked" /\ n \in Answers /\ n.at = l.at
              /\ \/ l.behind > 0 /\ n.behind = l.behind - 1
                 \/ n.behind = 0
    BY HandledLists DEF TInv
  <2>. QED
    BY <2>1, <2>2, <2>3
<1>6. Len(queue') <= QueueCap
  BY <1>2, <1>3, Bounds
<1>7. ChannelOK'
  BY <1>1, <1>3, <1>5, <1>6 DEF TInv, ChannelOK
<1>8. TablesOK' /\ OpsOK' /\ SpawnsOK'
  BY <1>1, <1>4 DEF TInv, TablesOK, OpsOK, SpawnsOK
<1>. QED
  BY <1>7, <1>8 DEF TInv

LEMMA TInvInit ==
  ASSUME Init
  PROVE  TInv
<1>1. nodes \in PartialNodes
  <2>1. Empty \in PartialNodes /\ \A p \in Ports : Put(Empty, p, "Leader") \in PartialNodes
    BY EmptyTable, PutTable, NodeStates
  <2>. QED
    BY <2>1 DEF Init
<1>2. TablesOK
  BY <1>1, EmptyTable DEF Init, TablesOK
<1>3. OpsOK /\ SpawnsOK
  BY DEF Init, OpsOK, SpawnsOK
<1>4. ChannelOK
  <2>1. Len(queue) = 0 /\ queue \in Seq(Events) /\ 0 <= QueueCap
    BY EmptyQueue, Bounds DEF Init
  <2>2. DOMAIN nodes \subseteq Ports
    BY <1>1, PartialShape
  <2>3. PICK a : a = [id |-> 0, at |-> "asked", nodes |-> Empty, behind |-> 0, missed |-> {}]
    OBVIOUS
  <2>4. a \in Answers /\ a.behind = 0 /\ lists = {a}
    BY <2>3, EmptyTable DEF Answers, Init
  <2>. QED
    BY <2>1, <2>2, <2>4 DEF Init, ChannelOK
<1>. QED
  BY <1>2, <1>3, <1>4 DEF TInv

LEMMA TInvNext ==
  ASSUME TInv, [Next]_vars
  PROVE  TInv'
<1>1. CASE UNCHANGED vars
  BY <1>1 DEF vars, TInv, TablesOK, OpsOK, ChannelOK, SpawnsOK
<1>2. ASSUME NEW p \in Ports,
             \/ Create(p) \/ Add(p) \/ Remove(p) \/ Configure(p)
             \/ \E kind \in {"create", "add", "remove"} : Elsewhere(kind, p)
      PROVE  TInv'
  <2>. PICK kind \in {"create", "add", "remove", "config"}, mine \in BOOLEAN,
            seen \in PartialNodes : Ask(kind, p, mine, seen)
    BY <1>2, EmptyTable DEF Create, Add, Remove, Configure, Elsewhere, TInv, TablesOK
  <2>. QED
    BY AskTypes
<1>3. ASSUME NEW p \in Ports, NEW s \in States, Move(p, s)  PROVE TInv'
  BY <1>3, MoveTypes
<1>4. ASSUME NEW o \in ops, Manage(o)  PROVE TInv'
  BY <1>4, RefuseTypes, SpawnTypes, BootstrapTypes, JoinTypes, AnnounceTypes, AnsweredTypes,
     DeleteTypes, AnnounceRemovedTypes, UpdateConfigTypes, ConfiguredTypes DEF Manage
<1>5. ASSUME NEW m \in emits, Emit(m)  PROVE TInv'
  BY <1>5, EmitTypes
<1>6. ASSUME NEW l \in lists, ServeList(l) \/ SetNodeList(l) \/ ListFails(l)  PROVE TInv'
  BY <1>6, ServeListTypes, SetNodeListTypes, ListFailsTypes
<1>7. CASE Open
  BY <1>7 DEF Open, Silent, TInv, TablesOK, OpsOK, ChannelOK, SpawnsOK
<1>8. CASE Close \/ HandleEvent
  BY <1>8, CloseTypes, HandleEventTypes
<1>. QED
  BY <1>1, <1>2, <1>3, <1>4, <1>5, <1>6, <1>7, <1>8 DEF Next

\* Every variable has its type, with any number of nodes, events, operations and
\* lost sockets: no list is more events behind than there are, and a node that
\* AddNode goes on with outside of the cluster is in the table, and no member.
THEOREM TypeCorrect == Spec => []TypeOK
<1>1. Init => TInv
  BY TInvInit
<1>2. TInv /\ [Next]_vars => TInv'
  BY TInvNext
<1>3. TInv => TypeOK
  <2>. SUFFICES ASSUME TInv PROVE TypeOK
    OBVIOUS
  <2>1. PortsOf(queue) \subseteq Ports
    BY EventShape, EventType DEF TInv, ChannelOK, PortsOf
  <2>2. \A o \in ops : o.id \in 1..asked /\ o.port \in Ports
    BY OpShape DEF TInv
  <2>3. \A l \in lists : l.nodes \in PartialNodes
    BY AnswerShape DEF TInv, ChannelOK
  <2>. QED
    BY <2>1, <2>2, <2>3 DEF TInv, TablesOK, ChannelOK, TypeOK
<1>. QED
  BY <1>1, <1>2, <1>3, PTL DEF Spec

(* --- What a browser is shown -------------------------------------------- *)

\* A step after which no more has to be shown of p than before.
Keeps(p) ==
  /\ At(nodes', p) # "absent" /\ ~PendingAdd(p)' => At(nodes, p) # "absent" /\ ~PendingAdd(p)
  /\ Calm(p)' => Calm(p) /\ At(nodes', p) = At(nodes, p)

\* A step that publishes e: it keeps all other ports, and only node-added ends
\* the addition of a node.
Tells(e) ==
  /\ e.now = At(nodes', e.port)
  /\ \A p \in Ports : p # e.port => Keeps(p)
  /\ e.type = "state-changed" /\ At(nodes', e.port) # "absent" /\ ~PendingAdd(e.port)' =>
       At(nodes, e.port) # "absent" /\ ~PendingAdd(e.port)

LEMMA RightKept ==
  ASSUME NEW a, NEW q, NEW p, Keeps(p), Right(a, q, p)
  PROVE  Right(a, q, p)'
BY DEF Keeps, Right

LEMMA RightTold ==
  ASSUME NEW q \in Seq(Events), NEW e \in Events, NEW a, Tells(e), ~Outdated(e),
         Right(a, q, e.port)
  PROVE  Right(a, Append(q, e), e.port)'
<1>. PICK p : p = e.port
  OBVIOUS
<1>. PICK r : r = Append(q, e)
  OBVIOUS
<1>. PICK n : n = At(nodes', p)
  OBVIOUS
<1>1. n = IF e.type = "node-removed" THEN "absent" ELSE e.to
  BY DEF Outdated, Tells
<1>2. /\ e.type \in {"node-added", "node-removed", "state-changed"}
      /\ e.type = "node-added" => e.to = "Follower"
      /\ e.type = "node-removed" => e.to = "absent"
      /\ e.type = "state-changed" => e.to # "absent"
  BY EventType
<1>3. ASSUME n # "absent", ~PendingAdd(p)'
      PROVE  Present(a, r, p)
  <2>1. CASE e.type = "node-added"
    BY <2>1, AppendSame
  <2>2. CASE e.type = "state-changed"
    <3>1. Present(a, q, p)
      BY <1>3, <2>2 DEF Tells, Right
    <3>. QED
      BY <2>2, <3>1, AppendSame
  <2>3. CASE e.type = "node-removed"
    BY <1>1, <1>3, <2>3
  <2>. QED
    BY <2>1, <2>2, <2>3, <1>2
<1>4. ASSUME Calm(p)'
      PROVE  Ends(a, r, p, n)
  <2>1. ~PendingAdd(p)'
    BY <1>4 DEF Calm
  <2>2. e.type = "state-changed" => Present(a, r, p)
    BY <1>1, <1>2, <1>3, <2>1
  <2>3. n = IF e.type = "state-changed" /\ ~Present(a, r, p) THEN "absent" ELSE e.to
    BY <1>1, <1>2, <2>2
  <2>. QED
    BY <2>3, AppendSame
<1>. QED
  BY <1>3, <1>4 DEF Right

LEMMA RightPublished ==
  ASSUME NEW q \in Seq(Events), NEW e \in Events, NEW a, NEW p \in Ports, Tells(e),
         Timely(Append(q, e), p), Right(a, q, p)
  PROVE  Right(a, Append(q, e), p)'
<1>1. CASE e.port = p
  <2>1. ~Outdated(e)
    BY <1>1, AppendSame
  <2>. QED
    BY <1>1, <2>1, RightTold
<1>2. CASE e.port # p
  <2>1. Right(a, q, p)'
    BY <1>2, RightKept DEF Tells
  <2>2. PICK r : r = Append(q, e)
    OBVIOUS
  <2>3. (Present(a, r, p) <=> Present(a, q, p)) /\ \A x : Ends(a, r, p, x) <=> Ends(a, q, p, x)
    BY <1>2, <2>2, AppendOther
  <2>4. Right(a, r, p)'
    BY <2>1, <2>3 DEF Right
  <2>. QED
    BY <2>2, <2>4
<1>. QED
  BY <1>1, <1>2

LEMMA ViewPrime ==
  ASSUME NEW q, NEW v, queue' = q, view' = v,
         \A p \in Ports \ doubt' : Timely(q, p) /\ Right(At(v, p), q, p)'
  PROVE  ViewOK'
BY DEF ViewOK, Right

LEMMA ListsPrime ==
  ASSUME NEW q, queue' = q,
         \A l \in lists' : l.at = "served" =>
           \A p \in Ports \ l.missed : \A s :
             s = SubSeq(q, l.behind + 1, Len(q)) /\ Timely(s, p) => Right(At(l.nodes, p), s, p)'
  PROVE  ListsOK'
<1>. SUFFICES ASSUME NEW l \in lists', l.at = "served", NEW p \in Ports \ l.missed,
                     NEW s, s = SubSeq(q, l.behind + 1, Len(q)), Timely(s, p)
              PROVE  Right(At(l.nodes, p), s, p)'
  BY DEF ListsOK, Rest, Right
<1>. QED
  OBVIOUS

LEMMA ListFacts ==
  ASSUME ListsOK, NEW l \in lists, l.at = "served", NEW p \in Ports \ l.missed,
         NEW s, s = SubSeq(queue, l.behind + 1, Len(queue)), Timely(s, p)
  PROVE  Right(At(l.nodes, p), s, p)
BY DEF ListsOK, Rest

\* A silent step at the other end, and one that publishes.
LEMMA ViewKept ==
  ASSUME ViewOK, \A p \in Ports : Keeps(p), UNCHANGED <<queue, view, doubt>>
  PROVE  ViewOK'
<1>. PICK q, v : q = queue /\ v = view
  OBVIOUS
<1>1. \A p \in Ports \ doubt : Timely(q, p) /\ Right(At(v, p), q, p)
  BY DEF ViewOK
<1>2. \A p \in Ports \ doubt' : Timely(q, p) /\ Right(At(v, p), q, p)'
  BY <1>1, RightKept
<1>. QED
  BY <1>2, ViewPrime

LEMMA ListsKept ==
  ASSUME ListsOK, \A p \in Ports : Keeps(p), UNCHANGED queue,
         \A l \in lists' : l.at = "served" => l \in lists
  PROVE  ListsOK'
<1>. PICK q : q = queue
  OBVIOUS
<1>1. ASSUME NEW l \in lists', l.at = "served", NEW p \in Ports \ l.missed,
             NEW s, s = SubSeq(q, l.behind + 1, Len(q)), Timely(s, p)
      PROVE  Right(At(l.nodes, p), s, p)'
  <2>1. Right(At(l.nodes, p), s, p)
    BY <1>1, ListFacts
  <2>. QED
    BY <2>1, RightKept
<1>. QED
  BY <1>1, ListsPrime

LEMMA ViewPublished ==
  ASSUME TInv, ViewOK, NEW e \in Events, Publish(e), Tells(e), view' = view
  PROVE  ViewOK'
<1>. PICK q, v : q = queue /\ v = view
  OBVIOUS
<1>1. q \in Seq(Events)
  BY DEF TInv, ChannelOK
<1>2. \A p \in Ports \ doubt : Timely(q, p) /\ Right(At(v, p), q, p)
  BY DEF ViewOK
<1>3. CASE Room
  <2>1. queue' = Append(q, e)
    BY <1>3 DEF Publish
  <2>2. doubt \subseteq doubt' /\ (e.port \notin doubt' => ~Outdated(e))
    BY <1>3 DEF Publish
  <2>3. ASSUME NEW p \in Ports \ doubt'
        PROVE  Timely(Append(q, e), p) /\ Right(At(v, p), Append(q, e), p)'
    <3>1. Timely(q, p) /\ Right(At(v, p), q, p)
      BY <1>2, <2>2
    <3>2. Timely(Append(q, e), p)
      BY <1>1, <2>2, <3>1, AppendSame, AppendOther
    <3>. QED
      BY <1>1, <3>1, <3>2, RightPublished
  <2>. QED
    BY <2>1, <2>3, ViewPrime
<1>4. CASE ~Room
  <2>1. queue' = q /\ doubt' = doubt \cup {e.port}
    BY <1>4 DEF Publish
  <2>2. \A p \in Ports \ doubt' : Timely(q, p) /\ Right(At(v, p), q, p)'
    BY <1>2, <2>1, RightKept DEF Tells
  <2>. QED
    BY <2>1, <2>2, ViewPrime
<1>. QED
  BY <1>3, <1>4

LEMMA ListsPublished ==
  ASSUME TInv, ListsOK, NEW e \in Events, Publish(e), Tells(e)
  PROVE  ListsOK'
<1>. PICK q : q = queue
  OBVIOUS
<1>1. q \in Seq(Events)
  BY DEF TInv, ChannelOK
<1>2. \A l \in lists : l \in Answers /\ l.behind \in Nat /\ l.behind <= Len(q)
  BY AnswerShape DEF TInv, ChannelOK
<1>3. CASE Room
  <2>1. queue' = Append(q, e) /\ lists' = lists
    BY <1>3 DEF Publish
  <2>2. ASSUME NEW l \in lists', l.at = "served", NEW p \in Ports \ l.missed,
               NEW s, s = SubSeq(Append(q, e), l.behind + 1, Len(Append(q, e))), Timely(s, p)
        PROVE  Right(At(l.nodes, p), s, p)'
    <3>0. l \in lists /\ l.behind \in Nat /\ l.behind <= Len(q)
      BY <1>2, <2>1
    <3>1. PICK r \in Seq(Events) : r = SubSeq(q, l.behind + 1, Len(q))
      BY <1>1, <3>0, RestShape
    <3>2. s = Append(r, e)
      BY <1>1, <2>2, <3>0, <3>1, RestAppend
    <3>3. Timely(r, p)
      <4>1. Timely(Append(r, e), p)
        BY <2>2, <3>2
      <4>2. CASE e.port = p
        BY <4>1, <4>2, AppendSame
      <4>3. CASE e.port # p
        BY <4>1, <4>3, AppendOther
      <4>. QED
        BY <4>2, <4>3
    <3>4. Right(At(l.nodes, p), r, p)
      BY <2>2, <3>0, <3>1, <3>3, ListFacts
    <3>5. Right(At(l.nodes, p), Append(r, e), p)'
      BY <2>2, <3>2, <3>4, RightPublished
    <3>. QED
      BY <3>2, <3>5
  <2>. QED
    BY <2>1, <2>2, ListsPrime
<1>4. CASE ~Room
  <2>1. queue' = q /\ lists' = Missed(lists, {e.port})
    BY <1>4 DEF Publish
  <2>2. ASSUME NEW l \in lists', l.at = "served", NEW p \in Ports \ l.missed,
               NEW s, s = SubSeq(q, l.behind + 1, Len(q)), Timely(s, p)
        PROVE  Right(At(l.nodes, p), s, p)'
    <3>1. PICK n \in lists : l = IF n.at = "asked" THEN n
                                 ELSE [n EXCEPT !.missed = @ \cup {e.port}]
      BY <2>1 DEF Missed
    <3>2. {e.port} \in SUBSET Ports
      BY EventType
    <3>3. n.at # "asked" => /\ l.behind = n.behind /\ l.nodes = n.nodes /\ l.at = n.at
                            /\ l.missed = n.missed \cup {e.port}
      <4>. SUFFICES ASSUME n.at # "asked"
                    PROVE  /\ l.behind = n.behind /\ l.nodes = n.nodes /\ l.at = n.at
                           /\ l.missed = n.missed \cup {e.port}
        OBVIOUS
      <4>. PICK x : x = [n EXCEPT !.missed = @ \cup {e.port}]
        OBVIOUS
      <4>1. /\ x.behind = n.behind /\ x.nodes = n.nodes /\ x.at = n.at
            /\ x.missed = n.missed \cup {e.port}
        BY <1>2, <3>2, AnswerMissed
      <4>2. l = x
        BY <3>1
      <4>. QED
        BY <4>1, <4>2
    <3>4. n.at # "asked"
      BY <2>2, <3>1
    <3>5. Right(At(l.nodes, p), s, p)
      BY <2>2, <3>3, <3>4, ListFacts
    <3>6. Keeps(p)
      BY <2>2, <3>3, <3>4 DEF Tells
    <3>. QED
      BY <3>5, <3>6, RightKept
  <2>. QED
    BY <2>1, <2>2, ListsPrime
<1>. QED
  BY <1>3, <1>4

\* Which operations are pending, and which ports quiet, after an operation has
\* gone on or been answered.
LEMMA AdvancePending ==
  ASSUME OpsOK, NEW o \in ops, UNCHANGED emits,
         NEW at \in {"asked", "spawned", "orphaned", "ready", "announced", "deleted", "updated"},
         Advance(o, at), NEW p
  PROVE  /\ PendingAdd(p) /\ (o.port = p /\ o.at \in {"spawned", "orphaned", "ready"} =>
                                at \in {"spawned", "orphaned", "ready"}) => PendingAdd(p)'
         /\ o.port = p /\ at \in {"spawned", "orphaned", "ready"} => PendingAdd(p)'
         /\ Calm(p)' /\ (o.port = p => o.at \notin {"spawned", "orphaned", "ready", "deleted"}) => Calm(p)
<1>. PICK n : n = [o EXCEPT !.at = at]
  OBVIOUS
<1>0. n.at = at /\ n.port = o.port
  BY OpAt
<1>1. ops' = (ops \ {o}) \cup {n}
  BY DEF Advance
<1>2. ASSUME PendingAdd(p), o.port = p /\ o.at \in {"spawned", "orphaned", "ready"} =>
                              at \in {"spawned", "orphaned", "ready"}
      PROVE  PendingAdd(p)'
  <2>. PICK x \in ops : x.port = p /\ x.at \in {"spawned", "orphaned", "ready"}
    BY <1>2 DEF PendingAdd
  <2>1. CASE x = o
    BY <1>0, <1>1, <1>2, <2>1 DEF PendingAdd
  <2>2. CASE x # o
    BY <1>1, <2>2 DEF PendingAdd
  <2>. QED
    BY <2>1, <2>2
<1>3. ASSUME o.port = p, at \in {"spawned", "orphaned", "ready"}
      PROVE  PendingAdd(p)'
  BY <1>0, <1>1, <1>3 DEF PendingAdd
<1>4. ASSUME Calm(p)', o.port = p => o.at \notin {"spawned", "orphaned", "ready", "deleted"}
      PROVE  Calm(p)
  <2>1. \A x \in ops' : x.port = p => x.at \notin {"spawned", "orphaned", "ready", "deleted"}
    BY <1>4 DEF Calm, PendingAdd
  <2>2. \A x \in ops : x.port = p => x.at \notin {"spawned", "orphaned", "ready", "deleted"}
    BY <1>1, <1>4, <2>1
  <2>. QED
    BY <1>4, <2>2 DEF Calm, PendingAdd
<1>. QED
  BY <1>2, <1>3, <1>4

LEMMA AnswerPending ==
  ASSUME NEW o \in ops, Answer(o), UNCHANGED emits, NEW p
  PROVE  /\ PendingAdd(p) /\ (o.port = p => o.at \notin {"spawned", "orphaned", "ready"}) => PendingAdd(p)'
         /\ Calm(p)' /\ (o.port = p => o.at \notin {"spawned", "orphaned", "ready", "deleted"}) => Calm(p)
<1>1. ops' = ops \ {o}
  BY DEF Answer
<1>2. ASSUME PendingAdd(p), o.port = p => o.at \notin {"spawned", "orphaned", "ready"}
      PROVE  PendingAdd(p)'
  BY <1>1, <1>2 DEF PendingAdd
<1>3. ASSUME Calm(p)', o.port = p => o.at \notin {"spawned", "orphaned", "ready", "deleted"}
      PROVE  Calm(p)
  <2>1. \A x \in ops' : x.port = p => x.at \notin {"spawned", "orphaned", "ready", "deleted"}
    BY <1>3 DEF Calm, PendingAdd
  <2>2. \A x \in ops : x.port = p => x.at \notin {"spawned", "orphaned", "ready", "deleted"}
    BY <1>1, <1>3, <2>1
  <2>. QED
    BY <1>3, <2>2 DEF Calm, PendingAdd
<1>. QED
  BY <1>2, <1>3

LEMMA KeepsSame ==
  ASSUME NEW p, PendingAdd(p) => PendingAdd(p)', Calm(p)' => Calm(p),
         At(nodes', p) = At(nodes, p)
  PROVE  Keeps(p)
BY DEF Keeps

LEMMA KeepsOps ==
  ASSUME UNCHANGED <<nodes, ops, emits>>, NEW p
  PROVE  Keeps(p)
BY DEF Keeps, PendingAdd, Calm

(* --- One step ----------------------------------------------------------- *)

LEMMA AskShows ==
  ASSUME IInv, NEW p \in Ports, NEW kind \in {"create", "add", "remove", "config"},
         NEW mine \in BOOLEAN, NEW seen \in PartialNodes, Ask(kind, p, mine, seen)
  PROVE  ViewOK' /\ ListsOK'
<1>. PICK o : o = [id |-> asked', kind |-> kind, port |-> p, mine |-> mine,
                   at |-> "asked", seen |-> seen]
  OBVIOUS
<1>1. ops' = ops \cup {o} /\ o.at = "asked"
  BY DEF Ask
<1>2. UNCHANGED <<nodes, emits, queue, view, doubt, lists>>
  BY DEF Ask, Silent
<1>3. ASSUME NEW x \in Ports
      PROVE  Keeps(x)
  <2>1. PendingAdd(x) => PendingAdd(x)'
    BY <1>1 DEF PendingAdd
  <2>2. Calm(x)' => Calm(x)
    BY <1>1, <1>2 DEF Calm, PendingAdd
  <2>. QED
    BY <1>2, <2>1, <2>2, KeepsSame
<1>. QED
  BY <1>2, <1>3, ViewKept, ListsKept DEF IInv

LEMMA RefuseShows ==
  ASSUME IInv, NEW o \in ops, Refuse(o)
  PROVE  ViewOK' /\ ListsOK'
<1>1. Answer(o) /\ o.at = "asked" /\ UNCHANGED <<nodes, emits, queue, view, doubt, lists>>
  BY DEF Refuse, Silent
<1>2. \A p \in Ports : Keeps(p)
  BY <1>1, AnswerPending, KeepsSame
<1>. QED
  BY <1>1, <1>2, ViewKept, ListsKept DEF IInv

LEMMA SpawnShows ==
  ASSUME IInv, NEW o \in ops, Spawn(o)
  PROVE  ViewOK' /\ ListsOK'
<1>1. /\ nodes' = Put(nodes, o.port, "Follower") /\ Advance(o, "spawned") /\ o.at = "asked"
      /\ UNCHANGED <<emits, queue, view, doubt, lists>>
  BY DEF Spawn, Silent
<1>2. o.port \in Ports /\ nodes \in PartialNodes /\ OpsOK
  BY OpShape DEF IInv, TInv, TablesOK
<1>3. ASSUME NEW p \in Ports
      PROVE  Keeps(p)
  <2>1. (PendingAdd(p) => PendingAdd(p)') /\ (Calm(p)' => Calm(p))
        /\ (o.port = p => PendingAdd(p)')
    BY <1>1, <1>2, AdvancePending
  <2>2. CASE o.port = p
    BY <2>1, <2>2 DEF Keeps, Calm
  <2>3. CASE o.port # p
    <3>1. At(nodes', p) = At(nodes, p)
      BY <1>1, <2>3, PutOther
    <3>. QED
      BY <2>1, <3>1, KeepsSame
  <2>. QED
    BY <2>2, <2>3
<1>. QED
  BY <1>1, <1>3, ViewKept, ListsKept DEF IInv

LEMMA BootstrapShows ==
  ASSUME IInv, NEW o \in ops, Bootstrap(o)
  PROVE  ViewOK' /\ ListsOK'
<1>1. /\ Advance(o, "ready") /\ o.at \in {"spawned", "orphaned"}
      /\ UNCHANGED <<emits, view>>
  BY DEF Bootstrap
<1>2. o.port \in Ports /\ nodes \in PartialNodes /\ OpsOK
  BY OpShape DEF IInv, TInv, TablesOK
<1>3. PICK e \in Events : e = Event("state-changed", o.port, "Leader") /\ Publish(e)
  BY BootstrapEvent DEF IInv
<1>4. e.port = o.port /\ e.now = At(nodes', e.port)
  BY <1>3 DEF Event
<1>5. ASSUME NEW p \in Ports, p # o.port
      PROVE  Keeps(p)
  <2>1. At(nodes', p) = At(nodes, p)
    <3>1. nodes' = Put(nodes, o.port, "Leader") \/ nodes' = nodes
      BY DEF Bootstrap
    <3>2. At(Put(nodes, o.port, "Leader"), p) = At(nodes, p)
      BY <1>5, PutOther
    <3>. QED
      BY <3>1, <3>2
  <2>2. (PendingAdd(p) => PendingAdd(p)') /\ (Calm(p)' => Calm(p))
    BY <1>1, <1>2, <1>5, AdvancePending
  <2>. QED
    BY <2>1, <2>2, KeepsSame
<1>6. PendingAdd(o.port)'
  BY <1>1, <1>2, AdvancePending
<1>7. Tells(e)
  BY <1>4, <1>5, <1>6 DEF Tells
<1>. QED
  BY <1>1, <1>3, <1>7, ViewPublished, ListsPublished DEF IInv

LEMMA JoinShows ==
  ASSUME IInv, NEW o \in ops, Join(o)
  PROVE  ViewOK' /\ ListsOK'
<1>1. /\ Advance(o, "ready") /\ o.at \in {"spawned", "orphaned"}
      /\ UNCHANGED <<nodes, emits, queue, view, doubt, lists>>
  BY DEF Join, Silent
<1>2. ASSUME NEW p \in Ports
      PROVE  Keeps(p)
  <2>1. PendingAdd(p) => PendingAdd(p)'
    BY <1>1, AdvancePending DEF IInv, TInv
  <2>2. CASE o.port = p
    <3>1. PendingAdd(p)'
      BY <1>1, <2>2, AdvancePending DEF IInv, TInv
    <3>. QED
      BY <3>1 DEF Keeps, Calm
  <2>3. CASE o.port # p
    <3>1. Calm(p)' => Calm(p)
      BY <1>1, <2>3, AdvancePending DEF IInv, TInv
    <3>. QED
      BY <1>1, <2>1, <3>1, KeepsSame
  <2>. QED
    BY <2>2, <2>3
<1>. QED
  BY <1>1, <1>2, ViewKept, ListsKept DEF IInv

LEMMA AnnounceShows ==
  ASSUME IInv, NEW o \in ops, Announce(o)
  PROVE  ViewOK' /\ ListsOK'
<1>1. Advance(o, "announced") /\ UNCHANGED <<nodes, emits, view>>
  BY DEF Announce
<1>2. PICK e \in Events : e = Event("node-added", o.port, "Follower") /\ Publish(e)
  BY AnnounceEvent DEF IInv
<1>3. e.port = o.port /\ e.now = At(nodes', e.port) /\ e.type = "node-added"
  BY <1>2 DEF Event
<1>4. ASSUME NEW p \in Ports, p # o.port
      PROVE  Keeps(p)
  <2>1. (PendingAdd(p) => PendingAdd(p)') /\ (Calm(p)' => Calm(p))
    BY <1>1, <1>4, AdvancePending DEF IInv, TInv
  <2>. QED
    BY <1>1, <2>1, KeepsSame
<1>5. Tells(e)
  BY <1>3, <1>4 DEF Tells
<1>. QED
  BY <1>1, <1>2, <1>5, ViewPublished, ListsPublished DEF IInv

LEMMA AnsweredShows ==
  ASSUME IInv, NEW o \in ops, Answered(o)
  PROVE  ViewOK' /\ ListsOK'
<1>1. /\ Answer(o) /\ o.at = "announced"
      /\ UNCHANGED <<nodes, emits, queue, view, doubt>>
  BY DEF Answered
<1>2. ASSUME NEW l \in lists', l.at = "served"
      PROVE  l \in lists
  <2>1. PICK n : n = [id |-> o.id, at |-> "asked", nodes |-> Empty, behind |-> 0, missed |-> {}]
    OBVIOUS
  <2>2. l \in lists \cup {n}
    BY <2>1 DEF Answered
  <2>3. n.at = "asked"
    BY <2>1
  <2>. QED
    BY <1>2, <2>2, <2>3
<1>3. \A p \in Ports : Keeps(p)
  BY <1>1, AnswerPending, KeepsSame
<1>. QED
  BY <1>1, <1>2, <1>3, ViewKept, ListsKept DEF IInv

LEMMA DeleteShows ==
  ASSUME IInv, NEW o \in ops, Delete(o)
  PROVE  ViewOK' /\ ListsOK'
<1>1. /\ nodes' = Drop(nodes, o.port)
      /\ UNCHANGED <<emits, queue, view, doubt, lists>>
  BY DEF Delete, Silent
<1>2. OpsOK /\ nodes \in PartialNodes
  BY DEF IInv, TInv, TablesOK
<1>. PICK d : d = [o EXCEPT !.at = "deleted"]
  OBVIOUS
<1>3. d.at = "deleted" /\ d.port = o.port /\ d \in ops'
  BY <1>2, OpAt DEF Delete
<1>4. o.at = "asked"
  BY DEF Delete
<1>5. ASSUME NEW p \in Ports
      PROVE  Keeps(p)
  <2>1. CASE p = o.port
    <3>1. At(nodes', p) = "absent"
      BY <1>1, <1>2, <2>1, DropTable
    <3>2. ~Calm(p)'
      BY <1>3, <2>1 DEF Calm
    <3>. QED
      BY <3>1, <3>2 DEF Keeps
  <2>2. CASE p # o.port
    <3>1. At(nodes', p) = At(nodes, p)
      BY <1>1, <1>2, <2>2, DropTable
    <3>2. \A x \in ops : x.port = p => x \in ops'
      <4>. SUFFICES ASSUME NEW x \in ops, x.port = p PROVE x \in ops'
        OBVIOUS
      <4>1. x # o /\ Orphaned(x, o.port) = x
        BY <2>2 DEF Orphaned
      <4>. QED
        BY <4>1 DEF Delete
    <3>3. PendingAdd(p) => PendingAdd(p)'
      BY <3>2 DEF PendingAdd
    <3>4. Calm(p)' => Calm(p)
      BY <1>1, <3>2 DEF Calm, PendingAdd
    <3>. QED
      BY <3>1, <3>3, <3>4, KeepsSame
  <2>. QED
    BY <2>1, <2>2
<1>. QED
  BY <1>1, <1>5, ViewKept, ListsKept DEF IInv

LEMMA AnnounceRemovedShows ==
  ASSUME IInv, NEW o \in ops, AnnounceRemoved(o)
  PROVE  ViewOK' /\ ListsOK'
<1>1. Answer(o) /\ o.at = "deleted" /\ UNCHANGED <<nodes, emits, view>>
  BY DEF AnnounceRemoved
<1>2. PICK e \in Events : e = Event("node-removed", o.port, "absent") /\ Publish(e)
  BY AnnounceRemovedEvent DEF IInv
<1>3. e.port = o.port /\ e.now = At(nodes', e.port) /\ e.type = "node-removed"
  BY <1>2 DEF Event
<1>4. ASSUME NEW p \in Ports, p # o.port
      PROVE  Keeps(p)
  <2>1. (PendingAdd(p) => PendingAdd(p)') /\ (Calm(p)' => Calm(p))
    BY <1>1, <1>4, AnswerPending
  <2>. QED
    BY <1>1, <2>1, KeepsSame
<1>5. Tells(e)
  BY <1>3, <1>4 DEF Tells
<1>. QED
  BY <1>1, <1>2, <1>5, ViewPublished, ListsPublished DEF IInv

LEMMA UpdateConfigShows ==
  ASSUME IInv, NEW o \in ops, UpdateConfig(o)
  PROVE  ViewOK' /\ ListsOK'
<1>1. /\ Advance(o, "updated") /\ o.at = "asked"
      /\ UNCHANGED <<nodes, emits, queue, view, doubt, lists>>
  BY DEF UpdateConfig, Silent
<1>2. ASSUME NEW p \in Ports
      PROVE  Keeps(p)
  <2>1. (PendingAdd(p) => PendingAdd(p)') /\ (Calm(p)' => Calm(p))
    BY <1>1, AdvancePending DEF IInv, TInv
  <2>. QED
    BY <1>1, <2>1, KeepsSame
<1>. QED
  BY <1>1, <1>2, ViewKept, ListsKept DEF IInv

\* The form puts an older picture back; the ports that this changes are doubted.
LEMMA ConfiguredShows ==
  ASSUME IInv, NEW o \in ops, Configured(o)
  PROVE  ViewOK' /\ ListsOK'
<1>1. /\ Answer(o) /\ o.at = "updated" /\ view' = o.seen
      /\ UNCHANGED <<nodes, emits, queue, lists>>
  BY DEF Configured
<1>2. \A p \in Ports : Keeps(p)
  BY <1>1, AnswerPending, KeepsSame
<1>3. ListsOK'
  BY <1>1, <1>2, ListsKept DEF IInv
<1>. PICK q, v : q = queue /\ v = view
  OBVIOUS
<1>4. \A p \in Ports \ doubt : Timely(q, p) /\ Right(At(v, p), q, p)
  BY DEF IInv, ViewOK
<1>5. ASSUME NEW p \in Ports \ doubt'
      PROVE  Timely(q, p) /\ Right(At(o.seen, p), q, p)'
  <2>1. p \notin doubt /\ At(o.seen, p) = At(v, p)
    BY DEF Configured
  <2>2. Timely(q, p) /\ Right(At(v, p), q, p)'
    BY <1>2, <1>4, <2>1, RightKept
  <2>3. PICK a : a = At(v, p)
    OBVIOUS
  <2>. QED
    BY <2>1, <2>2, <2>3
<1>6. ViewOK'
  BY <1>1, <1>5, ViewPrime
<1>. QED
  BY <1>3, <1>6

LEMMA MoveShows ==
  ASSUME IInv, NEW p \in Ports, NEW s \in States, Move(p, s)
  PROVE  ViewOK' /\ ListsOK'
<1>1. /\ nodes' = [nodes EXCEPT ![p] = s] /\ p \in joined
      /\ UNCHANGED <<ops, queue, view, doubt, lists>>
  BY DEF Move, Silent
<1>. PICK m : m = [id |-> moves', port |-> p, to |-> s]
  OBVIOUS
<1>2. emits' = emits \cup {m} /\ m.port = p
  BY DEF Move
<1>3. nodes \in PartialNodes /\ p \in DOMAIN nodes
  BY <1>1 DEF IInv, TInv, TablesOK
<1>4. ASSUME NEW x \in Ports
      PROVE  Keeps(x)
  <2>1. PendingAdd(x)' <=> PendingAdd(x)
    BY <1>1 DEF PendingAdd
  <2>2. CASE x = p
    <3>1. ~Calm(x)'
      BY <1>2, <2>2 DEF Calm
    <3>2. At(nodes, x) # "absent"
      BY <1>3, <2>2, AtType
    <3>. QED
      BY <2>1, <3>1, <3>2 DEF Keeps
  <2>3. CASE x # p
    <3>1. At(nodes', x) = At(nodes, x)
      BY <1>1, <2>3 DEF At
    <3>2. Calm(x)' => Calm(x)
      BY <1>1, <1>2, <2>1 DEF Calm
    <3>. QED
      BY <2>1, <3>1, <3>2, KeepsSame
  <2>. QED
    BY <2>2, <2>3
<1>. QED
  BY <1>1, <1>4, ViewKept, ListsKept DEF IInv

LEMMA EmitShows ==
  ASSUME IInv, NEW m \in emits, Emit(m)
  PROVE  ViewOK' /\ ListsOK'
<1>1. emits' = emits \ {m} /\ UNCHANGED <<nodes, ops, view>>
  BY DEF Emit
<1>2. PICK e \in Events : e = Event("state-changed", m.port, m.to) /\ Publish(e)
  BY EmitEvent DEF IInv
<1>3. e.port = m.port /\ e.now = At(nodes', e.port)
  BY <1>2 DEF Event
<1>4. \A p : PendingAdd(p)' <=> PendingAdd(p)
  BY <1>1 DEF PendingAdd
<1>5. ASSUME NEW p \in Ports, p # m.port
      PROVE  Keeps(p)
  <2>1. Calm(p)' => Calm(p)
    BY <1>1, <1>4, <1>5 DEF Calm
  <2>. QED
    BY <1>1, <1>4, <2>1, KeepsSame
<1>6. At(nodes', e.port) = At(nodes, e.port)
  BY <1>1
<1>7. Tells(e)
  BY <1>3, <1>4, <1>5, <1>6 DEF Tells
<1>. QED
  BY <1>1, <1>2, <1>7, ViewPublished, ListsPublished DEF IInv

LEMMA ServeListShows ==
  ASSUME IInv, NEW l \in lists, ServeList(l)
  PROVE  ViewOK' /\ ListsOK'
<1>1. UNCHANGED <<nodes, ops, emits, queue, view, doubt>>
  BY DEF ServeList
<1>2. \A p \in Ports : Keeps(p)
  BY <1>1, KeepsOps
<1>. PICK q : q = queue
  OBVIOUS
<1>. PICK f : f = nodes
  OBVIOUS
<1>. PICK n : n = [l EXCEPT !.at = "served", !.nodes = f, !.behind = Len(q)]
  OBVIOUS
<1>3. lists' = (lists \ {l}) \cup {n}
  BY DEF ServeList
<1>4. q \in Seq(Events) /\ l \in Answers
  BY DEF IInv, TInv, ChannelOK
<1>5. n.nodes = f /\ n.behind = Len(q)
  BY <1>4 DEF Answers
<1>6. ASSUME NEW x \in lists', x.at = "served", NEW p \in Ports \ x.missed,
             NEW s, s = SubSeq(q, x.behind + 1, Len(q)), Timely(s, p)
      PROVE  Right(At(x.nodes, p), s, p)'
  <2>1. CASE x \in lists
    <3>1. Right(At(x.nodes, p), s, p)
      BY <1>6, <2>1, ListFacts DEF IInv
    <3>. QED
      BY <1>2, <3>1, RightKept
  <2>2. CASE x = n
    <3>1. s = <<>>
      BY <1>4, <1>5, <1>6, <2>2, RestNone
    <3>2. PICK a : a = At(f, p)
      OBVIOUS
    <3>3. (Present(a, s, p) <=> a # "absent") /\ Ends(a, s, p, a)
      BY <3>1, EmptyQueue, Untold
    <3>4. Right(a, s, p)
      BY <3>2, <3>3 DEF Right
    <3>5. Right(a, s, p)'
      BY <1>2, <3>4, RightKept
    <3>. QED
      BY <1>5, <2>2, <3>2, <3>5
  <2>. QED
    BY <1>3, <2>1, <2>2
<1>7. ListsOK'
  BY <1>1, <1>6, ListsPrime
<1>8. ViewOK'
  BY <1>1, <1>2, ViewKept DEF IInv
<1>. QED
  BY <1>7, <1>8

\* What is lost with the socket is doubted, or missed by the lists under way.
LEMMA CloseShows ==
  ASSUME IInv, Close
  PROVE  ViewOK' /\ ListsOK'
<1>1. /\ queue' = <<>> /\ doubt' = doubt \cup PortsOf(queue)
      /\ UNCHANGED <<nodes, ops, emits, view>>
  BY DEF Close
<1>2. \A p \in Ports : Keeps(p)
  BY <1>1, KeepsOps
<1>. PICK q, v : q = queue /\ v = view
  OBVIOUS
<1>. PICK r : r = <<>>
  OBVIOUS
<1>3. \A p : About(r, p) = {}
  BY EmptyQueue
<1>4. ASSUME NEW s, NEW a, NEW p \in Ports, p \notin PortsOf(s), Right(a, s, p)
      PROVE  Right(a, r, p)'
  <2>1. About(s, p) = {}
    BY <1>4, UntoldPorts
  <2>2. (Present(a, r, p) <=> a # "absent") /\ \A x : Ends(a, r, p, x) <=> x = a
    BY <1>3, Untold
  <2>4. (Present(a, s, p) <=> a # "absent") /\ \A x : Ends(a, s, p, x) <=> x = a
    BY <2>1, Untold
  <2>3. Right(a, s, p)'
    BY <1>2, <1>4, RightKept
  <2>. QED
    BY <2>2, <2>3, <2>4 DEF Right
<1>5. ViewOK'
  <2>1. \A p \in Ports \ doubt : Timely(q, p) /\ Right(At(v, p), q, p)
    BY DEF IInv, ViewOK
  <2>2. \A p \in Ports \ doubt' : Timely(r, p) /\ Right(At(v, p), r, p)'
    BY <1>1, <1>3, <1>4, <2>1, Untold
  <2>. QED
    BY <1>1, <2>2, ViewPrime
<1>6. ASSUME NEW n \in lists', n.at = "served", NEW p \in Ports \ n.missed,
             NEW t, t = SubSeq(r, n.behind + 1, Len(r)), Timely(t, p)
      PROVE  Right(At(n.nodes, p), t, p)'
  <2>1. PICK l \in lists :
              /\ l.at # "asked" /\ n \in Answers /\ n.at = l.at /\ n.nodes = l.nodes
              /\ n.behind = 0
              /\ n.missed = l.missed \cup PortsOf(SubSeq(queue, l.behind + 1, Len(queue)))
    BY <1>6, CloseLists DEF IInv, TInv
  <2>2. PICK s : s = SubSeq(q, l.behind + 1, Len(q))
    OBVIOUS
  <2>3. p \notin PortsOf(s) /\ p \notin l.missed
    BY <1>6, <2>1, <2>2
  <2>4. Timely(s, p)
    BY <2>3, UntoldPorts, Untold
  <2>5. Right(At(n.nodes, p), s, p)
    BY <1>6, <2>1, <2>2, <2>3, <2>4, ListFacts DEF IInv
  <2>6. t = r
    BY <1>6, <2>1, EmptyQueue, RestAll
  <2>. QED
    BY <1>4, <2>3, <2>5, <2>6
<1>7. ListsOK'
  BY <1>1, <1>6, ListsPrime
<1>. QED
  BY <1>5, <1>7

\* The picture follows the event; the lists that are not behind it have missed it.
LEMMA HandleEventShows ==
  ASSUME IInv, HandleEvent
  PROVE  ViewOK' /\ ListsOK'
<1>1. /\ queue # <<>> /\ queue' = Tail(queue) /\ view' = After(Head(queue))
      /\ UNCHANGED <<nodes, ops, emits, doubt>>
  BY DEF HandleEvent
<1>2. \A p \in Ports : Keeps(p)
  BY <1>1, KeepsOps
<1>3. queue \in Seq(Events) /\ view \in PartialNodes
  BY DEF IInv, TInv, TablesOK, ChannelOK
<1>. PICK q \in Seq(Events) : q = queue
  BY <1>3
<1>. PICK r \in Seq(Events) : r = Tail(q)
  BY <1>1, TailShape
<1>. PICK e \in Events : e = Head(q)
  BY <1>1, TailShape
<1>. PICK v : v = view
  OBVIOUS
<1>. PICK w : w = After(e)
  OBVIOUS
<1>4. \A p : At(w, p) = IF e.port = p THEN Turn(At(v, p), e) ELSE At(v, p)
  BY <1>3, AfterTable
<1>5. ASSUME NEW p \in Ports, NEW a, p # e.port, Right(a, q, p)
      PROVE  Right(a, r, p)'
  <2>1. (Present(a, q, p) <=> Present(a, r, p)) /\ \A x : Ends(a, q, p, x) <=> Ends(a, r, p, x)
    BY <1>1, <1>5, TailOther
  <2>2. Right(a, q, p)'
    BY <1>2, <1>5, RightKept
  <2>. QED
    BY <2>1, <2>2 DEF Right
<1>6. ViewOK'
  <2>1. \A p \in Ports \ doubt : Timely(q, p) /\ Right(At(v, p), q, p)
    BY DEF IInv, ViewOK
  <2>2. ASSUME NEW p \in Ports \ doubt', p # e.port
        PROVE  Timely(r, p) /\ Right(At(w, p), r, p)'
    <3>1. p \notin doubt /\ At(w, p) = At(v, p)
      BY <1>1, <1>4, <2>2
    <3>2. PICK a : a = At(v, p)
      OBVIOUS
    <3>3. Timely(r, p) /\ Right(a, r, p)'
      BY <1>1, <1>5, <2>1, <2>2, <3>1, <3>2, TailOther
    <3>. QED
      BY <3>1, <3>2, <3>3
  <2>3. ASSUME NEW p \in Ports \ doubt', p = e.port
        PROVE  Timely(r, p) /\ Right(At(w, p), r, p)'
    <3>1. PICK a : a = At(v, p)
      OBVIOUS
    <3>2. PICK b : b = Turn(a, e)
      OBVIOUS
    <3>3. Timely(q, p) /\ Right(a, q, p)
      BY <1>1, <2>1, <2>3, <3>1
    <3>4. /\ Timely(q, p) => Timely(r, p)
          /\ Present(a, q, p) => Present(b, r, p)
          /\ \A x : Ends(a, q, p, x) => Ends(b, r, p, x)
      BY <1>1, <2>3, <3>2, TailSame
    <3>5. Right(a, q, p)'
      BY <1>2, <3>3, RightKept
    <3>6. Right(b, r, p)'
      BY <3>4, <3>5 DEF Right
    <3>7. At(w, p) = b
      BY <1>4, <2>3, <3>1, <3>2
    <3>. QED
      BY <3>3, <3>4, <3>6, <3>7
  <2>4. \A p \in Ports \ doubt' : Timely(r, p) /\ Right(At(w, p), r, p)'
    BY <2>2, <2>3
  <2>. QED
    BY <1>1, <2>4, ViewPrime
<1>7. ASSUME NEW n \in lists', n.at = "served", NEW p \in Ports \ n.missed,
             NEW t, t = SubSeq(r, n.behind + 1, Len(r)), Timely(t, p)
      PROVE  Right(At(n.nodes, p), t, p)'
  <2>1. PICK l \in lists :
              /\ l.at # "asked" /\ n \in Answers /\ n.at = l.at /\ n.nodes = l.nodes
              /\ \/ l.behind > 0 /\ n.behind = l.behind - 1 /\ n.missed = l.missed
                 \/ /\ l.behind = 0 /\ n.behind = 0
                    /\ n.missed = l.missed \cup {Head(queue).port}
    BY <1>7, HandledLists DEF IInv, TInv
  <2>2. l.behind \in Nat /\ l.behind <= Len(q)
    BY AnswerShape DEF IInv, TInv, ChannelOK
  <2>3. CASE l.behind > 0 /\ n.behind = l.behind - 1 /\ n.missed = l.missed
    <3>1. t = SubSeq(q, l.behind + 1, Len(q))
      BY <1>1, <1>7, <2>2, <2>3, RestTail
    <3>2. Right(At(l.nodes, p), t, p)
      BY <1>7, <2>1, <2>3, <3>1, ListFacts DEF IInv
    <3>. QED
      BY <1>2, <2>1, <3>2, RightKept
  <2>4. CASE l.behind = 0 /\ n.behind = 0 /\ n.missed = l.missed \cup {e.port}
    <3>1. t = r /\ q = SubSeq(q, l.behind + 1, Len(q))
      BY <1>7, <2>4, RestAll
    <3>2. Timely(q, p)
      BY ZenonT(30), <1>1, <1>7, <2>4, <3>1, TailOther
    <3>3. Right(At(l.nodes, p), q, p)
      BY <1>7, <2>1, <2>4, <3>1, <3>2, ListFacts DEF IInv
    <3>4. p # e.port
      BY <1>7, <2>4
    <3>. QED
      BY <1>5, <2>1, <3>1, <3>3, <3>4
  <2>. QED
    BY <2>1, <2>3, <2>4
<1>8. ListsOK'
  BY <1>1, <1>7, ListsPrime
<1>. QED
  BY <1>6, <1>8

\* A list replaces the picture, events it already knows of still to come.
LEMMA SetNodeListShows ==
  ASSUME IInv, NEW l \in lists, SetNodeList(l)
  PROVE  ViewOK' /\ ListsOK'
<1>1. /\ l.at = "served" /\ lists' = lists \ {l} /\ view' = l.nodes
      /\ UNCHANGED <<nodes, ops, emits, queue>>
  BY DEF SetNodeList, NodeList
<1>2. \A p \in Ports : Keeps(p)
  BY <1>1, KeepsOps
<1>3. ListsOK'
  BY <1>1, <1>2, ListsKept DEF IInv
<1>. PICK q : q = queue
  OBVIOUS
<1>. PICK v : v = view
  OBVIOUS
<1>4. q \in Seq(Events) /\ l.behind \in Nat /\ l.behind <= Len(q)
  BY AnswerShape DEF IInv, TInv, ChannelOK
<1>5. ASSUME NEW p \in Ports \ doubt'
      PROVE  Timely(q, p) /\ Right(At(l.nodes, p), q, p)'
  <2>. PICK a : a = At(l.nodes, p)
    OBVIOUS
  <2>. PICK b : b = At(v, p)
    OBVIOUS
  <2>0. p \notin l.missed
    BY <1>5 DEF SetNodeList
  <2>1. CASE l.behind > 0
    <3>1. p \notin doubt
      BY <1>5, <2>1 DEF SetNodeList
    <3>2. Timely(q, p) /\ Right(b, q, p)
      BY <3>1 DEF IInv, ViewOK
    <3>3. PICK k \in Nat : k = l.behind /\ k <= Len(q)
      BY <1>4
    <3>4. PICK s \in Seq(Events) : s = SubSeq(q, k + 1, Len(q))
      BY <1>4, <3>3, RestShape
    <3>5. /\ \A i \in DOMAIN s : i + k \in DOMAIN q /\ s[i] = q[i + k]
          /\ \A i \in DOMAIN q : i > k => i - k \in DOMAIN s /\ s[i - k] = q[i]
      <4>1. k <= Len(q) /\ q \in Seq(Events)
        BY <1>4, <3>3
      <4>2. /\ \A i \in DOMAIN SubSeq(q, k + 1, Len(q)) :
                 i + k \in DOMAIN q /\ SubSeq(q, k + 1, Len(q))[i] = q[i + k]
            /\ \A i \in DOMAIN q : i > k => i - k \in DOMAIN SubSeq(q, k + 1, Len(q))
                                           /\ SubSeq(q, k + 1, Len(q))[i - k] = q[i]
        BY ZenonT(30), <4>1, RestShape
      <4>. QED
        BY <3>4, <4>2, Zenon
    <3>6. /\ \A i \in About(s, p) : i + k \in About(q, p) /\ q[i + k] = s[i]
          /\ \A i \in About(q, p) : i > k => i - k \in About(s, p) /\ s[i - k] = q[i]
      BY <3>5 DEF About
    <3>7. Timely(s, p)
      BY <3>2, <3>6 DEF Timely
    <3>8. Right(a, s, p)
      BY <1>1, <2>0, <3>3, <3>4, <3>7, ListFacts DEF IInv
    <3>9. /\ Present(b, q, p) /\ Present(a, s, p) => Present(a, q, p)
          /\ \A x : Ends(b, q, p, x) /\ Ends(a, s, p, x) => Ends(a, q, p, x)
      <4>1. q \in Seq(Events) /\ Resumes(q, s, p, k)
        BY <1>4, <3>6 DEF Resumes
      <4>2. ASSUME NEW x
            PROVE  /\ Present(b, q, p) /\ Present(a, s, p) => Present(a, q, p)
                   /\ Ends(b, q, p, x) /\ Ends(a, s, p, x) => Ends(a, q, p, x)
        BY <4>1, Resent
      <4>. QED
        BY <4>2
    <3>10. Right(a, q, p)
      BY <3>2, <3>8, <3>9 DEF Right
    <3>. QED
      BY <1>2, <3>2, <3>10, RightKept
  <2>2. CASE ~(l.behind > 0)
    <3>1. l.behind = 0
      BY <1>4, <2>2
    <3>2. Timely(q, p)
      <4>1. \A i \in DOMAIN q : Outdated(q[i]) => q[i].port \in doubt'
        BY <2>2 DEF SetNodeList, Range
      <4>. QED
        BY <1>5, <4>1 DEF Timely, About
    <3>3. Right(a, q, p)
      BY <1>1, <1>4, <2>0, <3>1, <3>2, RestAll, ListFacts DEF IInv
    <3>. QED
      BY <1>2, <3>2, <3>3, RightKept
  <2>. QED
    BY <2>1, <2>2
<1>6. ViewOK'
  BY <1>1, <1>5, ViewPrime
<1>. QED
  BY <1>3, <1>6

LEMMA QuietShows ==
  ASSUME IInv, UNCHANGED <<nodes, ops, emits, queue, view, doubt>>, lists' \subseteq lists
  PROVE  ViewOK' /\ ListsOK'
<1>1. \A p \in Ports : Keeps(p)
  BY KeepsOps
<1>. QED
  BY <1>1, ViewKept, ListsKept DEF IInv

(* --- The theorem --------------------------------------------------------- *)

LEMMA IInvInit ==
  ASSUME Init
  PROVE  IInv
<1>1. TInv
  BY TInvInit
<1>2. ASSUME NEW p \in Ports \ doubt
      PROVE  Timely(queue, p) /\ Right(At(view, p), queue, p)
  <2>1. p \notin DOMAIN nodes /\ queue = <<>> /\ view = Empty /\ nodes \in PartialNodes
    BY <1>1, <1>2 DEF Init, TInv, TablesOK
  <2>2. About(queue, p) = {}
    BY <2>1, EmptyQueue
  <2>3. At(nodes, p) = "absent" /\ At(view, p) = "absent"
    BY <2>1, AtType, EmptyTable
  <2>4. Timely(queue, p) /\ Ends(At(view, p), queue, p, At(nodes, p))
    BY <2>2, <2>3, Untold
  <2>. QED
    BY <2>3, <2>4 DEF Right
<1>3. ListsOK
  <2>1. \A l \in lists : l.at = "asked"
    BY DEF Init
  <2>. QED
    BY <2>1 DEF ListsOK
<1>. QED
  BY <1>1, <1>2, <1>3 DEF IInv, ViewOK

LEMMA IInvNext ==
  ASSUME IInv, [Next]_vars
  PROVE  IInv'
<1>0. TInv'
  BY TInvNext DEF IInv
<1>. SUFFICES ViewOK' /\ ListsOK'
  BY <1>0 DEF IInv
<1>1. CASE UNCHANGED vars
  BY <1>1, QuietShows DEF vars
<1>2. ASSUME NEW p \in Ports,
             \/ Create(p) \/ Add(p) \/ Remove(p) \/ Configure(p)
             \/ \E kind \in {"create", "add", "remove"} : Elsewhere(kind, p)
      PROVE  ViewOK' /\ ListsOK'
  <2>. PICK kind \in {"create", "add", "remove", "config"}, mine \in BOOLEAN,
            seen \in PartialNodes : Ask(kind, p, mine, seen)
    BY <1>2, EmptyTable DEF Create, Add, Remove, Configure, Elsewhere, IInv, TInv, TablesOK
  <2>. QED
    BY AskShows
<1>3. ASSUME NEW p \in Ports, NEW s \in States, Move(p, s)  PROVE ViewOK' /\ ListsOK'
  BY <1>3, MoveShows
<1>4. ASSUME NEW o \in ops, Manage(o)  PROVE ViewOK' /\ ListsOK'
  BY <1>4, RefuseShows, SpawnShows, BootstrapShows, JoinShows, AnnounceShows, AnsweredShows,
     DeleteShows, AnnounceRemovedShows, UpdateConfigShows, ConfiguredShows DEF Manage
<1>5. ASSUME NEW m \in emits, Emit(m)  PROVE ViewOK' /\ ListsOK'
  BY <1>5, EmitShows
<1>6. ASSUME NEW l \in lists, ServeList(l) \/ SetNodeList(l)  PROVE ViewOK' /\ ListsOK'
  BY <1>6, ServeListShows, SetNodeListShows
<1>7. ASSUME NEW l \in lists, ListFails(l)  PROVE ViewOK' /\ ListsOK'
  BY <1>7, QuietShows DEF ListFails
<1>8. CASE Open
  BY <1>8, QuietShows DEF Open, Silent
<1>9. CASE Close \/ HandleEvent
  BY <1>9, CloseShows, HandleEventShows
<1>. QED
  BY <1>1, <1>2, <1>3, <1>4, <1>5, <1>6, <1>7, <1>8, <1>9 DEF Next

\* When nothing is under way, the browser shows every node there is, in the
\* state it is in, and no other, but for the ports in doubt: what the events of
\* the socket, the answers to GET /api/nodes and the forms have written is the
\* manager's table, with any number of nodes, operations, changes of state and
\* lost sockets, and any room in the channel.
THEOREM ConsoleShowsTheCluster == Spec => []ShowsTheCluster
<1>1. Init => IInv
  BY IInvInit
<1>2. IInv /\ [Next]_vars => IInv'
  BY IInvNext
<1>3. IInv => ShowsTheCluster
  <2>. SUFFICES ASSUME IInv, Settled, NEW p \in Ports \ doubt
                PROVE  At(view, p) = At(nodes, p)
    BY DEF ShowsTheCluster
  <2>1. Calm(p)
    BY DEF Settled, Calm, PendingAdd
  <2>2. Ends(At(view, p), queue, p, At(nodes, p))
    BY <2>1 DEF IInv, ViewOK, Right
  <2>3. About(queue, p) = {}
    BY EmptyQueue DEF Settled
  <2>. QED
    BY <2>2, <2>3 DEF Ends
<1>. QED
  BY <1>1, <1>2, <1>3, PTL DEF Spec
=============================================================================
