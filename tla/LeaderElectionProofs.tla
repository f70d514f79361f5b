------------------------ MODULE LeaderElectionProofs ------------------------
(***************************************************************************)
(* Theorems about LeaderElection, for every set of members and every order  *)
(* of joining.                                                              *)
(***************************************************************************)
EXTENDS LeaderElection, TLAPS, FiniteSetTheorems, SequenceTheorems, WellFoundedInduction

-----------------------------------------------------------------------------
(* Data *)

\* Every non-empty set of naturals has a least element.
LEMMA LeastNatural ==
  ASSUME NEW T, T \subseteq Nat, T # {}
  PROVE  \E x \in T : \A y \in T : x <= y
<1> DEFINE R == OpToRel(<, Nat)
<1>1. IsWellFoundedOn(R, Nat)
  BY NatLessThanWellFounded
<1>2. \A x, y \in Nat : y < x => <<y, x>> \in R
  BY DEF OpToRel
<1> HIDE DEF R
<1>3. PICK x \in T : \A y \in T : ~(<<y, x>> \in R)
  BY <1>1, WFMin
<1>4. \A y \in T : y \in Nat /\ ~(y < x)
  BY <1>2, <1>3
<1>5. \A y \in T : x <= y
  BY <1>4
<1> QED
  BY <1>5

\* Among members that joined one after the other there is a first.
LEMMA HighestFacts ==
  ASSUME NEW A \in SUBSET Node
  PROVE  /\ A = {} => Highest(A) = None
         /\ A # {} => Highest(A) \in A /\ \A m \in A : Priority[Highest(A)] <= Priority[m]
<1>1. CASE A = {}
  BY <1>1 DEF Highest
<1>2. CASE A # {}
  <2> DEFINE T == {Priority[m] : m \in A}
  <2>1. T \subseteq Nat /\ T # {}
    BY <1>2, PriorityAssumption
  <2>2. PICK x \in T : \A y \in T : x <= y
    <3> HIDE DEF T
    <3> QED
      BY <2>1, LeastNatural
  <2>3. \E n \in A : \A m \in A : Priority[n] <= Priority[m]
    BY <2>2
  <2>4. Highest(A) = CHOOSE n \in A : \A m \in A : Priority[n] <= Priority[m]
    BY <1>2 DEF Highest
  <2> QED
    BY <1>2, <2>3, <2>4
<1> QED
  BY <1>1, <1>2

\* The fields of a message.
LEMMA MessageFields ==
  ASSUME NEW m \in Message
  PROVE  /\ m.from \in Node /\ m.to \in Node
         /\ m.type \in {"claim", "ack", "response", "update", "joined", "join"}
         /\ m.type # "join" => m.term \in Nat
         /\ m.type = "response" => m.leader \in Node \cup {None}
         /\ m.type \in {"response", "update", "joined"} => m.alive \in SUBSET Node
BY DEF Message

LEMMA AckFields ==
  ASSUME NEW m \in Message, m.type = "ack"
  PROVE  m.accept \in BOOLEAN
BY Zenon DEF Message

\* The messages the handlers build.
LEMMA MessageTypes ==
  ASSUME NEW f \in Node, NEW t \in Node, NEW k \in Nat
  PROVE  /\ [type |-> "claim", from |-> f, to |-> t, term |-> k] \in Message
         /\ \A b \in BOOLEAN : Ack(f, t, k, b) \in Message
         /\ \A l \in Node \cup {None}, A \in SUBSET Node :
              [type |-> "response", from |-> f, to |-> t, term |-> k, leader |-> l, alive |-> A]
                \in Message
         /\ \A A \in SUBSET Node :
              /\ [type |-> "update", from |-> f, to |-> t, term |-> k, alive |-> A] \in Message
              /\ [type |-> "joined", from |-> f, to |-> t, term |-> k, alive |-> A] \in Message
         /\ [type |-> "join", from |-> f, to |-> t] \in Message
<1>1. \A b \in BOOLEAN : Ack(f, t, k, b) \in Message
  BY Zenon DEF Ack, Message
<1>2. [type |-> "claim", from |-> f, to |-> t, term |-> k] \in Message
  BY DEF Message
<1>3. \A l \in Node \cup {None}, A \in SUBSET Node :
        [type |-> "response", from |-> f, to |-> t, term |-> k, leader |-> l, alive |-> A]
          \in Message
  BY DEF Message
<1>4. \A A \in SUBSET Node :
         /\ [type |-> "update", from |-> f, to |-> t, term |-> k, alive |-> A] \in Message
         /\ [type |-> "joined", from |-> f, to |-> t, term |-> k, alive |-> A] \in Message
  BY DEF Message
<1>5. [type |-> "join", from |-> f, to |-> t] \in Message
  BY DEF Message
<1> QED
  BY <1>1, <1>2, <1>3, <1>4, <1>5

\* A claim and an answer are what their fields say.
LEMMA ClaimIs ==
  ASSUME NEW m \in Message, m.type = "claim"
  PROVE  m = [type |-> "claim", from |-> m.from, to |-> m.to, term |-> m.term]
BY DEF Message

LEMMA AckIs ==
  ASSUME NEW m \in Message, m.type = "ack"
  PROVE  m = Ack(m.from, m.to, m.term, m.accept)
BY Zenon DEF Message, Ack

-----------------------------------------------------------------------------
(* Type correctness *)

\* What selectNewLeader leaves has its type.
LEMMA SelectType ==
  ASSUME TypeOK, NEW n \in Node, NEW A \in SUBSET Node, NEW e \in Node \cup {None},
         SelectNewLeader(n, A, e)
  PROVE  /\ state' \in [Node -> {"Follower", "ClaimingLeader", "Leader", "Syncing"}]
         /\ currentTerm' \in [Node -> Nat]
         /\ currentLeaderID' \in [Node -> Node \cup {None}]
         /\ expectedLeaderID' \in [Node -> Node \cup {None}]
         /\ expired' \in [Node -> BOOLEAN]
         /\ alive' \in [Node -> SUBSET Node]
         /\ waiters' \in [Node -> Seq([term : Nat \ {0}, yes : Nat])]
         /\ net' \subseteq Message
         /\ claims' \in Seq(Eval) /\ Len(claims') <= MaxClaims
<1> DEFINE rest == A \ {currentLeaderID[n]}
           term == NextTerm(n)
<1>1. term \in Nat \ {0}
  BY DEF TypeOK, NextTerm
<1>2. alive' \in [Node -> SUBSET Node]
  BY DEF SelectNewLeader, TypeOK
<1> DEFINE hp == Highest(rest)
<1>3. hp \in Node \cup {None}
  BY HighestFacts
<1>4. CASE Highest(rest) = n
  <2>1. /\ Len(claims) < MaxClaims
        /\ claims' = Append(claims, [claimer |-> n, term |-> term])
        /\ state' = [state EXCEPT ![n] = "ClaimingLeader"]
        /\ currentTerm' = [currentTerm EXCEPT ![n] = term]
        /\ waiters' = [waiters EXCEPT ![n] = Append(@, [term |-> term, yes |-> 1])]
        /\ net' = net \cup Sent({[type |-> "claim", from |-> n, to |-> d,
                                  term |-> term] : d \in Node})
        /\ expectedLeaderID' = [expectedLeaderID EXCEPT ![n] = e]
        /\ UNCHANGED <<currentLeaderID, expired>>
    BY <1>4 DEF SelectNewLeader
  <2> HIDE DEF term
  <2>2. claims' \in Seq(Eval) /\ Len(claims') <= MaxClaims
    <3>1. [claimer |-> n, term |-> term] \in Eval /\ claims \in Seq(Eval)
      BY <1>1 DEF TypeOK, Eval
    <3>2. Append(claims, [claimer |-> n, term |-> term]) \in Seq(Eval)
          /\ Len(Append(claims, [claimer |-> n, term |-> term])) = Len(claims) + 1
      BY <3>1, AppendProperties
    <3>3. Len(claims) \in Nat
      BY <3>1, LenProperties
    <3> QED
      BY <2>1, <3>2, <3>3, BoundAssumption
  <2>3. waiters' \in [Node -> Seq([term : Nat \ {0}, yes : Nat])]
    <3>1. [term |-> term, yes |-> 1] \in [term : Nat \ {0}, yes : Nat]
      BY <1>1
    <3>2. Append(waiters[n], [term |-> term, yes |-> 1]) \in Seq([term : Nat \ {0}, yes : Nat])
      BY <3>1, AppendProperties DEF TypeOK
    <3> QED
      BY <2>1, <3>2 DEF TypeOK
  <2>4. net' \subseteq Message
    <3>1. \A d \in Node : [type |-> "claim", from |-> n, to |-> d, term |-> term] \in Message
      BY <1>1, MessageTypes
    <3> QED
      BY <2>1, <3>1 DEF Sent, TypeOK
  <2>5. /\ state' \in [Node -> {"Follower", "ClaimingLeader", "Leader", "Syncing"}]
        /\ currentTerm' \in [Node -> Nat]
        /\ expectedLeaderID' \in [Node -> Node \cup {None}]
        /\ currentLeaderID' \in [Node -> Node \cup {None}]
    BY <1>1, <2>1 DEF TypeOK
  <2>6. expired' \in [Node -> BOOLEAN]
    BY <2>1 DEF TypeOK
  <2> QED
    BY <1>2, <2>2, <2>3, <2>4, <2>5, <2>6
<1>5. CASE Highest(rest) # n
  <2>1. /\ \/ /\ expectedLeaderID' = [expectedLeaderID EXCEPT ![n] = e]
              /\ UNCHANGED <<currentLeaderID, expired>>
           \/ /\ expectedLeaderID' = [expectedLeaderID EXCEPT ![n] = hp]
              /\ currentLeaderID' = [currentLeaderID EXCEPT ![n] = None]
              /\ expired' = [expired EXCEPT ![n] = FALSE]
        /\ UNCHANGED <<state, currentTerm, waiters, net, claims>>
    BY <1>5 DEF SelectNewLeader
  <2> HIDE DEF hp
  <2>2. /\ expectedLeaderID' \in [Node -> Node \cup {None}]
        /\ currentLeaderID' \in [Node -> Node \cup {None}]
    <3>1. \/ expectedLeaderID' = [expectedLeaderID EXCEPT ![n] = e]
          \/ expectedLeaderID' = [expectedLeaderID EXCEPT ![n] = hp]
      BY <2>1
    <3>2. \/ currentLeaderID' = currentLeaderID
          \/ currentLeaderID' = [currentLeaderID EXCEPT ![n] = None]
      BY <2>1
    <3>3. /\ expectedLeaderID \in [Node -> Node \cup {None}]
          /\ currentLeaderID \in [Node -> Node \cup {None}]
      BY DEF TypeOK
    <3>4. expectedLeaderID' \in [Node -> Node \cup {None}]
      BY <1>3, <3>1, <3>3
    <3>5. currentLeaderID' \in [Node -> Node \cup {None}]
      BY <3>2, <3>3
    <3> QED
      BY <3>4, <3>5
  <2>3. expired' \in [Node -> BOOLEAN]
    BY <2>1, Zenon DEF TypeOK
  <2> QED
    BY <1>2, <2>1, <2>2, <2>3 DEF TypeOK
<1> QED
  BY <1>4, <1>5

\* A YES leaves everything in its type.
LEMMA AcceptType ==
  ASSUME TypeOK, NEW n \in Node, NEW c \in Node, NEW term \in Nat, NEW yes \in BOOLEAN,
         IF yes THEN Accept(n, c, term)
         ELSE UNCHANGED <<currentLeaderID, currentTerm, expired, votes>>
  PROVE  /\ currentLeaderID' \in [Node -> Node \cup {None}]
         /\ currentTerm' \in [Node -> Nat]
         /\ expired' \in [Node -> BOOLEAN]
         /\ votes' \subseteq Vote
<1>1. CASE yes
  <2>1. /\ currentLeaderID' \in [Node -> Node \cup {None}]
        /\ currentTerm' \in [Node -> Nat]
        /\ votes' \subseteq Vote
    <3>1. [voter |-> n, claimer |-> c, term |-> term] \in Vote
      BY DEF Vote
    <3>2. /\ currentLeaderID' = [currentLeaderID EXCEPT ![n] = c]
          /\ currentTerm' = [currentTerm EXCEPT ![n] = term]
          /\ votes' = votes \cup {[voter |-> n, claimer |-> c, term |-> term]}
      BY <1>1 DEF Accept
    <3> QED
      BY <3>1, <3>2 DEF TypeOK
  <2>2. expired' \in [Node -> BOOLEAN]
    BY <1>1 DEF Accept, TypeOK
  <2> QED
    BY <2>1, <2>2
<1>2. CASE ~yes
  <2>1. UNCHANGED <<currentLeaderID, currentTerm, expired, votes>>
    BY <1>2
  <2> QED
    BY <2>1 DEF TypeOK
<1> QED
  BY <1>1, <1>2

LEMMA StartSyncType ==
  ASSUME TypeOK, NEW n, StartSync(n)
  PROVE  /\ state' \in [Node -> {"Follower", "ClaimingLeader", "Leader", "Syncing"}]
         /\ syncing' \in [Node -> BOOLEAN]
<1>1. syncing' \in [Node -> BOOLEAN]
  BY DEF StartSync, TypeOK
<1>2. \E s \in {"Follower", "Syncing"} : state' = [state EXCEPT ![n] = s]
  BY DEF StartSync
<1>3. state' \in [Node -> {"Follower", "ClaimingLeader", "Leader", "Syncing"}]
  BY <1>2 DEF TypeOK
<1> QED
  BY <1>1, <1>3

LEMMA UpdatesType ==
  ASSUME TypeOK, NEW n \in Node, NEW A \in SUBSET Node
  PROVE  Updates(n, A) \subseteq Message
<1>1. currentTerm[n] \in Nat
  BY DEF TypeOK
<1>2. \A d \in A : [type |-> "update", from |-> n, to |-> d, term |-> currentTerm[n],
                    alive |-> A] \in Message
  BY <1>1, MessageTypes
<1> QED
  BY <1>2 DEF Updates

LEMMA TypeStep ==
  ASSUME TypeOK, [Next]_vars
  PROVE  TypeOK'
<1> USE BootAssumption, BoundAssumption
<1>1. ASSUME NEW n \in Node, Expire(n)
      PROVE  TypeOK'
  BY <1>1 DEF Expire, TypeOK, bounds
<1>2. ASSUME NEW n \in Node, SendHeartbeat(n)
      PROVE  TypeOK'
  <2>1. beats' \subseteq Heartbeat
    BY <1>2 DEF SendHeartbeat, Sent, Heartbeat, TypeOK
  <2> QED
    BY <1>2, <2>1 DEF SendHeartbeat, TypeOK, nodeVars, bounds
<1>3. ASSUME NEW n \in Node, NEW d \in Node, SendFails(n, d)
      PROVE  TypeOK'
  <2>1. failures' \in 0..MaxFailures
    BY <1>3 DEF SendFails, TypeOK
  <2>2. alive' \in [Node -> SUBSET Node]
    BY <1>3 DEF SendFails, TypeOK
  <2>3. net' \subseteq Message
    <3>1. alive[n] \ {d} \in SUBSET Node /\ currentTerm[n] \in Nat
      BY DEF TypeOK
    <3>2. Updates(n, alive[n] \ {d}) \subseteq Message
      BY <3>1, UpdatesType
    <3> QED
      BY <1>3, <3>2 DEF SendFails, Sent, TypeOK
  <2> QED
    BY <1>3, <2>1, <2>2, <2>3 DEF SendFails, TypeOK, nodeVars
<1>4. ASSUME NEW n \in Node, CheckExpected(n)
      PROVE  TypeOK'
  <2>1. CASE state[n] = "Follower"
    <3>1. SelectNewLeader(n, alive[n] \ {expectedLeaderID[n]}, None)
      BY <1>4, <2>1 DEF CheckExpected
    <3>2. alive[n] \ {expectedLeaderID[n]} \in SUBSET Node
      BY DEF TypeOK
    <3> QED
      BY <1>4, <3>1, <3>2, SelectType DEF CheckExpected, TypeOK
  <2>2. CASE state[n] # "Follower"
    <3>1. /\ alive' = [alive EXCEPT ![n] = @ \ {expectedLeaderID[n]}]
          /\ expectedLeaderID' = [expectedLeaderID EXCEPT ![n] = None]
          /\ UNCHANGED <<state, currentTerm, currentLeaderID, expired, waiters, net, claims>>
          /\ UNCHANGED <<up, beats, evals, syncing, votes, failures>>
      BY <1>4, <2>2 DEF CheckExpected
    <3>2. alive' \in [Node -> SUBSET Node] /\ expectedLeaderID' \in [Node -> Node \cup {None}]
      BY <3>1 DEF TypeOK
    <3> QED
      BY <3>1, <3>2 DEF TypeOK
  <2> QED
    BY <2>1, <2>2
<1>5. ASSUME NEW n \in Node, CheckTimeout(n)
      PROVE  TypeOK'
  <2>1. SelectNewLeader(n, alive[n], expectedLeaderID[n])
    BY <1>5 DEF CheckTimeout
  <2>2. alive[n] \in SUBSET Node /\ expectedLeaderID[n] \in Node \cup {None}
    BY DEF TypeOK
  <2> QED
    BY <1>5, <2>1, <2>2, SelectType DEF CheckTimeout, TypeOK
<1>6. ASSUME NEW m \in net, ReceiveClaim(m)
      PROVE  TypeOK'
  <2>1. m \in Message /\ m.from \in Node /\ m.to \in Node /\ m.term \in Nat
    BY <1>6, MessageFields DEF ReceiveClaim, TypeOK
  <2>2. PICK yes \in BOOLEAN, later \in BOOLEAN :
          /\ IF yes THEN Accept(m.to, m.from, m.term)
             ELSE UNCHANGED <<currentLeaderID, currentTerm, expired, votes>>
          /\ expectedLeaderID' = [expectedLeaderID EXCEPT ![m.to] = IF yes THEN None ELSE @]
          /\ evals' = [evals EXCEPT ![m.to] =
               IF later THEN @ \cup {[claimer |-> m.from, term |-> m.term]} ELSE @]
          /\ net' = (net \ {m}) \cup
               (IF later THEN {} ELSE Sent({Ack(m.to, m.from, m.term, yes)}))
    BY <1>6, Zenon DEF ReceiveClaim
  <2>3. /\ currentLeaderID' \in [Node -> Node \cup {None}]
        /\ currentTerm' \in [Node -> Nat]
        /\ expired' \in [Node -> BOOLEAN]
        /\ votes' \subseteq Vote
    BY <2>1, <2>2, AcceptType
  <2>4. expectedLeaderID' \in [Node -> Node \cup {None}]
    BY <2>2 DEF TypeOK
  <2>5. evals' \in [Node -> SUBSET Eval]
    <3>1. [claimer |-> m.from, term |-> m.term] \in Eval
      BY <2>1 DEF Eval
    <3> QED
      BY <2>1, <2>2, <3>1 DEF TypeOK
  <2>6. net' \subseteq Message
    <3>1. Ack(m.to, m.from, m.term, yes) \in Message
      BY <2>1, MessageTypes
    <3> QED
      BY <2>2, <3>1 DEF Sent, TypeOK
  <2> QED
    BY <1>6, <2>3, <2>4, <2>5, <2>6 DEF ReceiveClaim, TypeOK, bounds
<1>7. ASSUME NEW n \in Node, NEW e \in evals[n], Evaluate(n, e)
      PROVE  TypeOK'
  <2>1. e.claimer \in Node /\ e.term \in Nat
    BY DEF TypeOK, Eval
  <2>2. PICK yes \in BOOLEAN :
          /\ IF yes THEN Accept(n, e.claimer, e.term)
             ELSE UNCHANGED <<currentLeaderID, currentTerm, expired, votes>>
          /\ net' = net \cup Sent({Ack(n, e.claimer, e.term, yes)})
    BY <1>7, Zenon DEF Evaluate
  <2>3. /\ currentLeaderID' \in [Node -> Node \cup {None}]
        /\ currentTerm' \in [Node -> Nat]
        /\ expired' \in [Node -> BOOLEAN]
        /\ votes' \subseteq Vote
    BY <2>1, <2>2, AcceptType
  <2>4. alive' \in [Node -> SUBSET Node] /\ evals' \in [Node -> SUBSET Eval]
    BY <1>7 DEF Evaluate, Remaining, TypeOK
  <2>5. net' \subseteq Message
    <3>1. Ack(n, e.claimer, e.term, yes) \in Message
      BY <2>1, MessageTypes
    <3> QED
      BY <2>2, <3>1 DEF Sent, TypeOK
  <2> QED
    BY <1>7, <2>3, <2>4, <2>5 DEF Evaluate, TypeOK, bounds
<1>8. ASSUME NEW n \in Node, NEW i \in DOMAIN waiters[n], FinishClaim(n, i)
      PROVE  TypeOK'
  <2> DEFINE W == [term : Nat \ {0}, yes : Nat]
  <2>1. waiters[n] \in Seq(W) /\ waiters[n][i] \in W
    <3>1. waiters[n] \in Seq(W)
      BY DEF TypeOK
    <3> HIDE DEF W
    <3> QED
      BY <3>1, ElementOfSeq
  <2>2. waiters' \in [Node -> Seq(W)]
    <3>1. Ended(n, i) \in Seq(W)
      <4> HIDE DEF W
      <4>1. DOMAIN waiters[n] = 1..Len(waiters[n]) /\ Len(waiters[n]) \in Nat
        BY <2>1, LenProperties
      <4>2. /\ \A k \in 1..(i - 1) : waiters[n][k] \in W
            /\ \A k \in (i + 1)..Len(waiters[n]) : waiters[n][k] \in W
        BY <2>1, <4>1, ElementOfSeq
      <4>3. SubSeq(waiters[n], 1, i - 1) \in Seq(W)
        BY <4>1, <4>2, SubSeqProperties
      <4>4. SubSeq(waiters[n], i + 1, Len(waiters[n])) \in Seq(W)
        BY <4>1, <4>2, SubSeqProperties
      <4> QED
        BY <4>3, <4>4, ConcatProperties DEF Ended
    <3>2. waiters' = [waiters EXCEPT ![n] = Ended(n, i)]
      BY <1>8 DEF FinishClaim
    <3> HIDE DEF W
    <3>3. waiters \in [Node -> Seq(W)]
      BY DEF TypeOK, W
    <3> QED
      BY <3>1, <3>2, <3>3
  <2>3. /\ state' \in [Node -> {"Follower", "ClaimingLeader", "Leader", "Syncing"}]
        /\ currentTerm' \in [Node -> Nat]
        /\ currentLeaderID' \in [Node -> Node \cup {None}]
    <3>1. CASE state[n] = "ClaimingLeader" /\ currentTerm[n] = waiters[n][i].term
      <4>1. currentTerm[n] \in Nat /\ currentTerm[n] - 1 \in Nat
        BY <2>1, <3>1
      <4>2. \E s \in {"Leader", "Follower"}, k \in {currentTerm[n], currentTerm[n] - 1},
              l \in {n, None} :
              /\ state' = [state EXCEPT ![n] = s]
              /\ currentTerm' = [currentTerm EXCEPT ![n] = k]
              /\ currentLeaderID' = [currentLeaderID EXCEPT ![n] = l]
        BY <1>8, <3>1 DEF FinishClaim
      <4> QED
        BY SMTT(30), <4>1, <4>2 DEF TypeOK
    <3>2. CASE ~(state[n] = "ClaimingLeader" /\ currentTerm[n] = waiters[n][i].term)
      BY <1>8, <3>2 DEF FinishClaim, TypeOK
    <3> QED
      BY <3>1, <3>2
  <2> QED
    BY <1>8, <2>2, <2>3 DEF FinishClaim, TypeOK, bounds
<1>9. ASSUME NEW n \in Node, NEW i \in DOMAIN waiters[n], NEW m \in net, CollectAck(n, i, m)
      PROVE  TypeOK'
  <2> DEFINE W == [term : Nat \ {0}, yes : Nat]
  <2>1. waiters[n] \in Seq(W) /\ waiters[n][i] \in W
    <3>1. waiters[n] \in Seq(W)
      BY DEF TypeOK
    <3> HIDE DEF W
    <3> QED
      BY <3>1, ElementOfSeq
  <2>2. waiters' \in [Node -> Seq(W)]
    <3>1. PICK y \in Nat : waiters' = [waiters EXCEPT ![n][i].yes = y]
      <4>1. waiters[n][i].yes \in Nat /\ waiters[n][i].yes + 1 \in Nat
        BY <2>1
      <4>2. \/ waiters' = [waiters EXCEPT ![n][i].yes = waiters[n][i].yes + 1]
            \/ waiters' = [waiters EXCEPT ![n][i].yes = waiters[n][i].yes]
        BY <1>9, Zenon DEF CollectAck
      <4> QED
        BY <4>1, <4>2
    <3>2. [waiters[n] EXCEPT ![i].yes = y] \in Seq(W)
      <4>1. [waiters[n][i] EXCEPT !.yes = y] \in W
        BY <2>1
      <4>2. [waiters[n] EXCEPT ![i] = [waiters[n][i] EXCEPT !.yes = y]] \in Seq(W)
        <5> HIDE DEF W
        <5> QED
          BY <2>1, <4>1, ExceptSeq
      <4> QED
        BY <4>2
    <3>3. waiters \in [Node -> Seq(W)]
      BY DEF TypeOK
    <3> HIDE DEF W
    <3> QED
      BY <3>1, <3>2, <3>3
  <2>3. net' \subseteq Message
    BY <1>9 DEF CollectAck, TypeOK
  <2> QED
    BY <1>9, <2>2, <2>3 DEF CollectAck, TypeOK, nodeVars, bounds
<1>10. ASSUME NEW b \in beats, ReceiveHeartbeat(b)
       PROVE  TypeOK'
  <2>1. b.from \in Node /\ b.to \in Node /\ b.term \in Nat
    BY DEF TypeOK, Heartbeat
  <2>2. CASE b.term < currentTerm[b.to]
    <3>1. net' \subseteq Message
      <4>1. /\ currentTerm[b.to] \in Nat /\ currentLeaderID[b.to] \in Node \cup {None}
            /\ alive[b.to] \in SUBSET Node
        BY <2>1 DEF TypeOK
      <4>2. [type |-> "response", from |-> b.to, to |-> b.from, term |-> currentTerm[b.to],
             leader |-> currentLeaderID[b.to], alive |-> alive[b.to]] \in Message
        BY <2>1, <4>1, MessageTypes
      <4> QED
        BY <1>10, <2>2, <4>2 DEF ReceiveHeartbeat, Sent, TypeOK
    <3> QED
      BY <1>10, <2>2, <3>1 DEF ReceiveHeartbeat, TypeOK, nodeVars, bounds
  <2>3. CASE ~(b.term < currentTerm[b.to])
    <3>1. /\ currentTerm' \in [Node -> Nat]
          /\ currentLeaderID' \in [Node -> Node \cup {None}]
          /\ expectedLeaderID' \in [Node -> Node \cup {None}]
          /\ alive' \in [Node -> SUBSET Node]
          /\ net' = net
      <4>1. /\ currentTerm' = [currentTerm EXCEPT ![b.to] = b.term]
            /\ currentLeaderID' = [currentLeaderID EXCEPT ![b.to] = b.from]
            /\ expectedLeaderID' = [expectedLeaderID EXCEPT ![b.to] = None]
            /\ alive' = [alive EXCEPT ![b.to] = @ \cup {b.from}]
            /\ net' = net
        BY <1>10, <2>3 DEF ReceiveHeartbeat
      <4> QED
        BY <2>1, <4>1 DEF TypeOK
    <3>2. expired' \in [Node -> BOOLEAN]
      <4>1. expired' = [expired EXCEPT ![b.to] = FALSE]
        BY <1>10, <2>3 DEF ReceiveHeartbeat
      <4> QED
        BY <4>1 DEF TypeOK
    <3>3. \/ /\ state' = [state EXCEPT ![b.to] =
                   IF @ \in {"Leader", "ClaimingLeader"} THEN "Follower" ELSE @]
             /\ UNCHANGED syncing
          \/ StartSync(b.to)
      BY <1>10, <2>3 DEF ReceiveHeartbeat
    <3>4. /\ state' \in [Node -> {"Follower", "ClaimingLeader", "Leader", "Syncing"}]
          /\ syncing' \in [Node -> BOOLEAN]
      <4>1. CASE StartSync(b.to)
        BY <4>1, StartSyncType
      <4>2. CASE /\ state' = [state EXCEPT ![b.to] =
                      IF @ \in {"Leader", "ClaimingLeader"} THEN "Follower" ELSE @]
                 /\ UNCHANGED syncing
        BY <4>2 DEF TypeOK
      <4> QED
        BY <3>3, <4>1, <4>2
    <3> QED
      BY <1>10, <3>1, <3>2, <3>4 DEF ReceiveHeartbeat, TypeOK, bounds
  <2> QED
    BY <2>2, <2>3
<1>11. ASSUME NEW m \in net, ReceiveResponse(m)
       PROVE  TypeOK'
  <2>1. /\ m.from \in Node /\ m.to \in Node /\ m.term \in Nat
        /\ m.leader \in Node \cup {None} /\ m.alive \in SUBSET Node
    BY <1>11, MessageFields DEF ReceiveResponse, TypeOK
  <2> DEFINE heeds == /\ state[m.to] \in {"Leader", "ClaimingLeader"}
                      /\ m.term > currentTerm[m.to]
                      /\ m.leader \notin {None, m.to}
  <2>2. CASE heeds
    <3>1. /\ currentTerm' = [currentTerm EXCEPT ![m.to] = m.term]
          /\ currentLeaderID' = [currentLeaderID EXCEPT ![m.to] = m.leader]
          /\ expectedLeaderID' = [expectedLeaderID EXCEPT ![m.to] = None]
          /\ expired' = [expired EXCEPT ![m.to] = FALSE]
          /\ alive' = [alive EXCEPT ![m.to] = m.alive \cup {m.to}]
          /\ StartSync(m.to)
          /\ net' = (net \ {m}) \cup Sent({[type |-> "join", from |-> m.to, to |-> m.leader]})
      BY <1>11, <2>2 DEF ReceiveResponse
    <3>2. /\ currentTerm' \in [Node -> Nat]
          /\ currentLeaderID' \in [Node -> Node \cup {None}]
          /\ expectedLeaderID' \in [Node -> Node \cup {None}]
          /\ alive' \in [Node -> SUBSET Node]
      BY <2>1, <3>1 DEF TypeOK
    <3>3. expired' \in [Node -> BOOLEAN]
      BY <3>1 DEF TypeOK
    <3>4. state' \in [Node -> {"Follower", "ClaimingLeader", "Leader", "Syncing"}]
      BY <3>1 DEF StartSync, TypeOK
    <3>5. syncing' \in [Node -> BOOLEAN]
      BY <3>1 DEF StartSync, TypeOK
    <3>6. net' \subseteq Message
      <4>1. [type |-> "join", from |-> m.to, to |-> m.leader] \in Message
        BY <2>1, <2>2 DEF Message
      <4> QED
        BY <3>1, <4>1 DEF Sent, TypeOK
    <3> QED
      BY <1>11, <3>2, <3>3, <3>4, <3>5, <3>6 DEF ReceiveResponse, TypeOK, bounds
  <2>3. CASE ~heeds
    <3>1. net' = net \ {m} /\ UNCHANGED <<nodeVars, alive, syncing>>
      BY <1>11, <2>3 DEF ReceiveResponse
    <3> QED
      BY <1>11, <3>1 DEF ReceiveResponse, TypeOK, nodeVars, bounds
  <2> QED
    BY <2>2, <2>3
<1>12. ASSUME NEW m \in net, ReceiveUpdate(m)
       PROVE  TypeOK'
  <2>1. m.to \in Node /\ m.alive \in SUBSET Node
    BY <1>12, MessageFields DEF ReceiveUpdate, TypeOK
  <2>2. alive' \in [Node -> SUBSET Node] /\ net' \subseteq Message
    BY <1>12, <2>1 DEF ReceiveUpdate, TypeOK
  <2> QED
    BY <1>12, <2>2 DEF ReceiveUpdate, TypeOK, nodeVars, bounds
<1>13. ASSUME NEW m \in net, ReceiveJoin(m)
       PROVE  TypeOK'
  <2>1. m.to \in Node /\ m.from \in Node
    BY MessageFields DEF TypeOK
  <2> DEFINE A == alive[m.to] \cup {m.from}
  <2>2. A \in SUBSET Node /\ currentTerm[m.to] \in Nat
    BY <2>1 DEF TypeOK
  <2>3. /\ Updates(m.to, A) \subseteq Message
        /\ [type |-> "joined", from |-> m.to, to |-> m.from, term |-> currentTerm[m.to],
            alive |-> A] \in Message
    <3> HIDE DEF A
    <3> QED
      BY <2>1, <2>2, MessageTypes, UpdatesType
  <2>4. alive' \in [Node -> SUBSET Node]
    <3>1. alive' = alive \/ alive' = [alive EXCEPT ![m.to] = A]
      BY <1>13 DEF ReceiveJoin
    <3> QED
      BY <2>2, <3>1 DEF TypeOK
  <2>5. net' \subseteq Message
    <3>1. \/ net' = net \ {m}
          \/ net' = (net \ {m}) \cup Sent(Updates(m.to, A)) \cup
               Sent({[type |-> "joined", from |-> m.to, to |-> m.from,
                      term |-> currentTerm[m.to], alive |-> A]})
      BY <1>13 DEF ReceiveJoin
    <3> HIDE DEF A
    <3> QED
      BY <2>3, <3>1 DEF Sent, TypeOK
  <2> QED
    BY <1>13, <2>4, <2>5 DEF ReceiveJoin, TypeOK, nodeVars, bounds
<1>14. ASSUME NEW m \in net, ReceiveJoined(m)
       PROVE  TypeOK'
  <2>1. /\ m.to \in Node /\ m.from \in Node /\ m.term \in Nat /\ m.alive \in SUBSET Node
    BY <1>14, MessageFields DEF ReceiveJoined, TypeOK
  <2>2. /\ alive' \in [Node -> SUBSET Node]
        /\ currentLeaderID' \in [Node -> Node \cup {None}]
        /\ currentTerm' \in [Node -> Nat]
        /\ net' \subseteq Message
    BY <1>14, <2>1 DEF ReceiveJoined, TypeOK
  <2>3. expired' \in [Node -> BOOLEAN]
    BY <1>14 DEF ReceiveJoined, TypeOK
  <2>4. state' \in [Node -> {"Follower", "ClaimingLeader", "Leader", "Syncing"}]
    BY <1>14, <2>1 DEF ReceiveJoined, StartSync, TypeOK
  <2>5. syncing' \in [Node -> BOOLEAN]
    BY <1>14, <2>1 DEF ReceiveJoined, StartSync, TypeOK
  <2> QED
    BY <1>14, <2>2, <2>3, <2>4, <2>5 DEF ReceiveJoined, TypeOK, bounds
<1>15. ASSUME NEW n \in Node, ExitSync(n)
       PROVE  TypeOK'
  <2>1. syncing' \in [Node -> BOOLEAN] /\ expired' \in [Node -> BOOLEAN]
    BY <1>15 DEF ExitSync, TypeOK
  <2>2. state' \in [Node -> {"Follower", "ClaimingLeader", "Leader", "Syncing"}]
    BY <1>15 DEF ExitSync, TypeOK
  <2> QED
    BY <1>15, <2>1, <2>2 DEF ExitSync, TypeOK, bounds
<1>16. ASSUME NEW n \in Node, Crash(n)
       PROVE  TypeOK'
  <2>1. up' \in [Node -> BOOLEAN]
    BY <1>16 DEF Crash, TypeOK
  <2> QED
    BY <1>16, <2>1 DEF Crash, TypeOK, nodeVars, bounds
<1>17. CASE UNCHANGED vars
  BY <1>17 DEF vars, nodeVars, bounds, TypeOK
<1> QED
  BY <1>1, <1>2, <1>3, <1>4, <1>5, <1>6, <1>7, <1>8, <1>9, <1>10, <1>11, <1>12, <1>13,
     <1>14, <1>15, <1>16, <1>17
  DEF Next, Step, Timer, Claim, Receive

\* Every variable keeps its type, however many claims there are: in particular
\* a term never falls below 0 (finishClaim decrements it).
THEOREM TypeCorrect == Spec => []TypeOK
<1>1. Init => TypeOK
  BY BootAssumption, BoundAssumption DEF Init, TypeOK
<1>2. TypeOK /\ [Next]_vars => TypeOK'
  BY TypeStep
<1> QED
  BY <1>1, <1>2, PTL DEF Spec

-----------------------------------------------------------------------------
(* One succession: the inductive invariant, if at most one claim is made *)

\* The node that has made the claim.
Claimer(n) == claims # <<>> /\ claims[1].claimer = n

\* Whoever has said YES, and of those whose YES is not in flight any more.
Voters == {v.voter : v \in votes}
Yes(d, c) == Ack(d, c, 1, TRUE)
Collected == {d \in Voters : \A c \in Node : Yes(d, c) \notin net}

\* The claimer has its majority.
Chosen(n) == Claimer(n) /\ Majority <= Cardinality(Voters) + 1

\* Nobody takes a node for its leader but Boot and, once it has a vote, the claimer.
Known(l) == l \in {None, Boot} \/ (Claimer(l) /\ votes # {})

OneClaim ==
  /\ Len(claims) <= 1
  /\ claims # <<>> => claims[1].claimer # Boot /\ claims[1].term = 1

\* Boot leads in term 0 until it hears of term 1; the claimer claims and leads in
\* term 1; everybody else follows.
Role(n) ==
  /\ currentTerm[n] \in {0, 1}
  /\ currentTerm[n] = 1 => claims # <<>>
  /\ state[n] = "Leader" =>
       \/ n = Boot /\ currentTerm[n] = 0 /\ expectedLeaderID[n] = None /\ evals[n] = {}
       \/ Chosen(n) /\ currentTerm[n] = 1
  /\ state[n] = "ClaimingLeader" => Claimer(n) /\ currentTerm[n] = 1
  /\ n = Boot /\ state[n] # "Leader" => currentTerm[n] = 1
  /\ Known(currentLeaderID[n])
  /\ \A e \in evals[n] : Claimer(e.claimer) /\ e.term = 1 /\ n # e.claimer

\* What a message in flight tells: only Boot is ever behind, and asks to join.
Letter(m) ==
  /\ m.type = "claim" => Claimer(m.from) /\ m.term = 1 /\ m.to # m.from
  /\ m.type = "ack" => Claimer(m.to) /\ m.term = 1 /\ m.from # m.to
  /\ m.type = "response" => m.to = Boot /\ m.term = 1 /\ Known(m.leader)
  /\ m.type = "join" => m.from = Boot /\ Claimer(m.to) /\ state[Boot] # "Leader"
  /\ m.type = "joined" =>
       m.to = Boot /\ Chosen(m.from) /\ m.term = 1 /\ state[Boot] # "Leader"

Beat(b) ==
  /\ b.to # b.from
  /\ (b.from = Boot /\ b.term = 0) \/ (Chosen(b.from) /\ b.term = 1)

\* A node votes once: its vote is still to come as a claim in flight, or as a
\* claim it evaluates, or it is given.
Ballot(d) ==
  /\ \A v \in votes : v.voter = d =>
       Claimer(v.claimer) /\ v.term = 1 /\ v.claimer # d /\ currentTerm[d] = 1
  /\ (\E m \in net : m.type = "claim" /\ m.to = d) => d \notin Voters /\ evals[d] = {}
  /\ evals[d] # {} => d \notin Voters
  /\ \A c \in Node : Yes(d, c) \in net => d \in Voters

\* The claim's waiter counts no vote twice.
Count(n) ==
  waiters[n] # <<>> =>
    /\ Claimer(n) /\ Len(waiters[n]) = 1
    /\ waiters[n][1].term = 1
    /\ waiters[n][1].yes <= Cardinality(Collected) + 1

IInv ==
  /\ TypeOK
  /\ OneClaim
  /\ \A n \in Node : Role(n) /\ Ballot(n) /\ Count(n)
  /\ \A m \in net : Letter(m)
  /\ \A b \in beats : Beat(b)

\* Claims and votes only come up, and a deposed Boot stays deposed.
Grows ==
  /\ claims' = claims \/ claims = <<>>
  /\ votes \subseteq votes'
  /\ state[Boot] # "Leader" => state'[Boot] # "Leader"

LEMMA VotersFinite ==
  ASSUME TypeOK
  PROVE  /\ Voters \in SUBSET Node /\ IsFiniteSet(Voters) /\ Cardinality(Voters) \in Nat
         /\ IsFiniteSet(Collected) /\ Cardinality(Collected) \in Nat
         /\ Cardinality(Collected) <= Cardinality(Voters)
         /\ Majority \in Nat
<1>1. Voters \in SUBSET Node
  BY DEF Voters, TypeOK, Vote
<1>2. IsFiniteSet(Voters)
  BY <1>1, NodeAssumption, FS_Subset
<1>3. Collected \in SUBSET Voters
  BY DEF Collected
<1>4. IsFiniteSet(Collected) /\ Cardinality(Collected) <= Cardinality(Voters)
  BY <1>2, <1>3, FS_Subset
<1>5. Cardinality(Voters) \in Nat /\ Cardinality(Collected) \in Nat /\ Cardinality(Node) \in Nat
  BY <1>2, <1>4, NodeAssumption, FS_CardinalityType
<1>6. Majority \in Nat
  BY <1>5 DEF Majority
<1> QED
  BY <1>1, <1>2, <1>4, <1>5, <1>6

\* What has come up stays.
LEMMA Monotone ==
  ASSUME TypeOK, TypeOK', Grows, NEW n
  PROVE  /\ Voters \subseteq Voters'
         /\ Claimer(n) => Claimer(n)'
         /\ Chosen(n) => Chosen(n)'
         /\ Known(n) => Known(n)'
<1>1. Claimer(n) => Claimer(n)'
  BY DEF Grows, Claimer
<1>2. Voters \subseteq Voters'
  BY DEF Grows, Voters
<1>3. /\ Cardinality(Voters) <= Cardinality(Voters')
      /\ Cardinality(Voters) \in Nat /\ Cardinality(Voters') \in Nat /\ Majority \in Nat
  <2>1. IsFiniteSet(Voters') /\ Cardinality(Voters') \in Nat
    <3>1. Voters' \in SUBSET Node
      BY DEF Voters, TypeOK, Vote
    <3>2. IsFiniteSet(Voters')
      BY <3>1, NodeAssumption, FS_Subset
    <3> QED
      BY <3>2, FS_CardinalityType
  <2>2. Cardinality(Voters) <= Cardinality(Voters')
    BY <1>2, <2>1, FS_Subset
  <2> QED
    BY <2>1, <2>2, VotersFinite
<1>4. Chosen(n) => Chosen(n)'
  BY <1>1, <1>3 DEF Chosen, Majority
<1>5. Known(n) => Known(n)'
  BY <1>1 DEF Known, Grows
<1> QED
  BY <1>1, <1>2, <1>4, <1>5

\* There is one claimer, and it is not Boot.
LEMMA OneClaimer ==
  ASSUME OneClaim, NEW m, NEW n, Claimer(m)
  PROVE  m # Boot /\ (Claimer(n) => m = n)
BY DEF OneClaim, Claimer

\* A node whose own fields a step leaves alone keeps its role, and so does one that
\* only gives up what it expects or follows.
LEMMA RoleKept ==
  ASSUME TypeOK, TypeOK', Grows, NEW n \in Node, Role(n),
         state'[n] = state[n] \/ (state[n] # "Leader" /\ state'[n] = "Follower"),
         currentTerm'[n] = currentTerm[n],
         currentLeaderID'[n] \in {currentLeaderID[n], None},
         expectedLeaderID'[n] = expectedLeaderID[n] \/ state[n] # "Leader",
         \A e \in evals'[n] : e \in evals[n]
  PROVE  Role(n)'
<1>1. \A k : /\ Claimer(k) => Claimer(k)'
             /\ Chosen(k) => Chosen(k)'
             /\ Known(k) => Known(k)'
  BY Monotone
<1>2. claims # <<>> => claims' # <<>>
  BY DEF Grows
<1>3. Known(currentLeaderID[n])'
  <2>1. Known(currentLeaderID[n]) => Known(currentLeaderID[n])'
    BY <1>1 DEF Known, Grows, Role
  <2> QED
    BY <1>1 DEF Role, Known
<1>4. \A e \in evals'[n] : Claimer(e.claimer)' /\ e.term = 1 /\ n # e.claimer
  BY <1>1 DEF Role
<1>5. state'[n] = "Leader" => state[n] = "Leader" /\ (evals[n] = {} => evals'[n] = {})
  OBVIOUS
<1>6. /\ state'[n] = "Leader" =>
           \/ n = Boot /\ currentTerm'[n] = 0 /\ expectedLeaderID'[n] = None /\ evals'[n] = {}
           \/ Chosen(n)' /\ currentTerm'[n] = 1
      /\ state'[n] = "ClaimingLeader" => Claimer(n)' /\ currentTerm'[n] = 1
      /\ n = Boot /\ state'[n] # "Leader" => currentTerm'[n] = 1
  BY <1>1, <1>5 DEF Role
<1>7. currentTerm'[n] \in {0, 1} /\ (currentTerm'[n] = 1 => claims' # <<>>)
  BY <1>2 DEF Role
<1> QED
  BY <1>3, <1>4, <1>6, <1>7 DEF Role

LEMMA LetterKept ==
  ASSUME TypeOK, TypeOK', Grows, NEW m, Letter(m)
  PROVE  Letter(m)'
<1>1. \A k : /\ Claimer(k) => Claimer(k)'
             /\ Chosen(k) => Chosen(k)'
             /\ Known(k) => Known(k)'
  BY Monotone
<1>2. state[Boot] # "Leader" => state'[Boot] # "Leader"
  BY DEF Grows
<1> QED
  BY <1>1, <1>2 DEF Letter

LEMMA BeatKept ==
  ASSUME TypeOK, TypeOK', Grows, NEW b, Beat(b)
  PROVE  Beat(b)'
BY Monotone DEF Beat

\* A count stays right while YES answers are only taken in.
LEMMA CountKept ==
  ASSUME TypeOK, TypeOK', Grows, NEW n \in Node, Count(n), waiters'[n] = waiters[n],
         Collected \subseteq Collected'
  PROVE  Count(n)'
<1>1. Cardinality(Collected) <= Cardinality(Collected')
      /\ Cardinality(Collected) \in Nat /\ Cardinality(Collected') \in Nat
  <2>1. Collected' \in SUBSET Node
    BY SMTT(30) DEF Collected, Voters, TypeOK, Vote
  <2>2. IsFiniteSet(Collected')
    BY <2>1, NodeAssumption, FS_Subset
  <2> QED
    BY <2>2, FS_Subset, FS_CardinalityType, VotersFinite
<1>2. waiters[n] # <<>> => waiters[n][1].yes \in Nat
  <2> DEFINE W == [term : Nat \ {0}, yes : Nat]
  <2>1. waiters[n] \in Seq(W)
    BY DEF TypeOK
  <2>2. waiters[n] # <<>> => waiters[n][1] \in W
    <3> HIDE DEF W
    <3> QED
      BY <2>1, HeadTailProperties
  <2> QED
    BY <2>2
<1>3. Claimer(n) => Claimer(n)'
  BY Monotone
<1> QED
  BY <1>1, <1>2, <1>3 DEF Count

\* A step that neither claims nor answers keeps ballots and counts.
LEMMA BallotsKept ==
  ASSUME IInv, TypeOK', Grows, UNCHANGED <<claims, votes, evals, waiters>>,
         \A m \in net' \ net : m.type \notin {"claim", "ack"},
         \A d \in Node : currentTerm[d] = 1 => currentTerm'[d] = 1
  PROVE  \A n \in Node : Ballot(n)' /\ Count(n)'
<1>1. \A d, c \in Node : Yes(d, c) \in net' => Yes(d, c) \in net
  BY DEF Yes, Ack
<1>2. Voters' = Voters
  BY DEF Voters
<1>3. \A n \in Node : Ballot(n)'
  <2> TAKE n \in Node
  <2>1. Ballot(n)
    BY DEF IInv
  <2>2. (\E m \in net' : m.type = "claim" /\ m.to = n) => (\E m \in net : m.type = "claim" /\ m.to = n)
    OBVIOUS
  <2>3. \A c : Claimer(c)' <=> Claimer(c)
    BY DEF Claimer
  <2> QED
    BY <1>1, <1>2, <2>1, <2>2, <2>3 DEF Ballot
<1>4. Collected \subseteq Collected'
  <2>1. TypeOK
    BY DEF IInv
  <2>2. \A d \in Collected : d \in Voters' /\ d \in Node /\ \A c \in Node : Yes(d, c) \notin net
    BY <1>2, <2>1, VotersFinite DEF Collected
  <2>3. \A d \in Collected : \A c \in Node : Yes(d, c) \notin net'
    BY <1>1, <2>2
  <2> QED
    BY <2>2, <2>3 DEF Collected, Yes, Ack
<1>5. \A n \in Node : Count(n)'
  BY <1>4, CountKept DEF IInv
<1> QED
  BY <1>3, <1>5

\* The step leaves the fields of node n alone that its role is about.
OwnKept(n) ==
  /\ state'[n] = state[n] /\ currentTerm'[n] = currentTerm[n]
  /\ currentLeaderID'[n] = currentLeaderID[n]
  /\ expectedLeaderID'[n] = expectedLeaderID[n]

\* A step of one node that neither claims nor answers a claim.
LEMMA CalmStep ==
  ASSUME IInv, TypeOK', Grows, UNCHANGED <<claims, votes, evals, waiters>>,
         \A m \in net' : m \in net \/ (Letter(m)' /\ m.type \notin {"claim", "ack"}),
         \A b \in beats' : b \in beats \/ Beat(b)',
         \A d \in Node : currentTerm[d] = 1 => currentTerm'[d] = 1,
         NEW n \in Node, Role(n)', \A k \in Node \ {n} : OwnKept(k)
  PROVE  IInv'
<1>1. OneClaim'
  BY DEF IInv, OneClaim
<1>2. \A k \in Node : Role(k)'
  <2>1. ASSUME NEW k \in Node, k # n
        PROVE  Role(k)'
    <3>1. TypeOK /\ Role(k) /\ OwnKept(k)
      BY <2>1 DEF IInv
    <3>2. \A e \in evals'[k] : e \in evals[k]
      OBVIOUS
    <3> QED
      BY <3>1, <3>2, RoleKept DEF OwnKept
  <2> QED
    BY <2>1
<1>3. \A k \in Node : Ballot(k)' /\ Count(k)'
  <2>1. \A m \in net' \ net : m.type \notin {"claim", "ack"}
    OBVIOUS
  <2> QED
    BY <2>1, BallotsKept
<1>4. \A m \in net' : Letter(m)'
  BY LetterKept DEF IInv
<1>5. \A b \in beats' : Beat(b)'
  BY BeatKept DEF IInv
<1> QED
  BY <1>1, <1>2, <1>3, <1>4, <1>5 DEF IInv

\* With a claimer besides Boot, a majority takes a vote.
LEMMA ChosenHasVote ==
  ASSUME TypeOK, NEW n \in Node, n # Boot, Chosen(n)
  PROVE  votes # {}
<1>1. Cardinality({n, Boot}) = 2
  <2>1. IsFiniteSet({Boot}) /\ Cardinality({Boot}) = 1
    BY FS_Singleton
  <2>2. Cardinality({Boot} \cup {n}) = Cardinality({Boot}) + 1
    BY <2>1, FS_AddElement
  <2>3. {n, Boot} = {Boot} \cup {n}
    OBVIOUS
  <2> QED
    BY <2>1, <2>2, <2>3
<1>2. 2 <= Cardinality(Node) /\ Cardinality(Node) \in Nat
  <2>1. {n, Boot} \subseteq Node
    BY BootAssumption
  <2>2. Cardinality({n, Boot}) <= Cardinality(Node) /\ Cardinality(Node) \in Nat
    BY <2>1, NodeAssumption, FS_Subset, FS_CardinalityType
  <2> QED
    BY <1>1, <2>2
<1>3. 2 <= Majority
  BY <1>2 DEF Majority
<1>4. Cardinality(Voters) # 0
  BY <1>3, VotersFinite DEF Chosen
<1>5. votes = {} => Voters = {}
  BY DEF Voters
<1> QED
  BY <1>4, <1>5, FS_EmptySet

-----------------------------------------------------------------------------
(* One succession: the steps without an answer to a claim *)

\* A step that touches no own field of any node but for timers.
LEMMA TimerKeeps ==
  ASSUME IInv, TypeOK', UNCHANGED <<claims, votes, evals, waiters>>,
         UNCHANGED <<state, currentTerm, currentLeaderID, expectedLeaderID>>,
         \A m \in net' : m \in net \/ m.type = "update",
         \A b \in beats' : b \in beats \/ Beat(b)
  PROVE  IInv'
<1>1. Grows
  BY DEF Grows
<1>2. Role(Boot)'
  <2>1. Role(Boot) /\ TypeOK
    BY BootAssumption DEF IInv
  <2> QED
    BY <1>1, <2>1, BootAssumption, RoleKept
<1>3. \A m \in net' : m \in net \/ (Letter(m)' /\ m.type \notin {"claim", "ack"})
  BY DEF Letter
<1>4. \A b \in beats' : b \in beats \/ Beat(b)'
  BY <1>1, BeatKept DEF IInv
<1>5. \A k \in Node \ {Boot} : OwnKept(k)
  BY DEF OwnKept
<1> QED
  BY <1>1, <1>2, <1>3, <1>4, <1>5, BootAssumption, CalmStep

\* A node stops expecting or following a leader, or leaves a sync.
LEMMA LetsGo ==
  ASSUME IInv, TypeOK', UNCHANGED <<claims, votes, evals, waiters, net, beats, currentTerm>>,
         NEW n \in Node, state[n] # "Leader", state'[n] \in {state[n], "Follower"},
         currentLeaderID'[n] \in {currentLeaderID[n], None},
         \A k \in Node \ {n} : OwnKept(k)
  PROVE  IInv'
<1>1. Grows
  <2>1. state[Boot] # "Leader" => state'[Boot] # "Leader"
    BY BootAssumption DEF OwnKept
  <2> QED
    BY <2>1 DEF Grows
<1>2. Role(n)'
  <2>1. Role(n) /\ TypeOK
    BY DEF IInv
  <2> QED
    BY <1>1, <2>1, RoleKept
<1> QED
  BY <1>1, <1>2, CalmStep

LEMMA ExpireKeeps ==
  ASSUME IInv, TypeOK', NEW n \in Node, Expire(n)
  PROVE  IInv'
BY TimerKeeps DEF Expire, bounds

LEMMA SendHeartbeatKeeps ==
  ASSUME IInv, TypeOK', NEW n \in Node, SendHeartbeat(n)
  PROVE  IInv'
<1>1. Role(n)
  BY DEF IInv
<1>2. beats' = beats \cup Sent({[from |-> n, to |-> d, term |-> currentTerm[n]] : d \in alive[n]})
  BY DEF SendHeartbeat
<1>3. (n = Boot /\ currentTerm[n] = 0) \/ (Chosen(n) /\ currentTerm[n] = 1)
  BY <1>1 DEF SendHeartbeat, Role
<1>4. \A b \in beats' : b \in beats \/ Beat(b)
  BY <1>2, <1>3 DEF Sent, Beat
<1> QED
  BY <1>4, TimerKeeps DEF SendHeartbeat, nodeVars, bounds

LEMMA SendFailsKeeps ==
  ASSUME IInv, TypeOK', NEW n \in Node, NEW d \in Node, SendFails(n, d)
  PROVE  IInv'
<1>1. \A m \in net' : m \in net \/ m.type = "update"
  BY DEF SendFails, Sent, Updates
<1> QED
  BY <1>1, TimerKeeps DEF SendFails, nodeVars

LEMMA ReceiveUpdateKeeps ==
  ASSUME IInv, TypeOK', NEW m \in net, ReceiveUpdate(m)
  PROVE  IInv'
BY TimerKeeps DEF ReceiveUpdate, nodeVars, bounds

LEMMA CrashKeeps ==
  ASSUME IInv, TypeOK', NEW n \in Node, Crash(n)
  PROVE  IInv'
BY TimerKeeps DEF Crash, nodeVars, bounds

LEMMA StutterKeeps ==
  ASSUME IInv, TypeOK', UNCHANGED vars
  PROVE  IInv'
BY TimerKeeps DEF vars, nodeVars, bounds

LEMMA ExitSyncKeeps ==
  ASSUME IInv, TypeOK', NEW n \in Node, ExitSync(n)
  PROVE  IInv'
<1>1. state' = [state EXCEPT ![n] = IF @ = "Syncing" THEN "Follower" ELSE @]
      /\ UNCHANGED <<currentTerm, currentLeaderID, expectedLeaderID, beats, waiters, evals,
                     net, votes, claims>>
  BY DEF ExitSync, bounds
<1>2. TypeOK
  BY DEF IInv
<1>3. CASE state[n] = "Leader"
  <2>1. state' = state
    BY <1>1, <1>2, <1>3 DEF TypeOK
  <2> QED
    BY <1>1, <2>1, TimerKeeps
<1>4. CASE state[n] # "Leader"
  <2>1. state'[n] \in {state[n], "Follower"} /\ \A k \in Node \ {n} : OwnKept(k)
    BY <1>1, <1>2 DEF TypeOK, OwnKept
  <2> QED
    BY <1>1, <1>4, <2>1, LetsGo
<1> QED
  BY <1>3, <1>4

\* The only leader ever asked to let somebody join is the claimer.
LEMMA ReceiveJoinKeeps ==
  ASSUME IInv, TypeOK', NEW m \in net, ReceiveJoin(m)
  PROVE  IInv'
<1>1. TypeOK /\ m \in Message /\ m.to \in Node /\ m.from \in Node /\ m.type = "join"
  BY MessageFields DEF IInv, TypeOK, ReceiveJoin
<1>2. UNCHANGED <<state, currentTerm, currentLeaderID, expectedLeaderID, beats, waiters, evals,
                  votes, claims>>
  BY DEF ReceiveJoin, nodeVars, bounds
<1>3. CASE state[m.to] # "Leader"
  <2>1. net' = net \ {m}
    BY <1>3 DEF ReceiveJoin
  <2> QED
    BY <1>2, <2>1, TimerKeeps
<1>4. CASE state[m.to] = "Leader"
  <2> DEFINE A == alive[m.to] \cup {m.from}
  <2> PICK j : j = [type |-> "joined", from |-> m.to, to |-> m.from,
                    term |-> currentTerm[m.to], alive |-> A]
    OBVIOUS
  <2>1. net' = (net \ {m}) \cup Sent(Updates(m.to, A)) \cup Sent({j})
    BY <1>4 DEF ReceiveJoin
  <2>2. Letter(m) /\ Role(m.to) /\ OneClaim
    BY <1>1 DEF IInv
  <2>3. Letter(j) /\ j.type = "joined"
    <3>1. m.from = Boot /\ Claimer(m.to) /\ state[Boot] # "Leader"
      BY <1>1, <2>2 DEF Letter
    <3>2. m.to # Boot
      BY <2>2, <3>1, OneClaimer
    <3>3. Chosen(m.to) /\ currentTerm[m.to] = 1
      BY <1>4, <2>2, <3>2 DEF Role
    <3> QED
      BY <3>1, <3>3 DEF Letter
  <2>4. Grows
    BY <1>2 DEF Grows
  <2>5. \A x \in Updates(m.to, A) : x.type = "update"
    BY DEF Updates
  <2> HIDE DEF A
  <2>6. \A x \in net' : x \in net \/ (Letter(x)' /\ x.type \notin {"claim", "ack"})
    <3>1. Letter(j)'
      BY <1>1, <2>3, <2>4, LetterKept
    <3> QED
      BY <2>1, <2>3, <2>5, <3>1 DEF Letter, Sent
  <2>7. Role(m.to)'
    BY <1>1, <1>2, <2>2, <2>4, RoleKept
  <2>8. \A k \in Node \ {m.to} : OwnKept(k)
    BY <1>2 DEF OwnKept
  <2> QED
    BY <1>1, <1>2, <2>4, <2>6, <2>7, <2>8, CalmStep
<1> QED
  BY <1>3, <1>4

\* A stale heartbeat is Boot's, and the answer tells it of term 1; a later one
\* makes a follower of anybody.
LEMMA ReceiveHeartbeatKeeps ==
  ASSUME IInv, TypeOK', NEW b \in beats, ReceiveHeartbeat(b)
  PROVE  IInv'
<1> DEFINE n == b.to
<1>1. TypeOK /\ n \in Node /\ b.from \in Node /\ b.term \in Nat /\ Beat(b) /\ Role(n) /\ OneClaim
  BY DEF IInv, TypeOK, Heartbeat
<1> HIDE DEF n
<1>2. n = b.to
  BY DEF n
<1>3. UNCHANGED <<beats, waiters, evals, votes, claims>>
  BY DEF ReceiveHeartbeat, bounds
<1>4. CASE b.term < currentTerm[n]
  <2> PICK r : r = [type |-> "response", from |-> n, to |-> b.from,
                    term |-> currentTerm[n], leader |-> currentLeaderID[n], alive |-> alive[n]]
    OBVIOUS
  <2>1. net' = net \cup Sent({r}) /\ UNCHANGED nodeVars
    BY <1>2, <1>4 DEF ReceiveHeartbeat
  <2>2. Letter(r) /\ r.type = "response"
    <3>1. currentTerm[n] = 1 /\ b.from = Boot
      BY <1>1, <1>4 DEF Role, Beat
    <3> QED
      BY <1>1, <3>1 DEF Letter, Role
  <2>3. Grows
    BY <1>3, <2>1 DEF Grows, nodeVars
  <2>4. \A x \in net' : x \in net \/ (Letter(x)' /\ x.type \notin {"claim", "ack"})
    <3>1. Letter(r)'
      BY <1>1, <2>2, <2>3, LetterKept
    <3> QED
      BY <2>1, <2>2, <3>1 DEF Sent
  <2>5. Role(n)'
    BY <1>1, <1>3, <2>1, <2>3, RoleKept DEF nodeVars
  <2>6. \A k \in Node \ {n} : OwnKept(k)
    BY <2>1 DEF OwnKept, nodeVars
  <2>7. \A d \in Node : currentTerm[d] = 1 => currentTerm'[d] = 1
    BY <2>1 DEF nodeVars
  <2> QED
    BY <1>1, <1>3, <2>3, <2>4, <2>5, <2>6, <2>7, CalmStep
<1>5. CASE ~(b.term < currentTerm[n])
  <2>1. /\ currentTerm' = [currentTerm EXCEPT ![n] = b.term]
        /\ currentLeaderID' = [currentLeaderID EXCEPT ![n] = b.from]
        /\ expectedLeaderID' = [expectedLeaderID EXCEPT ![n] = None]
        /\ UNCHANGED net
    BY <1>2, <1>5 DEF ReceiveHeartbeat
  <2>2. \E s \in {"Follower", "Syncing"} : state' = [state EXCEPT ![n] = s]
    <3>1. \/ state' = [state EXCEPT ![n] =
                IF state[n] \in {"Leader", "ClaimingLeader"} THEN "Follower" ELSE state[n]]
          \/ StartSync(n)
      BY <1>2, <1>5 DEF ReceiveHeartbeat
    <3>2. state[n] \in {"Follower", "ClaimingLeader", "Leader", "Syncing"}
      BY <1>1 DEF TypeOK
    <3>3. CASE StartSync(n)
      BY <3>3 DEF StartSync
    <3>4. CASE state' = [state EXCEPT ![n] =
                IF state[n] \in {"Leader", "ClaimingLeader"} THEN "Follower" ELSE state[n]]
      BY <3>2, <3>4
    <3> QED
      BY <3>1, <3>3, <3>4
  <2>3. /\ state'[n] \in {"Follower", "Syncing"}
        /\ currentTerm'[n] = b.term /\ currentLeaderID'[n] = b.from
        /\ \A k \in Node \ {n} : OwnKept(k)
    <3>1. state \in [Node -> {"Follower", "ClaimingLeader", "Leader", "Syncing"}]
          /\ currentTerm \in [Node -> Nat] /\ currentLeaderID \in [Node -> Node \cup {None}]
          /\ expectedLeaderID \in [Node -> Node \cup {None}]
      BY <1>1 DEF TypeOK
    <3> QED
      BY <1>1, <2>1, <2>2, <3>1 DEF OwnKept
  <2>4. Grows
    <3>1. state[Boot] # "Leader" => state'[Boot] # "Leader"
      BY <2>3, BootAssumption DEF OwnKept
    <3> QED
      BY <1>3, <3>1 DEF Grows
  <2>5. Role(n)'
    <3>1. b.term \in {0, 1} /\ (b.term = 1 => Chosen(b.from)) /\ (b.term = 0 => b.from = Boot)
      BY <1>1 DEF Beat
    <3>2. b.term = 1 => claims # <<>>
      BY <3>1 DEF Chosen, Claimer
    <3>3. Known(b.from)
      BY <1>1, <3>1, ChosenHasVote DEF Known, Chosen
    <3>4. n = Boot => b.term = 1
      BY <1>1, <1>2, <3>1 DEF Beat
    <3>5. \A k : (Claimer(k) => Claimer(k)') /\ (Known(k) => Known(k)')
      BY <1>1, <2>4, Monotone
    <3>6. Known(currentLeaderID[n])'
      <4>1. Known(b.from)'
        BY <3>3, <3>5
      <4> QED
        BY <2>3, <4>1 DEF Known
    <3>7. \A e \in evals'[n] : Claimer(e.claimer)' /\ e.term = 1 /\ n # e.claimer
      BY <1>1, <1>3, <3>5 DEF Role
    <3> QED
      BY <1>3, <2>3, <3>1, <3>2, <3>4, <3>6, <3>7 DEF Role
  <2>6. \A d \in Node : currentTerm[d] = 1 => currentTerm'[d] = 1
    <3>1. b.term \in {0, 1}
      BY <1>1 DEF Beat
    <3> QED
      BY <1>1, <1>5, <2>3, <3>1 DEF OwnKept
  <2> QED
    BY <1>1, <1>3, <2>1, <2>3, <2>4, <2>5, <2>6, CalmStep
<1> QED
  BY <1>4, <1>5

\* Only Boot is ever told of a later term: it steps down and asks to join.
LEMMA ReceiveResponseKeeps ==
  ASSUME IInv, TypeOK', NEW m \in net, ReceiveResponse(m)
  PROVE  IInv'
<1>1. /\ TypeOK /\ m.to \in Node /\ m.type = "response" /\ m.term \in Nat
      /\ Letter(m) /\ Role(m.to) /\ OneClaim
  BY MessageFields DEF IInv, TypeOK, ReceiveResponse
<1>2. m.to = Boot /\ m.term = 1 /\ Known(m.leader)
  BY <1>1 DEF Letter
<1>3. UNCHANGED <<beats, waiters, evals, votes, claims>>
  BY DEF ReceiveResponse, bounds
<1> DEFINE heeds == /\ state[m.to] \in {"Leader", "ClaimingLeader"}
                    /\ m.term > currentTerm[m.to]
                    /\ m.leader \notin {None, m.to}
<1>4. CASE ~heeds
  <2>1. net' = net \ {m} /\ UNCHANGED nodeVars
    BY <1>4 DEF ReceiveResponse
  <2> QED
    BY <1>3, <2>1, TimerKeeps DEF nodeVars
<1>5. CASE heeds
  <2>1. /\ currentTerm' = [currentTerm EXCEPT ![Boot] = 1]
        /\ currentLeaderID' = [currentLeaderID EXCEPT ![Boot] = m.leader]
        /\ expectedLeaderID' = [expectedLeaderID EXCEPT ![Boot] = None]
        /\ StartSync(Boot)
        /\ net' = (net \ {m}) \cup Sent({[type |-> "join", from |-> Boot, to |-> m.leader]})
    BY <1>2, <1>5 DEF ReceiveResponse
  <2>2. Claimer(m.leader) /\ votes # {}
    BY <1>2, <1>5 DEF Known
  <2>3. \E s \in {"Follower", "Syncing"} : state' = [state EXCEPT ![Boot] = s]
    BY <2>1 DEF StartSync
  <2>4. /\ state'[Boot] \in {"Follower", "Syncing"}
        /\ currentTerm'[Boot] = 1 /\ currentLeaderID'[Boot] = m.leader
        /\ \A k \in Node \ {Boot} : OwnKept(k)
    <3>1. state \in [Node -> {"Follower", "ClaimingLeader", "Leader", "Syncing"}]
          /\ currentTerm \in [Node -> Nat] /\ currentLeaderID \in [Node -> Node \cup {None}]
          /\ expectedLeaderID \in [Node -> Node \cup {None}]
      BY <1>1 DEF TypeOK
    <3> QED
      BY <2>1, <2>3, <3>1, BootAssumption DEF OwnKept
  <2>5. Grows
    BY <1>3, <2>4 DEF Grows
  <2>6. \A x \in net' : x \in net \/ (Letter(x)' /\ x.type \notin {"claim", "ack"})
    <3> DEFINE j == [type |-> "join", from |-> Boot, to |-> m.leader]
    <3>1. Letter(j)'
      <4>1. Claimer(m.leader)'
        BY <1>3, <2>2 DEF Claimer
      <4> QED
        BY <2>4, <4>1 DEF Letter
    <3>2. j.type = "join" /\ \A x \in net' : x \in net \/ x = j
      BY <2>1 DEF Sent
    <3> HIDE DEF j
    <3> QED
      BY <3>1, <3>2 DEF j
  <2>7. Role(Boot)'
    <3>1. \A k : (Claimer(k) => Claimer(k)') /\ (Known(k) => Known(k)')
      BY <1>1, <2>5, Monotone
    <3>2. Known(currentLeaderID[Boot])'
      <4>1. Known(m.leader)'
        BY <1>2, <3>1
      <4> QED
        BY <2>4, <4>1 DEF Known
    <3>3. \A e \in evals'[Boot] : Claimer(e.claimer)' /\ e.term = 1 /\ Boot # e.claimer
      BY <1>1, <1>2, <1>3, <3>1 DEF Role
    <3>4. claims' # <<>>
      BY <1>3, <2>2 DEF Claimer
    <3> QED
      BY <2>4, <3>2, <3>3, <3>4 DEF Role
  <2>8. \A d \in Node : currentTerm[d] = 1 => currentTerm'[d] = 1
    BY <2>4 DEF OwnKept
  <2> QED
    BY <1>3, <2>4, <2>5, <2>6, <2>7, <2>8, BootAssumption, CalmStep
<1> QED
  BY <1>4, <1>5

\* Only Boot is let in again, by the claimer, when it leads no more.
LEMMA ReceiveJoinedKeeps ==
  ASSUME IInv, TypeOK', NEW m \in net, ReceiveJoined(m)
  PROVE  IInv'
<1>1. /\ TypeOK /\ m.from \in Node /\ m.to \in Node /\ m.type = "joined" /\ m.term \in Nat
      /\ Letter(m) /\ Role(m.to) /\ OneClaim
  BY MessageFields DEF IInv, TypeOK, ReceiveJoined
<1>2. m.to = Boot /\ Chosen(m.from) /\ m.term = 1 /\ state[Boot] # "Leader"
  BY <1>1 DEF Letter
<1>3. /\ UNCHANGED <<beats, waiters, evals, votes, claims, expectedLeaderID>>
      /\ currentLeaderID' = [currentLeaderID EXCEPT ![Boot] = m.from]
      /\ currentTerm' = [currentTerm EXCEPT ![Boot] = 1]
      /\ net' = net \ {m}
  BY <1>2 DEF ReceiveJoined, bounds
<1>4. \E s \in {"Follower", "Syncing"} : state' = [state EXCEPT ![Boot] = s]
  <2>1. state' = [state EXCEPT ![Boot] = "Follower"] \/ StartSync(Boot)
    BY <1>2 DEF ReceiveJoined
  <2> QED
    BY <2>1 DEF StartSync
<1>5. /\ state'[Boot] \in {"Follower", "Syncing"}
      /\ currentTerm'[Boot] = 1 /\ currentLeaderID'[Boot] = m.from
      /\ \A k \in Node \ {Boot} : OwnKept(k)
  <2>1. state \in [Node -> {"Follower", "ClaimingLeader", "Leader", "Syncing"}]
        /\ currentTerm \in [Node -> Nat] /\ currentLeaderID \in [Node -> Node \cup {None}]
    BY <1>1 DEF TypeOK
  <2> QED
    BY <1>3, <1>4, <2>1, BootAssumption DEF OwnKept
<1>6. Grows
  BY <1>3, <1>5 DEF Grows
<1>7. Role(Boot)'
  <2>1. \A k : (Claimer(k) => Claimer(k)') /\ (Known(k) => Known(k)')
    BY <1>1, <1>6, Monotone
  <2>2. Known(m.from) /\ claims # <<>>
    <3>1. m.from # Boot
      BY <1>1, <1>2, OneClaimer DEF Chosen
    <3> QED
      BY <1>1, <1>2, <3>1, ChosenHasVote DEF Known, Chosen, Claimer
  <2>3. Known(currentLeaderID[Boot])'
    <3>1. Known(m.from)'
      BY <2>1, <2>2
    <3> QED
      BY <1>5, <3>1 DEF Known
  <2>4. \A e \in evals'[Boot] : Claimer(e.claimer)' /\ e.term = 1 /\ Boot # e.claimer
    BY <1>1, <1>2, <1>3, <2>1 DEF Role
  <2> QED
    BY <1>3, <1>5, <2>2, <2>3, <2>4 DEF Role
<1>8. \A d \in Node : currentTerm[d] = 1 => currentTerm'[d] = 1
  BY <1>5 DEF OwnKept
<1> QED
  BY <1>3, <1>5, <1>6, <1>7, <1>8, BootAssumption, CalmStep

-----------------------------------------------------------------------------
(* One succession: the claim *)

\* Without a claim there is no trace of one.
LEMMA Before ==
  ASSUME IInv, claims = <<>>
  PROVE  /\ state[Boot] = "Leader" /\ \A n \in Node : currentTerm[n] = 0
         /\ votes = {} /\ Voters = {}
         /\ \A n \in Node : evals[n] = {} /\ waiters[n] = <<>>
         /\ \A m \in net : m.type \notin {"claim", "ack"}
<1>1. \A n : ~Claimer(n)
  BY DEF Claimer
<1>2. TypeOK
  BY DEF IInv
<1>3. \A n \in Node : currentTerm[n] = 0
  BY <1>2 DEF IInv, Role, TypeOK
<1>4. state[Boot] = "Leader"
  BY <1>3, BootAssumption DEF IInv, Role
<1>5. votes = {}
  <2>1. \A v \in votes : v.voter \in Node
    BY <1>2 DEF TypeOK, Vote
  <2> QED
    BY <1>1, <2>1 DEF IInv, Ballot
<1>6. Voters = {}
  BY <1>5 DEF Voters
<1>7. \A n \in Node : evals[n] = {} /\ waiters[n] = <<>>
  BY <1>1 DEF IInv, Role, Count
<1>8. \A m \in net : m.type \notin {"claim", "ack"}
  BY <1>1 DEF IInv, Letter
<1> QED
  BY <1>3, <1>4, <1>5, <1>6, <1>7, <1>8

\* selectNewLeader: only the first claim is ever made, and not by Boot.
LEMMA SelectKeeps ==
  ASSUME MaxClaims <= 1, IInv, TypeOK', NEW n \in Node, NEW A \in SUBSET Node,
         NEW e \in Node \cup {None}, state[n] = "Follower", SelectNewLeader(n, A, e),
         UNCHANGED <<beats, evals, votes>>
  PROVE  IInv'
<1> DEFINE hp == Highest(A \ {currentLeaderID[n]})
           term == NextTerm(n)
<1>1. TypeOK /\ Role(n)
  BY DEF IInv
<1>2. CASE hp # n
  <2>1. /\ UNCHANGED <<state, currentTerm, waiters, net, claims>>
        /\ \E x \in Node \cup {None} : expectedLeaderID' = [expectedLeaderID EXCEPT ![n] = x]
        /\ \/ UNCHANGED currentLeaderID
           \/ currentLeaderID' = [currentLeaderID EXCEPT ![n] = None]
    <3>1. hp \in Node \cup {None}
      BY HighestFacts
    <3> QED
      BY <1>2, <3>1 DEF SelectNewLeader
  <2>2. currentLeaderID'[n] \in {currentLeaderID[n], None} /\ \A k \in Node \ {n} : OwnKept(k)
    BY <1>1, <2>1 DEF OwnKept, TypeOK
  <2> QED
    BY <2>1, <2>2, LetsGo
<1>3. CASE hp = n
  <2>1. /\ Len(claims) < MaxClaims
        /\ claims' = Append(claims, [claimer |-> n, term |-> term])
        /\ state' = [state EXCEPT ![n] = "ClaimingLeader"]
        /\ currentTerm' = [currentTerm EXCEPT ![n] = term]
        /\ waiters' = [waiters EXCEPT ![n] = Append(@, [term |-> term, yes |-> 1])]
        /\ net' = net \cup Sent({[type |-> "claim", from |-> n, to |-> d,
                                  term |-> term] : d \in Node})
        /\ expectedLeaderID' = [expectedLeaderID EXCEPT ![n] = e]
        /\ UNCHANGED <<currentLeaderID>>
    BY <1>3 DEF SelectNewLeader
  <2>2. claims = <<>>
    <3>1. claims \in Seq(Eval) /\ Len(claims) \in Nat
      BY <1>1 DEF TypeOK
    <3>2. Len(claims) = 0
      BY <2>1, <3>1, BoundAssumption
    <3> QED
      BY <3>1, <3>2
  <2>3. /\ state[Boot] = "Leader" /\ \A d \in Node : currentTerm[d] = 0
        /\ votes = {} /\ Voters = {}
        /\ \A d \in Node : evals[d] = {} /\ waiters[d] = <<>>
        /\ \A m \in net : m.type \notin {"claim", "ack"}
    BY <2>2, Before
  <2>4. n # Boot /\ term = 1
    BY <1>1, <2>3 DEF NextTerm
  <2>5. /\ claims' = <<[claimer |-> n, term |-> 1]>>
        /\ waiters' = [waiters EXCEPT ![n] = <<[term |-> 1, yes |-> 1]>>]
        /\ net' = net \cup Sent({[type |-> "claim", from |-> n, to |-> d,
                                  term |-> 1] : d \in Node})
    <3> HIDE DEF term
    <3>1. claims' = Append(<<>>, [claimer |-> n, term |-> 1])
      BY <2>1, <2>2, <2>4
    <3>2. waiters' = [waiters EXCEPT ![n] = Append(<<>>, [term |-> 1, yes |-> 1])]
      BY <2>1, <2>3, <2>4
    <3>3. /\ Append(<<>>, [claimer |-> n, term |-> 1]) = <<[claimer |-> n, term |-> 1]>>
          /\ Append(<<>>, [term |-> 1, yes |-> 1]) = <<[term |-> 1, yes |-> 1]>>
      OBVIOUS
    <3>4. net' = net \cup Sent({[type |-> "claim", from |-> n, to |-> d, term |-> 1] : d \in Node})
      BY <2>1, <2>4
    <3> QED
      BY <3>1, <3>2, <3>3, <3>4, Zenon
  <2>6. Claimer(n)' /\ OneClaim'
    BY <2>4, <2>5 DEF Claimer, OneClaim
  <2>7. Grows
    BY <1>1, <2>1, <2>2, <2>4 DEF Grows, TypeOK
  <2>8. /\ state'[n] = "ClaimingLeader" /\ currentTerm'[n] = 1
        /\ currentLeaderID'[n] = currentLeaderID[n]
        /\ \A k \in Node \ {n} : OwnKept(k)
    BY <1>1, <2>1, <2>4 DEF TypeOK, OwnKept
  <2>9. \A k \in Node : Role(k)'
    <3>1. ASSUME NEW k \in Node, k # n
          PROVE  Role(k)'
      <4>1. TypeOK /\ Role(k) /\ OwnKept(k) /\ \A x \in evals'[k] : x \in evals[k]
        BY <2>8, <3>1 DEF IInv
      <4> QED
        BY <2>7, <4>1, RoleKept DEF OwnKept
    <3>2. Role(n)'
      <4>1. Known(currentLeaderID[n])'
        BY <1>1, <2>3, <2>8 DEF Role, Known
      <4>2. evals'[n] = {}
        BY <2>3
      <4> QED
        BY <2>4, <2>5, <2>6, <2>8, <4>1, <4>2 DEF Role
    <3> QED
      BY <3>1, <3>2
  <2>10. \A m \in net' : m \in net \/ (m.type = "claim" /\ m.from = n /\ m.term = 1 /\ m.to # n)
    BY <2>5 DEF Sent
  <2>11. \A m \in net' : Letter(m)'
    <3>1. \A m \in net : Letter(m)'
      BY <1>1, <2>7, LetterKept DEF IInv
    <3>2. ASSUME NEW m, m.type = "claim" /\ m.from = n /\ m.term = 1 /\ m.to # n
          PROVE  Letter(m)'
      BY <2>6, <3>2 DEF Letter
    <3> QED
      BY <2>10, <3>1, <3>2
  <2>12. \A b \in beats' : Beat(b)'
    BY <1>1, <2>7, BeatKept DEF IInv
  <2>13. \A k \in Node : Ballot(k)'
    <3>1. votes' = {} /\ Voters' = {} /\ \A k \in Node : evals'[k] = {}
      BY <2>3 DEF Voters
    <3>2. \A k, c \in Node : Yes(k, c) \notin net'
      BY <2>3, <2>10 DEF Yes, Ack
    <3> QED
      BY <3>1, <3>2 DEF Ballot
  <2>14. \A k \in Node : Count(k)'
    <3>1. Cardinality(Collected') \in Nat
      <4>1. Collected' \in SUBSET Node
        BY DEF Collected, Voters, TypeOK, Vote
      <4> QED
        BY <4>1, NodeAssumption, FS_Subset, FS_CardinalityType
    <3>2. \A k \in Node : k # n => waiters'[k] = <<>>
      BY <1>1, <2>3, <2>5 DEF TypeOK
    <3>3. waiters'[n] = <<[term |-> 1, yes |-> 1]>>
      BY <1>1, <2>5 DEF TypeOK
    <3>4. Len(waiters'[n]) = 1 /\ waiters'[n][1].term = 1 /\ waiters'[n][1].yes = 1
      BY <3>3
    <3> QED
      BY <2>6, <3>1, <3>2, <3>4 DEF Count
  <2> QED
    BY <2>6, <2>9, <2>11, <2>12, <2>13, <2>14 DEF IInv
<1> QED
  BY <1>2, <1>3

LEMMA CheckTimeoutKeeps ==
  ASSUME MaxClaims <= 1, IInv, TypeOK', NEW n \in Node, CheckTimeout(n)
  PROVE  IInv'
<1>1. TypeOK
  BY DEF IInv
<1>2. alive[n] \in SUBSET Node /\ expectedLeaderID[n] \in Node \cup {None}
  BY <1>1 DEF TypeOK
<1> QED
  BY <1>2, SelectKeeps DEF CheckTimeout

LEMMA CheckExpectedKeeps ==
  ASSUME MaxClaims <= 1, IInv, TypeOK', NEW n \in Node, CheckExpected(n)
  PROVE  IInv'
<1>1. TypeOK
  BY DEF IInv
<1>2. CASE state[n] = "Follower"
  <2>1. alive[n] \ {expectedLeaderID[n]} \in SUBSET Node
    BY <1>1 DEF TypeOK
  <2> QED
    BY <1>2, <2>1, SelectKeeps DEF CheckExpected
<1>3. CASE state[n] # "Follower"
  <2>1. /\ expectedLeaderID' = [expectedLeaderID EXCEPT ![n] = None]
        /\ UNCHANGED <<state, currentTerm, currentLeaderID, waiters, net, claims>>
        /\ UNCHANGED <<beats, evals, votes>>
    BY <1>3 DEF CheckExpected
  <2>2. \A k \in Node \ {n} : OwnKept(k)
    BY <1>1, <2>1 DEF OwnKept, TypeOK
  <2>3. state[n] # "Leader"
    BY DEF CheckExpected
  <2> QED
    BY <2>1, <2>2, <2>3, LetsGo
<1> QED
  BY <1>2, <1>3

-----------------------------------------------------------------------------
(* One succession: the answers *)

\* Node n answers the claim of c, the only one it will ever answer.
LEMMA AnswerKeeps ==
  ASSUME IInv, TypeOK', NEW n \in Node, NEW c \in Node, NEW yes \in BOOLEAN,
         Claimer(c), n # c, n \notin Voters,
         UNCHANGED <<state, claims, waiters, beats>>,
         IF yes THEN Accept(n, c, 1)
         ELSE UNCHANGED <<currentLeaderID, currentTerm, expired, votes>>,
         yes => state[n] # "Leader",
         expectedLeaderID'[n] = expectedLeaderID[n] \/ yes,
         evals'[n] = {},
         \A k \in Node \ {n} : expectedLeaderID'[k] = expectedLeaderID[k] /\ evals'[k] = evals[k],
         \A m \in net' : m \in net \/ m = Ack(n, c, 1, yes),
         \A m \in net' : m.type = "claim" => m.to # n
  PROVE  IInv'
<1>1. TypeOK /\ OneClaim /\ Role(n)
  BY DEF IInv
<1>2. /\ currentLeaderID' = IF yes THEN [currentLeaderID EXCEPT ![n] = c] ELSE currentLeaderID
      /\ currentTerm' = IF yes THEN [currentTerm EXCEPT ![n] = 1] ELSE currentTerm
      /\ votes' = IF yes THEN votes \cup {[voter |-> n, claimer |-> c, term |-> 1]} ELSE votes
  BY DEF Accept
<1>3. Grows
  BY <1>2 DEF Grows
<1>4. \A k : /\ Claimer(k) <=> Claimer(k)'
             /\ Known(k) => Known(k)'
  <2>1. \A k : Claimer(k) <=> Claimer(k)'
    BY DEF Claimer
  <2> QED
    BY <1>1, <1>3, <2>1, Monotone
<1>5. \A k \in Node \ {n} : OwnKept(k)
  BY <1>1, <1>2 DEF OwnKept, TypeOK
<1>6. /\ currentTerm'[n] = IF yes THEN 1 ELSE currentTerm[n]
      /\ currentLeaderID'[n] = IF yes THEN c ELSE currentLeaderID[n]
  BY <1>1, <1>2 DEF TypeOK
<1>7. /\ Voters' = IF yes THEN Voters \cup {n} ELSE Voters
      /\ \A v \in votes' : \/ v \in votes /\ v.voter # n
                           \/ yes /\ v.voter = n /\ v.claimer = c /\ v.term = 1
  <2> DEFINE w == [voter |-> n, claimer |-> c, term |-> 1]
  <2>1. w.voter = n /\ w.claimer = c /\ w.term = 1 /\ \A v \in votes : v.voter # n
    BY DEF Voters
  <2>2. votes' = IF yes THEN votes \cup {w} ELSE votes
    BY <1>2
  <2> HIDE DEF w
  <2> QED
    BY <2>1, <2>2 DEF Voters
<1>8. OneClaim'
  BY <1>1 DEF OneClaim
<1>9. \A k \in Node : Role(k)'
  <2>1. ASSUME NEW k \in Node, k # n
        PROVE  Role(k)'
    <3>1. TypeOK /\ Role(k) /\ OwnKept(k) /\ \A x \in evals'[k] : x \in evals[k]
      BY <1>5, <2>1 DEF IInv
    <3> QED
      BY <1>3, <3>1, RoleKept DEF OwnKept
  <2>2. Role(n)'
    <3>1. CASE ~yes
      BY <1>1, <1>3, <1>6, <3>1, RoleKept
    <3>2. CASE yes
      <4>1. state'[n] \notin {"Leader", "ClaimingLeader"}
        <5>1. ~Claimer(n)
          BY <1>1, OneClaimer
        <5> QED
          BY <1>1, <3>2, <5>1 DEF Role
      <4>2. claims' # <<>>
        BY DEF Claimer
      <4>3. Known(currentLeaderID[n])'
        <5>1. votes' # {}
          BY <1>2, <3>2
        <5>2. Known(c)'
          BY <1>4, <5>1 DEF Known
        <5> QED
          BY <1>6, <3>2, <5>2 DEF Known
      <4> QED
        BY <1>6, <3>2, <4>1, <4>2, <4>3 DEF Role
    <3> QED
      BY <3>1, <3>2
  <2> QED
    BY <2>1, <2>2
<1>10. \A m \in net' : Letter(m)'
  <2>1. ASSUME NEW m \in net'
        PROVE  Letter(m)'
    <3>1. CASE m \in net
      BY <1>1, <1>3, <3>1, LetterKept DEF IInv
    <3>2. CASE m = Ack(n, c, 1, yes)
      BY <1>4, <3>2 DEF Letter, Ack
    <3> QED
      BY <2>1, <3>1, <3>2
  <2> QED
    BY <2>1
<1>11. \A b \in beats' : Beat(b)'
  BY <1>1, <1>3, BeatKept DEF IInv
<1>12. \A m \in net' : m.type = "claim" => m \in net
  BY DEF Ack
<1>13. \A k, x \in Node : Yes(k, x) \in net' => Yes(k, x) \in net \/ (k = n /\ yes)
  <2>1. \A k, x \in Node : Yes(k, x) = Ack(n, c, 1, yes) => k = n /\ yes = TRUE
    BY Zenon DEF Yes, Ack
  <2> QED
    BY <2>1
<1>14. \A k \in Node : Ballot(k)'
  <2>1. ASSUME NEW k \in Node
        PROVE  Ballot(k)'
    <3>1. Ballot(k)
      BY DEF IInv
    <3>2. \A v \in votes' : v.voter = k =>
            Claimer(v.claimer)' /\ v.term = 1 /\ v.claimer # k /\ currentTerm'[k] = 1
      BY <1>4, <1>5, <1>6, <1>7, <3>1 DEF Ballot, OwnKept
    <3>3. (\E m \in net' : m.type = "claim" /\ m.to = k) => k \notin Voters' /\ evals'[k] = {}
      BY <1>7, <1>12, <3>1 DEF Ballot
    <3>4. evals'[k] # {} => k \notin Voters'
      BY <1>7, <3>1 DEF Ballot
    <3>5. \A x \in Node : Yes(k, x) \in net' => k \in Voters'
      BY <1>7, <1>13, <3>1 DEF Ballot
    <3> QED
      BY <3>2, <3>3, <3>4, <3>5 DEF Ballot, Yes, Ack
  <2> QED
    BY <2>1
<1>15. Collected \subseteq Collected'
  <2>1. ASSUME NEW d \in Collected
        PROVE  d \in Collected'
    <3>1. d \in Voters /\ d \in Node /\ d # n /\ \A x \in Node : Yes(d, x) \notin net
      BY <1>1, VotersFinite DEF Collected
    <3>2. d \in Voters' /\ \A x \in Node : Yes(d, x) \notin net'
      BY <1>7, <1>13, <3>1
    <3> QED
      BY <3>2 DEF Collected, Yes, Ack
  <2> QED
    BY <2>1
<1>16. \A k \in Node : Count(k)'
  BY <1>1, <1>3, <1>15, CountKept DEF IInv
<1> QED
  BY <1>8, <1>9, <1>10, <1>11, <1>14, <1>16 DEF IInv

LEMMA ReceiveClaimKeeps ==
  ASSUME IInv, TypeOK', NEW m \in net, ReceiveClaim(m)
  PROVE  IInv'
<1> DEFINE n == m.to
           c == m.from
<1>1. /\ TypeOK /\ OneClaim /\ m \in Message /\ m.type = "claim" /\ n \in Node /\ c \in Node
      /\ Letter(m) /\ Role(n) /\ Ballot(n)
  BY MessageFields DEF IInv, TypeOK, ReceiveClaim
<1>2. Claimer(c) /\ m.term = 1 /\ n # c /\ n \notin Voters /\ evals[n] = {}
  BY <1>1 DEF Letter, Ballot
<1>3. \A x \in net \ {m} : x.type = "claim" => x.to # n
  <2>1. ASSUME NEW x \in net \ {m}, x.type = "claim", x.to = n
        PROVE  FALSE
    <3>1. x \in Message /\ Letter(x)
      BY <1>1 DEF IInv, TypeOK
    <3>2. Claimer(x.from) /\ x.term = 1
      BY <2>1, <3>1 DEF Letter
    <3>3. x.from = c
      BY <1>1, <1>2, <3>2, OneClaimer
    <3> QED
      BY <1>1, <1>2, <2>1, <3>1, <3>2, <3>3, ClaimIs
  <2> QED
    BY <2>1
<1>4. PICK yes \in BOOLEAN, later \in BOOLEAN :
        /\ IF yes THEN Accept(n, c, m.term)
           ELSE UNCHANGED <<currentLeaderID, currentTerm, expired, votes>>
        /\ expectedLeaderID' = [expectedLeaderID EXCEPT ![n] = IF yes THEN None ELSE @]
        /\ evals' = [evals EXCEPT ![n] =
             IF later THEN @ \cup {[claimer |-> c, term |-> m.term]} ELSE @]
        /\ net' = (net \ {m}) \cup
             (IF later THEN {} ELSE Sent({Ack(n, c, m.term, yes)}))
        /\ later => state[n] \notin {"Leader", "ClaimingLeader"} /\ ~yes
        /\ yes => expectedLeaderID[n] # None \/ state[n] \notin {"Leader", "ClaimingLeader"}
  <2> DEFINE expecting == expectedLeaderID[n] # None
             busy == state[n] \in {"Leader", "ClaimingLeader"}
             first == Highest(alive[n]) = c
             Y == IF expecting THEN c = expectedLeaderID[n]
                  ELSE ~busy /\ first /\ m.term >= currentTerm[n]
             L == ~expecting /\ ~busy /\ ~first /\ alive[n] # {}
  <2>1. Y \in BOOLEAN /\ L \in BOOLEAN
    OBVIOUS
  <2>2. /\ IF Y THEN Accept(n, c, m.term)
           ELSE UNCHANGED <<currentLeaderID, currentTerm, expired, votes>>
        /\ expectedLeaderID' = [expectedLeaderID EXCEPT ![n] = IF Y THEN None ELSE @]
        /\ evals' = [evals EXCEPT ![n] =
             IF L THEN @ \cup {[claimer |-> c, term |-> m.term]} ELSE @]
        /\ net' = (net \ {m}) \cup (IF L THEN {} ELSE Sent({Ack(n, c, m.term, Y)}))
    BY Zenon DEF ReceiveClaim
  <2>3. (L => ~busy /\ ~Y) /\ (Y => expecting \/ ~busy)
    OBVIOUS
  <2> HIDE DEF Y, L
  <2> QED
    BY <2>1, <2>2, <2>3, Zenon
<1>5. UNCHANGED <<state, claims, waiters, beats>>
  BY DEF ReceiveClaim, bounds
<1> HIDE DEF n, c
<1>6. CASE ~later
  <2>1. yes => state[n] # "Leader"
    <3>1. ~Claimer(n)
      BY <1>1, <1>2, OneClaimer
    <3> QED
      BY <1>1, <1>4, <3>1 DEF Role, Chosen
  <2>2. /\ evals' = evals
        /\ net' = (net \ {m}) \cup Sent({Ack(n, c, 1, yes)})
        /\ IF yes THEN Accept(n, c, 1)
           ELSE UNCHANGED <<currentLeaderID, currentTerm, expired, votes>>
    <3>1. evals' = evals
      BY <1>1, <1>4, <1>6 DEF TypeOK
    <3> QED
      BY <1>2, <1>4, <1>6, <3>1, Zenon
  <2>3. /\ \A x \in net' : x \in net \/ x = Ack(n, c, 1, yes)
        /\ \A x \in net' : x.type = "claim" => x.to # n
    <3>1. Ack(n, c, 1, yes).type # "claim"
      BY DEF Ack
    <3> QED
      BY <1>3, <2>2, <3>1 DEF Sent
  <2>4. /\ expectedLeaderID'[n] = expectedLeaderID[n] \/ yes
        /\ \A k \in Node \ {n} : expectedLeaderID'[k] = expectedLeaderID[k]
    BY <1>1, <1>4 DEF TypeOK
  <2> QED
    BY <1>1, <1>2, <1>5, <2>1, <2>2, <2>3, <2>4, AnswerKeeps
<1>7. CASE later
  <2>1. /\ UNCHANGED <<currentLeaderID, currentTerm, votes>>
        /\ evals' = [evals EXCEPT ![n] = @ \cup {[claimer |-> c, term |-> 1]}]
        /\ net' = net \ {m}
        /\ state[n] # "Leader" /\ expectedLeaderID' = expectedLeaderID
    <3>1. ~yes
      BY <1>4, <1>7
    <3>2. expectedLeaderID' = expectedLeaderID
      BY <1>1, <1>4, <3>1 DEF TypeOK
    <3> QED
      BY <1>2, <1>4, <1>7, <3>1, <3>2
  <2>2. /\ evals'[n] = {[claimer |-> c, term |-> 1]}
        /\ \A k \in Node \ {n} : evals'[k] = evals[k]
    BY <1>1, <1>2, <2>1 DEF TypeOK
  <2>3. Grows /\ OneClaim' /\ Voters' = Voters /\ \A k : Claimer(k)' <=> Claimer(k)
    BY <1>1, <1>5, <2>1 DEF Grows, OneClaim, Voters, Claimer
  <2>4. \A k \in Node : Role(k)'
    <3>1. ASSUME NEW k \in Node
          PROVE  Role(k)'
      <4>1. Role(k)
        BY DEF IInv
      <4>2. CASE k # n
        <5>1. \A x \in evals'[k] : x \in evals[k]
          BY <2>2, <4>2
        <5> QED
          BY <1>1, <1>5, <2>1, <2>3, <4>1, <5>1, RoleKept
      <4>3. CASE k = n
        <5>1. \A x \in evals'[n] : Claimer(x.claimer)' /\ x.term = 1 /\ n # x.claimer
          BY <1>2, <2>2, <2>3
        <5> QED
          BY <1>5, <2>1, <2>3, <4>1, <4>3, <5>1 DEF Role, Known
      <4> QED
        BY <4>2, <4>3
    <3> QED
      BY <3>1
  <2>5. \A x \in net' : Letter(x)'
    BY <1>1, <2>1, <2>3, LetterKept DEF IInv
  <2>6. \A b \in beats' : Beat(b)'
    BY <1>1, <1>5, <2>3, BeatKept DEF IInv
  <2>7. \A k \in Node : Ballot(k)'
    <3>1. ASSUME NEW k \in Node
          PROVE  Ballot(k)'
      <4>1. Ballot(k)
        BY DEF IInv
      <4>2. \A v \in votes' : v.voter = k =>
              Claimer(v.claimer)' /\ v.term = 1 /\ v.claimer # k /\ currentTerm'[k] = 1
        BY <2>1, <2>3, <4>1 DEF Ballot
      <4>3. (\E x \in net' : x.type = "claim" /\ x.to = k) => k \notin Voters' /\ evals'[k] = {}
        BY <1>3, <2>1, <2>2, <2>3, <4>1 DEF Ballot
      <4>4. evals'[k] # {} => k \notin Voters'
        BY <1>2, <2>2, <2>3, <4>1 DEF Ballot
      <4>5. \A x \in Node : Yes(k, x) \in net' => k \in Voters'
        BY <2>1, <2>3, <4>1 DEF Ballot
      <4> QED
        BY <4>2, <4>3, <4>4, <4>5 DEF Ballot, Yes, Ack
    <3> QED
      BY <3>1
  <2>8. Collected \subseteq Collected'
    <3>1. net' \subseteq net
      BY <2>1
    <3> QED
      BY <2>3, <3>1 DEF Collected, Yes, Ack
  <2>9. \A k \in Node : Count(k)'
    BY <1>1, <1>5, <2>3, <2>8, CountKept DEF IInv
  <2> QED
    BY <2>3, <2>4, <2>5, <2>6, <2>7, <2>9 DEF IInv
<1> QED
  BY <1>6, <1>7

LEMMA EvaluateKeeps ==
  ASSUME IInv, TypeOK', NEW n \in Node, NEW e \in evals[n], Evaluate(n, e)
  PROVE  IInv'
<1>1. /\ TypeOK /\ OneClaim /\ e.claimer \in Node /\ Role(n) /\ Ballot(n)
      /\ \A x \in evals[n] : x \in Eval /\ x = [claimer |-> x.claimer, term |-> x.term]
  <2>1. TypeOK /\ OneClaim /\ Role(n) /\ Ballot(n)
    BY DEF IInv
  <2>2. \A x \in evals[n] : x \in Eval
    BY <2>1 DEF TypeOK
  <2> QED
    BY <2>1, <2>2 DEF Eval
<1>2. /\ Claimer(e.claimer) /\ e.term = 1 /\ n # e.claimer /\ n \notin Voters
      /\ \A m \in net : m.type = "claim" => m.to # n
  BY <1>1 DEF Role, Ballot
<1>3. evals[n] = {e}
  <2>1. \A x \in evals[n] : Claimer(x.claimer) /\ x.term = 1
    BY <1>1 DEF Role
  <2>2. \A x \in evals[n] : x.claimer = e.claimer
    BY <1>1, <1>2, <2>1, OneClaimer
  <2> QED
    BY <1>1, <1>2, <2>1, <2>2
<1>4. PICK yes \in BOOLEAN :
        /\ IF yes THEN Accept(n, e.claimer, e.term)
           ELSE UNCHANGED <<currentLeaderID, currentTerm, expired, votes>>
        /\ net' = net \cup Sent({Ack(n, e.claimer, e.term, yes)})
  BY Zenon DEF Evaluate
<1>5. /\ evals' = [evals EXCEPT ![n] = @ \ {e}]
      /\ UNCHANGED <<state, claims, waiters, beats, expectedLeaderID>>
  BY DEF Evaluate, bounds
<1>6. evals'[n] = {} /\ \A k \in Node \ {n} : evals'[k] = evals[k]
  BY <1>1, <1>3, <1>5 DEF TypeOK
<1>7. state[n] # "Leader"
  <2>1. ~Claimer(n)
    BY <1>1, <1>2, OneClaimer
  <2> QED
    BY <1>1, <2>1 DEF Role, Chosen
<1>8. /\ net' = net \cup Sent({Ack(n, e.claimer, 1, yes)})
      /\ IF yes THEN Accept(n, e.claimer, 1)
         ELSE UNCHANGED <<currentLeaderID, currentTerm, expired, votes>>
  BY <1>2, <1>4, Zenon
<1>9. /\ \A x \in net' : x \in net \/ x = Ack(n, e.claimer, 1, yes)
      /\ \A x \in net' : x.type = "claim" => x.to # n
  <2>1. Ack(n, e.claimer, 1, yes).type # "claim"
    BY DEF Ack
  <2> QED
    BY <1>2, <1>8, <2>1 DEF Sent
<1> QED
  BY <1>1, <1>2, <1>5, <1>6, <1>7, <1>8, <1>9, AnswerKeeps

LEMMA CollectAckKeeps ==
  ASSUME IInv, TypeOK', NEW n \in Node, NEW i \in DOMAIN waiters[n], NEW m \in net,
         CollectAck(n, i, m)
  PROVE  IInv'
<1>1. /\ TypeOK /\ OneClaim /\ m \in Message /\ m.type = "ack" /\ m.to = n /\ m.from \in Node
      /\ Letter(m) /\ Count(n) /\ Ballot(m.from)
  BY MessageFields DEF IInv, TypeOK, CollectAck
<1>2. Claimer(n) /\ m.term = 1 /\ m.from # n
  BY <1>1 DEF Letter
<1> DEFINE W == [term : Nat \ {0}, yes : Nat]
<1>3. waiters[n] \in Seq(W) /\ waiters \in [Node -> Seq(W)]
  BY <1>1 DEF TypeOK
<1> HIDE DEF W
<1>4. /\ waiters[n] # <<>> /\ i = 1 /\ Len(waiters[n]) = 1 /\ waiters[n][1] \in W
      /\ waiters[n][1].term = 1 /\ waiters[n][1].yes <= Cardinality(Collected) + 1
  <2>1. i \in 1..Len(waiters[n]) /\ Len(waiters[n]) \in Nat
    BY <1>3, LenProperties
  <2>2. waiters[n] # <<>>
    BY <2>1
  <2>3. waiters[n][1] \in W
    BY <1>3, <2>2, HeadTailProperties
  <2> QED
    BY <1>1, <2>1, <2>2, <2>3 DEF Count
<1> DEFINE y == waiters[n][1].yes
           z == IF m.accept THEN y + 1 ELSE y
<1>5. UNCHANGED <<state, currentTerm, currentLeaderID, expectedLeaderID, beats, evals, votes,
                  claims>> /\ net' = net \ {m}
  BY DEF CollectAck, nodeVars, bounds
<1>6. Grows /\ Voters' = Voters /\ OneClaim'
  BY <1>1, <1>5 DEF Grows, Voters, OneClaim
<1>7. \A k : Claimer(k)' <=> Claimer(k)
  BY <1>5 DEF Claimer
<1>8. \A d, c \in Node : Yes(d, c) \in net' => Yes(d, c) \in net /\ Yes(d, c) # m
  BY <1>5
<1>9. Collected \subseteq Collected'
  BY <1>5, <1>6 DEF Collected, Yes, Ack
<1>10. IsFiniteSet(Collected') /\ IsFiniteSet(Collected)
       /\ Cardinality(Collected') \in Nat /\ Cardinality(Collected) \in Nat
  <2>1. Collected' \in SUBSET Node
    BY DEF Collected, Voters, TypeOK, Vote
  <2>2. IsFiniteSet(Collected')
    BY <2>1, NodeAssumption, FS_Subset
  <2> QED
    BY <1>1, <2>2, FS_CardinalityType, VotersFinite
<1>11. m.accept => m.from \in Collected' /\ m.from \notin Collected
  <2>1. SUFFICES ASSUME m.accept
                 PROVE  m.from \in Collected' /\ m.from \notin Collected
    OBVIOUS
  <2>2. m = Yes(m.from, n)
    <3>1. m.accept = TRUE
      BY <1>1, <2>1, AckFields, Zenon
    <3> QED
      BY <1>1, <1>2, <3>1, AckIs, Zenon DEF Yes
  <2>3. m.from \in Voters /\ m.from \notin Collected
    BY <1>1, <2>2 DEF Ballot, Collected
  <2>4. ASSUME NEW c \in Node, Yes(m.from, c) \in net'
        PROVE  FALSE
    <3>1. Yes(m.from, c) \in net /\ Yes(m.from, c) # m
      BY <1>1, <1>8, <2>4
    <3>2. Yes(m.from, c).type = "ack" /\ Yes(m.from, c).to = c
      BY DEF Yes, Ack
    <3>3. Letter(Yes(m.from, c))
      BY <3>1 DEF IInv
    <3>4. Claimer(c)
      BY <3>2, <3>3, Zenon DEF Letter
    <3>5. c = n
      BY <1>1, <1>2, <3>4, OneClaimer
    <3> QED
      BY <2>2, <3>1, <3>5
  <2> QED
    BY <1>6, <2>3, <2>4 DEF Collected, Yes, Ack
<1>12. z <= Cardinality(Collected') + 1
  <2>1. y \in Nat
    BY <1>4 DEF W
  <2>2. CASE m.accept
    <3>1. IsFiniteSet(Collected \cup {m.from})
          /\ Cardinality(Collected \cup {m.from}) = Cardinality(Collected) + 1
      BY <1>10, <1>11, <2>2, FS_AddElement
    <3>2. Collected \cup {m.from} \subseteq Collected'
      BY <1>9, <1>11, <2>2
    <3>3. Cardinality(Collected \cup {m.from}) <= Cardinality(Collected')
      BY <1>10, <3>2, FS_Subset
    <3> HIDE DEF y
    <3> QED
      BY <1>4, <1>10, <2>1, <2>2, <3>1, <3>3 DEF y
  <2>3. CASE ~m.accept
    <3>1. Cardinality(Collected) <= Cardinality(Collected')
      BY <1>9, <1>10, FS_Subset
    <3> QED
      BY <1>4, <1>10, <2>1, <2>3, <3>1
  <2> QED
    BY <2>2, <2>3
<1>13. waiters' = [waiters EXCEPT ![n] = [waiters[n] EXCEPT ![1].yes = z]]
  BY <1>2, <1>4 DEF CollectAck, Counts
<1>14. \A k \in Node : Count(k)'
  <2>1. ASSUME NEW k \in Node, k # n
        PROVE  Count(k)'
    BY <1>1, <1>3, <1>6, <1>9, <1>13, <2>1, CountKept DEF IInv
  <2>2. Count(n)'
    <3>1. waiters'[n] = [waiters[n] EXCEPT ![1].yes = z]
      BY <1>3, <1>13
    <3>2. /\ Len(waiters'[n]) = 1 /\ waiters'[n][1] = [waiters[n][1] EXCEPT !.yes = z]
      BY <1>3, <1>4, <3>1
    <3>3. waiters'[n][1].term = 1 /\ waiters'[n][1].yes = z
      <4> HIDE DEF z
      <4> QED
        BY <1>4, <3>2 DEF W
    <3> QED
      BY <1>2, <1>7, <1>12, <3>2, <3>3 DEF Count
  <2> QED
    BY <2>1, <2>2
<1>15. \A k \in Node : Role(k)'
  BY <1>1, <1>5, <1>6, RoleKept DEF IInv
<1>16. \A k \in Node : Ballot(k)'
  <2>1. ASSUME NEW k \in Node
        PROVE  Ballot(k)'
    <3>1. Ballot(k)
      BY DEF IInv
    <3> QED
      BY <1>5, <1>6, <1>7, <3>1 DEF Ballot, Yes, Ack
  <2> QED
    BY <2>1
<1>17. \A x \in net' : Letter(x)'
  BY <1>1, <1>5, <1>6, LetterKept DEF IInv
<1>18. \A b \in beats' : Beat(b)'
  BY <1>1, <1>5, <1>6, BeatKept DEF IInv
<1> QED
  BY <1>6, <1>14, <1>15, <1>16, <1>17, <1>18 DEF IInv

\* The claimer leads only if a majority has voted for it.
LEMMA FinishClaimKeeps ==
  ASSUME IInv, TypeOK', NEW n \in Node, NEW i \in DOMAIN waiters[n], FinishClaim(n, i)
  PROVE  IInv'
<1>1. TypeOK /\ OneClaim /\ Role(n) /\ Count(n)
  BY DEF IInv
<1> DEFINE W == [term : Nat \ {0}, yes : Nat]
<1>2. waiters[n] \in Seq(W) /\ waiters \in [Node -> Seq(W)]
  BY <1>1 DEF TypeOK
<1> HIDE DEF W
<1>3. /\ waiters[n] # <<>> /\ i = 1 /\ Len(waiters[n]) = 1 /\ waiters[n][1] \in W
      /\ waiters[n][1].term = 1 /\ waiters[n][1].yes <= Cardinality(Collected) + 1
      /\ Claimer(n)
  <2>1. i \in 1..Len(waiters[n]) /\ Len(waiters[n]) \in Nat
    BY <1>2, LenProperties
  <2>2. waiters[n] # <<>>
    BY <2>1
  <2>3. waiters[n][1] \in W
    BY <1>2, <2>2, HeadTailProperties
  <2> QED
    BY <1>1, <2>1, <2>2, <2>3 DEF Count
<1>4. waiters' = [waiters EXCEPT ![n] = <<>>]
  <2>1. Ended(n, 1) = <<>>
    <3>1. SubSeq(waiters[n], 1, 0) = <<>> /\ SubSeq(waiters[n], 2, 1) = <<>>
      BY <1>2, <1>3, SubSeqProperties
    <3> QED
      BY <1>3, <3>1 DEF Ended
  <2> QED
    BY <1>3, <2>1 DEF FinishClaim
<1>5. UNCHANGED <<expectedLeaderID, beats, evals, net, votes, claims>>
  BY DEF FinishClaim, bounds
<1>6. n # Boot /\ \A k \in Node : Claimer(k) => k = n
  BY <1>1, <1>3, OneClaimer
<1> DEFINE won == waiters[n][1].yes >= Majority
           ends == state[n] = "ClaimingLeader" /\ currentTerm[n] = 1
<1>7. \/ ends /\ won /\ state' = [state EXCEPT ![n] = "Leader"] /\ UNCHANGED currentTerm
              /\ currentLeaderID' = [currentLeaderID EXCEPT ![n] = n]
      \/ ends /\ ~won /\ state' = [state EXCEPT ![n] = "Follower"]
              /\ currentTerm' = [currentTerm EXCEPT ![n] = 0]
              /\ currentLeaderID' = [currentLeaderID EXCEPT ![n] = None]
      \/ UNCHANGED <<state, currentTerm, currentLeaderID>>
  <2>1. CASE ends /\ won
    <3>1. currentTerm' = [currentTerm EXCEPT ![n] = currentTerm[n]]
      BY <1>3, <2>1 DEF FinishClaim
    <3>2. currentTerm' = currentTerm
      BY <1>1, <3>1 DEF TypeOK
    <3> QED
      BY <1>3, <2>1, <3>2 DEF FinishClaim
  <2>2. CASE ends /\ ~won
    BY <1>3, <2>2 DEF FinishClaim
  <2>3. CASE ~ends
    BY <1>3, <2>3 DEF FinishClaim
  <2> QED
    BY <2>1, <2>2, <2>3
<1>8. \A k \in Node \ {n} : OwnKept(k)
  BY ZenonT(30), <1>1, <1>5, <1>7 DEF TypeOK, OwnKept
<1>9. Grows /\ OneClaim' /\ Voters' = Voters
  <2>1. state'[Boot] = state[Boot]
    BY <1>6, <1>8, BootAssumption DEF OwnKept
  <2> QED
    BY <1>1, <1>5, <2>1 DEF Grows, OneClaim, Voters
<1>10. \A k : Claimer(k)' <=> Claimer(k)
  BY <1>5 DEF Claimer
<1>11. won => Chosen(n)
  <2>1. waiters[n][1].yes \in Nat
    BY <1>3 DEF W
  <2> QED
    BY <1>1, <1>3, <2>1, VotersFinite DEF Chosen
<1>12. \A k \in Node : Role(k)'
  <2>1. ASSUME NEW k \in Node, k # n
        PROVE  Role(k)'
    <3>1. TypeOK /\ Role(k) /\ OwnKept(k) /\ \A x \in evals'[k] : x \in evals[k]
      BY <1>5, <1>8, <2>1 DEF IInv
    <3> QED
      BY <1>9, <3>1, RoleKept DEF OwnKept
  <2>2. Role(n)'
    <3>1. claims' # <<>> /\ \A e \in evals'[n] : Claimer(e.claimer)' /\ e.term = 1 /\ n # e.claimer
      BY <1>1, <1>3, <1>5, <1>10 DEF Role, Claimer
    <3>2. CASE UNCHANGED <<state, currentTerm, currentLeaderID>>
      BY <1>1, <1>5, <1>9, <3>2, RoleKept
    <3>3. CASE ends /\ won /\ state' = [state EXCEPT ![n] = "Leader"] /\ UNCHANGED currentTerm
               /\ currentLeaderID' = [currentLeaderID EXCEPT ![n] = n]
      <4>1. state'[n] = "Leader" /\ currentTerm'[n] = 1 /\ currentLeaderID'[n] = n
        BY <1>1, <3>3 DEF TypeOK
      <4>2. Chosen(n)'
        BY <1>1, <1>9, <1>11, <3>3, Monotone
      <4>3. Known(currentLeaderID[n])'
        <5>1. votes # {}
          BY <1>1, <1>6, <1>11, <3>3, ChosenHasVote
        <5> QED
          BY <1>3, <1>5, <1>10, <4>1, <5>1 DEF Known
      <4> QED
        BY <3>1, <4>1, <4>2, <4>3 DEF Role
    <3>4. CASE ends /\ ~won /\ state' = [state EXCEPT ![n] = "Follower"]
               /\ currentTerm' = [currentTerm EXCEPT ![n] = 0]
               /\ currentLeaderID' = [currentLeaderID EXCEPT ![n] = None]
      <4>1. state'[n] = "Follower" /\ currentTerm'[n] = 0 /\ currentLeaderID'[n] = None
        BY <1>1, <3>4 DEF TypeOK
      <4> QED
        BY <1>6, <3>1, <4>1 DEF Role, Known
    <3> QED
      BY <1>7, <3>2, <3>3, <3>4
  <2> QED
    BY <2>1, <2>2
<1>13. \A k \in Node : Ballot(k)'
  <2>1. ASSUME NEW k \in Node
        PROVE  Ballot(k)'
    <3>1. Ballot(k)
      BY DEF IInv
    <3>2. \A v \in votes : v.voter = k => k # n
      <4>1. \A v \in votes : v.claimer \in Node
        BY <1>1 DEF TypeOK, Vote
      <4> QED
        BY <1>6, <3>1, <4>1 DEF Ballot
    <3>3. \A v \in votes' : v.voter = k =>
            Claimer(v.claimer)' /\ v.term = 1 /\ v.claimer # k /\ currentTerm'[k] = 1
      BY <1>5, <1>8, <1>10, <3>1, <3>2 DEF Ballot, OwnKept
    <3> QED
      BY <1>5, <1>9, <3>1, <3>3 DEF Ballot, Yes, Ack
  <2> QED
    BY <2>1
<1>14. \A k \in Node : Count(k)'
  <2>1. ASSUME NEW k \in Node, k # n
        PROVE  Count(k)'
    <3>1. Collected \subseteq Collected' /\ waiters'[k] = waiters[k]
      BY <1>2, <1>4, <1>5, <1>9, <2>1 DEF Collected, Yes, Ack
    <3> QED
      BY <1>1, <1>9, <3>1, CountKept DEF IInv
  <2>2. Count(n)'
    BY <1>2, <1>4 DEF Count
  <2> QED
    BY <2>1, <2>2
<1>15. \A x \in net' : Letter(x)'
  BY <1>1, <1>5, <1>9, LetterKept DEF IInv
<1>16. \A b \in beats' : Beat(b)'
  BY <1>1, <1>5, <1>9, BeatKept DEF IInv
<1> QED
  BY <1>9, <1>12, <1>13, <1>14, <1>15, <1>16 DEF IInv

-----------------------------------------------------------------------------
(* One succession: theorems *)

LEMMA InitHolds ==
  ASSUME Init
  PROVE  IInv
<1>1. TypeOK
  BY BootAssumption, BoundAssumption DEF Init, TypeOK
<1>2. \A n \in Node : Role(n)
  BY DEF Init, Role, Known
<1>3. \A n \in Node : Ballot(n) /\ Count(n)
  BY DEF Init, Ballot, Count
<1> QED
  BY <1>1, <1>2, <1>3 DEF Init, IInv, OneClaim

LEMMA IInvStep ==
  ASSUME MaxClaims <= 1, IInv, [Next]_vars
  PROVE  IInv'
<1>1. TypeOK'
  BY TypeStep DEF IInv
<1>2. CASE UNCHANGED vars
  BY <1>1, <1>2, StutterKeeps
<1>3. ASSUME NEW n \in Node, Timer(n)
      PROVE  IInv'
  BY <1>1, <1>3, ExpireKeeps, SendHeartbeatKeeps, CheckExpectedKeeps, CheckTimeoutKeeps
  DEF Timer
<1>4. ASSUME NEW n \in Node, Claim(n)
      PROVE  IInv'
  BY <1>1, <1>4, EvaluateKeeps, FinishClaimKeeps, CollectAckKeeps DEF Claim
<1>5. ASSUME NEW n \in Node, ExitSync(n) \/ Crash(n)
      PROVE  IInv'
  BY <1>1, <1>5, ExitSyncKeeps, CrashKeeps
<1>6. ASSUME NEW n \in Node, NEW d \in Node, SendFails(n, d)
      PROVE  IInv'
  BY <1>1, <1>6, SendFailsKeeps
<1>7. ASSUME NEW m \in net, Receive(m)
      PROVE  IInv'
  BY <1>1, <1>7, ReceiveClaimKeeps, ReceiveResponseKeeps, ReceiveUpdateKeeps, ReceiveJoinKeeps,
     ReceiveJoinedKeeps DEF Receive
<1>8. ASSUME NEW b \in beats, ReceiveHeartbeat(b)
      PROVE  IInv'
  BY <1>1, <1>8, ReceiveHeartbeatKeeps
<1> QED
  BY <1>2, <1>3, <1>4, <1>5, <1>6, <1>7, <1>8 DEF Next, Step

\* The invariant of a succession with one claim: whatever is lost, late or repeated,
\* and whoever stops.
THEOREM OneSuccession ==
  ASSUME MaxClaims <= 1
  PROVE  Spec => []IInv
<1>1. Init => IInv
  BY InitHolds
<1>2. IInv /\ [Next]_vars => IInv'
  BY IInvStep
<1> QED
  BY <1>1, <1>2, PTL DEF Spec

\* Boot leads in term 0 and the claimer in term 1, and nobody else leads.
THEOREM LeadersDiffer ==
  ASSUME MaxClaims <= 1
  PROVE  Spec => []OneLeaderPerTerm
<1>1. IInv => OneLeaderPerTerm
  <2>1. SUFFICES ASSUME IInv, NEW m \in Node, NEW n \in Node, state[m] = "Leader",
                        state[n] = "Leader", currentTerm[m] = currentTerm[n]
                 PROVE  m = n
    BY DEF OneLeaderPerTerm
  <2>2. Role(m) /\ Role(n) /\ OneClaim
    BY <2>1 DEF IInv
  <2>3. (m = Boot /\ n = Boot) \/ (Chosen(m) /\ Chosen(n))
    BY <2>1, <2>2 DEF Role
  <2> QED
    BY <2>2, <2>3, OneClaimer DEF Chosen
<1> QED
  BY <1>1, OneSuccession, PTL

\* While Boot has not noticed that another node leads, a majority is in its term:
\* the claimer and whoever voted for it, none of which ever goes back.
THEOREM MajorityHasMoved ==
  ASSUME MaxClaims <= 1
  PROVE  Spec => []Outvoted
<1>1. IInv => Outvoted
  <2>1. SUFFICES ASSUME IInv, NEW m \in Node, NEW n \in Node, state[m] = "Leader",
                        state[n] = "Leader", currentTerm[m] < currentTerm[n]
                 PROVE  Cardinality({d \in Node : currentTerm[d] >= currentTerm[n]}) >= Majority
    BY DEF Outvoted
  <2> DEFINE D == {d \in Node : currentTerm[d] >= currentTerm[n]}
  <2>2. TypeOK /\ Role(m) /\ Role(n) /\ OneClaim
    BY <2>1 DEF IInv
  <2>3. Chosen(n) /\ currentTerm[n] = 1
    BY <2>1, <2>2 DEF Role
  <2>4. Voters \in SUBSET Node /\ IsFiniteSet(Voters) /\ Cardinality(Voters) \in Nat
        /\ Majority \in Nat
    BY <2>2, VotersFinite
  <2>5. \A d \in Voters : d # n /\ currentTerm[d] = 1
    <3>1. ASSUME NEW d \in Voters
          PROVE  d # n /\ currentTerm[d] = 1
      <4>1. PICK v \in votes : v.voter = d
        BY DEF Voters
      <4>2. Ballot(d) /\ v.claimer \in Node
        BY <2>1, <2>2, <2>4 DEF IInv, TypeOK, Vote
      <4>3. Claimer(v.claimer) /\ v.claimer # d /\ currentTerm[d] = 1
        BY <4>1, <4>2 DEF Ballot
      <4>4. v.claimer = n
        BY <2>2, <2>3, <4>2, <4>3, OneClaimer DEF Chosen
      <4> QED
        BY <4>3, <4>4
    <3> QED
      BY <3>1
  <2>6. Cardinality(Voters \cup {n}) = Cardinality(Voters) + 1
    BY <2>4, <2>5, FS_AddElement
  <2>7. Voters \cup {n} \subseteq D
    BY <2>3, <2>4, <2>5
  <2>8. D \subseteq Node
    OBVIOUS
  <2> HIDE DEF D
  <2>9. IsFiniteSet(D) /\ Cardinality(D) \in Nat
    BY <2>8, NodeAssumption, FS_Subset, FS_CardinalityType
  <2>10. Cardinality(Voters \cup {n}) <= Cardinality(D)
    BY <2>7, <2>9, FS_Subset
  <2>11. Majority <= Cardinality(Voters) + 1
    BY <2>3 DEF Chosen
  <2>12. Cardinality(D) >= Majority
    BY <2>4, <2>6, <2>9, <2>10, <2>11
  <2> QED
    BY <2>12 DEF D
<1> QED
  BY <1>1, OneSuccession, PTL

-----------------------------------------------------------------------------
(* LeaderElection implements Succession, if Boot joined first: the invariant *)

BootFirst == \A n \in Node \ {Boot} : Priority[Boot] < Priority[n]

\* A node counts itself alive and expects and follows others; only Boot can sync
\* without its state saying so.
Self(n) ==
  /\ n \in alive[n]
  /\ expectedLeaderID[n] # None => Priority[expectedLeaderID[n]] < Priority[n]
  /\ currentLeaderID[n] = n => state[n] = "Leader"
  /\ state[n] = "Syncing" => syncing[n]
  /\ syncing[n] => state[n] = "Syncing" \/ (n = Boot /\ state[n] = "Follower")

\* A membership is only sent to its members.
Told(m) == m.type \in {"update", "joined"} => m.to \in m.alive

SInv ==
  /\ IInv
  /\ \A n \in Node : Self(n)
  /\ \A m \in net : Told(m)

\* Whom a node that is alive to itself prefers to itself joined before it.
LEMMA HighestIsBefore ==
  ASSUME NEW A \in SUBSET Node, NEW n \in A, Highest(A) # n
  PROVE  Highest(A) \in A /\ Priority[Highest(A)] < Priority[n]
<1> DEFINE h == Highest(A)
<1>1. h \in A /\ Priority[h] <= Priority[n]
  BY HighestFacts
<1> HIDE DEF h
<1>2. h \in Node /\ n \in Node /\ Priority[h] \in Nat /\ Priority[n] \in Nat
  BY <1>1, PriorityAssumption
<1>3. h # n
  BY DEF h
<1>4. Priority[h] # Priority[n]
  BY <1>2, <1>3, PriorityAssumption
<1>5. Priority[h] < Priority[n]
  BY <1>1, <1>2, <1>4
<1> QED
  BY <1>1, <1>5 DEF h

\* Boot, once it leads no more, selects no new leader.
LEMMA BootWaits ==
  ASSUME MaxClaims <= 1, BootFirst, SInv, CheckExpected(Boot) \/ CheckTimeout(Boot)
  PROVE  FALSE
<1>1. TypeOK /\ Role(Boot) /\ Self(Boot) /\ OneClaim
  BY BootAssumption DEF SInv, IInv
<1>2. state[Boot] # "Leader" /\ claims # <<>>
  BY <1>1 DEF CheckExpected, CheckTimeout, Role
<1>3. expectedLeaderID[Boot] = None
  <2>1. ASSUME expectedLeaderID[Boot] # None
        PROVE  FALSE
    <3>1. expectedLeaderID[Boot] \in Node
      BY <1>1, <2>1, BootAssumption DEF TypeOK
    <3>2. Priority[expectedLeaderID[Boot]] < Priority[Boot]
      BY <1>1, <2>1 DEF Self
    <3>3. Priority[Boot] \in Nat /\ Priority[expectedLeaderID[Boot]] \in Nat
      BY <3>1, BootAssumption, PriorityAssumption
    <3>4. CASE expectedLeaderID[Boot] = Boot
      BY <3>2, <3>3, <3>4
    <3>5. CASE expectedLeaderID[Boot] # Boot
      BY <3>1, <3>2, <3>3, <3>5 DEF BootFirst
    <3> QED
      BY <3>4, <3>5
  <2> QED
    BY <2>1
<1>4. CheckTimeout(Boot)
  BY <1>3 DEF CheckExpected
<1> DEFINE rest == alive[Boot] \ {currentLeaderID[Boot]}
<1>5. rest \in SUBSET Node /\ Boot \in rest
  BY <1>1, <1>2, BootAssumption DEF TypeOK, Self
<1>6. Highest(rest) = Boot
  <2>1. ASSUME Highest(rest) # Boot
        PROVE  FALSE
    <3> HIDE DEF rest
    <3>1. Highest(rest) \in rest /\ Priority[Highest(rest)] < Priority[Boot]
      BY <1>5, <2>1, HighestIsBefore
    <3>2. Highest(rest) \in Node \ {Boot}
      BY <1>5, <2>1, <3>1
    <3>3. Priority[Boot] < Priority[Highest(rest)]
      BY <3>2 DEF BootFirst
    <3>4. Priority[Boot] \in Nat /\ Priority[Highest(rest)] \in Nat
      BY <3>2, BootAssumption, PriorityAssumption
    <3> QED
      BY <3>1, <3>3, <3>4
  <2> QED
    BY <2>1
<1>7. Len(claims) < MaxClaims
  BY <1>4, <1>6 DEF CheckTimeout, SelectNewLeader
<1>8. Len(claims) \in Nat /\ claims \in Seq(Eval)
  BY <1>1 DEF TypeOK
<1> QED
  BY <1>2, <1>7, <1>8, BoundAssumption

SelfKept(k) ==
  /\ state'[k] = state[k] /\ syncing'[k] = syncing[k] /\ alive'[k] = alive[k]
  /\ currentLeaderID'[k] = currentLeaderID[k]
  /\ expectedLeaderID'[k] = expectedLeaderID[k]

\* A step of node n keeps the invariant if node n keeps its own part of it.
LEMMA SelfStep ==
  ASSUME SInv, IInv', NEW n \in Node, Self(n)', \A k \in Node \ {n} : SelfKept(k),
         \A m \in net' : m \in net \/ Told(m)
  PROVE  SInv'
<1>1. \A k \in Node : Self(k)'
  <2>1. ASSUME NEW k \in Node, k # n
        PROVE  Self(k)'
    <3>1. Self(k) /\ SelfKept(k)
      BY <2>1 DEF SInv
    <3> QED
      BY <3>1 DEF Self, SelfKept
  <2> QED
    BY <2>1
<1>2. \A m \in net' : Told(m)'
  BY DEF SInv, Told
<1> QED
  BY <1>1, <1>2 DEF SInv

\* The same for steps that leave everything of it alone.
LEMMA SelvesKept ==
  ASSUME SInv, IInv', UNCHANGED <<state, syncing, alive, currentLeaderID, expectedLeaderID>>,
         \A m \in net' : m \in net \/ Told(m)
  PROVE  SInv'
<1>1. Self(Boot)'
  <2>1. Self(Boot)
    BY BootAssumption DEF SInv
  <2> QED
    BY <2>1 DEF Self
<1>2. \A k \in Node \ {Boot} : SelfKept(k)
  BY DEF SelfKept
<1> QED
  BY <1>1, <1>2, BootAssumption, SelfStep

\* A follower that checks its timers does not sync.
LEMMA SelectSelf ==
  ASSUME SInv, IInv', NEW n \in Node, n # Boot, NEW A \in SUBSET Node, n \in A,
         NEW e \in {None, expectedLeaderID[n]}, state[n] = "Follower", SelectNewLeader(n, A, e),
         UNCHANGED syncing
  PROVE  SInv' /\ ~syncing[n]
<1>1. TypeOK /\ Self(n)
  BY DEF SInv, IInv
<1>2. ~syncing[n] /\ currentLeaderID[n] # n
  BY <1>1 DEF Self
<1> DEFINE rest == A \ {currentLeaderID[n]}
           hp == Highest(rest)
<1>3. rest \in SUBSET Node /\ n \in rest
  BY <1>2
<1>4. hp # n => hp \in Node /\ Priority[hp] < Priority[n]
  <2> HIDE DEF rest
  <2> QED
    BY <1>3, HighestIsBefore
<1>5. alive' = [alive EXCEPT ![n] = rest]
  BY DEF SelectNewLeader
<1>6. \A m \in net' : m \in net \/ Told(m)
  <2>1. CASE hp = n
    <3>1. net' = net \cup Sent({[type |-> "claim", from |-> n, to |-> d,
                                 term |-> NextTerm(n)] : d \in Node})
      BY <2>1 DEF SelectNewLeader
    <3> QED
      BY <3>1 DEF Sent, Told
  <2>2. CASE hp # n
    BY <2>2 DEF SelectNewLeader
  <2> QED
    BY <2>1, <2>2
<1>7. CASE hp = n
  <2>1. /\ state' = [state EXCEPT ![n] = "ClaimingLeader"]
        /\ expectedLeaderID' = [expectedLeaderID EXCEPT ![n] = e]
        /\ UNCHANGED <<currentLeaderID>>
    BY <1>7 DEF SelectNewLeader
  <2> HIDE DEF rest
  <2>2. Self(n)'
    BY <1>1, <1>2, <1>3, <1>5, <2>1 DEF Self, TypeOK
  <2>3. \A k \in Node \ {n} : SelfKept(k)
    BY <1>1, <1>5, <2>1 DEF SelfKept, TypeOK
  <2> QED
    BY <1>2, <1>6, <2>2, <2>3, SelfStep
<1>8. CASE hp # n
  <2>1. /\ UNCHANGED <<state>>
        /\ \/ /\ expectedLeaderID' = [expectedLeaderID EXCEPT ![n] = e]
              /\ UNCHANGED <<currentLeaderID>>
           \/ /\ expectedLeaderID' = [expectedLeaderID EXCEPT ![n] = hp]
              /\ currentLeaderID' = [currentLeaderID EXCEPT ![n] = None]
    BY <1>8 DEF SelectNewLeader
  <2> HIDE DEF rest, hp
  <2>2. Self(n)'
    <3>1. /\ currentLeaderID'[n] \in {currentLeaderID[n], None} /\ None # n
          /\ expectedLeaderID'[n] \in {None, expectedLeaderID[n], hp}
          /\ alive'[n] = rest
      BY <1>1, <1>5, <2>1, NoneAssumption DEF TypeOK
    <3> QED
      BY <1>1, <1>2, <1>3, <1>4, <1>8, <2>1, <3>1 DEF Self
  <2>3. \A k \in Node \ {n} : SelfKept(k)
    BY <1>1, <1>5, <2>1 DEF SelfKept, TypeOK
  <2> QED
    BY <1>2, <1>6, <2>2, <2>3, SelfStep
<1> QED
  BY <1>7, <1>8

-----------------------------------------------------------------------------
(* LeaderElection implements Succession: the steps *)

\* What Succession sees of the state and of the claims.
St == [n \in Node |-> IF syncing[n] THEN "Syncing" ELSE state[n]]
Claimed == {claims[i] : i \in DOMAIN claims}

\* A step of which Succession sees nothing.
LEMMA Unseen ==
  ASSUME UNCHANGED <<state, syncing, currentTerm, currentLeaderID, claims, votes>>
  PROVE  UNCHANGED S!vars
BY DEF S!vars

\* If only node n changes, so does what Succession sees.
LEMMA StChanges ==
  ASSUME NEW n \in Node, \A k \in Node \ {n} : SelfKept(k)
  PROVE  /\ St[n] = IF syncing[n] THEN "Syncing" ELSE state[n]
         /\ St' = [St EXCEPT ![n] = IF syncing'[n] THEN "Syncing" ELSE state'[n]]
<1> DEFINE s == IF syncing'[n] THEN "Syncing" ELSE state'[n]
           F(k) == IF syncing[k] THEN "Syncing" ELSE state[k]
           G(k) == IF syncing'[k] THEN "Syncing" ELSE state'[k]
<1>1. St = [k \in Node |-> F(k)] /\ St' = [k \in Node |-> G(k)]
  BY DEF St
<1>2. \A k \in Node : k # n => G(k) = F(k)
  BY DEF SelfKept
<1>3. G(n) = s
  OBVIOUS
<1> HIDE DEF F, G, s
<1>4. St' = [St EXCEPT ![n] = s]
  BY <1>1, <1>2, <1>3
<1> QED
  BY <1>1, <1>4 DEF s, F

LEMMA ClaimedIs ==
  ASSUME OneClaim, claims \in Seq(Eval), NEW c, Claimer(c)
  PROVE  Claimed = {[claimer |-> c, term |-> 1]} /\ c \in Node
<1>1. Len(claims) \in Nat /\ claims # <<>> /\ Len(claims) <= 1
  BY DEF OneClaim, Claimer
<1>2. Len(claims) = 1 /\ claims[1] \in Eval
  BY <1>1
<1>3. claims[1].claimer = c /\ claims[1].term = 1
  BY DEF OneClaim, Claimer
<1>4. claims[1] = [claimer |-> c, term |-> 1] /\ c \in Node
  BY <1>2, <1>3 DEF Eval
<1>5. DOMAIN claims = {1}
  BY <1>2
<1> QED
  BY <1>4, <1>5 DEF Claimed

\* Who leads has its majority in the sense of Succession.
LEMMA Electeds ==
  ASSUME IInv, NEW n \in Node, Chosen(n)
  PROVE  S!Elected(n, 1)
<1>1. TypeOK /\ OneClaim /\ Claimer(n)
  BY DEF IInv, Chosen
<1> DEFINE V == {d \in Node : [voter |-> d, claimer |-> n, term |-> 1] \in votes}
<1>2. \A v \in votes : v.voter \in Node /\ v = [voter |-> v.voter, claimer |-> n, term |-> 1]
                       /\ v.voter # n
  <2>1. ASSUME NEW v \in votes
        PROVE  v.voter \in Node /\ v = [voter |-> v.voter, claimer |-> n, term |-> 1] /\ v.voter # n
    <3>1. v \in Vote
      BY <1>1 DEF TypeOK
    <3>2. v.voter \in Node /\ v = [voter |-> v.voter, claimer |-> v.claimer, term |-> v.term]
      BY <3>1 DEF Vote
    <3>3. Ballot(v.voter)
      BY <3>2 DEF IInv
    <3>4. Claimer(v.claimer) /\ v.term = 1 /\ v.claimer # v.voter
      BY <3>3 DEF Ballot
    <3>5. v.claimer = n
      BY <1>1, <3>4, OneClaimer
    <3> QED
      BY <3>2, <3>4, <3>5
  <2> QED
    BY <2>1
<1>3. Voters = V /\ n \notin Voters
  BY <1>2 DEF Voters
<1>4. {n} \cup V = Voters \cup {n}
  BY <1>3
<1>5. Cardinality({n} \cup V) = Cardinality(Voters) + 1 /\ Cardinality(Voters) \in Nat
  BY <1>1, <1>3, <1>4, VotersFinite, FS_AddElement
<1>6. Cardinality(Node) \in Nat
  BY NodeAssumption, FS_CardinalityType
<1>7. 2 * Majority > Cardinality(Node) /\ Majority \in Nat
  BY <1>6 DEF Majority
<1>8. 2 * Cardinality({n} \cup V) > Cardinality(Node)
  BY <1>5, <1>6, <1>7 DEF Chosen
<1> QED
  BY <1>8 DEF S!Elected, S!Cardinality, Cardinality

\* Node n does one of its steps in Succession.
LEMMA Steps ==
  ASSUME TypeOK, NEW n \in Node,
         S!Claim(n) \/ S!Forget(n) \/ S!Win(n) \/ S!Lose(n) \/ S!ExitSync(n)
           \/ (\E c \in Claimed : S!Accept(n, c) \/ S!StepDown(n, c))
           \/ (\E c \in Claimed \cup {[claimer |-> Boot, term |-> 0]} :
                 S!Hear(n, c.claimer, c.term) \/ S!HearAgain(n, c.claimer, c.term))
  PROVE  S!Next
BY DEF S!Next, S!Leaderships, Claimed

\* Node n hears of a leadership and follows it.
LEMMA Follows ==
  ASSUME TypeOK, NEW n \in Node, NEW l \in Node, NEW term \in Nat, NEW s,
         l # n, term >= currentTerm[n], S!Elected(l, term),
         [claimer |-> l, term |-> term] \in Claimed \cup {[claimer |-> Boot, term |-> 0]},
         currentTerm' = [currentTerm EXCEPT ![n] = term],
         currentLeaderID' = [currentLeaderID EXCEPT ![n] = l],
         St' = [St EXCEPT ![n] = s],
         s = "Syncing" \/ (s = "Follower" /\ St[n] # "Syncing"),
         UNCHANGED <<claims, votes>>
  PROVE  S!Next
<1> DEFINE c == [claimer |-> l, term |-> term]
<1>1. St[n] = IF syncing[n] THEN "Syncing" ELSE state[n]
  BY DEF St
<1>2. UNCHANGED <<Claimed, votes>>
  BY DEF Claimed
<1>3. S!Follow(n, l, term, s)
  BY <1>2 DEF S!Follow, St, Claimed
<1>4. CASE St[n] # "Syncing" /\ s = "Syncing"
  <2>1. S!HearAgain(n, l, term)
    BY <1>1, <1>3, <1>4 DEF S!HearAgain
  <2>2. c.claimer = l /\ c.term = term
    OBVIOUS
  <2> HIDE DEF c
  <2>3. S!HearAgain(n, c.claimer, c.term)
    BY <2>1, <2>2
  <2> QED
    BY <2>3, Steps DEF c
<1>5. CASE ~(St[n] # "Syncing" /\ s = "Syncing")
  <2>1. s = IF St[n] = "Syncing" THEN "Syncing" ELSE "Follower"
    BY <1>5
  <2>2. S!Hear(n, l, term)
    <3> DEFINE r == IF St[n] = "Syncing" THEN "Syncing" ELSE "Follower"
    <3>1. s = r
      BY <2>1
    <3> HIDE DEF r
    <3>2. S!Follow(n, l, term, r)
      BY <1>2, <3>1 DEF S!Follow, St, Claimed
    <3> QED
      BY <3>2, Zenon DEF S!Hear, St, r
  <2>3. c.claimer = l /\ c.term = term
    OBVIOUS
  <2> HIDE DEF c
  <2>4. S!Hear(n, c.claimer, c.term)
    BY <2>2, <2>3
  <2> QED
    BY <2>4, Steps DEF c
<1> QED
  BY <1>4, <1>5

\* Steps of timers, messages and clients that Succession does not see.
LEMMA QuietRefines ==
  ASSUME SInv, IInv',
         \/ \E n \in Node : Expire(n) \/ SendHeartbeat(n) \/ Crash(n)
         \/ \E n \in Node : \E i \in DOMAIN waiters[n], m \in net : CollectAck(n, i, m)
         \/ UNCHANGED vars
  PROVE  SInv' /\ UNCHANGED S!vars
<1>1. /\ UNCHANGED <<state, syncing, alive, currentLeaderID, expectedLeaderID>>
      /\ UNCHANGED <<currentTerm, claims, votes>>
      /\ net' \subseteq net
  BY DEF Expire, SendHeartbeat, Crash, CollectAck, vars, nodeVars, bounds
<1>2. \A m \in net' : m \in net \/ Told(m)
  BY <1>1
<1> QED
  BY <1>1, <1>2, SelvesKept, Unseen

LEMMA UpdatesTold ==
  ASSUME NEW n \in Node, NEW A \in SUBSET Node
  PROVE  \A m \in Updates(n, A) : Told(m)
BY DEF Updates, Told

LEMMA SendFailsRefines ==
  ASSUME SInv, IInv', NEW n \in Node, NEW d \in Node, SendFails(n, d)
  PROVE  SInv' /\ UNCHANGED S!vars
<1>1. TypeOK /\ Self(n)
  BY DEF SInv, IInv
<1>2. /\ alive' = [alive EXCEPT ![n] = @ \ {d}] /\ d # n
      /\ net' = net \cup Sent(Updates(n, alive[n] \ {d}))
      /\ UNCHANGED <<state, currentTerm, currentLeaderID, expectedLeaderID, syncing, votes, claims>>
  BY DEF SendFails, nodeVars
<1>3. Self(n)' /\ \A k \in Node \ {n} : SelfKept(k)
  BY <1>1, <1>2 DEF Self, SelfKept, TypeOK
<1>4. \A m \in net' : m \in net \/ Told(m)
  <2>1. alive[n] \ {d} \in SUBSET Node
    BY <1>1 DEF TypeOK
  <2> QED
    BY <1>2, <2>1, UpdatesTold DEF Sent
<1> QED
  BY <1>2, <1>3, <1>4, SelfStep, Unseen

LEMMA ReceiveUpdateRefines ==
  ASSUME SInv, IInv', NEW m \in net, ReceiveUpdate(m)
  PROVE  SInv' /\ UNCHANGED S!vars
<1>1. TypeOK /\ m.to \in Node /\ Self(m.to) /\ Told(m)
  BY MessageFields DEF SInv, IInv, TypeOK
<1>2. /\ \/ alive' = alive
         \/ alive' = [alive EXCEPT ![m.to] = m.alive]
      /\ net' = net \ {m} /\ m.type = "update"
      /\ UNCHANGED <<state, currentTerm, currentLeaderID, expectedLeaderID, syncing, votes, claims>>
  <2>1. alive' = [alive EXCEPT ![m.to] = IF m.term >= currentTerm[m.to] THEN m.alive ELSE @]
    BY DEF ReceiveUpdate
  <2>2. alive' = alive \/ alive' = [alive EXCEPT ![m.to] = m.alive]
    BY <1>1, <2>1 DEF TypeOK
  <2> QED
    BY <2>2 DEF ReceiveUpdate, nodeVars, bounds
<1>3. Self(m.to)' /\ \A k \in Node \ {m.to} : SelfKept(k)
  BY <1>1, <1>2 DEF Self, SelfKept, TypeOK, Told
<1>4. \A x \in net' : x \in net \/ Told(x)
  BY <1>2
<1> QED
  BY <1>1, <1>2, <1>3, <1>4, SelfStep, Unseen

LEMMA ReceiveJoinRefines ==
  ASSUME SInv, IInv', NEW m \in net, ReceiveJoin(m)
  PROVE  SInv' /\ UNCHANGED S!vars
<1>1. TypeOK /\ m.to \in Node /\ m.from \in Node /\ Self(m.to)
  BY MessageFields DEF SInv, IInv, TypeOK
<1> DEFINE A == alive[m.to] \cup {m.from}
           j == [type |-> "joined", from |-> m.to, to |-> m.from,
                 term |-> currentTerm[m.to], alive |-> A]
<1>2. /\ \/ alive' = alive
         \/ alive' = [alive EXCEPT ![m.to] = A]
      /\ \/ net' = net \ {m}
         \/ net' = (net \ {m}) \cup Sent(Updates(m.to, A)) \cup Sent({j})
      /\ UNCHANGED <<state, currentTerm, currentLeaderID, expectedLeaderID, syncing, votes, claims>>
  BY DEF ReceiveJoin, nodeVars, bounds
<1>3. Self(m.to)' /\ \A k \in Node \ {m.to} : SelfKept(k)
  BY <1>1, <1>2 DEF Self, SelfKept, TypeOK
<1>4. Told(j)
  BY DEF Told
<1>5. \A x \in Updates(m.to, A) : Told(x)
  <2>1. A \in SUBSET Node
    BY <1>1 DEF TypeOK
  <2> HIDE DEF A
  <2> QED
    BY <1>1, <2>1, UpdatesTold
<1>6. \A x \in net' : x \in net \/ Told(x)
  <2> HIDE DEF A, j
  <2> QED
    BY <1>2, <1>4, <1>5 DEF Sent
<1> QED
  BY <1>1, <1>2, <1>3, <1>6, SelfStep, Unseen

\* A node without a sync to end keeps its state.
LEMMA ExitSyncRefines ==
  ASSUME SInv, IInv', NEW n \in Node, ExitSync(n)
  PROVE  SInv' /\ S!Next
<1>1. TypeOK /\ Self(n) /\ syncing[n]
  BY DEF SInv, IInv, ExitSync
<1>2. /\ state' = [state EXCEPT ![n] = IF @ = "Syncing" THEN "Follower" ELSE @]
      /\ syncing' = [syncing EXCEPT ![n] = FALSE]
      /\ UNCHANGED <<currentTerm, currentLeaderID, expectedLeaderID, alive, net, votes, claims>>
  BY DEF ExitSync, bounds
<1>3. state'[n] = "Follower" /\ syncing'[n] = FALSE
  <2>1. state[n] \in {"Syncing", "Follower"}
    BY <1>1 DEF Self
  <2> QED
    BY <1>1, <1>2, <2>1 DEF TypeOK
<1>4. Self(n)' /\ \A k \in Node \ {n} : SelfKept(k)
  <2>1. Self(n)'
    <3>1. state[n] # "Leader"
      BY <1>1 DEF Self
    <3> QED
      BY <1>1, <1>2, <1>3, <3>1 DEF Self
  <2> QED
    BY <1>1, <1>2, <2>1 DEF SelfKept, TypeOK
<1>5. SInv'
  BY <1>2, <1>4, SelfStep
<1>6. St[n] = "Syncing" /\ St' = [St EXCEPT ![n] = "Follower"]
  BY <1>1, <1>3, <1>4, StChanges
<1>7. S!ExitSync(n)
  BY <1>1, <1>2, <1>6 DEF S!ExitSync, St
<1> QED
  BY <1>1, <1>5, <1>7, Steps

\* Whoever sent a heartbeat that is not stale has its majority.
LEMMA ReceiveHeartbeatRefines ==
  ASSUME SInv, IInv', NEW b \in beats, ReceiveHeartbeat(b)
  PROVE  SInv' /\ (S!Next \/ UNCHANGED S!vars)
<1> DEFINE n == b.to
<1>1. /\ TypeOK /\ n \in Node /\ b.from \in Node /\ b.term \in Nat /\ Beat(b) /\ Role(n)
      /\ OneClaim /\ Self(n)
  BY DEF SInv, IInv, TypeOK, Heartbeat
<1> HIDE DEF n
<1>2. n = b.to
  BY DEF n
<1>3. UNCHANGED <<votes, claims>>
  BY DEF ReceiveHeartbeat, bounds
<1>4. CASE b.term < currentTerm[n]
  <2> DEFINE r == [type |-> "response", from |-> n, to |-> b.from,
                   term |-> currentTerm[n], leader |-> currentLeaderID[n], alive |-> alive[n]]
  <2>1. net' = net \cup Sent({r}) /\ UNCHANGED <<nodeVars, alive, syncing>>
    BY <1>2, <1>4 DEF ReceiveHeartbeat
  <2>2. Told(r)
    BY DEF Told
  <2> HIDE DEF r
  <2>3. \A m \in net' : m \in net \/ Told(m)
    BY <2>1, <2>2 DEF Sent
  <2> QED
    BY <1>3, <2>1, <2>3, SelvesKept, Unseen DEF nodeVars
<1>5. CASE ~(b.term < currentTerm[n])
  <2>1. /\ currentTerm' = [currentTerm EXCEPT ![n] = b.term]
        /\ currentLeaderID' = [currentLeaderID EXCEPT ![n] = b.from]
        /\ expectedLeaderID' = [expectedLeaderID EXCEPT ![n] = None]
        /\ alive' = [alive EXCEPT ![n] = @ \cup {b.from}]
        /\ UNCHANGED net
    BY <1>2, <1>5 DEF ReceiveHeartbeat
  <2>2. \/ /\ state' = [state EXCEPT ![n] =
                IF state[n] \in {"Leader", "ClaimingLeader"} THEN "Follower" ELSE state[n]]
           /\ UNCHANGED syncing
        \/ state[n] # "Syncing" /\ StartSync(n)
    BY <1>2, <1>5 DEF ReceiveHeartbeat
  <2>3. /\ state'[n] = "Syncing" => syncing'[n]
        /\ syncing'[n] => state'[n] = "Syncing" \/ (n = Boot /\ state'[n] = "Follower")
        /\ syncing'[n] \/ (state'[n] = "Follower" /\ ~syncing[n])
        /\ state'[n] \in {"Follower", "Syncing"}
    <3>1. state[n] \in {"Follower", "ClaimingLeader", "Leader", "Syncing"}
          /\ state \in [Node -> {"Follower", "ClaimingLeader", "Leader", "Syncing"}]
          /\ syncing \in [Node -> BOOLEAN]
      BY <1>1 DEF TypeOK
    <3>2. CASE /\ state' = [state EXCEPT ![n] =
                    IF state[n] \in {"Leader", "ClaimingLeader"} THEN "Follower" ELSE state[n]]
               /\ UNCHANGED syncing
      <4>1. state'[n] = IF state[n] \in {"Leader", "ClaimingLeader"} THEN "Follower" ELSE state[n]
        BY <1>1, <3>1, <3>2
      <4> QED
        BY <1>1, <3>1, <3>2, <4>1 DEF Self
    <3>3. CASE state[n] # "Syncing" /\ StartSync(n)
      <4>1. syncing'[n] = TRUE /\ state'[n] = IF syncing[n] THEN "Follower" ELSE "Syncing"
        BY <1>1, <3>1, <3>3 DEF StartSync
      <4> QED
        BY <1>1, <3>3, <4>1 DEF Self
    <3> QED
      BY <2>2, <3>2, <3>3
  <2>4. \A k \in Node \ {n} : SelfKept(k)
    <3>1. \A k \in Node \ {n} : state'[k] = state[k] /\ syncing'[k] = syncing[k]
      BY <1>1, <2>2 DEF StartSync, TypeOK
    <3> QED
      BY <1>1, <2>1, <3>1 DEF SelfKept, TypeOK
  <2>5. b.from # n
    BY <1>1, <1>2 DEF Beat
  <2>6. Self(n)'
    BY <1>1, <2>1, <2>3, <2>5 DEF Self, TypeOK
  <2>7. SInv'
    BY <1>1, <2>1, <2>4, <2>6, SelfStep
  <2>8. S!Elected(b.from, b.term)
        /\ [claimer |-> b.from, term |-> b.term] \in Claimed \cup {[claimer |-> Boot, term |-> 0]}
    <3>1. CASE b.from = Boot /\ b.term = 0
      BY <3>1 DEF S!Elected
    <3>2. CASE Chosen(b.from) /\ b.term = 1
      <4>1. Claimer(b.from) /\ claims \in Seq(Eval)
        BY <1>1, <3>2 DEF Chosen, TypeOK
      <4> QED
        BY <1>1, <3>2, <4>1, ClaimedIs, Electeds DEF SInv
    <3> QED
      BY <1>1, <3>1, <3>2 DEF Beat
  <2> DEFINE s == IF syncing'[n] THEN "Syncing" ELSE state'[n]
  <2>9. /\ St' = [St EXCEPT ![n] = s]
        /\ St[n] = IF syncing[n] THEN "Syncing" ELSE state[n]
    BY <1>1, <2>4, StChanges
  <2>10. s = "Syncing" \/ (s = "Follower" /\ St[n] # "Syncing")
    BY <1>1, <2>3, <2>9 DEF Self
  <2>11. b.term >= currentTerm[n]
    BY <1>1, <1>5 DEF TypeOK
  <2> HIDE DEF s
  <2>12. S!Next
    <3> PICK t : t = s
      OBVIOUS
    <3> QED
      BY <1>1, <1>3, <2>1, <2>5, <2>8, <2>9, <2>10, <2>11, Follows
  <2> QED
    BY <2>7, <2>12
<1> QED
  BY <1>4, <1>5

\* Boot, told of the claimer, steps down.
LEMMA ReceiveResponseRefines ==
  ASSUME SInv, IInv', NEW m \in net, ReceiveResponse(m)
  PROVE  SInv' /\ (S!Next \/ UNCHANGED S!vars)
<1>1. /\ TypeOK /\ m.to \in Node /\ m.type = "response" /\ m.alive \in SUBSET Node
      /\ Letter(m) /\ OneClaim
  BY MessageFields DEF SInv, IInv, TypeOK, ReceiveResponse
<1>2. m.to = Boot /\ m.term = 1 /\ Known(m.leader) /\ Self(Boot)
  BY <1>1, BootAssumption DEF Letter, SInv
<1>3. UNCHANGED <<votes, claims>>
  BY DEF ReceiveResponse, bounds
<1> DEFINE heeds == /\ state[Boot] \in {"Leader", "ClaimingLeader"}
                    /\ 1 > currentTerm[Boot]
                    /\ m.leader \notin {None, Boot}
<1>4. CASE ~heeds
  <2>1. net' = net \ {m} /\ UNCHANGED <<nodeVars, alive, syncing>>
    BY <1>2, <1>4 DEF ReceiveResponse
  <2>2. \A x \in net' : x \in net \/ Told(x)
    BY <2>1
  <2> QED
    BY <1>3, <2>1, <2>2, SelvesKept, Unseen DEF nodeVars
<1>5. CASE heeds
  <2>1. /\ currentTerm' = [currentTerm EXCEPT ![Boot] = 1]
        /\ currentLeaderID' = [currentLeaderID EXCEPT ![Boot] = m.leader]
        /\ expectedLeaderID' = [expectedLeaderID EXCEPT ![Boot] = None]
        /\ alive' = [alive EXCEPT ![Boot] = m.alive \cup {Boot}]
        /\ StartSync(Boot)
        /\ net' = (net \ {m}) \cup Sent({[type |-> "join", from |-> Boot, to |-> m.leader]})
    BY <1>2, <1>5 DEF ReceiveResponse
  <2>2. ~syncing[Boot]
    BY <1>2, <1>5 DEF Self
  <2>3. syncing'[Boot] = TRUE /\ state'[Boot] = "Syncing"
    BY <1>1, <2>1, <2>2, BootAssumption DEF StartSync, TypeOK
  <2>4. \A k \in Node \ {Boot} : SelfKept(k)
    BY <1>1, <2>1, BootAssumption DEF StartSync, TypeOK, SelfKept
  <2>5. Self(Boot)'
    <3>1. currentLeaderID'[Boot] = m.leader /\ expectedLeaderID'[Boot] = None /\ Boot \in alive'[Boot]
      BY <1>1, <2>1, BootAssumption DEF TypeOK
    <3> QED
      BY <1>5, <2>3, <3>1 DEF Self
  <2>6. \A x \in net' : x \in net \/ Told(x)
    BY <2>1 DEF Sent, Told
  <2>7. SInv'
    BY <2>4, <2>5, <2>6, BootAssumption, SelfStep
  <2> DEFINE c == [claimer |-> m.leader, term |-> 1]
  <2>8. Claimer(m.leader) /\ votes # {} /\ c \in Claimed
    <3>1. Claimer(m.leader) /\ votes # {} /\ claims \in Seq(Eval)
      BY <1>1, <1>2, <1>5 DEF Known, TypeOK
    <3> QED
      BY <1>1, <3>1, ClaimedIs
  <2>9. \E v \in votes : v.claimer = c.claimer /\ v.term = c.term
    <3>1. PICK v \in votes : TRUE
      BY <2>8
    <3>2. v.voter \in Node
      BY <1>1 DEF TypeOK, Vote
    <3>3. Claimer(v.claimer) /\ v.term = 1
      BY <3>2 DEF SInv, IInv, Ballot
    <3>4. v.claimer = m.leader
      BY <1>1, <2>8, <3>3, OneClaimer
    <3> QED
      BY <3>3, <3>4
  <2>10. /\ St' = [St EXCEPT ![Boot] = "Syncing"]
         /\ St[Boot] \in {"Leader", "ClaimingLeader"}
    BY <1>5, <2>2, <2>3, <2>4, BootAssumption, StChanges
  <2>11. Claimed' = Claimed
    BY <1>3 DEF Claimed
  <2>12. c.claimer = m.leader /\ c.term = 1
    OBVIOUS
  <2> HIDE DEF c
  <2>13. S!Follow(Boot, c.claimer, c.term, "Syncing")
    BY <1>3, <2>1, <2>10, <2>11, <2>12 DEF S!Follow, St, Claimed
  <2>14. S!StepDown(Boot, c)
    <3>1. c.term > currentTerm[Boot] /\ c.claimer # Boot
      BY <1>5, <2>12
    <3> QED
      BY <2>9, <2>10, <2>13, <3>1 DEF S!StepDown, St
  <2>15. S!Next
    BY <1>1, <2>8, <2>14, BootAssumption, Steps
  <2> QED
    BY <2>7, <2>15
<1> QED
  BY <1>4, <1>5

\* Boot, let in again, follows the claimer, which leads.
LEMMA ReceiveJoinedRefines ==
  ASSUME SInv, IInv', NEW m \in net, ReceiveJoined(m)
  PROVE  SInv' /\ S!Next
<1>1. /\ TypeOK /\ m.from \in Node /\ m.to \in Node /\ m.type = "joined"
      /\ m.alive \in SUBSET Node /\ Letter(m) /\ OneClaim /\ Told(m)
  BY MessageFields DEF SInv, IInv, TypeOK, ReceiveJoined
<1>2. /\ m.to = Boot /\ Chosen(m.from) /\ m.term = 1 /\ state[Boot] # "Leader"
      /\ Self(Boot) /\ Role(Boot) /\ m.from # Boot /\ Claimer(m.from)
  <2>1. m.to = Boot /\ Chosen(m.from) /\ m.term = 1 /\ state[Boot] # "Leader" /\ Claimer(m.from)
    BY <1>1 DEF Letter, Chosen
  <2> QED
    BY <1>1, <2>1, BootAssumption, OneClaimer DEF SInv, IInv
<1>3. /\ UNCHANGED <<votes, claims, expectedLeaderID>>
      /\ alive' = [alive EXCEPT ![Boot] = m.alive]
      /\ currentLeaderID' = [currentLeaderID EXCEPT ![Boot] = m.from]
      /\ currentTerm' = [currentTerm EXCEPT ![Boot] = 1]
      /\ net' = net \ {m}
      /\ \/ state' = [state EXCEPT ![Boot] = "Follower"] /\ UNCHANGED syncing
         \/ StartSync(Boot)
  BY <1>2 DEF ReceiveJoined, bounds
<1>4. /\ state'[Boot] \in {"Follower", "Syncing"}
      /\ state'[Boot] = "Syncing" => syncing'[Boot]
      /\ syncing'[Boot] \/ (state'[Boot] = "Follower" /\ ~syncing[Boot])
  BY <1>1, <1>3, BootAssumption DEF StartSync, TypeOK
<1>5. \A k \in Node \ {Boot} : SelfKept(k)
  BY <1>1, <1>3, BootAssumption DEF StartSync, TypeOK, SelfKept
<1>6. Self(Boot)'
  <2>1. /\ currentLeaderID'[Boot] = m.from /\ Boot \in alive'[Boot]
        /\ expectedLeaderID'[Boot] = expectedLeaderID[Boot]
    BY <1>1, <1>2, <1>3, BootAssumption DEF TypeOK, Told
  <2> QED
    BY <1>2, <1>4, <2>1 DEF Self
<1>7. SInv'
  BY <1>3, <1>5, <1>6, BootAssumption, SelfStep
<1>8. S!Elected(m.from, 1) /\ [claimer |-> m.from, term |-> 1] \in Claimed
  <2>1. claims \in Seq(Eval)
    BY <1>1 DEF TypeOK
  <2> QED
    BY <1>1, <1>2, <2>1, ClaimedIs, Electeds DEF SInv
<1> DEFINE s == IF syncing'[Boot] THEN "Syncing" ELSE state'[Boot]
<1>9. /\ St' = [St EXCEPT ![Boot] = s]
      /\ St[Boot] = IF syncing[Boot] THEN "Syncing" ELSE state[Boot]
  BY <1>5, BootAssumption, StChanges
<1>10. s = "Syncing" \/ (s = "Follower" /\ St[Boot] # "Syncing")
  BY <1>2, <1>4, <1>9 DEF Self
<1>11. 1 >= currentTerm[Boot]
  BY <1>2 DEF Role
<1> HIDE DEF s
<1>12. S!Next
  <2> PICK t : t = s
    OBVIOUS
  <2> QED
    BY <1>1, <1>2, <1>3, <1>8, <1>9, <1>10, <1>11, BootAssumption, Follows
<1> QED
  BY <1>7, <1>12

\* selectNewLeader claims, or waits for the claim of the next in line.
LEMMA SelectRefines ==
  ASSUME MaxClaims <= 1, SInv, IInv', NEW n \in Node, n # Boot, NEW A \in SUBSET Node, n \in A,
         NEW e \in {None, expectedLeaderID[n]}, state[n] = "Follower", SelectNewLeader(n, A, e),
         UNCHANGED <<syncing, votes>>
  PROVE  SInv' /\ (S!Next \/ UNCHANGED S!vars)
<1> DEFINE hp == Highest(A \ {currentLeaderID[n]})
<1>1. TypeOK /\ OneClaim /\ OneClaim' /\ SInv' /\ ~syncing[n]
  BY SelectSelf DEF SInv, IInv
<1>2. St[n] = "Follower"
  BY <1>1 DEF St
<1>3. CASE hp = n
  <2>1. /\ Len(claims) < MaxClaims
        /\ claims' = Append(claims, [claimer |-> n, term |-> NextTerm(n)])
        /\ state' = [state EXCEPT ![n] = "ClaimingLeader"]
        /\ currentTerm' = [currentTerm EXCEPT ![n] = NextTerm(n)]
        /\ UNCHANGED <<currentLeaderID>>
    BY <1>3 DEF SelectNewLeader
  <2>2. claims = <<>>
    <3>1. claims \in Seq(Eval) /\ Len(claims) \in Nat
      BY <1>1 DEF TypeOK
    <3>2. Len(claims) = 0
      BY <2>1, <3>1, BoundAssumption
    <3> QED
      BY <3>1, <3>2
  <2> DEFINE c == [claimer |-> n, term |-> currentTerm[n] + 1]
  <2>3. Claimed = {} /\ Claimed' = {c}
    <3>1. claims' = Append(<<>>, c)
      BY <2>1, <2>2 DEF NextTerm
    <3> HIDE DEF c
    <3>2. claims' = <<c>>
      BY <3>1
    <3>3. Claimed' = {c}
      BY <3>2 DEF Claimed
    <3> QED
      BY <2>2, <3>3 DEF Claimed
  <2>4. St' = [St EXCEPT ![n] = "ClaimingLeader"]
    <3>1. St' = [k \in Node |-> IF k = n THEN "ClaimingLeader" ELSE St[k]]
      BY <1>1, <2>1 DEF St, TypeOK
    <3> QED
      BY <3>1 DEF St
  <2>5. currentTerm' = [currentTerm EXCEPT ![n] = @ + 1]
    BY <2>1 DEF NextTerm
  <2>6. S!Claim(n)
    BY <1>2, <2>1, <2>3, <2>4, <2>5 DEF S!Claim, St, Claimed
  <2> QED
    BY <1>1, <2>6, Steps
<1>4. CASE hp # n
  <2>1. /\ UNCHANGED <<state, currentTerm, claims>>
        /\ \/ UNCHANGED currentLeaderID
           \/ currentLeaderID' = [currentLeaderID EXCEPT ![n] = None]
    BY <1>4 DEF SelectNewLeader
  <2>2. CASE UNCHANGED currentLeaderID
    BY <1>1, <2>1, <2>2, Unseen
  <2>3. CASE currentLeaderID' = [currentLeaderID EXCEPT ![n] = None]
    <3>1. UNCHANGED <<St, Claimed>>
      BY <2>1 DEF St, Claimed
    <3>2. S!Forget(n)
      BY <1>2, <2>1, <2>3, <3>1 DEF S!Forget, St, Claimed
    <3> QED
      BY <1>1, <3>2, Steps
  <2> QED
    BY <2>1, <2>2, <2>3
<1> QED
  BY <1>3, <1>4

LEMMA CheckTimeoutRefines ==
  ASSUME MaxClaims <= 1, BootFirst, SInv, IInv', NEW n \in Node, CheckTimeout(n)
  PROVE  SInv' /\ (S!Next \/ UNCHANGED S!vars)
<1>1. n # Boot
  BY BootWaits
<1>2. alive[n] \in SUBSET Node /\ n \in alive[n]
  BY DEF SInv, IInv, TypeOK, Self
<1>3. state[n] = "Follower" /\ SelectNewLeader(n, alive[n], expectedLeaderID[n])
      /\ UNCHANGED <<syncing, votes>>
  BY DEF CheckTimeout
<1> QED
  BY <1>1, <1>2, <1>3, SelectRefines

LEMMA CheckExpectedRefines ==
  ASSUME MaxClaims <= 1, BootFirst, SInv, IInv', NEW n \in Node, CheckExpected(n)
  PROVE  SInv' /\ (S!Next \/ UNCHANGED S!vars)
<1> DEFINE x == expectedLeaderID[n]
<1>1. n # Boot /\ TypeOK /\ Self(n)
  BY BootWaits DEF SInv, IInv
<1>2. x # n
  <2>1. Priority[n] \in Nat /\ (x # None => Priority[x] < Priority[n])
    BY <1>1, PriorityAssumption DEF Self
  <2> QED
    BY <2>1, NoneAssumption
<1>3. CASE state[n] = "Follower"
  <2>1. alive[n] \ {x} \in SUBSET Node /\ n \in alive[n] \ {x}
    BY <1>1, <1>2 DEF TypeOK, Self
  <2>2. SelectNewLeader(n, alive[n] \ {x}, None) /\ UNCHANGED <<syncing, votes>>
    BY <1>3 DEF CheckExpected
  <2> HIDE DEF x
  <2> QED
    BY <1>1, <1>3, <2>1, <2>2, SelectRefines
<1>4. CASE state[n] # "Follower"
  <2>1. /\ alive' = [alive EXCEPT ![n] = @ \ {x}]
        /\ expectedLeaderID' = [expectedLeaderID EXCEPT ![n] = None]
        /\ UNCHANGED <<state, currentTerm, currentLeaderID, net, claims, syncing, votes>>
    BY <1>4 DEF CheckExpected
  <2>2. Self(n)'
    <3>1. alive'[n] = alive[n] \ {x} /\ expectedLeaderID'[n] = None
      BY <1>1, <2>1 DEF TypeOK
    <3> QED
      BY <1>1, <1>2, <2>1, <3>1 DEF Self
  <2>3. \A k \in Node \ {n} : SelfKept(k)
    BY <1>1, <2>1 DEF SelfKept, TypeOK
  <2>4. \A m \in net' : m \in net \/ Told(m)
    BY <2>1
  <2> QED
    BY <2>1, <2>2, <2>3, <2>4, SelfStep, Unseen
<1> QED
  BY <1>3, <1>4

\* A YES that Succession allows.
LEMMA AcceptRefines ==
  ASSUME IInv, NEW n \in Node, NEW c \in Node, Claimer(c), n # c,
         Priority[c] < Priority[n], Accept(n, c, 1), UNCHANGED <<state, syncing, claims>>,
         state[n] # "Leader", Self(n)
  PROVE  S!Next
<1>1. TypeOK /\ OneClaim /\ Role(n)
  BY DEF IInv
<1> DEFINE v == [claimer |-> c, term |-> 1]
<1>2. v \in Claimed
  <2>1. claims \in Seq(Eval)
    BY <1>1 DEF TypeOK
  <2> QED
    BY <1>1, <2>1, ClaimedIs
<1>3. UNCHANGED <<St, Claimed>>
  BY DEF St, Claimed
<1>4. St[n] \in {"Follower", "Syncing"}
  <2>1. state[n] \notin {"Leader", "ClaimingLeader"}
    BY <1>1, OneClaimer DEF Role
  <2> QED
    BY <1>1, <2>1 DEF St, TypeOK
<1>5. /\ currentTerm' = [currentTerm EXCEPT ![n] = 1]
      /\ currentLeaderID' = [currentLeaderID EXCEPT ![n] = c]
      /\ votes' = votes \cup {[voter |-> n, claimer |-> c, term |-> 1]}
  BY DEF Accept
<1>6. 1 >= currentTerm[n]
  BY <1>1 DEF Role
<1>7. v.claimer = c /\ v.term = 1
  OBVIOUS
<1> HIDE DEF v
<1>8. S!Accept(n, v)
  BY <1>3, <1>4, <1>5, <1>6, <1>7 DEF S!Accept, St, Claimed
<1> QED
  BY <1>1, <1>2, <1>8, Steps

LEMMA ReceiveClaimRefines ==
  ASSUME SInv, IInv', NEW m \in net, ReceiveClaim(m)
  PROVE  SInv' /\ (S!Next \/ UNCHANGED S!vars)
<1> DEFINE n == m.to
           c == m.from
<1>1. /\ TypeOK /\ OneClaim /\ m \in Message /\ m.type = "claim" /\ n \in Node /\ c \in Node
      /\ Letter(m) /\ Role(n) /\ Self(n)
  BY MessageFields DEF SInv, IInv, TypeOK, ReceiveClaim
<1>2. Claimer(c) /\ m.term = 1 /\ n # c
  BY <1>1 DEF Letter
<1>3. UNCHANGED <<state, alive, syncing, claims>>
  BY DEF ReceiveClaim, bounds
<1>4. PICK yes \in BOOLEAN, later \in BOOLEAN :
        /\ IF yes THEN Accept(n, c, m.term)
           ELSE UNCHANGED <<currentLeaderID, currentTerm, expired, votes>>
        /\ expectedLeaderID' = [expectedLeaderID EXCEPT ![n] = IF yes THEN None ELSE @]
        /\ net' = (net \ {m}) \cup
             (IF later THEN {} ELSE Sent({Ack(n, c, m.term, yes)}))
        /\ yes => \/ expectedLeaderID[n] = c
                  \/ Highest(alive[n]) = c /\ state[n] \notin {"Leader", "ClaimingLeader"}
  <2> DEFINE expecting == expectedLeaderID[n] # None
             busy == state[n] \in {"Leader", "ClaimingLeader"}
             first == Highest(alive[n]) = c
             Y == IF expecting THEN c = expectedLeaderID[n]
                  ELSE ~busy /\ first /\ m.term >= currentTerm[n]
             L == ~expecting /\ ~busy /\ ~first /\ alive[n] # {}
  <2>1. Y \in BOOLEAN /\ L \in BOOLEAN
    OBVIOUS
  <2>2. /\ IF Y THEN Accept(n, c, m.term)
           ELSE UNCHANGED <<currentLeaderID, currentTerm, expired, votes>>
        /\ expectedLeaderID' = [expectedLeaderID EXCEPT ![n] = IF Y THEN None ELSE @]
        /\ net' = (net \ {m}) \cup (IF L THEN {} ELSE Sent({Ack(n, c, m.term, Y)}))
    BY Zenon DEF ReceiveClaim
  <2>3. Y => expectedLeaderID[n] = c \/ (first /\ ~busy)
    OBVIOUS
  <2> HIDE DEF Y, L
  <2> QED
    BY <2>1, <2>2, <2>3, Zenon
<1> HIDE DEF n, c
<1>5. \A x \in net' : x \in net \/ Told(x)
  <2> DEFINE a == Ack(n, c, m.term, yes)
  <2>1. Told(a)
    BY DEF Told, Ack
  <2> HIDE DEF a
  <2>2. \A x \in net' : x \in net \/ x = a
    BY <1>4 DEF Sent, a
  <2> QED
    BY <2>1, <2>2
<1>6. CASE yes
  <2>1. Accept(n, c, 1) /\ expectedLeaderID' = [expectedLeaderID EXCEPT ![n] = None]
    BY <1>2, <1>4, <1>6, Zenon
  <2>2. state[n] # "Leader"
    <3>1. ~Claimer(n)
      BY <1>1, <1>2, OneClaimer
    <3> QED
      BY <1>1, <1>4, <1>6, <3>1, NoneAssumption DEF Role, Chosen
  <2>3. Priority[c] < Priority[n]
    <3>1. CASE expectedLeaderID[n] = c
      BY <1>1, <3>1, NoneAssumption DEF Self
    <3>2. CASE Highest(alive[n]) = c
      <4>1. alive[n] \in SUBSET Node /\ n \in alive[n]
        BY <1>1 DEF TypeOK, Self
      <4> QED
        BY <1>2, <3>2, <4>1, HighestIsBefore
    <3> QED
      BY <1>4, <1>6, <3>1, <3>2
  <2>4. Self(n)'
    <3>1. currentLeaderID'[n] = c /\ expectedLeaderID'[n] = None
      BY <1>1, <2>1 DEF Accept, TypeOK
    <3> QED
      BY <1>1, <1>2, <1>3, <3>1 DEF Self
  <2>5. \A k \in Node \ {n} : SelfKept(k)
    BY <1>1, <1>3, <2>1 DEF Accept, SelfKept, TypeOK
  <2>6. S!Next
    BY <1>1, <1>2, <1>3, <2>1, <2>2, <2>3, AcceptRefines DEF SInv
  <2> QED
    BY <1>1, <1>5, <2>4, <2>5, <2>6, SelfStep
<1>7. CASE ~yes
  <2>1. UNCHANGED <<currentLeaderID, currentTerm, votes, expectedLeaderID>>
    <3>1. expectedLeaderID' = expectedLeaderID
      BY <1>1, <1>4, <1>7 DEF TypeOK
    <3> QED
      BY <1>4, <1>7, <3>1
  <2> QED
    BY <1>3, <1>5, <2>1, SelvesKept, Unseen
<1> QED
  BY <1>6, <1>7

LEMMA EvaluateRefines ==
  ASSUME SInv, IInv', NEW n \in Node, NEW e \in evals[n], Evaluate(n, e)
  PROVE  SInv' /\ (S!Next \/ UNCHANGED S!vars)
<1> DEFINE A == Remaining(n)
           c == e.claimer
<1>1. TypeOK /\ OneClaim /\ Role(n) /\ Self(n) /\ c \in Node
  <2>1. TypeOK /\ OneClaim /\ Role(n) /\ Self(n)
    BY DEF SInv, IInv
  <2> QED
    BY <2>1 DEF TypeOK, Eval
<1>2. Claimer(c) /\ e.term = 1 /\ n # c
  BY <1>1 DEF Role
<1>3. state[n] # "Leader"
  BY <1>1, <1>2, OneClaimer DEF Role, Chosen
<1>4. A \in SUBSET Node /\ n \in A
  BY <1>1, <1>3 DEF Remaining, Self, TypeOK
<1> HIDE DEF A, c
<1>5. PICK yes \in BOOLEAN :
        /\ IF yes THEN Accept(n, c, e.term)
           ELSE UNCHANGED <<currentLeaderID, currentTerm, expired, votes>>
        /\ net' = net \cup Sent({Ack(n, c, e.term, yes)})
        /\ yes => Highest(A) = c
  BY Zenon DEF Evaluate, A, c
<1>6. /\ alive' = [alive EXCEPT ![n] = A]
      /\ UNCHANGED <<state, expectedLeaderID, syncing, claims>>
  BY DEF Evaluate, bounds, A
<1>7. \A x \in net' : x \in net \/ Told(x)
  <2> DEFINE a == Ack(n, c, e.term, yes)
  <2>1. Told(a)
    BY DEF Told, Ack
  <2> HIDE DEF a
  <2>2. \A x \in net' : x \in net \/ x = a
    BY <1>5 DEF Sent, a
  <2> QED
    BY <2>1, <2>2
<1>8. CASE yes
  <2>1. Accept(n, c, 1)
    BY <1>2, <1>5, <1>8, Zenon
  <2>2. Priority[c] < Priority[n]
    BY <1>2, <1>4, <1>5, <1>8, HighestIsBefore
  <2>3. Self(n)'
    <3>1. currentLeaderID'[n] = c /\ alive'[n] = A
      BY <1>1, <1>6, <2>1 DEF Accept, TypeOK
    <3> QED
      BY <1>1, <1>2, <1>4, <1>6, <3>1 DEF Self
  <2>4. \A k \in Node \ {n} : SelfKept(k)
    BY <1>1, <1>6, <2>1 DEF Accept, SelfKept, TypeOK
  <2>5. S!Next
    BY <1>1, <1>2, <1>3, <1>6, <2>1, <2>2, AcceptRefines DEF SInv
  <2> QED
    BY <1>7, <2>3, <2>4, <2>5, SelfStep
<1>9. CASE ~yes
  <2>1. UNCHANGED <<currentLeaderID, currentTerm, votes>>
    BY <1>5, <1>9
  <2>2. Self(n)'
    <3>1. alive'[n] = A
      BY <1>1, <1>6 DEF TypeOK
    <3> QED
      BY <1>1, <1>4, <1>6, <2>1, <3>1 DEF Self
  <2>3. \A k \in Node \ {n} : SelfKept(k)
    BY <1>1, <1>6, <2>1 DEF SelfKept, TypeOK
  <2> QED
    BY <1>6, <1>7, <2>1, <2>2, <2>3, SelfStep, Unseen
<1> QED
  BY <1>8, <1>9

LEMMA FinishClaimRefines ==
  ASSUME SInv, IInv', NEW n \in Node, NEW i \in DOMAIN waiters[n], FinishClaim(n, i)
  PROVE  SInv' /\ (S!Next \/ UNCHANGED S!vars)
<1> DEFINE w == waiters[n][i]
           won == w.yes >= Majority
<1>1. TypeOK /\ Role(n) /\ Self(n)
  BY DEF SInv, IInv
<1>2. UNCHANGED <<expectedLeaderID, alive, syncing, net, votes, claims>>
  BY DEF FinishClaim, bounds
<1>3. Claimed' = Claimed
  BY <1>2 DEF Claimed
<1>4. CASE ~(state[n] = "ClaimingLeader" /\ currentTerm[n] = w.term)
  <2>1. UNCHANGED <<state, currentTerm, currentLeaderID>>
    BY <1>4 DEF FinishClaim
  <2> QED
    BY <1>2, <2>1, SelvesKept, Unseen
<1>5. CASE state[n] = "ClaimingLeader" /\ currentTerm[n] = w.term
  <2>1. ~syncing[n] /\ n # Boot /\ currentTerm[n] = 1
    <3>1. OneClaim
      BY DEF SInv, IInv
    <3> QED
      BY <1>1, <1>5, <3>1, OneClaimer DEF Self, Role
  <2>2. CASE won
    <3>1. /\ state' = [state EXCEPT ![n] = "Leader"]
          /\ currentTerm' = [currentTerm EXCEPT ![n] = @]
          /\ currentLeaderID' = [currentLeaderID EXCEPT ![n] = n]
      BY <1>5, <2>2 DEF FinishClaim
    <3>2. state'[n] = "Leader" /\ currentTerm' = currentTerm /\ \A k \in Node \ {n} : SelfKept(k)
      BY <1>1, <1>2, <3>1 DEF TypeOK, SelfKept
    <3>3. Self(n)'
      BY <1>1, <1>2, <2>1, <3>2 DEF Self
    <3>4. SInv'
      BY <1>2, <3>2, <3>3, SelfStep
    <3>5. St[n] = "ClaimingLeader" /\ St' = [St EXCEPT ![n] = "Leader"]
      BY <1>2, <1>5, <2>1, <3>2, StChanges
    <3>6. S!Elected(n, currentTerm[n])
      <4>1. Role(n)'
        BY DEF IInv
      <4>2. Chosen(n)'
        BY <2>1, <3>2, <4>1 DEF Role
      <4>3. Chosen(n)
        BY <1>2, <4>2 DEF Chosen, Claimer, Voters, Majority
      <4> QED
        BY <2>1, <4>3, Electeds DEF SInv
    <3>7. S!Win(n)
      BY <1>2, <1>3, <3>1, <3>2, <3>5, <3>6 DEF S!Win, St, Claimed
    <3> QED
      BY <1>1, <3>4, <3>7, Steps
  <2>3. CASE ~won
    <3>1. /\ state' = [state EXCEPT ![n] = "Follower"]
          /\ currentTerm' = [currentTerm EXCEPT ![n] = @ - 1]
          /\ currentLeaderID' = [currentLeaderID EXCEPT ![n] = None]
      BY <1>5, <2>3 DEF FinishClaim
    <3>2. /\ state'[n] = "Follower" /\ currentLeaderID'[n] = None
          /\ \A k \in Node \ {n} : SelfKept(k)
      BY <1>1, <1>2, <3>1 DEF TypeOK, SelfKept
    <3>3. Self(n)'
      BY <1>1, <1>2, <2>1, <3>2, NoneAssumption DEF Self
    <3>4. SInv'
      BY <1>2, <3>2, <3>3, SelfStep
    <3>5. St[n] = "ClaimingLeader" /\ St' = [St EXCEPT ![n] = "Follower"]
      BY <1>2, <1>5, <2>1, <3>2, StChanges
    <3>6. S!Lose(n)
      BY <1>2, <1>3, <3>1, <3>5 DEF S!Lose, St, Claimed
    <3> QED
      BY <1>1, <3>4, <3>6, Steps
  <2> QED
    BY <2>2, <2>3
<1> QED
  BY <1>4, <1>5

LEMMA RefinementStep ==
  ASSUME MaxClaims <= 1, BootFirst, SInv, [Next]_vars
  PROVE  SInv' /\ (S!Next \/ UNCHANGED S!vars)
<1> DEFINE Goal == SInv' /\ (S!Next \/ UNCHANGED S!vars)
<1>1. IInv'
  BY IInvStep DEF SInv
<1>2. CASE UNCHANGED vars
  BY <1>1, <1>2, QuietRefines
<1>3. ASSUME NEW n \in Node, Timer(n)
      PROVE  Goal
  BY <1>1, <1>3, QuietRefines, CheckExpectedRefines, CheckTimeoutRefines DEF Timer
<1>4. ASSUME NEW n \in Node, Claim(n)
      PROVE  Goal
  BY <1>1, <1>4, EvaluateRefines, FinishClaimRefines, QuietRefines DEF Claim
<1>5. ASSUME NEW n \in Node, ExitSync(n) \/ Crash(n)
      PROVE  Goal
  BY <1>1, <1>5, ExitSyncRefines, QuietRefines
<1>6. ASSUME NEW n \in Node, NEW d \in Node, SendFails(n, d)
      PROVE  Goal
  BY <1>1, <1>6, SendFailsRefines
<1>7. ASSUME NEW m \in net, Receive(m)
      PROVE  Goal
  BY <1>1, <1>7, ReceiveClaimRefines, ReceiveResponseRefines, ReceiveUpdateRefines,
     ReceiveJoinRefines, ReceiveJoinedRefines DEF Receive
<1>8. ASSUME NEW b \in beats, ReceiveHeartbeat(b)
      PROVE  Goal
  BY <1>1, <1>8, ReceiveHeartbeatRefines
<1> QED
  BY <1>2, <1>3, <1>4, <1>5, <1>6, <1>7, <1>8 DEF Next, Step

\* The election, with its timers, late messages and dead marks, is one that Succession
\* describes, if Boot joined first.
THEOREM ElectionImplementsSuccession ==
  ASSUME MaxClaims <= 1, BootFirst
  PROVE  Spec => Succeeds
<1>1. Init => SInv /\ S!Init
  <2>1. SUFFICES ASSUME Init
                 PROVE  SInv /\ S!Init
    OBVIOUS
  <2>2. IInv
    BY <2>1, InitHolds
  <2>3. \A n \in Node : Self(n)
    BY <2>1, NoneAssumption DEF Init, Self
  <2>4. \A m \in net : Told(m)
    BY <2>1 DEF Init
  <2>5. St = [n \in Node |-> IF n = Boot THEN "Leader" ELSE "Follower"]
    BY <2>1 DEF Init, St
  <2>6. Claimed = {}
    BY <2>1 DEF Init, Claimed
  <2>7. S!Init
    BY <2>1, <2>5, <2>6 DEF Init, S!Init, St, Claimed
  <2> QED
    BY <2>2, <2>3, <2>4, <2>7 DEF SInv
<1>2. SInv /\ [Next]_vars => SInv' /\ [S!Next]_S!vars
  BY RefinementStep
<1> QED
  BY <1>1, <1>2, PTL DEF Spec, Succeeds, S!Spec
=============================================================================
