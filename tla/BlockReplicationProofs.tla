----------------------- MODULE BlockReplicationProofs -----------------------
(***************************************************************************)
(* Theorems about BlockReplication, and about LeaderChange before the first *)
(* claim, for every set of nodes and submissions and every value of the     *)
(* bounds.                                                                  *)
(***************************************************************************)
EXTENDS LeaderChange, TLAPS, FiniteSetTheorems, SequenceTheorems, WellFoundedInduction

-----------------------------------------------------------------------------
(* The inductive invariant *)

\* Nobody but Boot ever leads, in the term it started with.
Roles ==
  /\ state[Boot] = "Leader"
  /\ \A n \in Node \ {Boot} : state[n] # "Leader" /\ waiters[n] = {}
  /\ \A n \in Node : currentTerm[n] = 0 /\ currentLeaderID[n] = Boot
  /\ \A m \in proposals : m.from = Boot /\ m.term = 0 /\ m.entry.term = 0
  /\ \A m \in commits : m.from = Boot

\* Entry e was proposed: it is the leader's entry at its index.
Proposed(e) == e.index \in DOMAIN RaftLog[Boot] /\ RaftLog[Boot][e.index] = e

Stored(n, e) == \E i \in DOMAIN RaftLog[n] : RaftLog[n][i] = e

\* The leader's log has no gap, and nothing else is ever proposed or stored.
Logs ==
  /\ \A i \in DOMAIN RaftLog[Boot] :
       RaftLog[Boot][i].index = i /\ RaftLog[Boot][i].term = 0
  /\ \A n \in Node : \A i \in DOMAIN RaftLog[n] : Proposed(RaftLog[n][i])
  /\ \A m \in proposals : Proposed(m.entry)
  /\ \A w \in waiters[Boot] : Proposed(w.entry)

\* Whoever acknowledged an entry stores it.
Acknowledged ==
  /\ \A m \in blockAcks : m.accepted =>
       \E i \in DOMAIN RaftLog[m.from] : RaftLog[m.from][i].index = m.index
  /\ \A w \in waiters[Boot] : \A n \in w.acks : Stored(n, w.entry)

\* Only blocks the leader committed are announced, applied or copied.
CommittedOnly ==
  /\ \A m \in commits :
       /\ m.index \in DOMAIN RaftLog[Boot]
       /\ RaftLog[Boot][m.index].block \in BlocksOf(Boot)
  /\ CommittedByLeader
  /\ MajorityHolds

\* The loop has at most one block in flight: it links to the tip of the chain
\* and its transactions are still in the pool.
OneInFlight ==
  /\ loop[Boot] = "ready" => waiters[Boot] = {}
  /\ \A v, w \in waiters[Boot] : v = w
  /\ \A w \in waiters[Boot] :
       /\ w.entry.block.prevHash = lastCommittedHash[Boot]
       /\ w.entry.block.txs \in SUBSET TxPool[Boot]
       /\ w.entry.block.txs # {}
       /\ Cardinality(w.entry.block.txs) <= BatchSize
  /\ LeaderChain

\* A submission is in one place only: in a forward, in the pool or ordered.
OnePlace ==
  /\ IsFiniteSet(submitted)
  /\ TxPool[Boot] \subseteq submitted
  /\ \A m \in forwards : m.to = Boot /\ m.sub \in submitted \ TxPool[Boot]
  /\ \A i \in DOMAIN OrderingBlock[Boot] :
       /\ OrderingBlock[Boot][i].txs \subseteq submitted
       /\ OrderingBlock[Boot][i].txs \cap TxPool[Boot] = {}
       /\ \A m \in forwards : m.sub \notin OrderingBlock[Boot][i].txs
  /\ NoDoubleOrder

IInv == TypeOK /\ Roles /\ Logs /\ Acknowledged /\ CommittedOnly /\ OneInFlight /\ OnePlace

-----------------------------------------------------------------------------
(* Sequences *)

\* What appending one element does to a sequence.
LEMMA AppendFacts ==
  ASSUME NEW E, NEW s \in Seq(E), NEW e \in E
  PROVE  /\ Append(s, e) \in Seq(E)
         /\ DOMAIN Append(s, e) = 1..(Len(s) + 1)
         /\ Len(Append(s, e)) = Len(s) + 1
         /\ \A i \in 1..Len(s) : Append(s, e)[i] = s[i]
         /\ Append(s, e)[Len(s) + 1] = e
OBVIOUS

\* Sequence v starts like s and goes on with elements of t only.
Extends(v, s, t) ==
  /\ \A k \in DOMAIN s : k \in DOMAIN v /\ v[k] = s[k]
  /\ \A k \in DOMAIN v \ DOMAIN s : \E l \in DOMAIN t : v[k] = t[l]

\* What concatenating t[i+1], ..., t[j] to s makes.
LEMMA ExtendFacts ==
  ASSUME NEW E, NEW s \in Seq(E), NEW t \in Seq(E),
         NEW i \in Nat, NEW j \in Nat, j <= Len(t)
  PROVE  /\ s \o SubSeq(t, i + 1, j) \in Seq(E)
         /\ Len(s \o SubSeq(t, i + 1, j)) = Len(s) + (IF i < j THEN j - i ELSE 0)
         /\ Extends(s \o SubSeq(t, i + 1, j), s, t)
<1> DEFINE u == SubSeq(t, i + 1, j)
           v == s \o u
<1>1. \A k \in (i + 1)..j : t[k] \in E
  OBVIOUS
<1>2. /\ u \in Seq(E)
      /\ Len(u) = IF i + 1 <= j THEN j - (i + 1) + 1 ELSE 0
      /\ \A k \in 1..(j - (i + 1) + 1) : u[k] = t[(i + 1) + k - 1]
  BY <1>1, SubSeqProperties
<1> HIDE DEF u
<1>3. PICK a \in Nat, b \in Nat : a = Len(s) /\ b = Len(u)
  BY <1>2, LenProperties
<1>4. b = IF i < j THEN j - i ELSE 0
  BY <1>2, <1>3
<1>5. \A k \in 1..b : u[k] = t[i + k] /\ i + k \in DOMAIN t
  <2> TAKE k \in 1..b
  <2>1. k \in 1..(j - (i + 1) + 1) /\ (i + 1) + k - 1 = i + k /\ i + k \in 1..Len(t)
    BY <1>4
  <2> QED
    BY <1>2, <2>1
<1>6. /\ v \in Seq(E)
      /\ Len(v) = a + b
      /\ \A k \in 1..(a + b) : v[k] = IF k <= a THEN s[k] ELSE u[k - a]
  <2>1. /\ s \o u \in Seq(E)
        /\ Len(s \o u) = Len(s) + Len(u)
        /\ \A k \in 1..(Len(s) + Len(u)) :
             (s \o u)[k] = IF k <= Len(s) THEN s[k] ELSE u[k - Len(s)]
    BY <1>2, ConcatProperties
  <2> QED
    BY <1>3, <2>1
<1> HIDE DEF v
<1>7. DOMAIN s = 1..a /\ DOMAIN v = 1..(a + b)
  BY <1>3, <1>6, LenProperties
<1>8. \A k \in DOMAIN s : k \in DOMAIN v /\ v[k] = s[k]
  BY <1>6, <1>7
<1>9. \A k \in DOMAIN v \ DOMAIN s :
        i + (k - a) \in DOMAIN t /\ v[k] = t[i + (k - a)]
  <2> TAKE k \in DOMAIN v \ DOMAIN s
  <2>1. k \in 1..(a + b) /\ ~(k <= a) /\ k - a \in 1..b
    BY <1>7
  <2> QED
    BY <1>5, <1>6, <2>1
<1>10. Extends(v, s, t)
  BY <1>8, <1>9 DEF Extends
<1> QED
  BY <1>3, <1>4, <1>6, <1>10 DEF u, v

-----------------------------------------------------------------------------
(* Type correctness *)

LEMMA LastIndexType ==
  ASSUME TypeOK, NEW n \in Node
  PROVE  LastIndex(n) \in Nat
<1>1. RaftLog[n] \in Seq(Entry)
  BY DEF TypeOK
<1>2. CASE RaftLog[n] = <<>>
  BY <1>2 DEF LastIndex
<1>3. CASE RaftLog[n] # <<>>
  <2>1. RaftLog[n][Len(RaftLog[n])] \in Entry
    BY <1>1, <1>3
  <2> QED
    BY <1>3, <2>1 DEF LastIndex, Entry
<1> QED
  BY <1>2, <1>3

\* The entry the leader builds over a batch of its pool is an entry.
LEMMA NextEntryType ==
  ASSUME TypeOK, NEW n \in Node, NEW B \in SUBSET Submission
  PROVE  NextEntry(n, B) \in Entry
<1>1. lastCommittedHash[n] \in Nat /\ currentTerm[n] \in Nat /\ blocks + 1 \in Nat
  BY BoundAssumption DEF TypeOK
<1>2. LastIndex(n) + 1 \in Nat \ {0}
  BY LastIndexType
<1>3. [hash |-> blocks + 1, prevHash |-> lastCommittedHash[n], txs |-> B] \in Block
  BY <1>1 DEF Block
<1> QED
  BY <1>1, <1>2, <1>3 DEF NextEntry, Entry

LEMMA TypeStep ==
  ASSUME TypeOK, [Next]_vars
  PROVE  TypeOK'
<1> USE BootAssumption, BatchAssumption, BoundAssumption
<1>1. ASSUME NEW n \in Node, NEW s \in Submission, Submit(n, s)
      PROVE  TypeOK'
  <2>1. forwards' \subseteq ForwardMsg
    BY <1>1 DEF TypeOK, Submit, ForwardMsg
  <2>2. TxPool \in [Node -> SUBSET Submission] /\ TxPool[n] \cup {s} \in SUBSET Submission
    BY DEF TypeOK
  <2>3. TxPool' \in [Node -> SUBSET Submission]
    <3>1. TxPool' = [TxPool EXCEPT ![n] = @ \cup {s}] \/ TxPool' = TxPool
      BY <1>1 DEF Submit
    <3> QED
      BY <2>2, <3>1
  <2>4. submitted' \subseteq Submission
    BY <1>1 DEF TypeOK, Submit
  <2> QED
    BY <1>1, <2>1, <2>3, <2>4 DEF TypeOK, Submit, leadership, ledgerVars, syncVars
<1>2. ASSUME NEW m \in forwards, ReceiveForward(m)
      PROVE  TypeOK'
  <2>1. m \in ForwardMsg /\ m.to \in Node /\ m.sub \in Submission
    BY DEF TypeOK, ForwardMsg
  <2>2. [m EXCEPT !.to = currentLeaderID[m.to]] \in ForwardMsg
    BY <2>1 DEF TypeOK, ForwardMsg
  <2>3. forwards' \subseteq ForwardMsg
    BY <1>2, <2>2 DEF TypeOK, ReceiveForward
  <2>4. TxPool' \in [Node -> SUBSET Submission]
    <3>1. TxPool' = [TxPool EXCEPT ![m.to] = @ \cup {m.sub}] \/ TxPool' = TxPool
      BY <1>2 DEF ReceiveForward
    <3>2. TxPool \in [Node -> SUBSET Submission] /\ TxPool[m.to] \cup {m.sub} \in SUBSET Submission
      BY <2>1 DEF TypeOK
    <3> QED
      BY <3>1, <3>2
  <2> QED
    BY <1>2, <2>3, <2>4 DEF TypeOK, ReceiveForward, leadership, ledgerVars, syncVars
<1>3. ASSUME NEW n \in Node, Propose(n)
      PROVE  TypeOK'
  <2>1. PICK B \in Batches(TxPool[n]) :
          /\ RaftLog' = [RaftLog EXCEPT ![n] = Append(@, NextEntry(n, B))]
          /\ proposals' = proposals \cup
               {[from |-> n, to |-> d, term |-> currentTerm[n], entry |-> NextEntry(n, B)] :
                  d \in Others(n)}
          /\ waiters' = [waiters EXCEPT
               ![n] = @ \cup {[entry |-> NextEntry(n, B), acks |-> {n}]}]
    BY <1>3 DEF Propose, ProposeBlock
  <2>2. blocks + 1 \in 0..MaxBlocks /\ blocks + 1 \in Nat
    BY <1>3 DEF Propose, ProposeBlock, TypeOK
  <2>3. NextEntry(n, B) \in Entry
    BY <2>1, <2>2, NextEntryType DEF Batches, TypeOK
  <2>4. RaftLog' \in [Node -> Seq(Entry)]
    BY <2>1, <2>3, AppendFacts DEF TypeOK
  <2>5. proposals' \subseteq ProposalMsg
    BY <2>1, <2>3 DEF TypeOK, ProposalMsg, Others
  <2>6. waiters' \in [Node -> SUBSET Waiter]
    BY <2>1, <2>3 DEF TypeOK, Waiter
  <2> QED
    BY <1>3, <2>2, <2>4, <2>5, <2>6
    DEF Propose, ProposeBlock, TypeOK, leadership, clientVars, syncVars
<1>4. ASSUME NEW n \in Node, NEW w \in waiters[n], NEW m \in blockAcks, CollectAck(n, w, m)
      PROVE  TypeOK'
  <2>1. w \in Waiter /\ m \in AckMsg
    BY DEF TypeOK
  <2>2. waiters' \in [Node -> SUBSET Waiter]
    <3>1. m.from \in Node
      BY <2>1 DEF AckMsg
    <3>2. [w EXCEPT !.acks = @ \cup {m.from}] \in Waiter
      BY <2>1, <3>1 DEF Waiter
    <3> QED
      BY <1>4, <2>1, <3>2 DEF CollectAck, TypeOK
  <2> QED
    BY <1>4, <2>2 DEF CollectAck, TypeOK, leadership, ledgerVars, clientVars, syncVars
<1>5. ASSUME NEW n \in Node, NEW w \in waiters[n], Commit(n, w)
      PROVE  TypeOK'
  <2>1. w.entry \in Entry /\ w.entry.block \in Block
    BY DEF TypeOK, Waiter, Entry
  <2>2. w.entry.index \in Nat /\ w.entry.block.hash \in Nat
    BY <2>1 DEF Entry, Block
  <2>3. OrderingBlock' \in [Node -> Seq(Block)]
    BY <1>5, <2>1, AppendFacts DEF Commit, TypeOK
  <2>4. commits' \subseteq CommitMsg
    BY SMTT(30), <1>5, <2>2 DEF Commit, CommitsFor, CommitMsg, Others, TypeOK
  <2>5. TxPool' \in [Node -> SUBSET Submission]
    BY <1>5 DEF Commit, Without, TypeOK
  <2> QED
    BY <1>5, <2>2, <2>3, <2>4, <2>5
    DEF Commit, TypeOK, leadership, clientVars, syncVars
<1>6. ASSUME NEW n \in Node, NEW w \in waiters[n], WaiterTimeout(n, w)
      PROVE  TypeOK'
  BY <1>6 DEF WaiterTimeout, TypeOK, leadership, ledgerVars, clientVars, syncVars
<1>7. ASSUME NEW n \in Node, LoopTimeout(n)
      PROVE  TypeOK'
  BY <1>7 DEF LoopTimeout, TypeOK, leadership, ledgerVars, clientVars, syncVars
<1>8. ASSUME NEW m \in proposals, DropProposal(m)
      PROVE  TypeOK'
  BY <1>8 DEF DropProposal, TypeOK, leadership, leaderVars, ledgerVars, clientVars, syncVars
<1>9. ASSUME NEW m \in proposals, RejectProposal(m)
      PROVE  TypeOK'
  <2>1. m \in ProposalMsg /\ m.to \in Node /\ m.entry \in Entry
    BY DEF TypeOK, ProposalMsg
  <2>2. RaftLog' \in [Node -> Seq(Entry)]
    <3>1. CASE m.term >= currentTerm[m.to] /\ TermMismatch(m.to, m.entry)
      <4>1. RaftLog[m.to] \in Seq(Entry) /\ RaftLog[m.to] # <<>>
        BY <2>1, <3>1 DEF TypeOK, TermMismatch
      <4>2. SubSeq(RaftLog[m.to], 1, Len(RaftLog[m.to]) - 1) \in Seq(Entry)
        BY <4>1
      <4> QED
        BY <1>9, <3>1, <4>2 DEF RejectProposal, TypeOK
    <3>2. CASE ~(m.term >= currentTerm[m.to] /\ TermMismatch(m.to, m.entry))
      BY <1>9, <3>2 DEF RejectProposal, TypeOK
    <3> QED
      BY <3>1, <3>2
  <2>3. Answer(m.to, m.entry, FALSE) \in AckMsg
    BY <2>1 DEF Answer, AckMsg, TypeOK, Entry, Block
  <2> QED
    BY <1>9, <2>2, <2>3 DEF RejectProposal, TypeOK, leadership, leaderVars, clientVars, syncVars
<1>10. ASSUME NEW m \in proposals, AcceptProposal(m)
       PROVE  TypeOK'
  <2>1. m \in ProposalMsg /\ m.to \in Node /\ m.entry \in Entry
    BY DEF TypeOK, ProposalMsg
  <2>2. RaftLog' \in [Node -> Seq(Entry)]
    BY <1>10, <2>1, AppendFacts DEF AcceptProposal, TypeOK
  <2>3. Answer(m.to, m.entry, TRUE) \in AckMsg
    BY <2>1 DEF Answer, AckMsg, TypeOK, Entry, Block
  <2> QED
    BY <1>10, <2>2, <2>3 DEF AcceptProposal, TypeOK, leadership, leaderVars, clientVars, syncVars
<1>11. ASSUME NEW m \in commits, DropCommit(m)
       PROVE  TypeOK'
  BY <1>11 DEF DropCommit, TypeOK, leadership, leaderVars, ledgerVars, clientVars, syncVars
<1>12. ASSUME NEW m \in commits, ApplyCommit(m)
       PROVE  TypeOK'
  <2>1. m \in CommitMsg /\ m.to \in Node /\ m.hash \in Nat
    BY DEF TypeOK, CommitMsg
  <2>2. PICK k \in PositionsOf(m.to, m.index) :
          OrderingBlock' =
            [OrderingBlock EXCEPT ![m.to] = Append(@, RaftLog[m.to][k].block)]
    BY <1>12 DEF ApplyCommit
  <2>3. RaftLog[m.to][k].block \in Block
    <3>1. RaftLog[m.to] \in Seq(Entry) /\ k \in DOMAIN RaftLog[m.to]
      BY <2>1, <2>2 DEF PositionsOf, TypeOK
    <3>2. RaftLog[m.to][k] \in Entry
      BY <3>1, ElementOfSeq
    <3> QED
      BY <3>2 DEF Entry
  <2>4. OrderingBlock' \in [Node -> Seq(Block)]
    BY <2>1, <2>2, <2>3, AppendFacts DEF TypeOK
  <2>5. lastCommittedHash' \in [Node -> Nat]
    BY <1>12, <2>1 DEF ApplyCommit, TypeOK
  <2> QED
    BY <1>12, <2>4, <2>5 DEF ApplyCommit, TypeOK, leadership, leaderVars, clientVars, syncVars
<1>13. ASSUME NEW m \in commits, SyncOnCommit(m)
       PROVE  TypeOK'
  BY <1>13
  DEF SyncOnCommit, StartSync, TypeOK, CommitMsg, leadership, leaderVars, ledgerVars, clientVars
<1>14. ASSUME NEW n \in Node, SyncOnRejoin(n)
       PROVE  TypeOK'
  BY <1>14
  DEF SyncOnRejoin, StartSync, TypeOK, leadership, leaderVars, ledgerVars, clientVars
<1>15. ASSUME NEW n \in Node, NEW p \in Node, ReportStatus(n, p)
       PROVE  TypeOK'
  <2>1. PICK h \in ReadHashes(p) :
          statuses' = [statuses EXCEPT ![n] = @ \cup
            {[from |-> p, count |-> Len(OrderingBlock[p]), hash |-> h,
              last |-> LastIndex(p)]}]
    BY <1>15 DEF ReportStatus
  <2>2. h \in Nat
    <3>1. lastCommittedHash[p] \in Nat /\ OrderingBlock[p] \in Seq(Block)
      BY DEF TypeOK
    <3>2. PICK len \in Nat : len = Len(OrderingBlock[p])
      BY <3>1, LenProperties
    <3>3. CASE len \in {0, 1}
      BY <3>1, <3>2, <3>3 DEF ReadHashes
    <3>4. CASE len > 1
      <4>1. len - 1 \in 1..Len(OrderingBlock[p])
        BY <3>2, <3>4
      <4>2. OrderingBlock[p][len - 1] \in Block
        BY <3>1, <4>1, ElementOfSeq
      <4> QED
        BY SMTT(30), <3>1, <3>2, <3>4, <4>2 DEF ReadHashes, Block
    <3> QED
      BY <3>3, <3>4
  <2>3. statuses' \in [Node -> SUBSET Status]
    <3>1. Len(OrderingBlock[p]) \in Nat /\ LastIndex(p) \in Nat
      BY SMTT(30), LastIndexType DEF TypeOK
    <3>2. [from |-> p, count |-> Len(OrderingBlock[p]), hash |-> h,
           last |-> LastIndex(p)] \in Status
      BY <2>2, <3>1 DEF Status
    <3> QED
      BY <2>1, <3>2 DEF TypeOK
  <2> QED
    BY <1>15, <2>3 DEF ReportStatus, TypeOK, leadership, leaderVars, ledgerVars, clientVars
<1>16. ASSUME NEW n \in Node, NEW t \in Targets(statuses[n]), NEW p \in Node, NEW q \in Node,
              InstallSync(n, t, p, q)
       PROVE  TypeOK'
  <2> DEFINE have == Len(OrderingBlock[n])
  <2>1. t \in Status /\ t.count \in Nat /\ t.hash \in Nat
    <3>1. t \in statuses[n] /\ statuses[n] \subseteq Status
      BY DEF Targets, TypeOK
    <3> QED
      BY <3>1 DEF Status
  <2>2. have + 1 \in Nat \ {0} /\ have \in Nat
    BY SMTT(30) DEF TypeOK
  <2>3. OrderingBlock' \in [Node -> Seq(Block)]
    <3>1. OrderingBlock' = [OrderingBlock EXCEPT
            ![n] = @ \o SubSeq(OrderingBlock[p], have + 1, t.count)]
      BY <1>16 DEF InstallSync
    <3>2. CASE t.count > have
      <4>1. t.count <= Len(OrderingBlock[p])
        BY <1>16, <3>2, <2>1, <2>2 DEF InstallSync, TypeOK
      <4> QED
        BY <2>1, <2>2, <3>1, <4>1, ExtendFacts DEF TypeOK
    <3>3. CASE ~(t.count > have)
      <4>1. SubSeq(OrderingBlock[p], have + 1, t.count) = <<>>
        BY <2>1, <2>2, <3>3, SubSeqEmpty
      <4> QED
        BY <3>1, <4>1, ConcatEmptySeq DEF TypeOK
    <3> QED
      BY <3>2, <3>3
  <2>4. RaftLog' \in [Node -> Seq(Entry)]
    <3>1. PICK i \in 0..Len(RaftLog[q]), j \in 0..Len(RaftLog[q]) :
            RaftLog' = [RaftLog EXCEPT ![n] = @ \o SubSeq(RaftLog[q], i + 1, j)]
      BY <1>16 DEF InstallSync
    <3> QED
      <4>1. RaftLog[n] \in Seq(Entry) /\ RaftLog[q] \in Seq(Entry)
        BY DEF TypeOK
      <4>2. i \in Nat /\ j \in Nat /\ j <= Len(RaftLog[q])
        BY <4>1
      <4>3. RaftLog[n] \o SubSeq(RaftLog[q], i + 1, j) \in Seq(Entry)
        BY <4>1, <4>2, ExtendFacts
      <4> QED
        BY <3>1, <4>3 DEF TypeOK
  <2>5. lastCommittedHash' \in [Node -> Nat]
    BY <1>16, <2>1 DEF InstallSync, TypeOK
  <2> QED
    BY <1>16, <2>3, <2>4, <2>5
    DEF InstallSync, EndSync, TypeOK, leadership, leaderVars, clientVars
<1>17. ASSUME NEW n \in Node, AbortSync(n)
       PROVE  TypeOK'
  BY <1>17
  DEF AbortSync, EndSync, TypeOK, leadership, leaderVars, ledgerVars, clientVars
<1>18. CASE UNCHANGED vars
  BY <1>18 DEF TypeOK, vars, leadership, leaderVars, ledgerVars, clientVars, syncVars
<1> QED
  BY <1>1, <1>2, <1>3, <1>4, <1>5, <1>6, <1>7, <1>8, <1>9, <1>10, <1>11, <1>12,
     <1>13, <1>14, <1>15, <1>16, <1>17, <1>18
  DEF Next, Client, Lead, Follow, Sync

\* Type correctness: every variable keeps its type in every reachable state.
THEOREM TypeCorrect == Spec => []TypeOK
<1>1. Init => TypeOK
  BY BootAssumption, BoundAssumption DEF Init, TypeOK
<1>2. TypeOK /\ [Next]_vars => TypeOK'
  BY TypeStep
<1> QED
  BY <1>1, <1>2, PTL DEF Spec

-----------------------------------------------------------------------------
(* Roles *)

LEMMA RolesStep ==
  ASSUME TypeOK, Roles, [Next]_vars
  PROVE  Roles'
<1> USE BootAssumption
<1>1. ASSUME NEW n \in Node, NEW s \in Submission, Submit(n, s)
      PROVE  Roles'
  BY <1>1 DEF Roles, Submit, leadership
<1>2. ASSUME NEW m \in forwards, ReceiveForward(m)
      PROVE  Roles'
  BY <1>2 DEF Roles, ReceiveForward, leadership
<1>3. ASSUME NEW n \in Node, Propose(n)
      PROVE  Roles'
  <2>1. n = Boot
    BY <1>3 DEF Roles, Propose, ProposeBlock
  <2>2. /\ \A k \in Node \ {Boot} : waiters'[k] = waiters[k]
        /\ \A m \in proposals' \ proposals :
             m.from = Boot /\ m.term = 0 /\ m.entry.term = 0
    BY <1>3, <2>1 DEF Roles, Propose, ProposeBlock, NextEntry, TypeOK
  <2> QED
    BY <1>3, <2>2 DEF Roles, Propose, ProposeBlock, leadership
<1>4. ASSUME NEW n \in Node, NEW w \in waiters[n], NEW m \in blockAcks, CollectAck(n, w, m)
      PROVE  Roles'
  BY <1>4 DEF Roles, CollectAck, TypeOK, leadership
<1>5. ASSUME NEW n \in Node, NEW w \in waiters[n], Commit(n, w)
      PROVE  Roles'
  <2>1. n = Boot
    BY DEF Roles
  <2>2. \A m \in commits' : m.from = Boot
    BY <1>5, <2>1 DEF Roles, Commit, CommitsFor
  <2> QED
    BY <1>5, <2>1, <2>2 DEF Roles, Commit, TypeOK, leadership
<1>6. ASSUME NEW n \in Node, NEW w \in waiters[n], WaiterTimeout(n, w)
      PROVE  Roles'
  BY <1>6 DEF Roles, WaiterTimeout, TypeOK, leadership
<1>7. ASSUME NEW n \in Node, LoopTimeout(n)
      PROVE  Roles'
  BY <1>7 DEF Roles, LoopTimeout, leadership
<1>8. ASSUME NEW m \in proposals, DropProposal(m)
      PROVE  Roles'
  BY <1>8 DEF Roles, DropProposal, leadership, leaderVars
<1>9. ASSUME NEW m \in proposals, RejectProposal(m)
      PROVE  Roles'
  BY <1>9 DEF Roles, RejectProposal, leadership, leaderVars
<1>10. ASSUME NEW m \in proposals, AcceptProposal(m)
       PROVE  Roles'
  BY <1>10 DEF Roles, AcceptProposal, leadership, leaderVars
<1>11. ASSUME NEW m \in commits, DropCommit(m)
       PROVE  Roles'
  BY <1>11 DEF Roles, DropCommit, leadership, leaderVars
<1>12. ASSUME NEW m \in commits, ApplyCommit(m)
       PROVE  Roles'
  BY <1>12 DEF Roles, ApplyCommit, leadership, leaderVars
<1>13. ASSUME NEW m \in commits, SyncOnCommit(m)
       PROVE  Roles'
  BY <1>13 DEF Roles, SyncOnCommit, StartSync, Obeys, TypeOK, leadership, leaderVars
<1>14. ASSUME NEW n \in Node, SyncOnRejoin(n)
       PROVE  Roles'
  BY <1>14 DEF Roles, SyncOnRejoin, StartSync, TypeOK, leadership, leaderVars
<1>15. ASSUME NEW n \in Node, NEW p \in Node, ReportStatus(n, p)
       PROVE  Roles'
  BY <1>15 DEF Roles, ReportStatus, leadership, leaderVars
<1>16. ASSUME NEW n \in Node, NEW t \in Targets(statuses[n]), NEW p \in Node, NEW q \in Node,
              InstallSync(n, t, p, q)
       PROVE  Roles'
  BY <1>16 DEF Roles, InstallSync, EndSync, TypeOK, leadership, leaderVars
<1>17. ASSUME NEW n \in Node, AbortSync(n)
       PROVE  Roles'
  BY <1>17 DEF Roles, AbortSync, EndSync, TypeOK, leadership, leaderVars
<1>18. CASE UNCHANGED vars
  BY <1>18 DEF Roles, vars, leadership, leaderVars
<1> QED
  BY <1>1, <1>2, <1>3, <1>4, <1>5, <1>6, <1>7, <1>8, <1>9, <1>10, <1>11, <1>12,
     <1>13, <1>14, <1>15, <1>16, <1>17, <1>18
  DEF Next, Client, Lead, Follow, Sync

-----------------------------------------------------------------------------
(* Logs *)

\* The leader's log has no gap, so its length is its last index.
LEMMA LeaderLastIndex ==
  ASSUME TypeOK, Logs
  PROVE  LastIndex(Boot) = Len(RaftLog[Boot])
<1>1. RaftLog[Boot] \in Seq(Entry)
  BY BootAssumption DEF TypeOK
<1>2. CASE RaftLog[Boot] = <<>>
  BY <1>2 DEF LastIndex
<1>3. CASE RaftLog[Boot] # <<>>
  <2>1. Len(RaftLog[Boot]) \in DOMAIN RaftLog[Boot]
    BY <1>1, <1>3
  <2> QED
    BY <1>3, <2>1 DEF LastIndex, Logs
<1> QED
  BY <1>2, <1>3

\* In one leadership no predecessor is ever of another term.
LEMMA NoTermMismatch ==
  ASSUME TypeOK, Roles, Logs, NEW m \in proposals
  PROVE  ~TermMismatch(m.to, m.entry)
<1>1. m.to \in Node /\ RaftLog[m.to] \in Seq(Entry) /\ m.entry.term = 0
  BY DEF TypeOK, ProposalMsg, Roles
<1>2. SUFFICES ASSUME RaftLog[m.to] # <<>>
               PROVE  RaftLog[m.to][Len(RaftLog[m.to])].term = 0
  BY <1>1 DEF TermMismatch
<1>3. Len(RaftLog[m.to]) \in DOMAIN RaftLog[m.to]
  BY <1>1, <1>2
<1>4. Proposed(RaftLog[m.to][Len(RaftLog[m.to])])
  BY <1>1, <1>3 DEF Logs
<1> QED
  BY <1>4 DEF Proposed, Logs

\* A sync only appends, entries of another node's log.
LEMMA InstallLog ==
  ASSUME TypeOK, NEW n \in Node, NEW t, NEW p \in Node, NEW q \in Node,
         InstallSync(n, t, p, q)
  PROVE  /\ \A k \in Node \ {n} : RaftLog'[k] = RaftLog[k]
         /\ Extends(RaftLog'[n], RaftLog[n], RaftLog[q])
<1>1. PICK i \in 0..Len(RaftLog[q]), j \in 0..Len(RaftLog[q]) :
        RaftLog' = [RaftLog EXCEPT ![n] = @ \o SubSeq(RaftLog[q], i + 1, j)]
  BY DEF InstallSync
<1>2. RaftLog[n] \in Seq(Entry) /\ RaftLog[q] \in Seq(Entry)
  BY DEF TypeOK
<1>3. i \in Nat /\ j \in Nat /\ j <= Len(RaftLog[q])
  BY <1>2
<1>4. /\ RaftLog'[n] = RaftLog[n] \o SubSeq(RaftLog[q], i + 1, j)
      /\ \A k \in Node \ {n} : RaftLog'[k] = RaftLog[k]
  BY <1>1 DEF TypeOK
<1> QED
  BY <1>2, <1>3, <1>4, ExtendFacts

\* No step removes or changes an entry of a log.
LEMMA LogGrows ==
  ASSUME TypeOK, Roles, Logs, [Next]_vars
  PROVE  \A n \in Node : \A i \in DOMAIN RaftLog[n] :
           i \in DOMAIN RaftLog'[n] /\ RaftLog'[n][i] = RaftLog[n][i]
<1> DEFINE Grows == \A n \in Node : \A i \in DOMAIN RaftLog[n] :
              i \in DOMAIN RaftLog'[n] /\ RaftLog'[n][i] = RaftLog[n][i]
<1>1. ASSUME UNCHANGED RaftLog
      PROVE  Grows
  BY <1>1
<1>2. ASSUME NEW n \in Node, NEW e \in Entry, RaftLog' = [RaftLog EXCEPT ![n] = Append(@, e)]
      PROVE  Grows
  <2>1. \A k \in Node : RaftLog[k] \in Seq(Entry)
    BY DEF TypeOK
  <2>2. /\ DOMAIN RaftLog'[n] = 1..(Len(RaftLog[n]) + 1)
        /\ \A i \in 1..Len(RaftLog[n]) : RaftLog'[n][i] = RaftLog[n][i]
        /\ \A k \in Node \ {n} : RaftLog'[k] = RaftLog[k]
    BY <1>2, <2>1, AppendFacts DEF TypeOK
  <2> QED
    BY <2>1, <2>2
<1>3. ASSUME NEW n \in Node, Propose(n)
      PROVE  Grows
  <2>1. PICK B \in Batches(TxPool[n]) :
          RaftLog' = [RaftLog EXCEPT ![n] = Append(@, NextEntry(n, B))]
    BY <1>3 DEF Propose, ProposeBlock
  <2>2. NextEntry(n, B) \in Entry
    BY <2>1, NextEntryType DEF Batches, TypeOK
  <2> QED
    BY <1>2, <2>1, <2>2
<1>4. ASSUME NEW m \in proposals, RejectProposal(m)
      PROVE  Grows
  BY <1>1, <1>4, NoTermMismatch DEF RejectProposal, TypeOK
<1>5. ASSUME NEW m \in proposals, AcceptProposal(m)
      PROVE  Grows
  <2>1. m.to \in Node /\ m.entry \in Entry
    BY DEF TypeOK, ProposalMsg
  <2> QED
    BY <1>2, <1>5, <2>1 DEF AcceptProposal
<1>6. ASSUME NEW n \in Node, NEW t, NEW p \in Node, NEW q \in Node, InstallSync(n, t, p, q)
      PROVE  Grows
  BY <1>6, InstallLog DEF Extends
<1>7. ASSUME NEW n \in Node, Sync(n)
      PROVE  Grows
  BY <1>1, <1>6, <1>7
  DEF Sync, SyncOnRejoin, ReportStatus, AbortSync, ledgerVars
<1>8. CASE Client
  BY <1>1, <1>8 DEF Client, Submit, ReceiveForward, ledgerVars
<1>9. ASSUME NEW n \in Node, Lead(n)
      PROVE  Grows
  BY <1>1, <1>3, <1>9 DEF Lead, Commit, WaiterTimeout, CollectAck, LoopTimeout, ledgerVars
<1>10. CASE Follow
  BY <1>1, <1>4, <1>5, <1>10
  DEF Follow, DropProposal, DropCommit, ApplyCommit, SyncOnCommit, ledgerVars
<1>11. CASE UNCHANGED vars
  BY <1>1, <1>11 DEF vars, ledgerVars
<1> QED
  BY <1>7, <1>8, <1>9, <1>10, <1>11 DEF Next

\* An entry once proposed or stored stays so.
LEMMA ProposedStays ==
  ASSUME TypeOK, Roles, Logs, [Next]_vars, NEW e
  PROVE  /\ Proposed(e) => Proposed(e)'
         /\ \A n \in Node : Stored(n, e) => Stored(n, e)'
<1>1. \A n \in Node : \A i \in DOMAIN RaftLog[n] :
        i \in DOMAIN RaftLog'[n] /\ RaftLog'[n][i] = RaftLog[n][i]
  BY LogGrows
<1> QED
  BY <1>1, BootAssumption DEF Proposed, Stored

LEMMA LogsStep ==
  ASSUME TypeOK, Roles, Logs, [Next]_vars
  PROVE  Logs'
<1> USE BootAssumption
<1> DEFINE Kept == UNCHANGED <<RaftLog, waiters, proposals>>
<1>1. ASSUME Kept
      PROVE  Logs'
  BY <1>1 DEF Logs, Proposed
<1>2. ASSUME NEW n \in Node, Propose(n)
      PROVE  Logs'
  <2>1. n = Boot
    BY <1>2 DEF Roles, Propose, ProposeBlock
  <2>2. PICK B \in Batches(TxPool[n]) :
          /\ RaftLog' = [RaftLog EXCEPT ![n] = Append(@, NextEntry(n, B))]
          /\ proposals' = proposals \cup
               {[from |-> n, to |-> d, term |-> currentTerm[n], entry |-> NextEntry(n, B)] :
                  d \in Others(n)}
          /\ waiters' = [waiters EXCEPT
               ![n] = @ \cup {[entry |-> NextEntry(n, B), acks |-> {n}]}]
    BY <1>2 DEF Propose, ProposeBlock
  <2>3. PICK e \in Entry : e = NextEntry(n, B)
    BY <2>2, NextEntryType DEF Batches, TypeOK
  <2> DEFINE len == Len(RaftLog[Boot])
  <2>4. e.index = len + 1 /\ e.term = 0
    BY <2>1, <2>3, LeaderLastIndex DEF NextEntry, Roles
  <2>5. RaftLog[Boot] \in Seq(Entry) /\ DOMAIN RaftLog[Boot] = 1..len /\ len \in Nat
    BY DEF TypeOK
  <2>6. /\ RaftLog'[Boot] = Append(RaftLog[Boot], e)
        /\ \A k \in Node \ {Boot} : RaftLog'[k] = RaftLog[k]
    BY <2>1, <2>2, <2>3 DEF TypeOK
  <2>7. /\ DOMAIN RaftLog'[Boot] = 1..(len + 1)
        /\ \A i \in 1..len : RaftLog'[Boot][i] = RaftLog[Boot][i]
        /\ RaftLog'[Boot][len + 1] = e
    BY <2>3, <2>5, <2>6, AppendFacts
  <2>8. Proposed(e)'
    BY <2>4, <2>5, <2>7 DEF Proposed
  <2>9. \A i \in DOMAIN RaftLog'[Boot] : RaftLog'[Boot][i].index = i /\ RaftLog'[Boot][i].term = 0
    BY <2>4, <2>5, <2>7 DEF Logs
  <2>10. (\A k \in Node : \A i \in DOMAIN RaftLog[k] : Proposed(RaftLog[k][i]))'
    <3>1. ASSUME NEW i \in DOMAIN RaftLog'[Boot]
          PROVE  Proposed(RaftLog[Boot][i])'
      BY <2>9 DEF Proposed
    <3>2. ASSUME NEW k \in Node \ {Boot}, NEW i \in DOMAIN RaftLog'[k]
          PROVE  Proposed(RaftLog[k][i])'
      <4>1. PICK d : d = RaftLog[k][i] /\ Proposed(d) /\ RaftLog'[k][i] = d
        BY <2>6, <3>2 DEF Logs
      <4> QED
        BY <4>1, ProposedStays DEF Proposed
    <3> QED
      BY <3>1, <3>2
  <2>11. \A m \in proposals' : Proposed(m.entry)'
    <3>1. \A m \in proposals' : m \in proposals \/ m.entry = e
      BY <2>2, <2>3
    <3> QED
      BY <2>8, <3>1, ProposedStays DEF Logs
  <2>12. \A w \in waiters'[Boot] : Proposed(w.entry)'
    <3>1. \A w \in waiters'[Boot] : w \in waiters[Boot] \/ w.entry = e
      BY <2>1, <2>2, <2>3 DEF TypeOK
    <3> QED
      BY <2>8, <3>1, ProposedStays DEF Logs
  <2> QED
    BY <2>9, <2>10, <2>11, <2>12 DEF Logs
<1>3. ASSUME NEW n \in Node, NEW w \in waiters[n], NEW m \in blockAcks, CollectAck(n, w, m)
      PROVE  Logs'
  <2>1. n = Boot
    BY DEF Roles
  <2>2. \A v \in waiters'[Boot] : \E u \in waiters[Boot] : v.entry = u.entry
    BY <1>3, <2>1 DEF CollectAck, TypeOK, Waiter
  <2>3. UNCHANGED <<RaftLog, proposals>>
    BY <1>3 DEF CollectAck, ledgerVars
  <2> QED
    BY <2>2, <2>3 DEF Logs, Proposed
<1>4. ASSUME NEW n \in Node, NEW w \in waiters[n], Commit(n, w) \/ WaiterTimeout(n, w)
      PROVE  Logs'
  <2>1. waiters' = [waiters EXCEPT ![n] = @ \ {w}]
    BY <1>4 DEF Commit, WaiterTimeout
  <2>3. waiters'[Boot] \subseteq waiters[Boot]
    BY <2>1 DEF TypeOK
  <2>2. UNCHANGED <<RaftLog, proposals>>
    BY <1>4 DEF Commit, WaiterTimeout, ledgerVars
  <2> QED
    BY <2>2, <2>3 DEF Logs, Proposed
<1>5. ASSUME NEW n \in Node, LoopTimeout(n)
      PROVE  Logs'
  BY <1>1, <1>5 DEF LoopTimeout, ledgerVars
<1>6. ASSUME NEW m \in proposals, DropProposal(m) \/ RejectProposal(m)
      PROVE  Logs'
  <2>1. UNCHANGED <<RaftLog, waiters>>
    BY <1>6, NoTermMismatch DEF DropProposal, RejectProposal, leaderVars, ledgerVars, TypeOK
  <2>2. proposals' \subseteq proposals
    BY <1>6 DEF DropProposal, RejectProposal
  <2> QED
    BY <2>1, <2>2 DEF Logs, Proposed
<1>7. ASSUME NEW m \in proposals, AcceptProposal(m)
      PROVE  Logs'
  <2>1. m.to \in Node \ {Boot} /\ m.entry \in Entry
    BY <1>7 DEF TypeOK, ProposalMsg, AcceptProposal, Obeys, Roles
  <2>2. /\ RaftLog'[m.to] = Append(RaftLog[m.to], m.entry)
        /\ \A k \in Node \ {m.to} : RaftLog'[k] = RaftLog[k]
    BY <1>7, <2>1 DEF AcceptProposal, TypeOK
  <2>3. \A k \in Node : \A i \in DOMAIN RaftLog'[k] : Proposed(RaftLog'[k][i])
    <3>1. RaftLog[m.to] \in Seq(Entry)
      BY <2>1 DEF TypeOK
    <3>2. \A i \in DOMAIN RaftLog'[m.to] :
            \/ i \in DOMAIN RaftLog[m.to] /\ RaftLog'[m.to][i] = RaftLog[m.to][i]
            \/ RaftLog'[m.to][i] = m.entry
      BY <2>1, <2>2, <3>1, AppendFacts
    <3> QED
      BY <2>1, <2>2, <3>2 DEF Logs
  <2>4. RaftLog'[Boot] = RaftLog[Boot] /\ waiters' = waiters /\ proposals' \subseteq proposals
    BY <1>7, <2>1, <2>2 DEF AcceptProposal, leaderVars
  <2>5. \A e : Proposed(e) => Proposed(e)'
    BY ProposedStays
  <2> QED
    BY <2>3, <2>4, <2>5 DEF Logs, Proposed
<1>8. ASSUME NEW m \in commits, DropCommit(m) \/ ApplyCommit(m) \/ SyncOnCommit(m)
      PROVE  Logs'
  BY <1>1, <1>8 DEF DropCommit, ApplyCommit, SyncOnCommit, leaderVars, ledgerVars
<1>9. ASSUME NEW n \in Node, NEW t, NEW p \in Node, NEW q \in Node, InstallSync(n, t, p, q)
      PROVE  Logs'
  <2>1. n # Boot
    BY <1>9 DEF InstallSync, Roles
  <2>2. /\ \A k \in Node \ {n} : RaftLog'[k] = RaftLog[k]
        /\ Extends(RaftLog'[n], RaftLog[n], RaftLog[q])
    BY <1>9, InstallLog
  <2>3. \A k \in Node : \A i \in DOMAIN RaftLog'[k] : Proposed(RaftLog'[k][i])
    BY <2>2 DEF Extends, Logs
  <2>4. RaftLog'[Boot] = RaftLog[Boot] /\ waiters' = waiters /\ proposals' = proposals
    BY <1>9, <2>1, <2>2 DEF InstallSync, leaderVars
  <2> QED
    BY <2>3, <2>4 DEF Logs, Proposed
<1>10. ASSUME NEW n \in Node, NEW p \in Node,
              SyncOnRejoin(n) \/ ReportStatus(n, p) \/ AbortSync(n)
       PROVE  Logs'
  BY <1>1, <1>10 DEF SyncOnRejoin, ReportStatus, AbortSync, leaderVars, ledgerVars
<1>11. CASE Client
  BY <1>1, <1>11 DEF Client, Submit, ReceiveForward, ledgerVars
<1>12. CASE UNCHANGED vars
  BY <1>1, <1>12 DEF vars, leaderVars, ledgerVars
<1> QED
  BY <1>2, <1>3, <1>4, <1>5, <1>6, <1>7, <1>8, <1>9, <1>10, <1>11, <1>12
  DEF Next, Lead, Follow, Sync

\* Two entries of the same index are the same entry.
LEMMA ProposedUnique ==
  ASSUME NEW d, NEW e, Proposed(d), Proposed(e), d.index = e.index
  PROVE  d = e
BY DEF Proposed

-----------------------------------------------------------------------------
(* Acknowledgements *)

\* A node that once stored something under index i still does.
LEMMA IndexStays ==
  ASSUME TypeOK, Roles, Logs, [Next]_vars, NEW n \in Node, NEW x,
         \E i \in DOMAIN RaftLog[n] : RaftLog[n][i].index = x
  PROVE  \E i \in DOMAIN RaftLog'[n] : RaftLog'[n][i].index = x
BY LogGrows

LEMMA AcknowledgedStep ==
  ASSUME TypeOK, Roles, Logs, Acknowledged, [Next]_vars
  PROVE  Acknowledged'
<1> USE BootAssumption
<1>1. ASSUME \A m \in blockAcks' : m \in blockAcks \/ ~m.accepted,
             \A w \in waiters'[Boot] : w \in waiters[Boot]
      PROVE  Acknowledged'
  <2>1. ASSUME NEW m \in blockAcks', m.accepted
        PROVE  \E i \in DOMAIN RaftLog'[m.from] : RaftLog'[m.from][i].index = m.index
    <3>1. m \in blockAcks /\ m.from \in Node
      BY <1>1, <2>1 DEF TypeOK, AckMsg
    <3>2. \E i \in DOMAIN RaftLog[m.from] : RaftLog[m.from][i].index = m.index
      BY <2>1, <3>1 DEF Acknowledged
    <3> QED
      BY <3>1, <3>2, IndexStays
  <2>2. ASSUME NEW w \in waiters'[Boot], NEW n \in w.acks
        PROVE  Stored(n, w.entry)'
    <3>1. w \in waiters[Boot] /\ n \in Node
      BY <1>1, <2>2 DEF TypeOK, Waiter
    <3> QED
      BY <3>1, ProposedStays DEF Acknowledged
  <2> QED
    BY <2>1, <2>2 DEF Acknowledged
<1>2. ASSUME NEW n \in Node, Propose(n)
      PROVE  Acknowledged'
  <2>1. n = Boot
    BY <1>2 DEF Roles, Propose, ProposeBlock
  <2>2. PICK B \in Batches(TxPool[n]) :
          /\ RaftLog' = [RaftLog EXCEPT ![n] = Append(@, NextEntry(n, B))]
          /\ waiters' = [waiters EXCEPT
               ![n] = @ \cup {[entry |-> NextEntry(n, B), acks |-> {n}]}]
    BY <1>2 DEF Propose, ProposeBlock
  <2>3. PICK e \in Entry : e = NextEntry(n, B)
    BY <2>2, NextEntryType DEF Batches, TypeOK
  <2>4. RaftLog[Boot] \in Seq(Entry) /\ RaftLog'[Boot] = Append(RaftLog[Boot], e)
    BY <2>1, <2>2, <2>3 DEF TypeOK
  <2>5. Stored(Boot, e)'
    BY <2>4, AppendFacts DEF Stored
  <2>6. \A w \in waiters'[Boot] : w \in waiters[Boot] \/ w = [entry |-> e, acks |-> {Boot}]
    BY <2>1, <2>2, <2>3 DEF TypeOK
  <2>7. ASSUME NEW w \in waiters'[Boot], NEW k \in w.acks
        PROVE  Stored(k, w.entry)'
    <3>1. CASE w \in waiters[Boot]
      <4>1. k \in Node /\ Stored(k, w.entry)
        BY <2>7, <3>1 DEF Acknowledged, TypeOK, Waiter
      <4> QED
        BY <4>1, ProposedStays
    <3>2. CASE w = [entry |-> e, acks |-> {Boot}]
      BY <2>5, <2>7, <3>2
    <3> QED
      BY <2>6, <3>1, <3>2
  <2>8. ASSUME NEW m \in blockAcks', m.accepted
        PROVE  \E i \in DOMAIN RaftLog'[m.from] : RaftLog'[m.from][i].index = m.index
    <3>1. m \in blockAcks /\ m.from \in Node
      BY <1>2 DEF Propose, ProposeBlock, TypeOK, AckMsg
    <3> QED
      BY <2>8, <3>1, IndexStays DEF Acknowledged
  <2> QED
    BY <2>7, <2>8 DEF Acknowledged
<1>3. ASSUME NEW n \in Node, NEW w \in waiters[n], NEW m \in blockAcks, CollectAck(n, w, m)
      PROVE  Acknowledged'
  <2>1. n = Boot /\ m \in AckMsg /\ m.from \in Node /\ w \in Waiter
    BY SMTT(30) DEF Roles, TypeOK, AckMsg
  <2>2. ASSUME Counts(m, w.entry)
        PROVE  Stored(m.from, w.entry)
    <3>1. PICK i \in DOMAIN RaftLog[m.from] : RaftLog[m.from][i].index = w.entry.index
      BY <2>2 DEF Counts, Acknowledged
    <3>2. Proposed(RaftLog[m.from][i]) /\ Proposed(w.entry)
      BY <2>1 DEF Logs
    <3> QED
      BY <3>1, <3>2, ProposedUnique DEF Stored
  <2>3. \A v \in waiters'[Boot] :
          \/ v \in waiters[Boot]
          \/ Counts(m, w.entry) /\ v = [w EXCEPT !.acks = @ \cup {m.from}]
    BY <1>3, <2>1 DEF CollectAck, TypeOK
  <2>4. ASSUME NEW v \in waiters'[Boot], NEW k \in v.acks
        PROVE  Stored(k, v.entry) /\ k \in Node
    <3>1. CASE v \in waiters[Boot]
      BY <2>4, <3>1 DEF Acknowledged, TypeOK, Waiter
    <3>2. CASE Counts(m, w.entry) /\ v = [w EXCEPT !.acks = @ \cup {m.from}]
      <4>1. v.entry = w.entry /\ v.acks = w.acks \cup {m.from}
        BY <2>1, <3>2 DEF Waiter
      <4>2. k \in w.acks \/ k = m.from
        BY <2>4, <4>1
      <4>3. \A l \in w.acks : Stored(l, w.entry) /\ l \in Node
        BY <2>1 DEF Acknowledged, Waiter
      <4> QED
        BY <2>1, <2>2, <3>2, <4>1, <4>2, <4>3
    <3> QED
      BY <2>3, <3>1, <3>2
  <2>5. RaftLog' = RaftLog /\ blockAcks' \subseteq blockAcks
    BY <1>3 DEF CollectAck, ledgerVars
  <2> QED
    BY <2>4, <2>5 DEF Acknowledged, Stored
<1>4. ASSUME NEW n \in Node, NEW w \in waiters[n], Commit(n, w) \/ WaiterTimeout(n, w)
      PROVE  Acknowledged'
  <2>1. waiters' = [waiters EXCEPT ![n] = @ \ {w}] /\ blockAcks' = blockAcks
    BY <1>4 DEF Commit, WaiterTimeout
  <2>2. waiters'[Boot] \subseteq waiters[Boot]
    BY <2>1 DEF TypeOK
  <2> QED
    BY <1>1, <2>1, <2>2
<1>5. ASSUME NEW n \in Node, LoopTimeout(n)
      PROVE  Acknowledged'
  BY <1>1, <1>5 DEF LoopTimeout
<1>6. ASSUME NEW m \in proposals, DropProposal(m) \/ RejectProposal(m)
      PROVE  Acknowledged'
  BY <1>1, <1>6 DEF DropProposal, RejectProposal, Answer, leaderVars
<1>7. ASSUME NEW m \in proposals, AcceptProposal(m)
      PROVE  Acknowledged'
  <2>1. m.to \in Node /\ m.entry \in Entry /\ RaftLog[m.to] \in Seq(Entry)
    BY DEF TypeOK, ProposalMsg
  <2>2. RaftLog'[m.to] = Append(RaftLog[m.to], m.entry)
    BY <1>7, <2>1 DEF AcceptProposal, TypeOK
  <2>3. \E i \in DOMAIN RaftLog'[m.to] : RaftLog'[m.to][i].index = m.entry.index
    BY <2>1, <2>2, AppendFacts
  <2>4. ASSUME NEW a \in blockAcks', a.accepted
        PROVE  \E i \in DOMAIN RaftLog'[a.from] : RaftLog'[a.from][i].index = a.index
    <3>1. CASE a \in blockAcks
      <4>1. a.from \in Node
        BY <3>1 DEF TypeOK, AckMsg
      <4>2. \E i \in DOMAIN RaftLog[a.from] : RaftLog[a.from][i].index = a.index
        BY <2>4, <3>1 DEF Acknowledged
      <4> QED
        BY <4>1, <4>2, IndexStays
    <3>2. CASE a = Answer(m.to, m.entry, TRUE)
      BY <2>3, <3>2 DEF Answer
    <3> QED
      BY <1>7, <3>1, <3>2 DEF AcceptProposal
  <2>5. ASSUME NEW w \in waiters'[Boot], NEW k \in w.acks
        PROVE  Stored(k, w.entry)'
    <3>1. w \in waiters[Boot] /\ k \in Node
      BY <1>7, <2>5 DEF AcceptProposal, leaderVars, TypeOK, Waiter
    <3> QED
      BY <2>5, <3>1, ProposedStays DEF Acknowledged
  <2> QED
    BY <2>4, <2>5 DEF Acknowledged
<1>8. ASSUME NEW m \in commits, DropCommit(m) \/ ApplyCommit(m) \/ SyncOnCommit(m)
      PROVE  Acknowledged'
  BY <1>1, <1>8 DEF DropCommit, ApplyCommit, SyncOnCommit, leaderVars
<1>9. ASSUME NEW n \in Node, Sync(n)
      PROVE  Acknowledged'
  BY <1>1, <1>9 DEF Sync, SyncOnRejoin, ReportStatus, InstallSync, AbortSync, leaderVars
<1>10. CASE Client
  BY <1>1, <1>10 DEF Client, Submit, ReceiveForward
<1>11. CASE UNCHANGED vars
  BY <1>1, <1>11 DEF vars, leaderVars
<1> QED
  BY <1>2, <1>3, <1>4, <1>5, <1>6, <1>7, <1>8, <1>9, <1>10, <1>11
  DEF Next, Lead, Follow

-----------------------------------------------------------------------------
(* Committed blocks *)

\* A sync only appends, blocks of the peer it fetched from.
LEMMA InstallBlocks ==
  ASSUME TypeOK, NEW n \in Node, NEW t \in Status, NEW p \in Node, NEW q \in Node,
         InstallSync(n, t, p, q)
  PROVE  /\ \A k \in Node \ {n} : OrderingBlock'[k] = OrderingBlock[k]
         /\ Extends(OrderingBlock'[n], OrderingBlock[n], OrderingBlock[p])
<1> DEFINE have == Len(OrderingBlock[n])
<1>1. OrderingBlock[n] \in Seq(Block) /\ OrderingBlock[p] \in Seq(Block) /\ have \in Nat
  BY LenProperties DEF TypeOK
<1>2. t.count \in Nat
  BY DEF Status
<1>3. /\ OrderingBlock'[n] = OrderingBlock[n] \o SubSeq(OrderingBlock[p], have + 1, t.count)
      /\ \A k \in Node \ {n} : OrderingBlock'[k] = OrderingBlock[k]
  BY DEF InstallSync, TypeOK
<1>4. CASE t.count > have
  <2>1. t.count <= Len(OrderingBlock[p])
    BY <1>1, <1>2, <1>4 DEF InstallSync
  <2> QED
    BY SMTT(30), <1>1, <1>2, <1>3, <2>1, ExtendFacts
<1>5. CASE ~(t.count > have)
  <2>1. SubSeq(OrderingBlock[p], have + 1, t.count) = <<>>
    BY <1>1, <1>2, <1>5, SubSeqEmpty
  <2>2. OrderingBlock'[n] = OrderingBlock[n]
    BY <1>1, <1>3, <2>1, ConcatEmptySeq
  <2> QED
    BY <1>3, <2>2 DEF Extends
<1> QED
  BY <1>4, <1>5

\* What a step does to the blocks of the nodes: they only grow, by the block
\* the leader commits or by one that some node has committed before.
LEMMA BlocksStep ==
  ASSUME TypeOK, Roles, Logs, CommittedOnly, [Next]_vars
  PROVE  /\ \A n \in Node : BlocksOf(n) \subseteq BlocksOf(n)'
         /\ \A n \in Node : BlocksOf(n)' \subseteq BlocksOf(Boot)'
         /\ \A b \in BlocksOf(Boot)' \ BlocksOf(Boot) :
              \E w \in waiters[Boot] : Commit(Boot, w) /\ b = w.entry.block
<1> USE BootAssumption
<1> DEFINE Goal ==
      /\ \A n \in Node : BlocksOf(n) \subseteq BlocksOf(n)'
      /\ \A n \in Node : BlocksOf(n)' \subseteq BlocksOf(Boot)'
      /\ \A b \in BlocksOf(Boot)' \ BlocksOf(Boot) :
           \E w \in waiters[Boot] : Commit(Boot, w) /\ b = w.entry.block
<1>1. ASSUME UNCHANGED OrderingBlock
      PROVE  Goal
  BY <1>1 DEF BlocksOf, CommittedOnly, CommittedByLeader
<1>2. ASSUME NEW n \in Node, NEW b \in Block,
             OrderingBlock' = [OrderingBlock EXCEPT ![n] = Append(@, b)]
      PROVE  /\ BlocksOf(n)' = BlocksOf(n) \cup {b}
             /\ \A k \in Node \ {n} : BlocksOf(k)' = BlocksOf(k)
  <2>1. /\ OrderingBlock[n] \in Seq(Block)
        /\ OrderingBlock'[n] = Append(OrderingBlock[n], b)
        /\ \A k \in Node \ {n} : OrderingBlock'[k] = OrderingBlock[k]
    BY <1>2 DEF TypeOK
  <2>2. PICK len \in Nat : len = Len(OrderingBlock[n])
    BY <2>1, LenProperties
  <2>3. /\ DOMAIN OrderingBlock[n] = 1..len
        /\ DOMAIN OrderingBlock'[n] = 1..(len + 1)
        /\ \A i \in 1..len : OrderingBlock'[n][i] = OrderingBlock[n][i]
        /\ OrderingBlock'[n][len + 1] = b
    BY <2>1, <2>2, AppendFacts
  <2>4. 1..(len + 1) = 1..len \cup {len + 1}
    BY <2>2
  <2> QED
    BY <2>1, <2>3, <2>4 DEF BlocksOf
<1>3. ASSUME NEW n \in Node, NEW w \in waiters[n], Commit(n, w)
      PROVE  Goal
  <2>1. n = Boot /\ w.entry.block \in Block
    BY DEF Roles, TypeOK, Waiter, Entry
  <2>2. BlocksOf(Boot)' = BlocksOf(Boot) \cup {w.entry.block}
        /\ \A k \in Node \ {Boot} : BlocksOf(k)' = BlocksOf(k)
    BY <1>2, <1>3, <2>1 DEF Commit
  <2> QED
    BY <1>3, <2>1, <2>2 DEF CommittedOnly, CommittedByLeader
<1>4. ASSUME NEW m \in commits, ApplyCommit(m)
      PROVE  Goal
  <2>1. m.to \in Node \ {Boot}
    BY <1>4 DEF TypeOK, CommitMsg, ApplyCommit, Obeys, Roles
  <2>2. PICK k \in DOMAIN RaftLog[m.to] :
          /\ RaftLog[m.to][k].index = m.index
          /\ OrderingBlock' = [OrderingBlock EXCEPT ![m.to] = Append(@, RaftLog[m.to][k].block)]
    BY <1>4 DEF ApplyCommit, PositionsOf
  <2>3. RaftLog[m.to][k] = RaftLog[Boot][m.index]
    BY <2>1, <2>2 DEF Logs, Proposed
  <2>4. RaftLog[m.to][k].block \in BlocksOf(Boot)
    BY <2>3 DEF CommittedOnly
  <2>5. RaftLog[m.to][k].block \in Block
    <3>1. RaftLog[m.to] \in Seq(Entry)
      BY <2>1 DEF TypeOK
    <3>2. RaftLog[m.to][k] \in Entry
      BY <2>2, <3>1, ElementOfSeq
    <3> QED
      BY <3>2 DEF Entry
  <2>6. /\ BlocksOf(m.to)' = BlocksOf(m.to) \cup {RaftLog[m.to][k].block}
        /\ \A j \in Node \ {m.to} : BlocksOf(j)' = BlocksOf(j)
    BY <1>2, <2>1, <2>2, <2>5
  <2> QED
    BY <2>1, <2>4, <2>6 DEF CommittedOnly, CommittedByLeader
<1>5. ASSUME NEW n \in Node, NEW t \in Targets(statuses[n]), NEW p \in Node, NEW q \in Node,
             InstallSync(n, t, p, q)
      PROVE  Goal
  <2>1. n # Boot
    BY <1>5 DEF InstallSync, Roles
  <2>2. t \in Status
    BY DEF Targets, TypeOK
  <2>3. /\ \A k \in Node \ {n} : OrderingBlock'[k] = OrderingBlock[k]
        /\ Extends(OrderingBlock'[n], OrderingBlock[n], OrderingBlock[p])
    BY <1>5, <2>2, InstallBlocks
  <2>4. BlocksOf(n) \subseteq BlocksOf(n)' /\ BlocksOf(n)' \subseteq BlocksOf(n) \cup BlocksOf(p)
    BY <2>3 DEF Extends, BlocksOf
  <2>5. \A k \in Node \ {n} : BlocksOf(k)' = BlocksOf(k)
    BY <2>3 DEF BlocksOf
  <2> QED
    BY <2>1, <2>4, <2>5 DEF CommittedOnly, CommittedByLeader
<1>6. ASSUME NEW n \in Node, Sync(n)
      PROVE  Goal
  BY <1>1, <1>5, <1>6 DEF Sync, SyncOnRejoin, ReportStatus, AbortSync, ledgerVars
<1>7. CASE Client
  BY <1>1, <1>7 DEF Client, Submit, ReceiveForward, ledgerVars
<1>8. ASSUME NEW n \in Node, Lead(n)
      PROVE  Goal
  BY <1>1, <1>3, <1>8 DEF Lead, Propose, ProposeBlock, WaiterTimeout, CollectAck, LoopTimeout, ledgerVars
<1>9. CASE Follow
  BY <1>1, <1>4, <1>9
  DEF Follow, DropProposal, RejectProposal, AcceptProposal, DropCommit, SyncOnCommit, ledgerVars
<1>10. CASE UNCHANGED vars
  BY <1>1, <1>10 DEF vars, ledgerVars
<1> QED
  BY <1>6, <1>7, <1>8, <1>9, <1>10 DEF Next

LEMMA CommittedStep ==
  ASSUME TypeOK, Roles, Logs, Acknowledged, CommittedOnly, [Next]_vars
  PROVE  CommittedOnly'
<1> USE BootAssumption
<1>1. CommittedByLeader'
  BY BlocksStep DEF CommittedByLeader
<1>2. ASSUME NEW m \in commits'
      PROVE  /\ m.index \in DOMAIN RaftLog'[Boot]
             /\ RaftLog'[Boot][m.index].block \in BlocksOf(Boot)'
  <2>1. CASE m \in commits
    BY <2>1, LogGrows, BlocksStep DEF CommittedOnly
  <2>2. CASE m \notin commits
    <3>1. PICK n \in Node : \E w \in waiters[n] : Commit(n, w) /\ m \in CommitsFor(n, w.entry)
      <4>1. CASE Client
        BY <2>2, <4>1 DEF Client, Submit, ReceiveForward
      <4>2. ASSUME NEW n \in Node, Lead(n)
            PROVE  \E w \in waiters[n] : Commit(n, w) /\ m \in CommitsFor(n, w.entry)
        <5>1. PICK w \in waiters[n] : Commit(n, w)
          BY <2>2, <4>2 DEF Lead, Propose, ProposeBlock, CollectAck, WaiterTimeout, LoopTimeout
        <5> QED
          BY <2>2, <5>1 DEF Commit
      <4>3. CASE Follow
        BY <2>2, <4>3
        DEF Follow, DropProposal, RejectProposal, AcceptProposal, DropCommit, ApplyCommit,
            SyncOnCommit
      <4>4. ASSUME NEW n \in Node, Sync(n)
            PROVE  FALSE
        BY <2>2, <4>4 DEF Sync, SyncOnRejoin, ReportStatus, InstallSync, AbortSync
      <4>5. CASE UNCHANGED vars
        BY <2>2, <4>5 DEF vars
      <4> QED
        BY <4>1, <4>2, <4>3, <4>4, <4>5 DEF Next
    <3>2. PICK w \in waiters[Boot] : Commit(Boot, w) /\ m.index = w.entry.index
      BY <3>1 DEF Roles, CommitsFor
    <3>3. w.entry.index \in DOMAIN RaftLog[Boot] /\ RaftLog[Boot][w.entry.index] = w.entry
      BY <3>2 DEF Logs, Proposed
    <3>4. RaftLog' = RaftLog
      BY <3>2 DEF Commit
    <3>5. w.entry.block \in BlocksOf(Boot)'
      <4>1. OrderingBlock[Boot] \in Seq(Block) /\ w.entry.block \in Block
        BY <3>2 DEF TypeOK, Waiter, Entry
      <4>2. OrderingBlock'[Boot] = Append(OrderingBlock[Boot], w.entry.block)
        BY <3>2 DEF Commit, TypeOK
      <4> QED
        BY <4>1, <4>2, AppendFacts DEF BlocksOf
    <3> QED
      BY <3>2, <3>3, <3>4, <3>5
  <2> QED
    BY <2>1, <2>2
<1>3. ASSUME NEW b \in BlocksOf(Boot)'
      PROVE  Cardinality(Holders(b)') >= Majority
  <2>1. Holders(b) \subseteq Holders(b)'
    <3>1. \A n \in Node : b \in BlocksOf(n) => b \in BlocksOf(n)'
      BY BlocksStep
    <3>2. \A n \in Node : (\E i \in DOMAIN RaftLog[n] : RaftLog[n][i].block = b)
                       => (\E i \in DOMAIN RaftLog'[n] : RaftLog'[n][i].block = b)
      BY LogGrows
    <3> QED
      BY <3>1, <3>2 DEF Holders
  <2>2. PICK H \in SUBSET Holders(b)' : Cardinality(H) >= Majority
    <3>1. CASE b \in BlocksOf(Boot)
      BY <2>1, <3>1 DEF CommittedOnly, MajorityHolds
    <3>2. CASE b \notin BlocksOf(Boot)
      <4>1. PICK w \in waiters[Boot] : Commit(Boot, w) /\ b = w.entry.block
        BY <3>2, BlocksStep
      <4>2. w.acks \subseteq Node /\ \A n \in w.acks : Stored(n, w.entry)
        BY <4>1 DEF Acknowledged, TypeOK, Waiter
      <4>3. w.acks \subseteq Holders(b)
        BY <4>1, <4>2 DEF Stored, Holders
      <4> QED
        BY <2>1, <4>1, <4>3 DEF Commit
    <3> QED
      BY <3>1, <3>2
  <2>3. IsFiniteSet(Holders(b)') /\ Cardinality(H) <= Cardinality(Holders(b)')
    <3>1. Holders(b)' \in SUBSET Node
      BY DEF Holders
    <3>2. IsFiniteSet(Holders(b)')
      BY <3>1, NodeAssumption, FS_Subset
    <3> QED
      BY <2>2, <3>2, FS_Subset
  <2>4. Cardinality(H) \in Nat /\ Cardinality(Holders(b)') \in Nat /\ Majority \in Nat
    <3>1. IsFiniteSet(H)
      BY <2>2, <2>3, FS_Subset
    <3> QED
      BY <2>3, <3>1, NodeAssumption, FS_CardinalityType DEF Majority
  <2> QED
    BY <2>2, <2>3, <2>4
<1> QED
  BY <1>1, <1>2, <1>3 DEF CommittedOnly, MajorityHolds

-----------------------------------------------------------------------------
(* The leader's pool, loop and chain *)

\* What a step can do to the leader.
LEMMA LeaderStep ==
  ASSUME TypeOK, Roles, [Next]_vars
  PROVE  \/ \E n \in Node, s \in Submission : Submit(n, s)
         \/ \E m \in forwards : ReceiveForward(m)
         \/ Propose(Boot)
         \/ \E w \in waiters[Boot], m \in blockAcks : CollectAck(Boot, w, m)
         \/ \E w \in waiters[Boot] : Commit(Boot, w)
         \/ \E w \in waiters[Boot] : WaiterTimeout(Boot, w)
         \/ LoopTimeout(Boot)
         \/ /\ UNCHANGED <<TxPool, waiters, blocks, clientVars>>
            /\ loop'[Boot] = loop[Boot]
            /\ OrderingBlock'[Boot] = OrderingBlock[Boot]
            /\ lastCommittedHash'[Boot] = lastCommittedHash[Boot]
<1> DEFINE Quiet == /\ UNCHANGED <<TxPool, waiters, blocks, clientVars>>
                    /\ loop'[Boot] = loop[Boot]
                    /\ OrderingBlock'[Boot] = OrderingBlock[Boot]
                    /\ lastCommittedHash'[Boot] = lastCommittedHash[Boot]
<1> USE BootAssumption
<1>1. ASSUME NEW n \in Node \ {Boot}, Lead(n)
      PROVE  Quiet
  <2>1. LoopTimeout(n)
    BY <1>1 DEF Lead, Roles, Propose, ProposeBlock
  <2> QED
    BY <2>1 DEF LoopTimeout, ledgerVars, TypeOK
<1>2. ASSUME NEW m \in commits, ApplyCommit(m)
      PROVE  Quiet
  <2>1. m.to \in Node \ {Boot}
    BY <1>2 DEF TypeOK, CommitMsg, ApplyCommit, Obeys, Roles
  <2> QED
    BY <1>2, <2>1 DEF ApplyCommit, leaderVars, TypeOK
<1>3. ASSUME NEW n \in Node, NEW t, NEW p \in Node, NEW q \in Node, InstallSync(n, t, p, q)
      PROVE  Quiet
  <2>1. n # Boot
    BY <1>3 DEF InstallSync, Roles
  <2> QED
    BY <1>3, <2>1 DEF InstallSync, leaderVars, TypeOK
<1>4. ASSUME NEW n \in Node, Sync(n)
      PROVE  Quiet
  BY <1>3, <1>4 DEF Sync, SyncOnRejoin, ReportStatus, AbortSync, leaderVars, ledgerVars
<1>5. CASE Follow
  BY <1>2, <1>5
  DEF Follow, DropProposal, RejectProposal, AcceptProposal, DropCommit, SyncOnCommit,
      leaderVars, ledgerVars
<1>6. CASE UNCHANGED vars
  BY <1>6 DEF vars, leaderVars, ledgerVars
<1>7. CASE Client
  BY <1>7 DEF Client
<1>8. CASE Lead(Boot)
  BY <1>8 DEF Lead
<1> QED
  BY <1>1, <1>4, <1>5, <1>6, <1>7, <1>8 DEF Next

\* A batch of a non-empty pool is not empty, and not larger than BatchSize.
LEMMA BatchFacts ==
  ASSUME NEW pool, IsFiniteSet(pool), pool # {}, NEW B \in Batches(pool)
  PROVE  B \subseteq pool /\ B # {} /\ Cardinality(B) <= BatchSize
<1>1. Cardinality(pool) \in Nat /\ Cardinality(pool) # 0
  BY FS_CardinalityType, FS_EmptySet
<1>2. BatchSize \in Nat /\ BatchSize # 0
  BY BatchAssumption
<1>3. /\ B \subseteq pool
      /\ Cardinality(B) = IF Cardinality(pool) < BatchSize THEN Cardinality(pool) ELSE BatchSize
  BY DEF Batches
<1>4. Cardinality(B) # 0 /\ Cardinality(B) <= BatchSize
  BY <1>1, <1>2, <1>3
<1> QED
  BY <1>3, <1>4, FS_EmptySet

LEMMA OneInFlightStep ==
  ASSUME TypeOK, Roles, OneInFlight, OnePlace, [Next]_vars
  PROVE  OneInFlight'
<1> USE BootAssumption
<1>1. ASSUME NEW s \in Submission,
             TxPool'[Boot] = TxPool[Boot] \/ TxPool'[Boot] = TxPool[Boot] \cup {s},
             UNCHANGED <<waiters, loop, OrderingBlock, lastCommittedHash>>
      PROVE  OneInFlight'
  BY <1>1 DEF OneInFlight, LeaderChain, Linked
<1>2. ASSUME NEW n \in Node, NEW s \in Submission, Submit(n, s)
      PROVE  OneInFlight'
  <2>1. TxPool'[Boot] = TxPool[Boot] \/ TxPool'[Boot] = TxPool[Boot] \cup {s}
    BY <1>2 DEF Submit, TypeOK
  <2> QED
    BY <1>1, <1>2, <2>1 DEF Submit, ledgerVars
<1>3. ASSUME NEW m \in forwards, ReceiveForward(m)
      PROVE  OneInFlight'
  <2>1. m.sub \in Submission
    BY DEF TypeOK, ForwardMsg
  <2>2. TxPool'[Boot] = TxPool[Boot] \/ TxPool'[Boot] = TxPool[Boot] \cup {m.sub}
    BY <1>3 DEF ReceiveForward, TypeOK
  <2> QED
    BY <1>1, <1>3, <2>1, <2>2 DEF ReceiveForward, ledgerVars
<1>4. CASE Propose(Boot)
  <2>1. waiters[Boot] = {}
    BY <1>4 DEF Propose, ProposeBlock, OneInFlight
  <2>2. PICK B \in Batches(TxPool[Boot]) :
          waiters' = [waiters EXCEPT
            ![Boot] = @ \cup {[entry |-> NextEntry(Boot, B), acks |-> {Boot}]}]
    BY <1>4 DEF Propose, ProposeBlock
  <2>3. waiters'[Boot] = {[entry |-> NextEntry(Boot, B), acks |-> {Boot}]}
    BY <2>1, <2>2 DEF TypeOK
  <2>4. IsFiniteSet(TxPool[Boot]) /\ TxPool[Boot] # {}
    BY <1>4, FS_Subset DEF Propose, ProposeBlock, OnePlace
  <2>5. B \subseteq TxPool[Boot] /\ B # {} /\ Cardinality(B) <= BatchSize
    BY <2>2, <2>4, BatchFacts
  <2>6. loop'[Boot] = "awaiting" /\ UNCHANGED <<TxPool, OrderingBlock, lastCommittedHash>>
    BY <1>4 DEF Propose, ProposeBlock, TypeOK
  <2>7. ASSUME NEW w \in waiters'[Boot]
        PROVE  /\ w = [entry |-> NextEntry(Boot, B), acks |-> {Boot}]
               /\ w.entry.block.prevHash = lastCommittedHash[Boot]
               /\ w.entry.block.txs = B
    BY <2>3 DEF NextEntry
  <2> QED
    BY <2>5, <2>6, <2>7 DEF OneInFlight, LeaderChain, Linked
<1>5. ASSUME NEW w \in waiters[Boot], NEW m \in blockAcks, CollectAck(Boot, w, m)
      PROVE  OneInFlight'
  <2>1. waiters[Boot] = {w} /\ w \in Waiter
    BY DEF OneInFlight, TypeOK
  <2>2. PICK v : waiters'[Boot] = {v} /\ v.entry = w.entry
    <3>1. waiters'[Boot] = {IF Counts(m, w.entry) THEN [w EXCEPT !.acks = @ \cup {m.from}] ELSE w}
      BY <1>5, <2>1 DEF CollectAck, TypeOK
    <3>2. [w EXCEPT !.acks = @ \cup {m.from}].entry = w.entry
      BY <2>1 DEF Waiter
    <3> QED
      BY <3>1, <3>2
  <2>3. UNCHANGED <<TxPool, loop, OrderingBlock, lastCommittedHash>>
    BY <1>5 DEF CollectAck, ledgerVars
  <2> QED
    BY <2>1, <2>2, <2>3 DEF OneInFlight, LeaderChain, Linked
<1>6. ASSUME NEW w \in waiters[Boot], Commit(Boot, w)
      PROVE  OneInFlight'
  <2>1. waiters'[Boot] = {}
    BY <1>6 DEF OneInFlight, Commit, TypeOK
  <2>2. w.entry.block \in Block /\ OrderingBlock[Boot] \in Seq(Block)
    BY DEF TypeOK, Waiter, Entry
  <2>3. PICK b \in Block, len \in Nat : b = w.entry.block /\ len = Len(OrderingBlock[Boot])
    BY <2>2, LenProperties
  <2>4. /\ OrderingBlock'[Boot] = Append(OrderingBlock[Boot], b)
        /\ lastCommittedHash'[Boot] = b.hash
    BY <1>6, <2>3 DEF Commit, TypeOK
  <2>5. /\ DOMAIN OrderingBlock[Boot] = 1..len
        /\ DOMAIN OrderingBlock'[Boot] = 1..(len + 1)
        /\ Len(OrderingBlock'[Boot]) = len + 1
        /\ \A i \in 1..len : OrderingBlock'[Boot][i] = OrderingBlock[Boot][i]
        /\ OrderingBlock'[Boot][len + 1] = b
    BY <2>2, <2>3, <2>4, AppendFacts
  <2>6. b.prevHash = IF len = 0 THEN 0 ELSE OrderingBlock[Boot][len].hash
    <3>1. b.prevHash = lastCommittedHash[Boot]
      BY <2>3 DEF OneInFlight
    <3>2. lastCommittedHash[Boot] = IF OrderingBlock[Boot] = <<>> THEN 0
                                    ELSE OrderingBlock[Boot][len].hash
      BY <2>3 DEF OneInFlight, LeaderChain
    <3>3. OrderingBlock[Boot] = <<>> <=> len = 0
      BY <2>2, <2>3, EmptySeq
    <3> QED
      BY <3>1, <3>2, <3>3
  <2>7. ASSUME NEW i \in 1..(len + 1)
        PROVE  OrderingBlock'[Boot][i].prevHash =
                 IF i = 1 THEN 0 ELSE OrderingBlock'[Boot][i - 1].hash
    <3>1. CASE i = len + 1
      <4>1. len # 0 => len \in 1..len
        OBVIOUS
      <4>2. i - 1 = len /\ (i = 1 <=> len = 0)
        BY <3>1
      <4> QED
        BY <2>5, <2>6, <3>1, <4>1, <4>2
    <3>2. CASE i # len + 1
      <4>1. i \in 1..len /\ (i # 1 => i - 1 \in 1..len)
        BY <3>2
      <4>2. OrderingBlock[Boot][i].prevHash =
              IF i = 1 THEN 0 ELSE OrderingBlock[Boot][i - 1].hash
        BY <2>5, <4>1 DEF OneInFlight, LeaderChain, Linked
      <4> QED
        BY <2>5, <4>1, <4>2
    <3> QED
      BY <3>1, <3>2
  <2>8. Linked(OrderingBlock[Boot], 0)'
    BY <2>5, <2>7 DEF Linked
  <2>9. OrderingBlock'[Boot] # <<>>
    BY <2>5
  <2> QED
    BY <2>1, <2>4, <2>5, <2>8, <2>9 DEF OneInFlight, LeaderChain
<1>7. ASSUME NEW w \in waiters[Boot], WaiterTimeout(Boot, w)
      PROVE  OneInFlight'
  <2>1. waiters'[Boot] = {}
    BY <1>7 DEF OneInFlight, WaiterTimeout, TypeOK
  <2> QED
    BY <1>7, <2>1 DEF WaiterTimeout, ledgerVars, OneInFlight, LeaderChain, Linked
<1>8. CASE LoopTimeout(Boot)
  BY <1>8 DEF LoopTimeout, ledgerVars, OneInFlight, LeaderChain, Linked
<1>9. CASE /\ UNCHANGED <<TxPool, waiters, clientVars>>
           /\ loop'[Boot] = loop[Boot]
           /\ OrderingBlock'[Boot] = OrderingBlock[Boot]
           /\ lastCommittedHash'[Boot] = lastCommittedHash[Boot]
  BY <1>9 DEF OneInFlight, LeaderChain, Linked
<1> QED
  BY <1>2, <1>3, <1>4, <1>5, <1>6, <1>7, <1>8, <1>9, LeaderStep

LEMMA OnePlaceStep ==
  ASSUME TypeOK, Roles, OneInFlight, OnePlace, [Next]_vars
  PROVE  OnePlace'
<1> USE BootAssumption
<1>1. ASSUME UNCHANGED clientVars, TxPool'[Boot] = TxPool[Boot],
             OrderingBlock'[Boot] = OrderingBlock[Boot]
      PROVE  OnePlace'
  BY <1>1 DEF OnePlace, NoDoubleOrder, clientVars
<1>2. ASSUME NEW n \in Node, NEW s \in Submission, Submit(n, s)
      PROVE  OnePlace'
  <2>1. s \notin submitted /\ submitted' = submitted \cup {s} /\ OrderingBlock' = OrderingBlock
    BY <1>2 DEF Submit, ledgerVars
  <2>2. IsFiniteSet(submitted')
    BY <2>1, FS_AddElement DEF OnePlace
  <2>3. CASE TxPool' = [TxPool EXCEPT ![Boot] = @ \cup {s}] /\ forwards' = forwards
    <3>1. TxPool'[Boot] = TxPool[Boot] \cup {s}
      BY <2>3 DEF TypeOK
    <3> QED
      BY <2>1, <2>2, <2>3, <3>1 DEF OnePlace, NoDoubleOrder
  <2>4. CASE TxPool' = TxPool /\ forwards' = forwards \cup {[to |-> Boot, sub |-> s]}
    BY <2>1, <2>2, <2>4 DEF OnePlace, NoDoubleOrder
  <2> QED
    BY <1>2, <2>3, <2>4 DEF Submit, Roles
<1>3. ASSUME NEW m \in forwards, ReceiveForward(m)
      PROVE  OnePlace'
  <2>1. m.to = Boot /\ state[Boot] = "Leader"
    BY DEF OnePlace, Roles
  <2>2. /\ TxPool'[Boot] = TxPool[Boot] \cup {m.sub}
        /\ forwards' = forwards \ {m}
        /\ UNCHANGED <<submitted, OrderingBlock>>
    BY <1>3, <2>1 DEF ReceiveForward, TypeOK, ledgerVars
  <2>3. \A f \in forwards' : f \in forwards /\ f.to = Boot /\ f.sub # m.sub
    <3>1. \A f \in forwards : f \in [to : Node, sub : Submission] /\ f.to = Boot
      BY DEF TypeOK, ForwardMsg, OnePlace
    <3>2. \A f \in forwards : f.sub = m.sub => f = m
      BY <3>1
    <3> QED
      BY <2>2, <3>1, <3>2
  <2> QED
    BY <2>2, <2>3 DEF OnePlace, NoDoubleOrder
<1>4. ASSUME NEW w \in waiters[Boot], Commit(Boot, w)
      PROVE  OnePlace'
  <2>1. w.entry.block \in Block /\ OrderingBlock[Boot] \in Seq(Block)
    BY DEF TypeOK, Waiter, Entry
  <2>2. PICK b \in Block, len \in Nat : b = w.entry.block /\ len = Len(OrderingBlock[Boot])
    BY <2>1, LenProperties
  <2>3. /\ OrderingBlock'[Boot] = Append(OrderingBlock[Boot], b)
        /\ TxPool'[Boot] = Without(TxPool[Boot], b.txs)
        /\ UNCHANGED clientVars
    BY <1>4, <2>2 DEF Commit, TypeOK
  <2>4. /\ DOMAIN OrderingBlock[Boot] = 1..len
        /\ DOMAIN OrderingBlock'[Boot] = 1..(len + 1)
        /\ \A i \in 1..len : OrderingBlock'[Boot][i] = OrderingBlock[Boot][i]
        /\ OrderingBlock'[Boot][len + 1] = b
    BY <2>1, <2>2, <2>3, AppendFacts
  <2>5. \A i \in 1..(len + 1) : i \in 1..len \/ i = len + 1
    OBVIOUS
  <2>6. b.txs \subseteq TxPool[Boot]
    BY <2>2 DEF OneInFlight
  <2>7. TxPool'[Boot] \subseteq TxPool[Boot] /\ TxPool'[Boot] \cap b.txs = {}
    BY <2>3 DEF Without
  <2>8. \A i \in DOMAIN OrderingBlock'[Boot] :
          /\ OrderingBlock'[Boot][i].txs \subseteq submitted
          /\ OrderingBlock'[Boot][i].txs \cap TxPool'[Boot] = {}
          /\ \A m \in forwards : m.sub \notin OrderingBlock'[Boot][i].txs
    BY <2>4, <2>5, <2>6, <2>7 DEF OnePlace
  <2>9. NoDoubleOrder'
    BY <2>4, <2>5, <2>6 DEF OnePlace, NoDoubleOrder
  <2> QED
    BY <2>3, <2>7, <2>8, <2>9 DEF OnePlace, clientVars
<1>5. CASE \/ Propose(Boot)
           \/ \E w \in waiters[Boot], m \in blockAcks : CollectAck(Boot, w, m)
           \/ \E w \in waiters[Boot] : WaiterTimeout(Boot, w)
           \/ LoopTimeout(Boot)
  BY <1>1, <1>5 DEF Propose, ProposeBlock, CollectAck, WaiterTimeout, LoopTimeout, ledgerVars
<1>6. CASE /\ UNCHANGED <<TxPool, waiters, clientVars>>
           /\ OrderingBlock'[Boot] = OrderingBlock[Boot]
  BY <1>1, <1>6
<1> QED
  BY <1>2, <1>3, <1>4, <1>5, <1>6, LeaderStep

-----------------------------------------------------------------------------
(* The theorems *)

LEMMA IInvInit == Init => IInv
<1> SUFFICES ASSUME Init
             PROVE  IInv
  OBVIOUS
<1> USE BootAssumption
<1>1. TypeOK
  BY BoundAssumption DEF Init, TypeOK
<1>2. Roles /\ Logs /\ Acknowledged /\ CommittedOnly
  BY DEF Init, Roles, Logs, Acknowledged, CommittedOnly, CommittedByLeader, MajorityHolds, BlocksOf
<1>3. OneInFlight
  BY DEF Init, OneInFlight, LeaderChain, Linked
<1>4. OnePlace
  BY FS_EmptySet DEF Init, OnePlace, NoDoubleOrder
<1> QED
  BY <1>1, <1>2, <1>3, <1>4 DEF IInv

LEMMA IInvStep == IInv /\ [Next]_vars => IInv'
BY TypeStep, RolesStep, LogsStep, AcknowledgedStep, CommittedStep, OneInFlightStep,
   OnePlaceStep DEF IInv

\* The invariant that carries the others.
LEMMA IInvCorrect == Spec => []IInv
BY IInvInit, IInvStep, PTL DEF Spec

\* Two logs never disagree on the block under an index (HandleBlockProposal,
\* installLogEntries).
THEOREM LogsMatch == Spec => []LogMatching
<1>1. IInv => LogMatching
  BY DEF IInv, Logs, Proposed, LogMatching
<1> QED
  BY <1>1, IInvCorrect, PTL

\* No node ever holds a committed block that the leader has not committed
\* (HandleBlockCommit, StartSync).
THEOREM OnlyLeaderCommits == Spec => []CommittedByLeader
<1>1. IInv => CommittedByLeader
  BY DEF IInv, CommittedOnly
<1> QED
  BY <1>1, IInvCorrect, PTL

\* A block the leader committed is held by a majority (waitForBlockAcks).
THEOREM CommitNeedsMajority == Spec => []MajorityHolds
<1>1. IInv => MajorityHolds
  BY DEF IInv, CommittedOnly
<1> QED
  BY <1>1, IInvCorrect, PTL

\* The leader's blocks form one hash chain (proposeBlockWithTxs, commitBlock).
THEOREM LeaderKeepsChain == Spec => []LeaderChain
<1>1. IInv => LeaderChain
  BY DEF IInv, OneInFlight
<1> QED
  BY <1>1, IInvCorrect, PTL

\* The leader never orders a submission twice (ProposeBlock, commitBlock).
THEOREM NeverOrderedTwice == Spec => []NoDoubleOrder
<1>1. IInv => NoDoubleOrder
  BY DEF IInv, OnePlace
<1> QED
  BY <1>1, IInvCorrect, PTL

\* Appending a block appends its batch to the chain of batches.
LEMMA BatchesAppend ==
  ASSUME NEW s \in Seq(Block), NEW b \in Block
  PROVE  [i \in DOMAIN Append(s, b) |-> Append(s, b)[i].txs]
           = Append([i \in DOMAIN s |-> s[i].txs], b.txs)
<1> DEFINE c == [i \in DOMAIN s |-> s[i].txs]
           d == [i \in DOMAIN Append(s, b) |-> Append(s, b)[i].txs]
<1>1. PICK len \in Nat : len = Len(s)
  BY LenProperties
<1>2. /\ DOMAIN s = 1..len /\ \A i \in 1..len : s[i] \in Block
      /\ DOMAIN Append(s, b) = 1..(len + 1)
      /\ \A i \in 1..len : Append(s, b)[i] = s[i]
      /\ Append(s, b)[len + 1] = b
  BY <1>1, AppendFacts, ElementOfSeq
<1>3. c \in Seq(SUBSET Submission) /\ Len(c) = len
  <2>1. \A i \in 1..len : s[i].txs \in SUBSET Submission
    BY <1>2 DEF Block
  <2>2. c \in [1..len -> SUBSET Submission]
    BY <1>2, <2>1
  <2> HIDE DEF c
  <2> QED
    BY <2>2
<1>4. b.txs \in SUBSET Submission
  BY DEF Block
<1>5. /\ Append(c, b.txs) \in Seq(SUBSET Submission)
      /\ DOMAIN Append(c, b.txs) = 1..(len + 1)
      /\ \A i \in 1..len : Append(c, b.txs)[i] = c[i]
      /\ Append(c, b.txs)[len + 1] = b.txs
  BY <1>3, <1>4, AppendFacts
<1>6. d \in [1..(len + 1) -> SUBSET Submission]
  BY <1>2 DEF Block
<1>7. \A i \in 1..(len + 1) : d[i] = Append(c, b.txs)[i]
  BY <1>2, <1>5
<1>8. Append(c, b.txs) \in [1..(len + 1) -> SUBSET Submission]
  BY <1>3, <1>4, <1>5, LenProperties
<1> QED
  BY <1>6, <1>7, <1>8

\* The leader's pool and chain implement the abstract specification: every
\* submission it pools is ordered at most once, in batches of at most BatchSize,
\* and nothing else leaves the pool (processTx, ProposeBlock, commitBlock).
THEOREM OrdersTotallyCorrect == Spec => OrdersTotally
<1> USE BootAssumption
<1> DEFINE pending == TxPool[Boot]
           chain == [i \in DOMAIN OrderingBlock[Boot] |-> OrderingBlock[Boot][i].txs]
<1>1. Init => O!Init
  BY DEF Init, O!Init
<1>2. IInv /\ [Next]_vars => [O!Next]_(O!vars)
  <2> SUFFICES ASSUME IInv, [Next]_vars
               PROVE  [O!Next]_(O!vars)
    OBVIOUS
  <2>1. TypeOK /\ Roles /\ OneInFlight /\ OnePlace
    BY DEF IInv
  <2>2. ASSUME NEW s \in Submission, s \notin TxPool[Boot],
               \A i \in DOMAIN OrderingBlock[Boot] : s \notin OrderingBlock[Boot][i].txs,
               TxPool'[Boot] = TxPool[Boot] \cup {s}, OrderingBlock'[Boot] = OrderingBlock[Boot]
        PROVE  O!Next
    <3>1. O!Accept(s)
      BY <2>2 DEF O!Accept, O!Ordered
    <3> QED
      BY <3>1 DEF O!Next
  <2>3. ASSUME TxPool'[Boot] = TxPool[Boot], OrderingBlock'[Boot] = OrderingBlock[Boot]
        PROVE  UNCHANGED O!vars
    BY <2>3 DEF O!vars
  <2>4. ASSUME NEW n \in Node, NEW s \in Submission, Submit(n, s)
        PROVE  [O!Next]_(O!vars)
    <3>1. s \notin submitted /\ OrderingBlock' = OrderingBlock
      BY <2>4 DEF Submit, ledgerVars
    <3>2. TxPool'[Boot] = TxPool[Boot] \/ TxPool'[Boot] = TxPool[Boot] \cup {s}
      BY <2>1, <2>4 DEF Submit, TypeOK
    <3> QED
      BY <2>1, <2>2, <2>3, <3>1, <3>2 DEF OnePlace
  <2>5. ASSUME NEW m \in forwards, ReceiveForward(m)
        PROVE  [O!Next]_(O!vars)
    <3>1. m.sub \in Submission /\ m.to = Boot
      BY <2>1 DEF TypeOK, ForwardMsg, OnePlace
    <3>2. TxPool'[Boot] = TxPool[Boot] \cup {m.sub} /\ OrderingBlock' = OrderingBlock
      BY <2>1, <2>5, <3>1 DEF ReceiveForward, TypeOK, Roles, ledgerVars
    <3> QED
      BY <2>1, <2>2, <3>1, <3>2 DEF OnePlace
  <2>6. ASSUME NEW w \in waiters[Boot], Commit(Boot, w)
        PROVE  O!Next
    <3>1. w.entry.block \in Block /\ OrderingBlock[Boot] \in Seq(Block)
      BY <2>1 DEF TypeOK, Waiter, Entry
    <3>2. PICK b \in Block : b = w.entry.block
      BY <3>1
    <3>3. /\ OrderingBlock'[Boot] = Append(OrderingBlock[Boot], b)
          /\ TxPool'[Boot] = Without(TxPool[Boot], b.txs)
      BY <2>1, <2>6, <3>2 DEF Commit, TypeOK
    <3>4. b.txs \in SUBSET TxPool[Boot] /\ b.txs # {} /\ Cardinality(b.txs) <= BatchSize
      BY <2>1, <3>2 DEF OneInFlight
    <3>5. chain' = Append(chain, b.txs)
      BY <3>1, <3>3, BatchesAppend
    <3>6. b.txs \in SmallBatch
      BY <3>4 DEF SmallBatch, Block
    <3>7. pending' = O!Without(pending, b.txs)
      BY <3>3 DEF O!Without, Without
    <3> HIDE DEF pending, chain
    <3>8. O!Order(b.txs)
      BY <3>5, <3>6, <3>7 DEF O!Order, pending, chain
    <3> QED
      BY <3>4, <3>8 DEF O!Next
  <2>7. CASE \/ Propose(Boot)
             \/ \E w \in waiters[Boot], m \in blockAcks : CollectAck(Boot, w, m)
             \/ \E w \in waiters[Boot] : WaiterTimeout(Boot, w)
             \/ LoopTimeout(Boot)
    BY <2>3, <2>7 DEF Propose, ProposeBlock, CollectAck, WaiterTimeout, LoopTimeout, ledgerVars
  <2>8. CASE UNCHANGED TxPool /\ OrderingBlock'[Boot] = OrderingBlock[Boot]
    BY <2>3, <2>8
  <2> QED
    BY <2>1, <2>4, <2>5, <2>6, <2>7, <2>8, LeaderStep
<1> QED
  BY <1>1, <1>2, IInvCorrect, PTL DEF Spec, OrdersTotally, O!Spec
-----------------------------------------------------------------------------
(* A sync follows the leader *)

\* The hash of the last block node n committed.
TipHash(n) ==
  IF OrderingBlock[n] = <<>> THEN 0
  ELSE OrderingBlock[n][Len(OrderingBlock[n])].hash

\* Every node links its next block to its last one, and a hash names a position
\* of the leader's chain: the blocks are numbered in the order they were created.
Numbered ==
  /\ \A n \in Node : lastCommittedHash[n] = TipHash(n)
  /\ \A i, j \in DOMAIN OrderingBlock[Boot] :
       i < j => OrderingBlock[Boot][i].hash < OrderingBlock[Boot][j].hash
  /\ \A i \in DOMAIN OrderingBlock[Boot] : OrderingBlock[Boot][i].hash \in 1..blocks
  /\ \A w \in waiters[Boot] :
       /\ w.entry.block.hash \in 1..blocks
       /\ \A i \in DOMAIN OrderingBlock[Boot] :
            OrderingBlock[Boot][i].hash < w.entry.block.hash

\* Every non-empty set of naturals has a least element.
LEMMA LeastNatural ==
  ASSUME NEW T, T \subseteq Nat, T # {}
  PROVE  \E x \in T : \A y \in T : x <= y
<1> DEFINE R == OpToRel(<, Nat)
<1>1. IsWellFoundedOn(R, Nat)
  BY NatLessThanWellFounded
<1>2. \A x, y \in Nat : y < x => <<y, x>> \in R
  BY DEF OpToRel
<1> HIDE DEF R
<1>3. PICK x \in T : \A y \in T : ~(<<y, x>> \in R)
  BY <1>1, WFMin
<1>4. \A y \in T : y \in Nat /\ ~(y < x)
  BY <1>2, <1>3
<1>5. \A y \in T : x <= y
  BY <1>4
<1> QED
  BY <1>5

\* The hash of the tip after a block has been appended.
LEMMA TipAfterAppend ==
  ASSUME TypeOK, NEW n \in Node, NEW b \in Block,
         OrderingBlock' = [OrderingBlock EXCEPT ![n] = Append(@, b)]
  PROVE  /\ TipHash(n)' = b.hash
         /\ \A k \in Node \ {n} : TipHash(k)' = TipHash(k)
<1>1. /\ OrderingBlock[n] \in Seq(Block)
      /\ OrderingBlock'[n] = Append(OrderingBlock[n], b)
      /\ \A k \in Node \ {n} : OrderingBlock'[k] = OrderingBlock[k]
  BY DEF TypeOK
<1>2. PICK len \in Nat : len = Len(OrderingBlock[n])
  BY <1>1, LenProperties
<1>3. /\ Len(OrderingBlock'[n]) = len + 1
      /\ OrderingBlock'[n][len + 1] = b
      /\ OrderingBlock'[n] \in Seq(Block)
  BY <1>1, <1>2, AppendFacts
<1>4. OrderingBlock'[n] # <<>>
  BY <1>1, AppendProperties
<1> QED
  BY <1>1, <1>3, <1>4 DEF TipHash

\* What a verified fetch appends: the peer's blocks have+1..t.count, which link
\* to the own tip and to each other and end in the target's hash.
LEMMA InstallFetched ==
  ASSUME TypeOK, NEW n \in Node, NEW t \in Status, NEW p \in Node, NEW q \in Node,
         InstallSync(n, t, p, q), t.count > Len(OrderingBlock[n])
  PROVE  \E have, len \in Nat :
           /\ have = Len(OrderingBlock[n]) /\ len \in Nat \ {0}
           /\ OrderingBlock'[n] \in Seq(Block)
           /\ Len(OrderingBlock'[n]) = have + len
           /\ \A k \in 1..have : OrderingBlock'[n][k] = OrderingBlock[n][k]
           /\ \A k \in 1..len :
                /\ OrderingBlock'[n][have + k] \in BlocksOf(p)
                /\ OrderingBlock'[n][have + k].prevHash =
                     IF k = 1 THEN lastCommittedHash[n]
                     ELSE OrderingBlock'[n][have + k - 1].hash
           /\ OrderingBlock'[n][have + len].hash = t.hash
           /\ lastCommittedHash'[n] = t.hash
<1> DEFINE own == OrderingBlock[n]
           src == OrderingBlock[p]
           u == SubSeq(src, Len(own) + 1, t.count)
<1>1. own \in Seq(Block) /\ src \in Seq(Block)
  BY DEF TypeOK
<1>2. PICK have \in Nat, count \in Nat : have = Len(own) /\ count = t.count
  BY <1>1, LenProperties DEF Status
<1>3. PICK len \in Nat \ {0} : have + len = count
  <2>1. count - have \in Nat \ {0} /\ have + (count - have) = count
    BY <1>2
  <2> QED
    BY <2>1
<1>4. /\ count <= Len(src)
      /\ Verified(lastCommittedHash[n], u, t.hash)
      /\ OrderingBlock'[n] = own \o u
      /\ lastCommittedHash'[n] = t.hash
  BY <1>2 DEF InstallSync, TypeOK
<1>5. \A k \in 1..len : src[have + k] \in BlocksOf(p)
  <2>1. \A k \in 1..len : have + k \in DOMAIN src
    BY <1>1, <1>2, <1>3, <1>4, LenProperties
  <2> QED
    BY <2>1 DEF BlocksOf
<1>6. /\ u \in Seq(Block)
      /\ Len(u) = len
      /\ \A k \in 1..len : u[k] = src[have + k]
  <2>1. \A k \in (have + 1)..count : src[k] \in Block
    BY <1>1, <1>2, <1>4, LenProperties, ElementOfSeq
  <2>2. u = SubSeq(src, have + 1, count)
    BY <1>2
  <2> HIDE DEF u, src
  <2>3. /\ u \in Seq(Block)
        /\ Len(u) = IF have + 1 <= count THEN count - (have + 1) + 1 ELSE 0
        /\ \A k \in 1..(count - (have + 1) + 1) : u[k] = src[(have + 1) + k - 1]
    BY <1>1, <2>1, <2>2, SubSeqProperties
  <2>4. have + 1 <= count /\ count - (have + 1) + 1 = len
    BY <1>3
  <2>5. \A k \in 1..len : (have + 1) + k - 1 = have + k
    OBVIOUS
  <2> QED
    BY <2>3, <2>4, <2>5
<1>7. DOMAIN u = 1..len
  BY <1>6, LenProperties
<1>8. /\ \A k \in 1..len : u[k].prevHash = IF k = 1 THEN lastCommittedHash[n] ELSE u[k - 1].hash
      /\ u[len].hash = t.hash
  BY <1>4, <1>6, <1>7 DEF Verified, Linked
<1> HIDE DEF u
<1>9. /\ own \o u \in Seq(Block)
      /\ Len(own \o u) = have + len
      /\ \A k \in 1..(have + len) :
           (own \o u)[k] = IF k <= have THEN own[k] ELSE u[k - have]
  <2> HIDE DEF own
  <2>1. /\ own \o u \in Seq(Block)
        /\ Len(own \o u) = Len(own) + Len(u)
        /\ \A k \in 1..(Len(own) + Len(u)) :
             (own \o u)[k] = IF k <= Len(own) THEN own[k] ELSE u[k - Len(own)]
    BY <1>1, <1>6, ConcatProperties
  <2> QED
    BY <1>2, <1>6, <2>1
<1>10. \A k \in 1..have : (own \o u)[k] = own[k]
  BY <1>9
<1>11. \A k \in 1..len : (own \o u)[have + k] = u[k]
  <2> TAKE k \in 1..len
  <2>1. have + k \in 1..(have + len) /\ ~(have + k <= have) /\ (have + k) - have = k
    OBVIOUS
  <2> QED
    BY <1>9, <2>1
<1>12. \A k \in 1..len : k # 1 => (own \o u)[have + k - 1] = u[k - 1]
  <2> TAKE k \in 1..len
  <2> HAVE k # 1
  <2>1. k - 1 \in 1..len /\ have + k - 1 = have + (k - 1)
    OBVIOUS
  <2> QED
    BY <1>11, <2>1
<1>13. OrderingBlock'[n] = own \o u /\ len \in 1..len
  BY <1>4
<1> DEFINE v == own \o u
<1>14. /\ \A k \in 1..have : v[k] = own[k]
       /\ \A k \in 1..len : v[have + k] \in BlocksOf(p)
       /\ \A k \in 1..len : v[have + k].prevHash =
            IF k = 1 THEN lastCommittedHash[n] ELSE v[have + k - 1].hash
       /\ v[have + len].hash = t.hash
       /\ v \in Seq(Block) /\ Len(v) = have + len
  <2> HIDE DEF own
  <2>1. \A k \in 1..len : v[have + k] \in BlocksOf(p)
    BY <1>5, <1>6, <1>11
  <2>2. \A k \in 1..len : v[have + k].prevHash =
            IF k = 1 THEN lastCommittedHash[n] ELSE v[have + k - 1].hash
    BY <1>8, <1>11, <1>12
  <2>3. v[have + len].hash = t.hash
    BY <1>8, <1>11, <1>13
  <2> QED
    BY <1>9, <1>10, <2>1, <2>2, <2>3
<1>15. OrderingBlock'[n] = v
  BY <1>13
<1> HIDE DEF v
<1> QED
  BY <1>2, <1>3, <1>4, <1>14, <1>15

\* Without a block to fetch a sync leaves the blocks alone.
LEMMA InstallNothing ==
  ASSUME TypeOK, NEW n \in Node, NEW t \in Status, NEW p \in Node, NEW q \in Node,
         InstallSync(n, t, p, q), ~(t.count > Len(OrderingBlock[n]))
  PROVE  OrderingBlock'[n] = OrderingBlock[n]
<1>1. OrderingBlock[n] \in Seq(Block) /\ Len(OrderingBlock[n]) \in Nat /\ t.count \in Nat
  BY LenProperties DEF TypeOK, Status
<1>2. OrderingBlock'[n] =
        OrderingBlock[n] \o SubSeq(OrderingBlock[p], Len(OrderingBlock[n]) + 1, t.count)
  BY DEF InstallSync, TypeOK
<1>3. SubSeq(OrderingBlock[p], Len(OrderingBlock[n]) + 1, t.count) = <<>>
  BY <1>1, SubSeqEmpty
<1> QED
  BY <1>1, <1>2, <1>3, ConcatEmptySeq

\* Whatever extends a node's blocks moves lastCommittedHash to the new tip.
LEMMA TipsStep ==
  ASSUME TypeOK, Roles, Numbered, [Next]_vars
  PROVE  \A n \in Node : lastCommittedHash'[n] = TipHash(n)'
<1> USE BootAssumption
<1> DEFINE Goal == \A n \in Node : lastCommittedHash'[n] = TipHash(n)'
<1>1. ASSUME UNCHANGED <<OrderingBlock, lastCommittedHash>>
      PROVE  Goal
  BY <1>1 DEF Numbered, TipHash
<1>2. ASSUME NEW n \in Node, NEW b \in Block,
             OrderingBlock' = [OrderingBlock EXCEPT ![n] = Append(@, b)],
             lastCommittedHash' = [lastCommittedHash EXCEPT ![n] = b.hash]
      PROVE  Goal
  BY <1>2, TipAfterAppend DEF Numbered, TypeOK
<1>3. ASSUME NEW n \in Node, NEW w \in waiters[n], Commit(n, w)
      PROVE  Goal
  <2>1. w.entry.block \in Block
    BY DEF TypeOK, Waiter, Entry
  <2> QED
    BY <1>2, <1>3, <2>1 DEF Commit
<1>4. ASSUME NEW m \in commits, ApplyCommit(m)
      PROVE  Goal
  <2>1. m.to \in Node /\ RaftLog[m.to] \in Seq(Entry)
    BY DEF TypeOK, CommitMsg
  <2>2. PICK k \in DOMAIN RaftLog[m.to] :
          /\ RaftLog[m.to][k].block.hash = m.hash
          /\ OrderingBlock' = [OrderingBlock EXCEPT ![m.to] = Append(@, RaftLog[m.to][k].block)]
          /\ lastCommittedHash' = [lastCommittedHash EXCEPT ![m.to] = m.hash]
    BY <1>4 DEF ApplyCommit, PositionsOf
  <2>3. RaftLog[m.to][k].block \in Block
    <3>1. RaftLog[m.to][k] \in Entry
      BY <2>1, <2>2, ElementOfSeq
    <3> QED
      BY <3>1 DEF Entry
  <2> QED
    BY <1>2, <2>1, <2>2, <2>3
<1>5. ASSUME NEW n \in Node, NEW t \in Status, NEW p \in Node, NEW q \in Node,
             InstallSync(n, t, p, q)
      PROVE  Goal
  <2>1. \A k \in Node \ {n} : /\ OrderingBlock'[k] = OrderingBlock[k]
                              /\ lastCommittedHash'[k] = lastCommittedHash[k]
    BY <1>5 DEF InstallSync, TypeOK
  <2>2. lastCommittedHash'[n] = TipHash(n)'
    <3>1. CASE t.count > Len(OrderingBlock[n])
      <4>1. PICK have, len \in Nat :
              /\ len # 0
              /\ OrderingBlock'[n] \in Seq(Block)
              /\ Len(OrderingBlock'[n]) = have + len
              /\ OrderingBlock'[n][have + len].hash = t.hash
              /\ lastCommittedHash'[n] = t.hash
        BY <1>5, <3>1, InstallFetched
      <4>2. OrderingBlock'[n] # <<>>
        BY <4>1, EmptySeq
      <4> QED
        BY <4>1, <4>2 DEF TipHash
    <3>2. CASE ~(t.count > Len(OrderingBlock[n]))
      <4>1. OrderingBlock'[n] = OrderingBlock[n]
        BY <1>5, <3>2, InstallNothing
      <4>2. lastCommittedHash'[n] = lastCommittedHash[n]
        BY <1>5, <3>2 DEF InstallSync, TypeOK
      <4> QED
        BY <4>1, <4>2 DEF Numbered, TipHash
    <3> QED
      BY <3>1, <3>2
  <2> QED
    BY <2>1, <2>2 DEF Numbered, TipHash
<1>6. ASSUME NEW n \in Node, Sync(n)
      PROVE  Goal
  <2>1. Targets(statuses[n]) \subseteq Status
    BY DEF Targets, TypeOK
  <2> QED
    BY <1>1, <1>5, <1>6, <2>1 DEF Sync, SyncOnRejoin, ReportStatus, AbortSync, ledgerVars
<1>7. CASE Client
  BY <1>1, <1>7 DEF Client, Submit, ReceiveForward, ledgerVars
<1>8. ASSUME NEW n \in Node, Lead(n)
      PROVE  Goal
  BY <1>1, <1>3, <1>8 DEF Lead, Propose, ProposeBlock, WaiterTimeout, CollectAck, LoopTimeout, ledgerVars
<1>9. CASE Follow
  BY <1>1, <1>4, <1>9
  DEF Follow, DropProposal, RejectProposal, AcceptProposal, DropCommit, SyncOnCommit, ledgerVars
<1>10. CASE UNCHANGED vars
  BY <1>1, <1>10 DEF vars, ledgerVars
<1> QED
  BY <1>6, <1>7, <1>8, <1>9, <1>10 DEF Next

\* A block gets the next number when it is created and joins the chain before
\* another one is created: one block in flight.
LEMMA NumberedStep ==
  ASSUME IInv, Numbered, [Next]_vars
  PROVE  Numbered'
<1> USE BootAssumption
<1>1. TypeOK /\ Roles /\ Logs /\ OneInFlight
  BY DEF IInv
<1>2. \A n \in Node : lastCommittedHash'[n] = TipHash(n)'
  BY <1>1, TipsStep
<1> DEFINE Order ==
      /\ \A i, j \in DOMAIN OrderingBlock[Boot] :
           i < j => OrderingBlock[Boot][i].hash < OrderingBlock[Boot][j].hash
      /\ \A i \in DOMAIN OrderingBlock[Boot] : OrderingBlock[Boot][i].hash \in 1..blocks
      /\ \A w \in waiters[Boot] :
           /\ w.entry.block.hash \in 1..blocks
           /\ \A i \in DOMAIN OrderingBlock[Boot] :
                OrderingBlock[Boot][i].hash < w.entry.block.hash
<1>3. Order
  BY DEF Numbered
<1> SUFFICES Order'
  BY <1>2 DEF Numbered
<1>4. ASSUME OrderingBlock'[Boot] = OrderingBlock[Boot],
             blocks' = blocks,
             \A w \in waiters'[Boot] : \E v \in waiters[Boot] : w.entry = v.entry
      PROVE  Order'
  BY <1>3, <1>4
<1> HIDE DEF Order
<1>5. CASE Propose(Boot)
  <2>1. PICK B \in Batches(TxPool[Boot]) :
          waiters' = [waiters EXCEPT
            ![Boot] = @ \cup {[entry |-> NextEntry(Boot, B), acks |-> {Boot}]}]
    BY <1>5 DEF Propose, ProposeBlock
  <2>2. waiters[Boot] = {}
    BY <1>1, <1>5 DEF Propose, ProposeBlock, OneInFlight
  <2>3. \A w \in waiters'[Boot] : w.entry.block.hash = blocks + 1
    BY <1>1, <2>1, <2>2 DEF NextEntry, TypeOK
  <2>4. blocks \in Nat /\ blocks' = blocks + 1 /\ OrderingBlock' = OrderingBlock
    BY <1>1, <1>5, BoundAssumption DEF Propose, ProposeBlock, TypeOK
  <2>5. \A i \in DOMAIN OrderingBlock[Boot] :
          /\ OrderingBlock[Boot][i].hash \in 1..(blocks + 1)
          /\ OrderingBlock[Boot][i].hash < blocks + 1
    BY <1>3, <2>4 DEF Order
  <2>6. \A w \in waiters'[Boot] :
          /\ w.entry.block.hash \in 1..(blocks + 1)
          /\ \A i \in DOMAIN OrderingBlock[Boot] :
               OrderingBlock[Boot][i].hash < w.entry.block.hash
    BY <2>3, <2>4, <2>5
  <2> QED
    BY <1>3, <2>4, <2>5, <2>6 DEF Order
<1>6. ASSUME NEW w \in waiters[Boot], Commit(Boot, w)
      PROVE  Order'
  <2>1. w.entry.block \in Block /\ OrderingBlock[Boot] \in Seq(Block)
    BY <1>1 DEF TypeOK, Waiter, Entry
  <2>2. PICK b \in Block : b = w.entry.block
    BY <2>1
  <2>3. OrderingBlock'[Boot] = Append(OrderingBlock[Boot], b) /\ blocks' = blocks
    BY <1>1, <1>6, <2>2 DEF Commit, TypeOK
  <2>4. waiters'[Boot] = {}
    BY <1>1, <1>6 DEF Commit, TypeOK, OneInFlight
  <2>5. PICK len \in Nat : len = Len(OrderingBlock[Boot])
    BY <2>1, LenProperties
  <2>6. /\ DOMAIN OrderingBlock[Boot] = 1..len
        /\ DOMAIN OrderingBlock'[Boot] = 1..(len + 1)
        /\ \A i \in 1..len : OrderingBlock'[Boot][i] = OrderingBlock[Boot][i]
        /\ OrderingBlock'[Boot][len + 1] = b
    BY <2>1, <2>3, <2>5, AppendFacts
  <2>7. b.hash \in 1..blocks /\ \A i \in 1..len : OrderingBlock[Boot][i].hash < b.hash
    BY <1>3, <2>2, <2>6 DEF Order
  <2>8. ASSUME NEW i \in 1..(len + 1), NEW j \in 1..(len + 1), i < j
        PROVE  OrderingBlock'[Boot][i].hash < OrderingBlock'[Boot][j].hash
    <3>1. i \in 1..len
      BY <2>8
    <3>2. CASE j = len + 1
      BY <2>6, <2>7, <3>1, <3>2
    <3>3. CASE j \in 1..len
      BY <1>3, <2>6, <2>8, <3>1, <3>3 DEF Order
    <3> QED
      BY <3>2, <3>3
  <2>9. \A i \in 1..(len + 1) : OrderingBlock'[Boot][i].hash \in 1..blocks
    <3> TAKE i \in 1..(len + 1)
    <3>1. CASE i = len + 1
      BY <2>6, <2>7, <3>1
    <3>2. CASE i \in 1..len
      BY <1>3, <2>6, <3>2 DEF Order
    <3> QED
      BY <3>1, <3>2
  <2> QED
    BY <2>3, <2>4, <2>6, <2>8, <2>9 DEF Order
<1>7. ASSUME NEW w \in waiters[Boot], NEW m \in blockAcks, CollectAck(Boot, w, m)
      PROVE  Order'
  <2>1. \A v \in waiters'[Boot] : \E u \in waiters[Boot] : v.entry = u.entry
    <3>1. waiters'[Boot] \subseteq waiters[Boot] \cup {[w EXCEPT !.acks = @ \cup {m.from}]}
      BY <1>1, <1>7 DEF CollectAck, TypeOK
    <3>2. [w EXCEPT !.acks = @ \cup {m.from}].entry = w.entry
      BY <1>1 DEF TypeOK, Waiter
    <3> QED
      BY <3>1, <3>2
  <2>2. blocks' = blocks /\ OrderingBlock' = OrderingBlock
    BY <1>7 DEF CollectAck, ledgerVars
  <2> QED
    BY <1>4, <2>1, <2>2
<1>8. ASSUME NEW w \in waiters[Boot], WaiterTimeout(Boot, w)
      PROVE  Order'
  <2>1. waiters'[Boot] \subseteq waiters[Boot]
    BY <1>1, <1>8 DEF WaiterTimeout, TypeOK
  <2> QED
    BY <1>4, <1>8, <2>1 DEF WaiterTimeout, ledgerVars
<1>9. CASE LoopTimeout(Boot)
  BY <1>4, <1>9 DEF LoopTimeout, ledgerVars
<1>10. CASE \/ \E n \in Node, s \in Submission : Submit(n, s)
            \/ \E m \in forwards : ReceiveForward(m)
  BY <1>4, <1>10 DEF Submit, ReceiveForward, ledgerVars
<1>11. CASE /\ UNCHANGED <<waiters, blocks>>
            /\ OrderingBlock'[Boot] = OrderingBlock[Boot]
  BY <1>4, <1>11
<1> QED
  BY <1>1, <1>5, <1>6, <1>7, <1>8, <1>9, <1>10, <1>11, LeaderStep

LEMMA NumberedInit == Init => Numbered
BY BootAssumption DEF Init, Numbered, TipHash

\* The invariant with the numbering of blocks.
LEMMA NumberedCorrect == Spec => [](IInv /\ Numbered)
<1>1. IInv /\ Numbered /\ [Next]_vars => Numbered'
  BY NumberedStep
<1> QED
  BY <1>1, NumberedInit, IInvCorrect, PTL DEF Spec

\* A prefix, element by element.
LEMMA PrefixFacts ==
  ASSUME NEW E, NEW a \in Seq(E), NEW b \in Seq(E)
  PROVE  IsPrefixOf(a, b) <=> Len(a) <= Len(b) /\ \A i \in 1..Len(a) : b[i] = a[i]
<1>1. PICK m \in Nat, l \in Nat : m = Len(a) /\ l = Len(b)
  BY LenProperties
<1>2. DOMAIN a = 1..m /\ DOMAIN b = 1..l
  BY <1>1, LenProperties
<1>3. SUFFICES ASSUME m <= l
               PROVE  SubSeq(b, 1, m) = a <=> \A i \in 1..m : b[i] = a[i]
  BY <1>1 DEF IsPrefixOf
<1>4. \A i \in 1..m : b[i] \in E
  BY <1>1, <1>2, <1>3, ElementOfSeq
<1> DEFINE u == SubSeq(b, 1, m)
<1>5. /\ u \in Seq(E)
      /\ Len(u) = IF 1 <= m THEN m - 1 + 1 ELSE 0
      /\ \A i \in 1..(m - 1 + 1) : u[i] = b[1 + i - 1]
  BY <1>4, SubSeqProperties
<1> HIDE DEF u
<1>6. Len(u) = m /\ \A i \in 1..m : u[i] = b[i]
  BY <1>5
<1>7. (u = a) <=> \A i \in 1..m : u[i] = a[i]
  BY <1>1, <1>5, <1>6, SeqEqual
<1> QED
  BY <1>6, <1>7 DEF u

\* A block of the leader's chain is identified by its prevHash.
LEMMA ChainPosition ==
  ASSUME TypeOK, LeaderChain, Numbered, NEW j \in DOMAIN OrderingBlock[Boot],
         NEW i \in Nat, i <= Len(OrderingBlock[Boot]),
         OrderingBlock[Boot][j].prevHash =
           IF i = 0 THEN 0 ELSE OrderingBlock[Boot][i].hash
  PROVE  j = i + 1
<1> DEFINE c == OrderingBlock[Boot]
<1>1. c \in Seq(Block)
  BY BootAssumption DEF TypeOK
<1>2. PICK l \in Nat : l = Len(c) /\ DOMAIN c = 1..l
  BY <1>1, LenProperties
<1>3. c[j].prevHash = IF j = 1 THEN 0 ELSE c[j - 1].hash
  BY DEF LeaderChain, Linked
<1>4. /\ \A x, y \in 1..l : x < y => c[x].hash < c[y].hash
      /\ \A x \in 1..l : c[x].hash \in 1..blocks
  BY <1>2 DEF Numbered
<1>5. blocks \in Nat
  BY BoundAssumption DEF TypeOK
<1> HIDE DEF c
<1>6. j \in 1..l /\ i \in 0..l
  BY <1>2 DEF c
<1>7. c[j].prevHash = IF i = 0 THEN 0 ELSE c[i].hash
  BY DEF c
<1>8. CASE j = 1
  BY <1>3, <1>4, <1>5, <1>6, <1>7, <1>8
<1>9. CASE j # 1
  <2>1. j - 1 \in 1..l /\ c[j].prevHash = c[j - 1].hash
    BY <1>3, <1>6, <1>9
  <2>2. c[j - 1].hash \in 1..blocks
    BY <1>4, <2>1
  <2>3. i \in 1..l /\ c[i].hash = c[j - 1].hash
    BY <1>5, <1>6, <1>7, <2>1, <2>2
  <2>4. ~(i < j - 1) /\ ~(j - 1 < i)
    <3>1. c[i].hash \in Nat /\ c[j - 1].hash \in Nat
      BY <1>4, <1>5, <2>1, <2>3
    <3>2. \A x, y \in 1..l : c[x].hash = c[y].hash /\ c[x].hash \in Nat => ~(x < y)
      BY <1>4
    <3> QED
      BY <2>1, <2>3, <3>1, <3>2
  <2> QED
    BY <1>6, <2>1, <2>3, <2>4
<1> QED
  BY <1>8, <1>9

\* A node that follows the leader's chain and installs a verified fetch follows
\* it further: the first fetched block that is not the leader's at its place
\* would be a block of the leader's with another predecessor.
LEMMA InstallFollows ==
  ASSUME IInv, Numbered, NEW n \in Node, NEW t \in Status, NEW p \in Node, NEW q \in Node,
         InstallSync(n, t, p, q), t.count > Len(OrderingBlock[n]),
         IsPrefixOf(OrderingBlock[n], OrderingBlock[Boot])
  PROVE  IsPrefixOf(OrderingBlock'[n], OrderingBlock[Boot])
<1> USE BootAssumption
<1>1. TypeOK /\ LeaderChain /\ CommittedByLeader
  BY DEF IInv, CommittedOnly, OneInFlight
<1> DEFINE c == OrderingBlock[Boot]
           v == OrderingBlock'[n]
<1>2. PICK have, len \in Nat :
        /\ have = Len(OrderingBlock[n]) /\ len \in Nat \ {0}
        /\ v \in Seq(Block)
        /\ Len(v) = have + len
        /\ \A k \in 1..have : v[k] = OrderingBlock[n][k]
        /\ \A k \in 1..len :
             /\ v[have + k] \in BlocksOf(p)
             /\ v[have + k].prevHash =
                  IF k = 1 THEN lastCommittedHash[n] ELSE v[have + k - 1].hash
        /\ v[have + len].hash = t.hash
        /\ lastCommittedHash'[n] = t.hash
  BY <1>1, InstallFetched
<1>3. c \in Seq(Block) /\ OrderingBlock[n] \in Seq(Block)
  BY <1>1 DEF TypeOK
<1>4. PICK l \in Nat : l = Len(c) /\ DOMAIN c = 1..l
  BY <1>3, LenProperties
<1>5. have <= l /\ \A k \in 1..have : v[k] = c[k]
  <2>1. /\ Len(OrderingBlock[n]) <= Len(OrderingBlock[Boot])
        /\ \A i \in 1..Len(OrderingBlock[n]) : OrderingBlock[Boot][i] = OrderingBlock[n][i]
    BY <1>3, PrefixFacts
  <2> QED
    BY <1>2, <1>4, <2>1
<1>6. lastCommittedHash[n] = IF have = 0 THEN 0 ELSE c[have].hash
  <2>1. lastCommittedHash[n] = TipHash(n)
    BY DEF Numbered
  <2>2. CASE have = 0
    BY <1>2, <1>3, <2>1, <2>2, EmptySeq DEF TipHash
  <2>3. CASE have # 0
    <3>1. OrderingBlock[n] # <<>>
      BY <1>2, <2>3, EmptySeq
    <3>2. lastCommittedHash[n] = OrderingBlock[n][have].hash
      BY <1>2, <2>1, <3>1 DEF TipHash
    <3> QED
      BY <1>2, <1>5, <2>3, <3>2
  <2> QED
    BY <2>2, <2>3
<1> DEFINE Off == {k \in 1..len : ~(have + k \in 1..l /\ v[have + k] = c[have + k])}
<1>7. Off = {}
  <2>1. SUFFICES ASSUME Off # {}
                 PROVE  FALSE
    OBVIOUS
  <2>2. Off \subseteq Nat
    OBVIOUS
  <2>3. PICK k \in Off : \A y \in Off : k <= y
    <3> HIDE DEF Off
    <3> QED
      BY <2>1, <2>2, LeastNatural
  <2>4. k \in 1..len
    BY <2>3
  <2>5. PICK j \in 1..l : v[have + k] = c[j]
    <3>1. BlocksOf(p) \subseteq BlocksOf(Boot)
      BY <1>1 DEF CommittedByLeader
    <3>2. v[have + k] \in BlocksOf(Boot)
      BY <1>2, <2>4, <3>1
    <3> QED
      BY <1>4, <3>2 DEF BlocksOf
  <2>6. k # 1 => have + k - 1 \in 1..l /\ v[have + k - 1] = c[have + k - 1]
    <3>1. SUFFICES ASSUME k # 1
                   PROVE  have + k - 1 \in 1..l /\ v[have + k - 1] = c[have + k - 1]
      OBVIOUS
    <3>2. k - 1 \in 1..len /\ ~(k <= k - 1) /\ have + (k - 1) = have + k - 1
      BY <2>4, <3>1
    <3>3. k - 1 \notin Off
      BY <2>3, <3>2
    <3> QED
      BY <3>2, <3>3
  <2>7. /\ have + k - 1 \in Nat /\ have + k - 1 <= l
        /\ c[j].prevHash = IF have + k - 1 = 0 THEN 0 ELSE c[have + k - 1].hash
    <3> HIDE DEF Off, c, v
    <3>1. CASE k = 1
      <4>1. have + k - 1 = have
        BY <3>1
      <4>2. c[j].prevHash = lastCommittedHash[n]
        BY <1>2, <2>4, <2>5, <3>1
      <4> QED
        BY <1>5, <1>6, <4>1, <4>2
    <3>2. CASE k # 1
      <4>1. have + k - 1 \in 1..l /\ v[have + k - 1] = c[have + k - 1]
        BY <2>6, <3>2
      <4>2. c[j].prevHash = v[have + k - 1].hash
        BY <1>2, <2>4, <2>5, <3>2
      <4> QED
        BY <4>1, <4>2
    <3> QED
      BY <3>1, <3>2
  <2>8. j = have + k - 1 + 1
    BY <1>1, <1>4, <2>5, <2>7, ChainPosition
  <2>9. have + k = j
    BY <2>4, <2>8
  <2> QED
    BY <2>3, <2>5, <2>9
<1>8. \A i \in 1..(have + len) : i \in 1..l /\ v[i] = c[i]
  <2> TAKE i \in 1..(have + len)
  <2>1. CASE i \in 1..have
    BY <1>5, <2>1
  <2>2. CASE i \notin 1..have
    <3>1. PICK k \in 1..len : i = have + k
      <4>1. i - have \in 1..len /\ i = have + (i - have)
        BY <2>2
      <4> QED
        BY <4>1
    <3>2. k \notin Off
      BY <1>7
    <3> QED
      BY <3>1, <3>2
  <2> QED
    BY <2>1, <2>2
<1>9. have + len <= l
  <2>1. have + len \in 1..(have + len)
    BY <1>2
  <2>2. have + len \in 1..l
    BY <1>8, <2>1
  <2> QED
    BY <2>2
<1> HIDE DEF c, v
<1>10. IsPrefixOf(v, c)
  BY <1>2, <1>3, <1>4, <1>8, <1>9, PrefixFacts
<1> QED
  BY <1>10 DEF c, v

\* A sync never takes a node off the leader's chain, whatever statuses it
\* collected and whoever it fetched from (StartSync, verifyHashChain,
\* installBlocks).
THEOREM SyncKeepsToLeader == Spec => SyncFollowsLeader
<1> USE BootAssumption
<1> DEFINE Step == \A n \in Node :
              state[n] = "Syncing" /\ IsPrefixOf(OrderingBlock[n], OrderingBlock[Boot])
              => IsPrefixOf(OrderingBlock'[n], OrderingBlock'[Boot])
<1>1. ASSUME IInv, Numbered, [Next]_vars, NEW n \in Node,
             state[n] = "Syncing", IsPrefixOf(OrderingBlock[n], OrderingBlock[Boot])
      PROVE  IsPrefixOf(OrderingBlock'[n], OrderingBlock'[Boot])
  <2>1. TypeOK /\ Roles /\ n # Boot
    BY <1>1 DEF IInv, Roles
  <2>2. /\ OrderingBlock[n] \in Seq(Block) /\ OrderingBlock'[n] \in Seq(Block)
        /\ OrderingBlock[Boot] \in Seq(Block) /\ OrderingBlock'[Boot] \in Seq(Block)
    BY <1>1, <2>1, TypeStep DEF TypeOK
  <2>3. /\ Len(OrderingBlock[Boot]) <= Len(OrderingBlock'[Boot])
        /\ \A i \in 1..Len(OrderingBlock[Boot]) : OrderingBlock'[Boot][i] = OrderingBlock[Boot][i]
    <3>1. CASE OrderingBlock'[Boot] = OrderingBlock[Boot]
      BY <2>2, <3>1, LenProperties
    <3>2. ASSUME NEW w \in waiters[Boot], Commit(Boot, w)
          PROVE  /\ Len(OrderingBlock[Boot]) <= Len(OrderingBlock'[Boot])
                 /\ \A i \in 1..Len(OrderingBlock[Boot]) :
                      OrderingBlock'[Boot][i] = OrderingBlock[Boot][i]
      <4>1. w.entry.block \in Block
        BY <2>1 DEF TypeOK, Waiter, Entry
      <4>2. OrderingBlock'[Boot] = Append(OrderingBlock[Boot], w.entry.block)
        BY <2>1, <3>2 DEF Commit, TypeOK
      <4>3. Len(OrderingBlock[Boot]) \in Nat
        BY <2>2, LenProperties
      <4> QED
        BY <2>2, <4>1, <4>2, <4>3, AppendFacts
    <3> QED
      BY <1>1, <2>1, <3>1, <3>2, LeaderStep
      DEF Submit, ReceiveForward, Propose, ProposeBlock, CollectAck, WaiterTimeout,
          LoopTimeout, ledgerVars
  <2>4. IsPrefixOf(OrderingBlock'[n], OrderingBlock[Boot])
    <3>1. \/ OrderingBlock'[n] = OrderingBlock[n]
          \/ \E t \in Status, p, q \in Node : InstallSync(n, t, p, q)
      <4>1. ASSUME NEW k \in Node, k # n, Sync(k)
            PROVE  OrderingBlock'[n] = OrderingBlock[n]
        BY ZenonT(30), <2>1, <4>1
        DEF Sync, SyncOnRejoin, ReportStatus, InstallSync, AbortSync, ledgerVars, TypeOK
      <4>2. CASE Sync(n)
        <5>1. Targets(statuses[n]) \subseteq Status
          BY <2>1 DEF Targets, TypeOK
        <5> QED
          BY <4>2, <5>1 DEF Sync, SyncOnRejoin, ReportStatus, AbortSync, ledgerVars
      <4>3. ASSUME NEW m \in commits, ApplyCommit(m)
            PROVE  OrderingBlock'[n] = OrderingBlock[n]
        BY <1>1, <2>1, <4>3 DEF ApplyCommit, Obeys, TypeOK
      <4>4. CASE Follow
        BY <4>3, <4>4
        DEF Follow, DropProposal, RejectProposal, AcceptProposal, DropCommit, SyncOnCommit, ledgerVars
      <4>5. CASE Client
        BY <4>5 DEF Client, Submit, ReceiveForward, ledgerVars
      <4>6. ASSUME NEW k \in Node, Lead(k)
            PROVE  OrderingBlock'[n] = OrderingBlock[n]
        <5>1. ASSUME NEW w \in waiters[k], Commit(k, w)
              PROVE  OrderingBlock'[n] = OrderingBlock[n]
          BY <2>1, <5>1 DEF Commit, Roles, TypeOK
        <5> QED
          BY <4>6, <5>1
          DEF Lead, Propose, ProposeBlock, WaiterTimeout, CollectAck, LoopTimeout, ledgerVars
      <4>7. CASE UNCHANGED vars
        BY <4>7 DEF vars, ledgerVars
      <4> QED
        BY <1>1, <4>1, <4>2, <4>4, <4>5, <4>6, <4>7 DEF Next
    <3>2. ASSUME NEW t \in Status, NEW p \in Node, NEW q \in Node, InstallSync(n, t, p, q)
          PROVE  IsPrefixOf(OrderingBlock'[n], OrderingBlock[Boot])
      <4>1. CASE t.count > Len(OrderingBlock[n])
        BY <1>1, <3>2, <4>1, InstallFollows
      <4>2. CASE ~(t.count > Len(OrderingBlock[n]))
        BY <1>1, <2>1, <3>2, <4>2, InstallNothing
      <4> QED
        BY <4>1, <4>2
    <3> QED
      BY <1>1, <3>1, <3>2
  <2> QED
    <3>1. /\ Len(OrderingBlock'[n]) <= Len(OrderingBlock[Boot])
          /\ \A i \in 1..Len(OrderingBlock'[n]) : OrderingBlock[Boot][i] = OrderingBlock'[n][i]
      BY <2>2, <2>4, PrefixFacts
    <3>2. /\ Len(OrderingBlock'[n]) \in Nat /\ Len(OrderingBlock[Boot]) \in Nat
          /\ Len(OrderingBlock'[Boot]) \in Nat
      BY <2>2, LenProperties
    <3>3. /\ Len(OrderingBlock'[n]) <= Len(OrderingBlock'[Boot])
          /\ \A i \in 1..Len(OrderingBlock'[n]) : OrderingBlock'[Boot][i] = OrderingBlock'[n][i]
      BY <2>3, <3>1, <3>2
    <3> QED
      BY <2>2, <3>3, PrefixFacts
<1>2. IInv /\ Numbered /\ [Next]_vars => [Step]_vars
  BY <1>1
<1> QED
  BY <1>2, NumberedCorrect, PTL DEF Spec, SyncFollowsLeader

-----------------------------------------------------------------------------
(* Before the first claim *)

\* A node that does not sync has collected no status.
Collected == \A n \in Node : state[n] # "Syncing" => statuses[n] = {}

\* As long as nobody has claimed the lead, LeaderChange is the replication under
\* Boot: no leader has been deposed, and the one invariant carries it.
Unclaimed == claimed = {} => IInv /\ Numbered /\ Collected /\ late = {}

\* The statuses of a cycle are dropped where it ends and where the next begins.
LEMMA CollectedStep ==
  ASSUME TypeOK, Collected, [Next]_vars
  PROVE  Collected'
<1>1. ASSUME UNCHANGED <<state, statuses>>
      PROVE  Collected'
  BY <1>1 DEF Collected
<1>2. CASE UNCHANGED vars
  BY <1>1, <1>2 DEF vars, syncVars
<1>3. CASE Client
  BY <1>1, <1>3 DEF Client, Submit, ReceiveForward, syncVars
<1>4. ASSUME NEW n \in Node, Lead(n)
      PROVE  Collected'
  BY <1>1, <1>4 DEF Lead, Propose, ProposeBlock, Commit, WaiterTimeout, CollectAck,
                    LoopTimeout, syncVars
<1>5. ASSUME NEW n \in Node,
             statuses' = [statuses EXCEPT ![n] = {}],
             \/ state' = [state EXCEPT ![n] = "Syncing"]
             \/ state' = [state EXCEPT ![n] = "Follower"]
      PROVE  Collected'
  BY <1>5 DEF Collected, TypeOK
<1>6. CASE Follow
  <2>1. ASSUME NEW m \in proposals, DropProposal(m) \/ RejectProposal(m) \/ AcceptProposal(m)
        PROVE  Collected'
    BY <1>1, <2>1 DEF DropProposal, RejectProposal, AcceptProposal, syncVars
  <2>2. ASSUME NEW m \in commits, DropCommit(m) \/ ApplyCommit(m)
        PROVE  Collected'
    BY <1>1, <2>2 DEF DropCommit, ApplyCommit, syncVars
  <2>3. ASSUME NEW m \in commits, SyncOnCommit(m)
        PROVE  Collected'
    BY <1>5, <2>3 DEF SyncOnCommit, StartSync, TypeOK, CommitMsg
  <2> QED
    BY <1>6, <2>1, <2>2, <2>3 DEF Follow
<1>7. ASSUME NEW n \in Node, Sync(n)
      PROVE  Collected'
  <2>1. CASE SyncOnRejoin(n) \/ AbortSync(n)
    BY <1>5, <2>1 DEF SyncOnRejoin, AbortSync, StartSync, EndSync
  <2>2. ASSUME NEW t, NEW p \in Node, NEW q \in Node, InstallSync(n, t, p, q)
        PROVE  Collected'
    BY <1>5, <2>2 DEF InstallSync, EndSync
  <2>3. ASSUME NEW p \in Node, ReportStatus(n, p)
        PROVE  Collected'
    <3>1. PICK r : statuses' = [statuses EXCEPT ![n] = @ \cup {r}]
      BY <2>3 DEF ReportStatus
    <3>2. state[n] = "Syncing" /\ state' = state
      BY <2>3 DEF ReportStatus
    <3> QED
      BY <3>1, <3>2 DEF Collected, TypeOK
  <2> QED
    BY <1>7, <2>1, <2>2, <2>3 DEF Sync
<1> QED
  BY <1>2, <1>3, <1>4, <1>6, <1>7 DEF Next

\* A node that hears of Boot again knows it as leader already; the rest of an
\* election takes a claim.
LEMMA ElectUnclaimed ==
  ASSUME TypeOK, Roles, Collected, late = {}, claimed = {}, claimed' = {},
         NEW n \in Node, Elect(n)
  PROVE  [Next]_vars /\ late' = {}
<1> USE BootAssumption
<1>1. state[n] \in {"Leader", "Follower", "Syncing"} /\ (state[n] = "Leader" <=> n = Boot)
  BY DEF TypeOK, Roles
<1>2. ~S!Claim(n) /\ ~S!Win(n) /\ ~S!Lose(n)
  BY <1>1 DEF S!Claim, S!Win, S!Lose
<1>3. /\ UNCHANGED <<leaderVars, ledgerVars, clientVars, proposals, blockAcks, commits,
                     statuses>>
      /\ Keep(n)
  BY DEF Elect
<1>4. CASE S!Hear(n, Boot, 0) /\ UNCHANGED rejoins
  <2>1. n # Boot /\ currentTerm[n] = 0 /\ currentLeaderID[n] = Boot
    BY <1>4 DEF S!Hear, Roles
  <2>2. UNCHANGED <<state, currentTerm, currentLeaderID>>
    <3>1. state' = [state EXCEPT ![n] = IF state[n] = "Syncing" THEN "Syncing" ELSE "Follower"]
      BY <1>4 DEF S!Hear, S!Follow
    <3>2. /\ currentTerm' = [currentTerm EXCEPT ![n] = 0]
          /\ currentLeaderID' = [currentLeaderID EXCEPT ![n] = Boot]
      BY <1>4 DEF S!Hear, S!Follow
    <3> QED
      BY <1>1, <2>1, <3>1, <3>2 DEF TypeOK
  <2>3. late' = {}
    BY <1>1, <1>3, <2>1 DEF Keep, Deposed
  <2> QED
    BY <1>3, <1>4, <2>2, <2>3 DEF vars, leadership, syncVars
<1>5. CASE /\ rejoins < MaxRejoins /\ rejoins' = rejoins + 1
           /\ S!HearAgain(n, Boot, 0)
  <2>1. n # Boot /\ currentTerm[n] = 0 /\ currentLeaderID[n] = Boot /\ state[n] = "Follower"
    BY <1>1, <1>5 DEF S!HearAgain, Roles
  <2>2. /\ state' = [state EXCEPT ![n] = "Syncing"]
        /\ currentTerm' = [currentTerm EXCEPT ![n] = 0]
        /\ currentLeaderID' = [currentLeaderID EXCEPT ![n] = Boot]
    BY <1>5 DEF S!HearAgain, S!Follow
  <2>3. UNCHANGED leadership
    BY <2>1, <2>2 DEF TypeOK, leadership
  <2>4. statuses' = [statuses EXCEPT ![n] = {}]
    BY <1>3, <2>1 DEF Collected, TypeOK
  <2>5. SyncOnRejoin(n)
    BY <1>3, <1>5, <2>1, <2>2, <2>3, <2>4 DEF SyncOnRejoin, StartSync
  <2>6. late' = {}
    BY <1>3, <2>1 DEF Keep, Deposed
  <2> QED
    BY <2>5, <2>6 DEF Next, Sync
<1>6. S!Leaderships = {[claimer |-> Boot, term |-> 0]}
  BY DEF S!Leaderships
<1> QED
  BY <1>2, <1>4, <1>5, <1>6 DEF Elect, Succeed

\* What the nodes do with the ledger is what they do in BlockReplication.
LEMMA LedgerIsNext ==
  ASSUME NEW n \in Node, Ledger(n)
  PROVE  Next
BY DEF Ledger, Next, Client, Follow, Lead, Sync

\* The one invariant survives a step of LeaderChange that makes no claim.
LEMMA UnclaimedStep ==
  ASSUME Unclaimed, [ChangeNext]_allVars
  PROVE  Unclaimed'
<1>1. SUFFICES ASSUME claimed' = {}
               PROVE  (IInv /\ Numbered /\ Collected /\ late = {})'
  BY DEF Unclaimed
<1>2. claimed = {}
  <2>1. CASE claimed' = claimed
    BY <1>1, <2>1
  <2>2. ASSUME NEW n \in Node, Succeed(n)
        PROVE  claimed \subseteq claimed'
    BY <2>2 DEF Succeed, S!Claim, S!Win, S!Lose, S!Accept, S!StepDown, S!Hear, S!HearAgain,
                S!Follow
  <2> QED
    BY <1>1, <2>1, <2>2 DEF ChangeNext, Elect, ProposeLate, allVars, electionVars
<1>3. IInv /\ Numbered /\ Collected /\ late = {}
  BY <1>2 DEF Unclaimed
<1>4. TypeOK /\ Roles
  BY <1>3 DEF IInv
<1>5. [Next]_vars /\ late' = {}
  <2>1. ASSUME NEW n \in Node, Elect(n)
        PROVE  [Next]_vars /\ late' = {}
    BY <1>1, <1>2, <1>3, <1>4, <2>1, ElectUnclaimed
  <2>2. ASSUME NEW n \in Node, Ledger(n), UNCHANGED electionVars
        PROVE  [Next]_vars /\ late' = {}
    BY <1>3, <2>2, LedgerIsNext DEF electionVars
  <2>3. ASSUME NEW n \in Node
        PROVE  ~ProposeLate(n)
    BY <1>3 DEF ProposeLate
  <2>4. CASE UNCHANGED allVars
    BY <1>3, <2>4 DEF allVars, electionVars
  <2> QED
    BY <2>1, <2>2, <2>3, <2>4 DEF ChangeNext
<1> QED
  BY <1>3, <1>4, <1>5, IInvStep, NumberedStep, CollectedStep

LEMMA UnclaimedCorrect == ChangeSpec => []Unclaimed
<1>1. ChangeInit => Unclaimed
  BY IInvInit, NumberedInit DEF ChangeInit, Init, Unclaimed, Collected
<1> QED
  BY <1>1, UnclaimedStep, PTL DEF ChangeSpec

\* As long as nobody has claimed the lead, whatever heartbeats are lost, late or
\* repeated, the committed blocks of all nodes make one chain, and whoever leads
\* has them: the fork and the incomplete leader need a claim
\* (sendIAmNewLeaderAndWaitForAcks).
THEOREM ForkNeedsClaim == ChangeSpec => [](claimed = {} => NoFork /\ LeadersComplete)
<1> USE BootAssumption
<1>1. ASSUME IInv, Numbered
      PROVE  NoFork
  <2> DEFINE chain == OrderingBlock[Boot]
  <2>1. TypeOK /\ LeaderChain /\ CommittedByLeader
    BY <1>1 DEF IInv, CommittedOnly, OneInFlight
  <2>2. SUFFICES ASSUME NEW i \in DOMAIN chain, NEW j \in DOMAIN chain,
                        chain[i].prevHash = chain[j].prevHash
                 PROVE  i = j
    BY <2>1 DEF NoFork, Committed, CommittedByLeader, BlocksOf
  <2>3. chain \in Seq(Block)
    BY <2>1 DEF TypeOK
  <2>4. i \in Nat /\ 1 <= i /\ i <= Len(chain)
    BY <2>3, LenProperties
  <2>5. chain[i].prevHash = IF i - 1 = 0 THEN 0 ELSE chain[i - 1].hash
    BY <2>1, <2>4 DEF LeaderChain, Linked
  <2>6. i - 1 \in Nat /\ i - 1 <= Len(chain)
    BY <2>3, <2>4, LenProperties
  <2>7. j = (i - 1) + 1
    BY <1>1, <2>1, <2>2, <2>5, <2>6, ChainPosition
  <2> QED
    BY <2>4, <2>7
<1>2. ASSUME IInv
      PROVE  LeadersComplete
  <2>1. ASSUME NEW n \in Node, Leads(n)
        PROVE  n = Boot
    BY <1>2, <2>1 DEF IInv, Roles, Leads
  <2>2. \A b \in Committed : b \in BlocksOf(Boot)
    BY <1>2 DEF IInv, CommittedOnly, CommittedByLeader, Committed
  <2> QED
    BY <2>1, <2>2 DEF LeadersComplete, Holders
<1>3. Unclaimed => (claimed = {} => NoFork /\ LeadersComplete)
  BY <1>1, <1>2 DEF Unclaimed
<1> QED
  BY <1>3, UnclaimedCorrect, PTL

\* Until then the replication keeps what it promises under one leader: the syncs
\* of nodes that hear of Boot again disturb nothing (proposeBlockWithTxs,
\* HandleBlockProposal, HandleBlockCommit, StartSync).
THEOREM ReplicationUntilClaim ==
  ChangeSpec => [](claimed = {} => /\ LogMatching /\ CommittedByLeader /\ LeaderChain
                                   /\ MajorityHolds /\ NoDoubleOrder)
<1>1. IInv => /\ LogMatching /\ CommittedByLeader /\ LeaderChain
              /\ MajorityHolds /\ NoDoubleOrder
  BY DEF IInv, Logs, Proposed, LogMatching, CommittedOnly, OneInFlight, OnePlace
<1>2. Unclaimed => (claimed = {} => /\ LogMatching /\ CommittedByLeader /\ LeaderChain
                                    /\ MajorityHolds /\ NoDoubleOrder)
  BY <1>1 DEF Unclaimed
<1> QED
  BY <1>2, UnclaimedCorrect, PTL
=============================================================================
