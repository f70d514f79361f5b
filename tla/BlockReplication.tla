-------------------------- MODULE BlockReplication --------------------------
(***************************************************************************)
(* Block replication in the ordering service (internal/raft): the leader    *)
(* batches its TxPool into a block, appends it to its RaftLog, broadcasts   *)
(* a proposal, counts acknowledgements, commits to its OrderingBlock and    *)
(* broadcasts the commit; a follower that is missing something pulls it     *)
(* from its peers with a sync cycle.                                        *)
(*                                                                         *)
(* One leadership is modelled: Boot bootstrapped the cluster, every node    *)
(* knows it as leader and no election happens.  The handlers still make     *)
(* all their leader and term checks.                                        *)
(*                                                                         *)
(* Every message travels on a stream of its own, sent by a goroutine of     *)
(* its own, once: messages overtake each other and are lost (one that is    *)
(* never received is lost), but never duplicated.                           *)
(*                                                                         *)
(* Abstractions.  A block's hash is the number of the block in order of     *)
(* creation (0 is the empty hash before the first block): NewBlock hashes   *)
(* the time, the previous hash and the Merkle root, and a block re-proposed *)
(* after a failed one is at least 10 s younger.  The order of transactions  *)
(* inside the pool and inside a block is left out: pool and block are sets  *)
(* of submissions.  Timers are nondeterminism, except that the waiter's 5 s *)
(* end before the propose loop's 10 s.                                      *)
(***************************************************************************)
EXTENDS Naturals, Sequences, FiniteSets

CONSTANTS
  Node,         \* the members of the ordering cluster
  Boot,         \* the member that leads it (BootstrapAsLeader)
  Submission,   \* client submissions, one per call that hands in a transaction
  TxOf,         \* TxOf[s]: the Txid that submission s carries; retries share one
  BatchSize,    \* Config.AutoProposalBlockSize
  MaxBlocks,    \* bound: blocks ever created
  MaxRejoins    \* bound: syncs ever started by a late heartbeat

ASSUME BootAssumption == Boot \in Node
ASSUME NodeAssumption == IsFiniteSet(Node)
ASSUME BatchAssumption == BatchSize \in Nat \ {0}
ASSUME BoundAssumption == MaxBlocks \in Nat /\ MaxRejoins \in Nat

VARIABLES
  state,             \* per node: "Leader", "Follower" or "Syncing"
  currentTerm,       \* per node
  currentLeaderID,   \* per node
  TxPool,            \* per node: submissions waiting to be ordered
  RaftLog,           \* per node: sequence of entries, by increasing index
  OrderingBlock,     \* per node: sequence of committed blocks
  lastCommittedHash, \* per node: what the next block will link to
  loop,              \* per node: the auto-propose loop, "ready" or "awaiting"
  waiters,           \* per node: its running waitForBlockAcks goroutines
  blocks,            \* number of blocks created so far (names the next hash)
  submitted,         \* submissions already handed in
  forwards,          \* MsgTxRequest in flight
  proposals,         \* MsgBlockProposal in flight
  blockAcks,         \* MsgBlockProposalAck in flight or in BlockAckChan
  commits,           \* MsgBlockCommit in flight
  statuses,          \* per node: sync status responses collected so far
  rejoins            \* number of syncs started by a late heartbeat so far

leadership == <<currentTerm, currentLeaderID>>
leaderVars == <<TxPool, loop, waiters, blocks>>
ledgerVars == <<RaftLog, OrderingBlock, lastCommittedHash>>
clientVars == <<submitted, forwards>>
syncVars == <<statuses, rejoins>>
vars == <<state, leadership, leaderVars, ledgerVars, clientVars,
          proposals, blockAcks, commits, syncVars>>

-----------------------------------------------------------------------------
(* Data *)

Block == [hash : Nat, prevHash : Nat, txs : SUBSET Submission]
Entry == [index : Nat \ {0}, term : Nat, block : Block]

Waiter == [entry : Entry, acks : SUBSET Node]

ForwardMsg  == [to : Node, sub : Submission]
ProposalMsg == [from : Node, to : Node, term : Nat, entry : Entry]
AckMsg      == [from : Node, to : Node, index : Nat, hash : Nat, accepted : BOOLEAN]
CommitMsg   == [from : Node, to : Node, term : Nat, index : Nat, hash : Nat]
Status      == [from : Node, count : Nat, hash : Nat, last : Nat]

\* RaftLog.GetLastIndex.
LastIndex_CountsBlocks(n) == Len(OrderingBlock[n])
LastIndex(n) ==
  IF RaftLog[n] = <<>> THEN 0 ELSE RaftLog[n][Len(RaftLog[n])].index

\* The majority a waiter snapshots: of all members, dead ones included.
Majority == Cardinality(Node) \div 2 + 1

\* A batch of min(BatchSize, pool size) of the waiting submissions.
Batches(pool) ==
  {B \in SUBSET pool :
     Cardinality(B) = IF Cardinality(pool) < BatchSize
                      THEN Cardinality(pool) ELSE BatchSize}

\* The submissions of a pool that carry no transaction of B.
Without_Copies(pool, B) == pool \ B
Without_None(pool, B) == pool
Without(pool, B) == {s \in pool : \A b \in B : TxOf[s] # TxOf[b]}

Others(n) == Node \ {n}

-----------------------------------------------------------------------------
(* Client submissions *)

\* SubmitTransaction, HandleTxRequest: the leader pools the transaction,
\* another node forwards it to the leader it knows.
Submit(n, s) ==
  /\ s \notin submitted
  /\ submitted' = submitted \cup {s}
  /\ IF state[n] = "Leader"
     THEN /\ TxPool' = [TxPool EXCEPT ![n] = @ \cup {s}]
          /\ UNCHANGED forwards
     ELSE /\ forwards' = forwards \cup {[to |-> currentLeaderID[n], sub |-> s]}
          /\ UNCHANGED TxPool
  /\ UNCHANGED <<state, leadership, loop, waiters, blocks, ledgerVars,
                 proposals, blockAcks, commits, syncVars>>

ReceiveForward(m) ==
  LET n == m.to IN
  /\ IF state[n] = "Leader"
     THEN /\ TxPool' = [TxPool EXCEPT ![n] = @ \cup {m.sub}]
          /\ forwards' = forwards \ {m}
     ELSE /\ forwards' = (forwards \ {m}) \cup {[m EXCEPT !.to = currentLeaderID[n]]}
          /\ UNCHANGED TxPool
  /\ UNCHANGED <<state, leadership, loop, waiters, blocks, ledgerVars,
                 submitted, proposals, blockAcks, commits, syncVars>>

-----------------------------------------------------------------------------
(* Leader *)

\* The log entry of the leader's next block, over batch B.
NextEntry_SameIndex(n, B) ==
  [index |-> LastIndex(n), term |-> currentTerm[n],
   block |-> [hash |-> blocks + 1, prevHash |-> lastCommittedHash[n], txs |-> B]]
NextEntry(n, B) ==
  [index |-> LastIndex(n) + 1, term |-> currentTerm[n],
   block |-> [hash |-> blocks + 1, prevHash |-> lastCommittedHash[n], txs |-> B]]

\* proposeBlockWithTxs: build a block from a batch of the pool, append it to the
\* own log, broadcast it and start its waiter.  The transactions stay in the
\* pool until the block commits.
ProposeBlock(n) ==
  /\ loop[n] = "ready"
  /\ TxPool[n] # {}
  /\ blocks < MaxBlocks
  /\ \E B \in Batches(TxPool[n]) :
       LET entry == NextEntry(n, B) IN
       /\ RaftLog' = [RaftLog EXCEPT ![n] = Append(@, entry)]
       /\ proposals' = proposals \cup
            {[from |-> n, to |-> d, term |-> currentTerm[n], entry |-> entry] :
               d \in Others(n)}
       /\ waiters' = [waiters EXCEPT ![n] = @ \cup {[entry |-> entry, acks |-> {n}]}]
  /\ loop' = [loop EXCEPT ![n] = "awaiting"]
  /\ blocks' = blocks + 1
  /\ UNCHANGED <<state, leadership, TxPool, OrderingBlock, lastCommittedHash,
                 clientVars, blockAcks, commits, syncVars>>

\* One turn of the auto-propose loop.
Propose(n) == state[n] = "Leader" /\ ProposeBlock(n)

\* What a waiter counts: positive acknowledgements of its own entry.
Counts_AnyAnswer(m, e) == m.index = e.index /\ m.hash = e.block.hash
Counts(m, e) == m.index = e.index /\ m.hash = e.block.hash /\ m.accepted

\* A waiter takes one acknowledgement from BlockAckChan, counts or drops it.
CollectAck(n, w, m) ==
  /\ m.to = n
  /\ Cardinality(w.acks) < Majority
  /\ blockAcks' = blockAcks \ {m}
  /\ waiters' = [waiters EXCEPT ![n] = (@ \ {w}) \cup
       {IF Counts(m, w.entry) THEN [w EXCEPT !.acks = @ \cup {m.from}] ELSE w}]
  /\ UNCHANGED <<state, leadership, TxPool, loop, blocks, ledgerVars,
                 clientVars, proposals, commits, syncVars>>

CommitsFor(n, e) ==
  {[from |-> n, to |-> d, term |-> currentTerm[n], index |-> e.index,
    hash |-> e.block.hash] : d \in Others(n)}

\* commitBlock: the waiter has its majority.  The commit token wakes the loop.
Commit(n, w) ==
  /\ Cardinality(w.acks) >= Majority
  /\ OrderingBlock' = [OrderingBlock EXCEPT ![n] = Append(@, w.entry.block)]
  /\ lastCommittedHash' = [lastCommittedHash EXCEPT ![n] = w.entry.block.hash]
  /\ TxPool' = [TxPool EXCEPT ![n] = Without(@, w.entry.block.txs)]
  /\ commits' = commits \cup CommitsFor(n, w.entry)
  /\ waiters' = [waiters EXCEPT ![n] = @ \ {w}]
  /\ loop' = [loop EXCEPT ![n] = "ready"]
  /\ UNCHANGED <<state, leadership, blocks, RaftLog, clientVars, proposals,
                 blockAcks, syncVars>>

\* A waiter's 5 s are over without a majority: it gives up, the entry stays
\* in the log and its transactions in the pool.
WaiterTimeout_Announces(n, w) ==
  /\ Cardinality(w.acks) < Majority
  /\ commits' = commits \cup CommitsFor(n, w.entry)
  /\ waiters' = [waiters EXCEPT ![n] = @ \ {w}]
  /\ UNCHANGED <<state, leadership, TxPool, loop, blocks, ledgerVars, clientVars,
                 proposals, blockAcks, syncVars>>
WaiterTimeout(n, w) ==
  /\ Cardinality(w.acks) < Majority
  /\ waiters' = [waiters EXCEPT ![n] = @ \ {w}]
  /\ UNCHANGED <<state, leadership, TxPool, loop, blocks, ledgerVars, clientVars,
                 proposals, blockAcks, commits, syncVars>>

\* The loop's 10 s are over: the waiter it started has given up 5 s earlier.
LoopTimeout_Early(n) ==
  /\ loop[n] = "awaiting"
  /\ loop' = [loop EXCEPT ![n] = "ready"]
  /\ UNCHANGED <<state, leadership, TxPool, waiters, blocks, ledgerVars,
                 clientVars, proposals, blockAcks, commits, syncVars>>
LoopTimeout(n) ==
  /\ loop[n] = "awaiting"
  /\ waiters[n] = {}
  /\ loop' = [loop EXCEPT ![n] = "ready"]
  /\ UNCHANGED <<state, leadership, TxPool, waiters, blocks, ledgerVars,
                 clientVars, proposals, blockAcks, commits, syncVars>>

-----------------------------------------------------------------------------
(* Follower *)

Answer(n, e, ok) ==
  [from |-> n, to |-> currentLeaderID[n], index |-> e.index,
   hash |-> e.block.hash, accepted |-> ok]

\* A proposal or commit reaches its handler unless the node leads or syncs,
\* and is obeyed only from the leader the node knows.
Obeys(n, m) == state[n] \notin {"Leader", "Syncing"} /\ m.from = currentLeaderID[n]

\* The consistency checks of HandleBlockProposal: the entry continues the
\* log, and its predecessor is of the same term.
Continues(n, e) == LastIndex(n) = e.index - 1
TermMismatch(n, e) ==
  Continues(n, e) /\ RaftLog[n] # <<>> /\ RaftLog[n][Len(RaftLog[n])].term # e.term

DropProposal(m) ==
  /\ ~Obeys(m.to, m)
  /\ proposals' = proposals \ {m}
  /\ UNCHANGED <<state, leadership, leaderVars, ledgerVars, clientVars,
                 blockAcks, commits, syncVars>>

\* A stale term, a gap, or a predecessor of another term, which is removed
\* from the log (RemoveFrom).
RejectProposal(m) ==
  LET n == m.to IN
  /\ Obeys(n, m)
  /\ m.term < currentTerm[n] \/ ~Continues(n, m.entry) \/ TermMismatch(n, m.entry)
  /\ RaftLog' = [RaftLog EXCEPT
       ![n] = IF m.term >= currentTerm[n] /\ TermMismatch(n, m.entry)
              THEN SubSeq(@, 1, Len(@) - 1) ELSE @]
  /\ proposals' = proposals \ {m}
  /\ blockAcks' = blockAcks \cup {Answer(n, m.entry, FALSE)}
  /\ UNCHANGED <<state, leadership, leaderVars, OrderingBlock, lastCommittedHash,
                 clientVars, commits, syncVars>>

AcceptProposal(m) ==
  LET n == m.to IN
  /\ Obeys(n, m)
  /\ m.term >= currentTerm[n] /\ Continues(n, m.entry) /\ ~TermMismatch(n, m.entry)
  /\ RaftLog' = [RaftLog EXCEPT ![n] = Append(@, m.entry)]
  /\ proposals' = proposals \ {m}
  /\ blockAcks' = blockAcks \cup {Answer(n, m.entry, TRUE)}
  /\ UNCHANGED <<state, leadership, leaderVars, OrderingBlock, lastCommittedHash,
                 clientVars, commits, syncVars>>

\* Positions of the log that hold the entry a commit names (FindEntryByIndex).
PositionsOf(n, i) == {k \in DOMAIN RaftLog[n] : RaftLog[n][k].index = i}

StartSync(n) ==
  /\ state' = [state EXCEPT ![n] = "Syncing"]
  /\ statuses' = [statuses EXCEPT ![n] = {}]

\* Not obeyed, stale, or the block under that index is another one.
DropCommit(m) ==
  LET n == m.to IN
  /\ \/ ~Obeys(n, m)
     \/ m.term < currentTerm[n]
     \/ \E k \in PositionsOf(n, m.index) : RaftLog[n][k].block.hash # m.hash
  /\ commits' = commits \ {m}
  /\ UNCHANGED <<state, leadership, leaderVars, ledgerVars, clientVars,
                 proposals, blockAcks, syncVars>>

\* The block is appended at once: nothing compares its prevHash with the tip.
ApplyCommit(m) ==
  LET n == m.to IN
  /\ Obeys(n, m)
  /\ m.term >= currentTerm[n]
  /\ \E k \in PositionsOf(n, m.index) :
       /\ RaftLog[n][k].block.hash = m.hash
       /\ OrderingBlock' = [OrderingBlock EXCEPT ![n] = Append(@, RaftLog[n][k].block)]
       /\ lastCommittedHash' = [lastCommittedHash EXCEPT ![n] = m.hash]
  /\ commits' = commits \ {m}
  /\ UNCHANGED <<state, leadership, leaderVars, RaftLog, clientVars, proposals,
                 blockAcks, syncVars>>

\* The entry is missing: sync ("missing-log-entry").
SyncOnCommit(m) ==
  LET n == m.to IN
  /\ Obeys(n, m)
  /\ m.term >= currentTerm[n]
  /\ PositionsOf(n, m.index) = {}
  /\ StartSync(n)
  /\ commits' = commits \ {m}
  /\ UNCHANGED <<leadership, leaderVars, ledgerVars, clientVars, proposals,
                 blockAcks, rejoins>>

-----------------------------------------------------------------------------
(* Sync *)

\* A heartbeat after a long gap starts a sync ("rejoin-after-disconnect").
SyncOnRejoin(n) ==
  /\ state[n] = "Follower"
  /\ rejoins < MaxRejoins
  /\ rejoins' = rejoins + 1
  /\ StartSync(n)
  /\ UNCHANGED <<leadership, leaderVars, ledgerVars, clientVars, proposals,
                 blockAcks, commits>>

\* The hash a status may report with the count of p's blocks: it is read first,
\* and commitBlock appends the block before it moves lastCommittedHash.
ReadHashes(p) ==
  LET len == Len(OrderingBlock[p])
  IN {lastCommittedHash[p]} \cup
     (IF len = 0 THEN {} ELSE
      {IF len = 1 THEN 0 ELSE OrderingBlock[p][len - 1].hash})

\* Within the discovery window peer p, unless it syncs itself, reports where
\* it stands.
ReportStatus(n, p) ==
  /\ state[n] = "Syncing"
  /\ p # n
  /\ state[p] # "Syncing"
  /\ \A r \in statuses[n] : r.from # p
  /\ \E h \in ReadHashes(p) :
       statuses' = [statuses EXCEPT ![n] = @ \cup
         {[from |-> p, count |-> Len(OrderingBlock[p]), hash |-> h, last |-> LastIndex(p)]}]
  /\ UNCHANGED <<state, leadership, leaderVars, ledgerVars, clientVars,
                 proposals, blockAcks, commits, rejoins>>

\* pickSyncTarget: a member of the group (count, hash) with the most votes, of
\* the largest count among equally large groups.
Group(R, r) == {q \in R : q.count = r.count /\ q.hash = r.hash}
Targets(R) ==
  {r \in R : \A q \in R :
     \/ Cardinality(Group(R, q)) < Cardinality(Group(R, r))
     \/ Cardinality(Group(R, q)) = Cardinality(Group(R, r)) /\ q.count <= r.count}

\* verifyHashChain: the blocks link to hash and to each other and end in final.
Linked(blks, hash) ==
  \A i \in DOMAIN blks :
    blks[i].prevHash = IF i = 1 THEN hash ELSE blks[i - 1].hash
Verified_NotLinked(hash, blks, final) == blks[Len(blks)].hash = final
Verified(hash, blks, final) ==
  Linked(blks, hash) /\ blks[Len(blks)].hash = final

\* Positions i+1..j of a log are its entries with lo < index <= hi.
Segment(log, i, j, lo, hi) ==
  \A k \in DOMAIN log :
    (i < k /\ k <= j) <=> (lo < log[k].index /\ log[k].index <= hi)

EndSync(n) ==
  /\ state' = [state EXCEPT ![n] = "Follower"]
  /\ statuses' = [statuses EXCEPT ![n] = {}]

\* Blocks above the own count are fetched from a peer p (from several, in
\* shards, all or nothing) and verified; then log entries above the target's
\* block count from a peer q, of which those beyond the own log are kept.
\* p = n: no block to fetch; q = n: no entry to fetch, or every source failed
\* (the own log has nothing beyond itself).
InstallSync(n, t, p, q) ==
  LET have == Len(OrderingBlock[n])
      fetched == SubSeq(OrderingBlock[p], have + 1, t.count)
      log == RaftLog[q]
      newer == IF t.count > LastIndex(n) THEN t.count ELSE LastIndex(n)
  IN
  /\ state[n] = "Syncing"
  /\ IF t.count > have
     THEN /\ state[p] # "Syncing"
          /\ Len(OrderingBlock[p]) >= t.count
          /\ Verified(lastCommittedHash[n], fetched, t.hash)
     ELSE p = n
  /\ q = n \/ (state[q] # "Syncing" /\ t.last > t.count)
  /\ OrderingBlock' = [OrderingBlock EXCEPT ![n] = @ \o fetched]
  /\ lastCommittedHash' =
       [lastCommittedHash EXCEPT ![n] = IF t.count > have THEN t.hash ELSE @]
  /\ \E i, j \in 0..Len(log) :
       /\ i < j \/ (i = 0 /\ j = 0)
       /\ Segment(log, i, j, newer, t.last)
       /\ RaftLog' = [RaftLog EXCEPT ![n] = @ \o SubSeq(log, i + 1, j)]
  /\ EndSync(n)
  /\ UNCHANGED <<leadership, leaderVars, clientVars, proposals, blockAcks,
                 commits, rejoins>>

\* No answer, no stream, or a chain that does not verify: nothing installed.
AbortSync(n) ==
  /\ state[n] = "Syncing"
  /\ EndSync(n)
  /\ UNCHANGED <<leadership, leaderVars, ledgerVars, clientVars, proposals,
                 blockAcks, commits, rejoins>>

-----------------------------------------------------------------------------
Init ==
  /\ state = [n \in Node |-> IF n = Boot THEN "Leader" ELSE "Follower"]
  /\ currentTerm = [n \in Node |-> 0]
  /\ currentLeaderID = [n \in Node |-> Boot]
  /\ TxPool = [n \in Node |-> {}]
  /\ RaftLog = [n \in Node |-> <<>>]
  /\ OrderingBlock = [n \in Node |-> <<>>]
  /\ lastCommittedHash = [n \in Node |-> 0]
  /\ loop = [n \in Node |-> "ready"]
  /\ waiters = [n \in Node |-> {}]
  /\ blocks = 0
  /\ submitted = {}
  /\ forwards = {}
  /\ proposals = {}
  /\ blockAcks = {}
  /\ commits = {}
  /\ statuses = [n \in Node |-> {}]
  /\ rejoins = 0

Client ==
  \/ \E n \in Node, s \in Submission : Submit(n, s)
  \/ \E m \in forwards : ReceiveForward(m)

Lead(n) ==
  \/ Propose(n)
  \/ \E w \in waiters[n] : Commit(n, w) \/ WaiterTimeout(n, w)
  \/ \E w \in waiters[n], m \in blockAcks : CollectAck(n, w, m)
  \/ LoopTimeout(n)

Follow ==
  \/ \E m \in proposals : DropProposal(m) \/ RejectProposal(m) \/ AcceptProposal(m)
  \/ \E m \in commits : DropCommit(m) \/ ApplyCommit(m) \/ SyncOnCommit(m)

Sync(n) ==
  \/ SyncOnRejoin(n)
  \/ \E p \in Node : ReportStatus(n, p)
  \/ \E t \in Targets(statuses[n]), p, q \in Node : InstallSync(n, t, p, q)
  \/ AbortSync(n)

Next == Client \/ Follow \/ \E n \in Node : Lead(n) \/ Sync(n)

Spec == Init /\ [][Next]_vars

-----------------------------------------------------------------------------
(* Properties *)

TypeOK ==
  /\ state \in [Node -> {"Leader", "Follower", "Syncing"}]
  /\ currentTerm \in [Node -> Nat]
  /\ currentLeaderID \in [Node -> Node]
  /\ TxPool \in [Node -> SUBSET Submission]
  /\ RaftLog \in [Node -> Seq(Entry)]
  /\ OrderingBlock \in [Node -> Seq(Block)]
  /\ lastCommittedHash \in [Node -> Nat]
  /\ loop \in [Node -> {"ready", "awaiting"}]
  /\ waiters \in [Node -> SUBSET Waiter]
  /\ blocks \in 0..MaxBlocks
  /\ submitted \subseteq Submission
  /\ forwards \subseteq ForwardMsg
  /\ proposals \subseteq ProposalMsg
  /\ blockAcks \subseteq AckMsg
  /\ commits \subseteq CommitMsg
  /\ statuses \in [Node -> SUBSET Status]
  /\ rejoins \in 0..MaxRejoins

BlocksOf(n) == {OrderingBlock[n][i] : i \in DOMAIN OrderingBlock[n]}

\* Two logs never disagree on the block under an index, whatever was lost,
\* rejected, re-proposed or copied by a sync (HandleBlockProposal's
\* PrevLogIndex check, installLogEntries' overlap check).
LogMatching ==
  \A m, n \in Node : \A i \in DOMAIN RaftLog[m], j \in DOMAIN RaftLog[n] :
    RaftLog[m][i].index = RaftLog[n][j].index => RaftLog[m][i] = RaftLog[n][j]

\* Every block any node has committed is a block the leader has committed: a
\* proposal that failed is never applied by a follower, and a sync installs
\* nothing else.
CommittedByLeader ==
  \A n \in Node : BlocksOf(n) \subseteq BlocksOf(Boot)

\* The leader's blocks form one hash chain that ends in lastCommittedHash,
\* although a proposal takes its prevHash long before its block is appended.
LeaderChain ==
  /\ Linked(OrderingBlock[Boot], 0)
  /\ lastCommittedHash[Boot] =
       IF OrderingBlock[Boot] = <<>> THEN 0
       ELSE OrderingBlock[Boot][Len(OrderingBlock[Boot])].hash

\* The nodes that hold block b, in the log or committed.
Holders(b) ==
  {n \in Node : \/ b \in BlocksOf(n)
                \/ \E i \in DOMAIN RaftLog[n] : RaftLog[n][i].block = b}

\* A block the leader committed is held by a majority of the members.
MajorityHolds ==
  \A b \in BlocksOf(Boot) : Cardinality(Holders(b)) >= Majority

\* The leader never orders a submission in two blocks, although it leaves the
\* transactions of a proposed block in the pool until the block commits.
NoDoubleOrder ==
  \A i, j \in DOMAIN OrderingBlock[Boot] :
    i # j => OrderingBlock[Boot][i].txs \cap OrderingBlock[Boot][j].txs = {}

\* The batches that may make one block: not empty, at most BatchSize.
SmallBatch == {B \in SUBSET Submission : B # {} /\ Cardinality(B) <= BatchSize}

\* What the ordering service promises: the leader's pool and chain of batches
\* behave like the abstract specification.
O == INSTANCE TotalOrder WITH
       Batch <- SmallBatch,
       pending <- TxPool[Boot],
       chain <- [i \in DOMAIN OrderingBlock[Boot] |-> OrderingBlock[Boot][i].txs]

OrdersTotally == O!Spec

IsPrefixOf(a, b) == Len(a) <= Len(b) /\ SubSeq(b, 1, Len(a)) = a

\* A sync never takes a node off the leader's chain: whatever statuses it
\* collected and whoever it fetched from, a node whose blocks are the first
\* blocks of the leader's chain still has that after the cycle.
SyncFollowsLeader ==
  [][\A n \in Node :
       state[n] = "Syncing" /\ IsPrefixOf(OrderingBlock[n], OrderingBlock[Boot])
       => IsPrefixOf(OrderingBlock'[n], OrderingBlock'[Boot])]_vars

\* Every node's committed blocks form one hash chain: what "one block in-flight
\* (no pipelining), so hash-chain / sync semantics are unchanged" (the comment in
\* StartAutoProposeBlock) asks of the followers too.
FollowerChain == \A n \in Node : Linked(OrderingBlock[n], 0)

\* A node that comes out of a sync cycle with new blocks can take part again:
\* the leader's next proposal names the last block's entry as PrevLogIndex.
SyncRestoresLog ==
  [][\A n \in Node :
       Len(OrderingBlock'[n]) > Len(OrderingBlock[n]) /\ state[n] = "Syncing"
       => \E i \in DOMAIN RaftLog'[n] :
            RaftLog'[n][i].block = OrderingBlock'[n][Len(OrderingBlock'[n])]]_vars
=============================================================================
