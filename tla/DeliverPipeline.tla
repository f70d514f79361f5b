--------------------------- MODULE DeliverPipeline ---------------------------
(***************************************************************************)
(* How committed blocks reach a committing peer: an ordering node answers   *)
(* a deliver request with the blocks it has and then with every block it    *)
(* commits; the peer's stream goroutine feeds blockChan, and commitLoop     *)
(* validates a block, appends it to the chain file and applies it to the    *)
(* world state.  Streams break and are reopened at another ordering node,   *)
(* from the index after the blocks on disk; the peer crashes and restarts.  *)
(*                                                                         *)
(* Block number i is the i-th of the chain the ordering nodes agree on      *)
(* (BlockReplication); a node holds the first length[o] of them.  A block   *)
(* carries no index: the peer only knows how many it has.                   *)
(*                                                                         *)
(* Abstractions.  One peer.  Encoding a block, its time on the wire and its *)
(* decoding are one step, which waits while blockChan is full.  Which       *)
(* ordering node a reconnect picks, and when a stream breaks, is open.      *)
(***************************************************************************)
EXTENDS Naturals, Sequences

CONSTANTS
  Orderer,      \* the ordering nodes
  Refused,      \* blocks ValidateBlock refuses: a transaction without a
                \* trusted endorsement (the ordering service does not check it)
  ChanCap,      \* capacity of blockChan (64)
  SubCap,       \* capacity of a subscriber's channel (64)
  MaxBlocks,    \* bound: blocks ordered
  MaxBreaks,    \* bound: streams that break
  MaxCrashes,   \* bound: crashes of the peer
  MaxFailures   \* bound: writes to disk or to the world state that fail

ASSUME CapAssumption == ChanCap \in Nat \ {0} /\ SubCap \in Nat \ {0}
ASSUME BoundAssumption ==
  /\ MaxBlocks \in Nat /\ MaxBreaks \in Nat
  /\ MaxCrashes \in Nat /\ MaxFailures \in Nat
ASSUME RefusedAssumption == Refused \subseteq 1..MaxBlocks

VARIABLES
  length,      \* per ordering node: number of blocks in its OrderingBlock
  notified,    \* per ordering node: NotifyNewBlock has run for so many of them
  stream,      \* the peer's deliver stream
  blockChan,   \* received, waiting for commitLoop
  hand,        \* the block commitLoop handles, as a sequence of at most one
  persisted,   \* that block is on disk already
  file,        \* the chain file
  blockCount,  \* the peer's counter, which numbers MVCC versions
  applied,     \* what the world state received: blocks with their heights
  up,          \* the peer runs
  breaks,      \* streams broken so far
  crashes,     \* crashes so far
  failures,    \* failed writes so far
  disturbed    \* what may put blocks on disk twice or leave a gap has happened

ordererVars == <<length, notified>>
peerVars == <<blockChan, hand, persisted, file, blockCount, applied, up>>
bounds == <<breaks, crashes, failures>>
vars == <<ordererVars, stream, peerVars, bounds, disturbed>>

-----------------------------------------------------------------------------
(* Data *)

Block == 1..MaxBlocks

\* phase "none"; "request": asked for the blocks above from; "snapshot": the
\* node sends the blocks in out; "live": out is the subscriber's channel.
None == [phase |-> "none"]
Requested == [phase : {"request"}, from : Nat \ {0}]
Sending ==
  [phase : {"snapshot", "live"}, orderer : Orderer, out : Seq(Block),
   from : Nat \ {0}, seen : 0..MaxBlocks, last : 0..MaxBlocks]

Live(o) == stream.phase = "live" /\ stream.orderer = o

\* The blocks of o from an index on.
Above(o, from) == [i \in 1..(length[o] + 1 - from) |-> from + i - 1]

-----------------------------------------------------------------------------
(* Ordering node *)

\* AppendBlock, and a moment later NotifyNewBlock (commitBlock,
\* HandleBlockCommit, each block of a sync).
Append1_Batch(o) ==
  /\ length[o] < MaxBlocks
  /\ length' = [length EXCEPT ![o] = @ + 1]
  /\ UNCHANGED <<notified, stream, peerVars, bounds, disturbed>>
Append1(o) ==
  /\ length[o] < MaxBlocks
  /\ notified[o] = length[o]
  /\ length' = [length EXCEPT ![o] = @ + 1]
  /\ UNCHANGED <<notified, stream, peerVars, bounds, disturbed>>

\* A subscriber whose channel is full loses the block.
Notify(o) ==
  /\ notified[o] < length[o]
  /\ notified' = [notified EXCEPT ![o] = @ + 1]
  /\ IF Live(o) /\ Len(stream.out) < SubCap
     THEN stream' = [stream EXCEPT !.out = Append(@, notified[o] + 1)]
     ELSE UNCHANGED stream
  /\ disturbed' = (disturbed \/ (Live(o) /\ Len(stream.out) >= SubCap))
  /\ UNCHANGED <<length, peerVars, bounds>>

\* HandleDeliverStream reads the blocks it has ...
Serve(o) ==
  /\ stream.phase = "request"
  /\ stream' = [phase |-> "snapshot", orderer |-> o, out |-> Above(o, stream.from),
                from |-> stream.from, seen |-> length[o], last |-> 0]
  /\ UNCHANGED <<ordererVars, peerVars, bounds, disturbed>>

\* ... and subscribes once it has sent them: what was committed meanwhile is
\* missed, what is notified only now comes again.  A node that is behind the
\* peer will notify blocks the peer did not ask for.
Subscribe ==
  /\ stream.phase = "snapshot"
  /\ stream.out = <<>>
  /\ stream' = [stream EXCEPT !.phase = "live"]
  /\ disturbed' = (disturbed \/ notified[stream.orderer] # stream.seen
                              \/ stream.seen + 1 < stream.from)
  /\ UNCHANGED <<ordererVars, peerVars, bounds>>

-----------------------------------------------------------------------------
(* Committing peer *)

\* deliverFromIndex: the index after the blocks on disk.
FromIndex_Last == IF file = <<>> THEN 1 ELSE Len(file)
FromIndex == Len(file) + 1

\* deliverReconnectLoop asks some ordering node, whatever is still in blockChan
\* or in commitLoop's hands.
Request ==
  /\ up
  /\ stream = None
  /\ stream' = [phase |-> "request", from |-> FromIndex]
  /\ disturbed' = (disturbed \/ blockChan # <<>> \/ (hand # <<>> /\ ~persisted))
  /\ UNCHANGED <<ordererVars, peerVars, bounds>>

\* The stream goroutine pushes the next block into blockChan.
Receive_Unbounded ==
  /\ stream.phase \in {"snapshot", "live"}
  /\ stream.out # <<>>
  /\ blockChan' = Append(blockChan, Head(stream.out))
  /\ stream' = [stream EXCEPT !.out = Tail(@), !.last = Head(stream.out)]
  /\ UNCHANGED <<ordererVars, hand, persisted, file, blockCount, applied, up,
                 bounds, disturbed>>
Receive ==
  /\ stream.phase \in {"snapshot", "live"}
  /\ stream.out # <<>>
  /\ Len(blockChan) < ChanCap
  /\ blockChan' = Append(blockChan, Head(stream.out))
  /\ stream' = [stream EXCEPT !.out = Tail(@), !.last = Head(stream.out)]
  /\ UNCHANGED <<ordererVars, hand, persisted, file, blockCount, applied, up,
                 bounds, disturbed>>

\* A connection or its ordering node fails.
Break ==
  /\ stream # None
  /\ breaks < MaxBreaks
  /\ breaks' = breaks + 1
  /\ stream' = None
  /\ UNCHANGED <<ordererVars, peerVars, crashes, failures, disturbed>>

\* commitLoop takes a block; a refused one is dropped (ValidateBlock), and from
\* then on the blocks on disk are fewer than the index of the last one.
Take_Concurrent ==
  /\ up
  /\ blockChan # <<>>
  /\ blockChan' = Tail(blockChan)
  /\ hand' = IF Head(blockChan) \in Refused THEN <<>> ELSE <<Head(blockChan)>>
  /\ persisted' = FALSE
  /\ disturbed' = (disturbed \/ Head(blockChan) \in Refused)
  /\ UNCHANGED <<ordererVars, stream, file, blockCount, applied, up, bounds>>
Take ==
  /\ up
  /\ hand = <<>>
  /\ blockChan # <<>>
  /\ blockChan' = Tail(blockChan)
  /\ hand' = IF Head(blockChan) \in Refused THEN <<>> ELSE <<Head(blockChan)>>
  /\ persisted' = FALSE
  /\ disturbed' = (disturbed \/ Head(blockChan) \in Refused)
  /\ UNCHANGED <<ordererVars, stream, file, blockCount, applied, up, bounds>>

\* AppendBlock, then the counter.
Persist ==
  /\ up
  /\ hand # <<>>
  /\ ~persisted
  /\ file' = file \o hand
  /\ blockCount' = blockCount + 1
  /\ persisted' = TRUE
  /\ UNCHANGED <<ordererVars, stream, blockChan, hand, applied, up, bounds,
                 disturbed>>

\* AppendBlock fails: the block is logged and forgotten.
PersistFails ==
  /\ up
  /\ hand # <<>>
  /\ ~persisted
  /\ failures < MaxFailures
  /\ failures' = failures + 1
  /\ hand' = <<>>
  /\ disturbed' = TRUE
  /\ UNCHANGED <<ordererVars, stream, blockChan, persisted, file, blockCount,
                 applied, up, breaks, crashes>>

\* ApplyBlock under the height just counted.
Apply ==
  /\ up
  /\ persisted
  /\ applied' = Append(applied, [block |-> hand[1], height |-> blockCount])
  /\ hand' = <<>>
  /\ persisted' = FALSE
  /\ UNCHANGED <<ordererVars, stream, blockChan, file, blockCount, up, bounds,
                 disturbed>>

\* ApplyBlock fails: its batch is not written, the block stays on disk.
ApplyFails ==
  /\ up
  /\ persisted
  /\ failures < MaxFailures
  /\ failures' = failures + 1
  /\ hand' = <<>>
  /\ persisted' = FALSE
  /\ UNCHANGED <<ordererVars, stream, blockChan, file, blockCount, applied, up,
                 breaks, crashes, disturbed>>

\* The peer dies: the chain file and the world state remain.
Crash ==
  /\ up
  /\ crashes < MaxCrashes
  /\ crashes' = crashes + 1
  /\ up' = FALSE
  /\ stream' = None
  /\ blockChan' = <<>>
  /\ hand' = <<>>
  /\ persisted' = FALSE
  /\ blockCount' = 0
  /\ UNCHANGED <<ordererVars, file, applied, breaks, failures, disturbed>>

\* Start: the counter is read off the chain file.
Restarted_Fresh == 0
Restarted == Len(file)
Restart ==
  /\ ~up
  /\ up' = TRUE
  /\ blockCount' = Restarted
  /\ UNCHANGED <<ordererVars, stream, blockChan, hand, persisted, file, applied,
                 bounds, disturbed>>

-----------------------------------------------------------------------------
Init ==
  /\ length = [o \in Orderer |-> 0]
  /\ notified = [o \in Orderer |-> 0]
  /\ stream = None
  /\ blockChan = <<>>
  /\ hand = <<>>
  /\ persisted = FALSE
  /\ file = <<>>
  /\ blockCount = 0
  /\ applied = <<>>
  /\ up = TRUE
  /\ breaks = 0
  /\ crashes = 0
  /\ failures = 0
  /\ disturbed = FALSE

Next ==
  \/ \E o \in Orderer : Append1(o) \/ Notify(o) \/ Serve(o)
  \/ Subscribe
  \/ Request \/ Receive \/ Break
  \/ Take \/ Persist \/ PersistFails \/ Apply \/ ApplyFails
  \/ Crash \/ Restart

Spec == Init /\ [][Next]_vars

-----------------------------------------------------------------------------
(* Properties *)

TypeOK ==
  /\ length \in [Orderer -> 0..MaxBlocks]
  /\ notified \in [Orderer -> 0..MaxBlocks]
  /\ stream \in {None} \cup Requested \cup Sending
  /\ blockChan \in Seq(Block) /\ Len(blockChan) <= ChanCap
  /\ hand \in Seq(Block) /\ Len(hand) <= 1
  /\ persisted \in BOOLEAN
  /\ file \in Seq(Block)
  /\ blockCount \in Nat
  /\ applied \in Seq([block : Block, height : Nat])
  /\ up \in BOOLEAN
  /\ breaks \in 0..MaxBreaks /\ crashes \in 0..MaxCrashes
  /\ failures \in 0..MaxFailures
  /\ disturbed \in BOOLEAN

\* What the world state holds comes from the chain file, under heights that
\* never repeat, so no two applications stamp a key with the same version:
\* across crashes, replays and blocks that were skipped (handleBlock, Start).
HeightsFresh ==
  /\ \A i \in DOMAIN applied :
       /\ applied[i].height \in DOMAIN file
       /\ applied[i].block = file[applied[i].height]
  /\ \A i, j \in DOMAIN applied : i < j => applied[i].height < applied[j].height

\* The world state lacks no block of the file but the one in commitLoop's
\* hands, one for each crash (between AppendBlock and ApplyBlock: nothing
\* reapplies it after the restart) and one for each failed write.
LossAccounted ==
  Len(file) <= Len(applied) + crashes + failures + (IF persisted THEN 1 ELSE 0)

\* Disk holds the first blocks of the chain, in order, through crashes and
\* reconnects, unless one of the known disturbances came: a block committed
\* between snapshot and subscription, a full subscriber channel, a reconnect
\* while blocks were queued or to a node that is behind, a refused block, a
\* failed write.
InOrder == ~disturbed => \A i \in DOMAIN file : file[i] = i

\* One stream never goes back: whatever ordering node serves it, however far
\* behind, its next block is not older than its last.
StreamForward ==
  [][stream.phase \in {"snapshot", "live"} /\ stream'.phase = stream.phase
     => stream'.last >= stream.last]_vars

\* "FromIndex = CommittedBlockCount()+1 to avoid replaying blocks already on
\* disk" (CommittedBlockCount): no block is on disk twice.
NoReplay == \A i, j \in DOMAIN file : file[i] = file[j] => i = j
=============================================================================
