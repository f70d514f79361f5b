# Verification of the ordering, committing and execution services

This directory holds the TLA+ models of the repository's three Go services, of the
explorer's pages and of the cluster console, the TLC configurations that model-check
them and the TLAPS proofs about them. Paths below are relative to the repository;
*raft/* stands for `src/orderingservice/source/internal/raft/`, *peer side* for
`src/commitingpeer/source/internal/`, *core side* for `src/coreservice/internal/`,
*explorer* for `src/BlockchainExplorer-FrontEnd/src/`, *console* for
`src/orderingservice/source/web/src/`.

    tlc -workers 2 -config MCBlockReplication.cfg MCBlockReplication   # one run
    tlapm BlockReplicationProofs.tla                                   # one module's proofs

## 1. The system

A client asks the **core service** to call a contract. The core runs the contract's
WASM code against the **committing peer's** world state and collects what it read
(with versions) and what it wants to write; a committing peer signs the transaction;
the core hands it to some node of the **ordering service**. The ordering leader
batches transactions into blocks, replicates them with a Raft-like protocol and
commits them. A committing peer streams committed blocks from an ordering node,
appends them to a chain file and applies the write sets that pass the MVCC check.
The **explorer**, a web page served beside the core, signs users in, submits contract
calls and shows balances and blocks; the **orchestrator** starts ordering nodes in one
process and shows them in a web **console**.

| Component | State it keeps | Operations | What makes it correct |
|---|---|---|---|
| Block replication (*raft/*`transaction.go`, `sync*.go`, `node.go`, `consensus.go`) | TxPool, RaftLog, OrderingBlock, lastCommittedHash, the running waiters and auto-propose loop | submit, forward, propose, acknowledge, commit, timeouts, sync | one chain of blocks, no block without a majority, no transaction ordered twice, followers hold only what the leader committed |
| Leader election, membership (*raft/*`leader.go`, `heartbeat.go`, `membership.go`, `types/membership.go`) | state, term, known and expected leader, last heartbeat, priorities and alive marks | heartbeat, claim, claim ack, step-down, membership update | one leader at a time, a dead leader is replaced |
| Deliver service (*raft/*`deliver.go`), deliver client and peer pipeline (peer side `deliver/`, `peer/`, `storage/block_storage.go`) | subscriber channels (64), blockChan (64), chain file, blockCount | snapshot and subscribe, notify, reconnect, validate, append, apply, crash, restart | every block reaches disk and world state once and in order; heights never repeat |
| World state and MVCC (peer side `storage/world_state.go`, `metrics/wallet.go`; core side `vm/engine.go`, `core/rwset.go`; `contracts/sdk/host.go`) | `kv:` and `ver:` entries in LevelDB, read and write sets | probe and read of a key, ApplyBlock with overlay and batch, mint | a valid transaction acted on current values; none takes effect twice; money is conserved |
| Contracts (`src/coreservice/contracts/`) | none: they compute on the world state | transfer, escrow, loyalty_xfer, demonstrations | each keeps the sum of balances |
| WASM engine (core side `vm/engine.go`) | compiled modules and pools of sandboxes per contract | compile, acquire, release, invalidate on deploy | an execution runs the deployed code, no sandbox is shared |
| Submission and endorsement (core side `api/server.go`, `network/`, `discovery/endorse.go`; peer side `deliver/sign.go`; *raft/*`endorsement.go`) | connections, the sign stream pool | execute, sign, send with fallback | what the client is told was accepted is ordered |
| Orderer discovery (both `discovery/`) | cached membership view, last good view | refresh, invalidate, pick | the picked node is alive and, where asked for, the leader |
| Explorer mirror and recorders (peer side `peer/ledger_mirror.go`, `metrics/recorder.go`; core side `storage/submit_recorder.go`) | bounded queues in front of Postgres | enqueue, drain | best effort copies, never blocking the ledger |
| Explorer sign-in (*explorer* `auth/`, `api/client.js`; core side `api/auth.go`, `storage/accounts.go`) | token and name in localStorage, token and account per tab, sessions table | sign in, sign out, reload, expire | name and token belong together; a page acts for the account it shows |
| Explorer submit form and wallet (*explorer* `components/Transfer.jsx`, `Profile.jsx`, `App.jsx`; core side `api/balance_stream.go`) | chosen contract, its schema, fields, JSON editor; balance and its event stream | choose, fetch, fill, submit; open, break and reopen the stream | the payload has the fields of its contract and the session's sender; the wallet shows its own account's balance |
| Explorer dashboard (*explorer* `components/Dashboard.jsx`, `Blocks.jsx`, `Transactions.jsx`; core side `api/server.go`) | blocks and transactions shown, loads under way, event source, timer | load, poll, look up, reconnect | one stream; at rest it shows the tip |
| Payload codec (*explorer* `components/transactionTypes.js`, `utils/transactionUtils.js`) | a buffer and an offset | write, read, extract, guess | what is written is read back |
| Orchestrator and console (`src/orderingservice/source/internal/orchestrator/`, *console*) | table of nodes, event bus, sockets; the browser's store | create, add, remove, configure, list | the console shows the cluster; an added node joins it |
| Signatures, SQL stores, benchmarks, command lines, views | keys, SQL rows | request and response | see section 7 |

How they interact. Ordering nodes exchange messages, each on a libp2p stream of its
own sent by a goroutine of its own (`network/transport.go`), so messages between two
nodes overtake each other and are dropped when a stream fails; nothing is sent twice
by the transport. Inside a node, `MessageChan` serialises most handlers, but
acknowledgements go straight to `BlockAckChan`, transactions are handled on their
stream, and the auto-propose loop, the waiters (`waitForBlockAcks`), the sync
coordinator and the claim evaluation are goroutines of their own. Blocks reach a
committing peer over one long stream; inside the peer a goroutine fills `blockChan`
and `commitLoop` empties it. The core reads the world state over HTTP or streams while
`commitLoop` writes it; nothing locks it meanwhile. Executions and deploys are HTTP
requests of the core and share its compiled modules and sandboxes under short locks.
Every browser tab runs its requests, streams and timers as callbacks, which come back in
any order over state that another tab may have changed.

What is hard about it:

* *ordering*: a commit overtakes the one before it, a late acknowledgement meets the
  next waiter, a proposal arrives over a gap;
* *timeouts and retries*: the 5 s waiter, the 10 s loop, the heartbeat and claim
  timeouts, a client that submits the same transaction again;
* *stale state*: sync statuses read in pieces, versions and values read apart, the
  reconnect index computed while blocks are queued, cached views of the cluster;
* *failures*: an ordering node persists nothing (README of the ordering service,
  section on limits) and comes back empty; a peer dies between its two disk writes;
* *leader changes* chosen by join priority, with no record of votes and no comparison
  of logs.

PROJECT.json lists every one of these at its line under "hazards", with the
properties that cover it or the module of the plan that will.

## 2. Modules

| Module | Models |
|---|---|
| `TotalOrder` | abstract: a pool of submissions and a chain of batches |
| `BlockReplication` | proposals, acknowledgements, commits and sync in one leadership; implements `TotalOrder` |
| `Succession` | abstract: terms, claims, votes and who follows whom, as the log sees them |
| `LeaderElection` | heartbeats, claims, votes, dead marks, step-downs in a fixed membership; implements `Succession` |
| `LeaderChange` | `BlockReplication` among nodes whose roles follow `Succession` |
| `WorldState` | simulation, MVCC block application, mint |
| `Contracts` | transfer, escrow, loyalty_xfer as functions from values read to writes |
| `DeliverPipeline` | ordering nodes, stream, blockChan, chain file, world state, crash |
| `WasmPool` | compiled module, pool of sandboxes, executions and deploys of one contract |
| `ExplorerSession` | tabs, their shared storage, the calls of sign-in and submission, the server's sessions |
| `TransferForm` | the submit form on one of the tabs; extends `ExplorerSession` |
| `ExplorerPages` | the sections of that tab with the wallet; extends `TransferForm`, implements `ExplorerSession` |
| `ExplorerFeed` | the dashboard's loads, event stream and polling |
| `PayloadCodec` | the binary payload, byte by byte |
| `ClusterConsole` | the orchestrator's table, its events and one browser's picture |
| `BlockReplicationProofs`, `LeaderElectionProofs`, `WorldStateProofs`, `DeliverPipelineProofs`, `WasmPoolProofs`, `ExplorerPagesProofs`, `ExplorerDataProofs`, `ClusterConsoleProofs` | the theorems about them; those about `Contracts` are in `WorldStateProofs`, those about `ExplorerSession` in `ExplorerPagesProofs`, those about `ExplorerFeed` and `PayloadCodec` in `ExplorerDataProofs` |
| `MC*` | constants for TLC: model values, call sets, symmetry |

Definitions keep the source's names (`TxPool`, `lastCommittedHash`, `blockChan`, ...);
PROJECT.json maps each to its lines. Operators named `X_Something` beside an `X` are
faulty variants of X, used to confirm that a property notices the fault.

### BlockReplication

One action per handler or goroutine step: a submission and its forwarding
(`processTx`, `forwardTxToLeader`), the loop's proposal (`StartAutoProposeBlock`,
`ProposeBlock`), the follower's `handleBlockProposal`, the waiter collecting
acknowledgements, committing (`commitBlock`: chain, hash, pool, broadcast) or giving up,
the loop's own timeout, `handleBlockCommit`, and a sync cycle: its start, the statuses
that answer it, and the installation of what it fetched. The network is four sets of
messages from which any may be received, once, or never.

What the model leaves out or changes:

* a block's hash is the number of the block in order of creation, 0 before the first:
  `NewBlock` hashes the time too, so two proposals never share a hash;
* pool and block are sets of submissions; their order is not modelled;
* timers run out at any time, except that the waiter's 5 s end before the loop's 10 s,
  both started by the same proposal;
* a sync status answered too late counts as lost; the two reads of a status that may
  straddle a commit (`sync_server.go:33`) are modelled as two values of the hash;
* block shards may come from several peers, but `verifyHashChain` pins every hash, so
  they are all taken or none is, and all equal one source's;
* one leadership: the checks of leader and term are in the guards, but no other leader
  ever sends; `LeaderChange` reuses the actions with several. The membership is fixed and
  no node restarts (a node that restarts has nothing and joins as a new member).

### LeaderElection

Per node: `state`, `currentTerm`, `currentLeaderID`, `expectedLeaderID`, whether its
last heartbeat is too old (`expired`), its alive marks, the running
`waitForLeaderClaimAcks` goroutines, claims waiting to be evaluated, and whether a sync
runs. `CheckTimeout` and `CheckExpected` are `checkHeartbeat` with the whole of
`selectNewLeader` and the sending of a claim; `ReceiveClaim` is `handleIAmNewLeader` with
the evaluation up to its sleep and `Evaluate` what follows the sleep, so that whatever
happens in between is there; `CollectAck` and `FinishClaim` are the waiter's two ends.
`votes` is a history of every YES, which the code does not keep.

* a message is in flight from its sending until it is received, or for ever; equal
  messages in flight are one. A heartbeat once sent may be received again, which stands
  for the equal ones that follow it;
* `StartSync` and `requestMembershipJoin`, goroutines of the handler that starts them,
  begin in its step; what a sync does to the ledger is in `BlockReplication`;
* with `Prompt` a timer runs out only when no message is under way and the followed node
  no longer leads: the cluster whose network is much faster than its timeouts (5 s).
  Without it, any timer may run out at any time;
* no member is added: priorities are fixed, and a crashed node stays away.

### Succession and LeaderChange

`Succession` is the election without timers, dead marks and membership: a claim raises
the term, a YES takes claim and term over, a claimer with a majority leads, and whoever
hears of an elected leader of its term or a later one follows it, perhaps through a sync.
`LeaderElection` implements it (`Succeeds`: the running sync counts as the state Syncing,
the history `claims` gives the claims made). `LeaderChange` takes role, term and leader
from `Succession` and everything else from `BlockReplication`, whose handlers check these
three. It adds what a step-down leaves running: the waiter, which goes on counting the
acknowledgements that arrive (the stream handler puts each into `BlockAckChan` without a
look at the node's state; the branch of `handleMessage` that has one gets none) and commits
under the new term, and a loop past its look at the state, which proposes once more
(`late`).

* a message that would change nothing on arrival counts as lost;
* when a claim is made and when a voter has given up the nodes before the claimer is left
  open: timers and dead marks are in `LeaderElection`. What `Succession` keeps is that a
  node votes only for one before it in the order of joining.

### WorldState and Contracts

A simulation is a state machine of its own per transaction. The contract SDK reads a key
with two host calls, each of which fetches value and version by two database reads: four
reads (`ProbeValue`, `ProbeVersion`, `ReadValue` and the recorded version), and block
application or a mint may come between any two. `BeginBlock`, `ValidateTx` (the check
and stamping of one transaction against the overlay) and `WriteBatch` are `ApplyBlock`;
`MintRead` and `MintWrite` are `handleMint`. `Contracts` gives what a call reads and
writes; `WorldState` takes it as the constants `ReadKeys` and `Effect`.

* a contract reads to its end before it rejects, and writes nothing it rejects;
* the check of one transaction is one step (nothing else writes while a block is
  applied, mints excepted, which touch a key at once);
* left out: the legacy UTXO queries, the discount a mint may set, receipts, deletions
  (only tests delete), and the parties of an escrow, taken from the call;
* accounts of one call differ, as `verify_tx` demands, and none is the treasury, whose
  name has 8 characters where the contracts ask for 40.

### DeliverPipeline

Ordering nodes hold prefixes of one chain and notify their subscribers after appending,
in a step of its own. The stream is opened, sends its snapshot, then subscribes and goes
live; a full subscriber channel drops. On the peer, `blockChan` is filled by the stream
and emptied by `commitLoop`, whose validation, append, count and apply are steps, each
of which may be the last before a crash.

* encoding, sending and decoding a block are one step; a record half written to the
  chain file at a crash is not modelled;
* validation is the constant set `Refused`: what depends on signatures;
* the history variable `disturbed` becomes true at the events, and only those, that are
  known to repeat or skip a block on disk. `InOrder` says that nothing else does.

### WasmPool

One contract: the code in LevelDB, the compiled module in `contractCache`, the pool's
slots, and per execution how far it has come: it looks into the cache (`LookUp`) or reads
the code (`Load`), compiles it and caches the module (`Compile`), gets or makes the pool
(`PoolFor`), takes a sandbox of it or makes one, runs, and releases or closes it. A deploy saves the code and then
drops cache and pool, in two locked steps with executions in between.

* code is its number of save, a sandbox a serial number and its code; the order in the
  channel is left out; what the code computes is in `WorldState`;
* closing the pool's channel and draining it are one step: between them an execution can
  only take a sandbox that the drain would have closed;
* `overtaken` is history: `DropCache` met an execution that was compiling older code, or
  `DropPool` one that was about to ask for the pool with it. Once old code is back, it
  stays until the next deploy;
* shutting the engine down and the ABI's pointers are left out.

### ExplorerSession, TransferForm, ExplorerPages

A call is a record that a page sends, the server processes and the page receives last.
Any tab may reload, sign in or out and submit meanwhile, and any session may expire. A
sign-in writes the pair of token and name; an answer that says 401 clears it. The form
keeps the contract chosen, the contract whose schema came last, which of its fields are
filled and which names the JSON editor holds; a payload is a function from field names to
where each value came from. The wallet is a stream that opens, speaks, breaks and is
opened again by a timer, and the balance shown.

* passwords, time, error texts, demo recipients and the other columns of an account are
  left out; a call may fail for any reason at any time;
* an amount or address that does not pass the form's checks ends the handler before it
  changes anything, and so does an empty choice of contract: neither is modelled;
* the form and the wallet are those of one tab, the others only sign in, sign out and
  submit.

### ExplorerFeed

The dashboard of one tab and the height of the ledger that core's database has. A load is
begun under an account, gets its blocks and its transactions in two answers, and writes
them when the second has come. The event source and its server side, which takes the
first tip without announcing it, are one record; a break starts a timer or polling.

* a block and its transactions appear in one step, since the peer's mirror writes both in
  one transaction of the database; in which order its workers write blocks, and a write
  that fails, are left out (`LedgerMirror` of the plan);
* paging, expanded rows and the list of contracts are left out;
* `doubt` is history: an event after which what is shown may be old although nothing is
  under way. `ShowsTheTip` says that nothing else has this effect.

### PayloadCodec

A field written or read is a step; what it writes is a sequence of bytes with `ByteBase`
values each, so that the code's one-, two-, four- and eight-byte widths reach their
limits with small numbers; what k bytes can hold is `Power[k]`. A text is the bytes that
`TextEncoder` makes of it; `TextDecoder` gives them back, but for a byte order mark in
front, which it drops and the model leaves out. FLOAT, DOUBLE and BYTES occur in no schema
and are left out, and so is `getPayloadField`, which reads the same fields up to one.
`RoundTrip` is stated for values that the types keep: a UINT32 is read as signed, although
the comment at its type says 0-4294967295, and a UINT64 keeps its low 64 bits.

`LegacyReads` is about the explorer's other decoder, which has no types and guesses them
from the names of the fields. It compares what that decoder makes of the buffer with what
was typed. `Told(i)`: the names of the first i fields tell their types, and they are read
as given. `Misread(i)`: field i is the first whose name does not. Its first two bytes are
taken for a length (`Announced`, computed from the values), so that the next field is read
where the user's values happen to point: for an address that begins with two bytes
announcing 18, or an amount of stake whose highest bytes announce 6, it is the right place,
for all others a wrong one. No wrong guess is an error by itself; a profile's `age` and
`isVerified` are read as empty texts whatever they are; only a swap's amounts, read from a
wrong place, may run past the end and throw, and the pages then show the values that were
never encoded. The attempt to read the payload as JSON comes first in the code; a binary
payload that happens to be the text of a JSON object is left out.

### ClusterConsole

The manager's requests run as steps of their own (`AddNode` registers the node, joins it,
publishes), nodes change state when they like, events go through a bounded queue to one
socket, and the browser applies them to its store beside the answers to its own requests.
An operation whose node is removed while it joins or bootstraps is `orphaned`: it ends as
it would have, and publishes a node that is no longer in the table.

* what nodes do among themselves is `LeaderElection`; terms, heartbeat pulses, log lines,
  operator commands, the delay form and the selection of a node are left out;
* `doubt` is history, per port: a state may be shown wrongly since an event was lost, or
  an answer or a form wrote back a younger picture.

## 3. Runs

| Run | Instance | Shows |
|---|---|---|
| `replication` | 3 nodes, 2 submissions of one transaction, blocks of 2, 2 blocks, a heartbeat gap | types; the leader's chain is linked; nothing is ordered twice; logs agree; followers hold only committed blocks, each held by a majority; a sync stays on the leader's chain; pool and chain implement `TotalOrder` |
| `election` | 3 nodes, one claim, any delays | types; it implements `Succession`; a deposed leader has lost its majority; no two leaders in a term |
| `failover` | 4 nodes, prompt, either or both of the first two stop, 3 claims | a leader returns and all follow it |
| `fork` | 3 nodes, 2 submissions, 3 blocks, one claim | finding |
| `world_state` | release, refund and transfer on 2 accounts, blocks of up to 2 calls, a failing fetch, a mint | valid transactions read current values, apply once, and create no money |
| `lost_update` | a loyalty transfer, a release and a lock | finding |
| `deliver` | 2 ordering nodes, 3 blocks, one refused, 2 breaks, a crash, a failing write, channels of 1 | fresh heights, accounted losses, order on disk, streams that never go back |
| `wasm_pool` | 3 executions, 2 deploys, a pool of 2 | no sandbox is shared; old code runs after a deploy only where an invalidation met an execution holding it |
| `pages` | 2 tabs, 2 accounts, 3 kinds of contract, 3 clicks, 2 balances | transfers are booked on the account shown, storage is consistent, payloads come from where they should, the wallet watches its own account and shows its balance |
| `feed` | 1 account, 2 blocks, 3 loads, a break, 2 visits, 2 tries | one stream at a time; a dashboard at rest shows the tip, listed causes aside |
| `payload` | bytes of 8 values, small and boundary numbers and texts, every schema | encoder and decoder stay in step, what was given is read back, and the explorer's decoder without types is right where names tell types and moved by the misread field's bytes behind |
| `console` | 2 ports, 2 operations, a change of state, a lost socket, a queue of 2 | the browser shows the cluster, listed causes aside |

Why the bounds are enough. Three nodes are the least with a majority that is not
everyone, a follower that is behind and another to sync from. Two blocks give one entry
to overtake, one gap, one wrong `PrevHash` and a retry of the first block's transaction.
A second heartbeat gap only restarts a cycle whose statuses are drained first. In
`world_state` every pair of conflicting calls meets in one block and in two; a second
failing fetch adds no reading that one does not. In `deliver` capacities of 1 fill, and
two breaks make a reconnect to a node that is behind and back. In `election` a single
claim has every message and timer of the protocol interleaved; a second claim at the same
time is beyond TLC without promptness, and a bounded search of it finds what section 5
says. In `failover` four nodes have a majority of three: after one stop every vote is
needed. In `wasm_pool` one execution can put old code back, one begin after the deploy
and one hold a sandbox; the second deploy invalidates what the first left. In `pages`
three clicks sign in, submit and leave in either tab, and calls, schema answers and the
stream interleave freely between them. In `feed` a second load overtakes a first while
the third is the poll's. A byte of eight values makes a string too long for its length at
64 bytes, numbers of every width wrap, and two bytes can announce the width of what is
left of an address or more than the whole buffer of a swap has.

The properties with listed causes are claims about completeness: their history variable
is set at named events, and each was found by removing it and looking at what TLC then
reported. They and the bounded runs of findings are what the proofs of section 6 extend
to every bound.

Deadlock is not checked: every system here has ends, a bound reached or a client that
has nothing more to submit.

## 4. Fairness

Only `failover` states liveness, under `FairSpec`: every node's goroutines step when they
can (`WF_vars(Step(n))`; the ticker runs every second, the waiter's every 100 ms), and a
running node receives the messages and heartbeats sent
to it (`WF_vars` of each kind per receiver), which is what a connected libp2p stream
does. Crashes and failed sends are not fair. Weak fairness is enough: no step
of another node disables these for ever while messages are prompt. The other
runs check safety and assume none.

## 5. What the checks found

Runs that TLC ends with a violation, each of a statement the repository makes:

1. `lost_update`: a value that outgrows its probed size between the two reads counts as
   missing while its version is recorded as read: a VALID transaction overwrites a
   balance, which the read-write-set document says MVCC excludes.
2. `fork`: one change of leader leaves two committed chains, although the service calls
   itself an implementation of Raft (`src/orderingservice/README.md:5`). A leader commits
   b1 with n1's acknowledgement; n1, elected before it hears of the commit, proposes b2
   over b1's entry with the empty hash before it, and is refused. The old leader steps
   down, syncs, and takes b2's entry over b1's without a look at the terms; so it accepts
   b3, which n1 commits, again with the empty hash before it.

Statements the code refutes, too, which are kept as definitions without a run of their
own (add them to the cfg named, and TLC refutes them within seconds):

* `LeaderReturns` (PROPERTY, `MCFailover.cfg` with `Node <- Three`, `Mortal <- Nobody`
  and `MaxFailures = 1`): a leader never sends again to a follower that one send failed to
  reach; the follower claims once, is refused and ends without a leader, although the
  test scenario says that the leader's heartbeat brings it back (`src/orderingservice/`
  `source/testingscenarios/TC001_F1_network_isolation.md:260-264`);
* `EndsOrdinarily` (INVARIANT, `MCWasmPool.cfg`): a deploy closes the channel that an
  execution returns its sandbox to, which panics after the contract has succeeded; the
  engine's document only knows a success that returns the sandbox and an error that
  closes it (`src/docs/CORE_CONTRACT_WASM.md:330`);
* `NextExecuteReloads` (INVARIANT, `MCWasmPool.cfg`): an execution that fetched the old
  module before the invalidation makes the new pool of it; executions begun after the
  deploy run old code until the next one, although the comment of InvalidateContract says
  that the next Execute reloads (`src/coreservice/internal/vm/engine.go:276-277`);
* `LeadersComplete` (INVARIANT, `MCLeaderChange.cfg`): elections compare priorities and
  terms, never logs; a node without a committed block is elected by one that has it,
  while Raft's leaders have every committed entry (`src/orderingservice/README.md:5`).
  The voter refuses the leader's first block and drops the committed entry at its second;
* `AddedNodesJoin` (INVARIANT, `MCClusterConsole.cfg`): AddNode may choose the node it has
  just registered as the one to join by, cannot dial itself, and goes on with a node
  outside of the cluster, although its comment says that it joins the existing one
  (*orchestrator/*`manager.go:68`);
* `FollowerChain` (INVARIANT, `MCBlockReplication.cfg`): commits travel apart, and a
  follower appends what a commit names without comparing its `PrevHash`; followers'
  chains have gaps and swaps, although the propose loop says that "hash-chain / sync
  semantics are unchanged" (*raft/*`transaction.go:612-613`);
* `SyncRestoresLog` (PROPERTY, `MCBlockReplication.cfg`): a sync installs blocks but not
  their log entries; the node then refuses every proposal, although a node that rejoins
  is to catch up (`src/orderingservice/README.md:262`, `:273`);
* `NoReplay` (INVARIANT, `MCDeliverPipeline.cfg`): a block appended before the snapshot
  and notified after the subscription reaches disk twice, which the start index is said
  to avoid (peer side `storage/block_storage.go:86-87`).

Seen beside them, in searches too large to be runs: with two claims and late messages a
leader takes over a lower term from a late membership acknowledgement and two nodes lead
in one term; a node that has become leader may mark itself dead in a claim evaluation
that started before; with five nodes and two crashes the second successor is elected in
the first one's term. They are under "hazards".

## 6. Proofs

`BlockReplicationProofs` proves, for every finite set of nodes, every set of
submissions and retries, every batch size and every bound:

| Theorem | States |
|---|---|
| `TypeCorrect` | `TypeOK` always |
| `LogsMatch` | entries with the same index are the same on all nodes |
| `OnlyLeaderCommits` | every committed block anywhere was committed by the leader |
| `CommitNeedsMajority` | a majority stored or committed each block the leader committed |
| `LeaderKeepsChain` | the leader's chain is linked and ends in `lastCommittedHash` |
| `NeverOrderedTwice` | blocks of the leader share no submission |
| `OrdersTotallyCorrect` | the specification implements `TotalOrder` |
| `SyncKeepsToLeader` | a sync never takes a node off the leader's chain |
| `ForkNeedsClaim` | in `LeaderChange`: no fork, and every leader complete, while nobody has claimed the lead |
| `ReplicationUntilClaim` | in `LeaderChange`: the five invariants above while nobody has claimed the lead |

The assumptions are those of the module: Boot is a member, the set of nodes is finite,
the batch size is positive, the bounds are naturals.

The argument. None of these is inductive. `IInv` adds what the code maintains without
saying so:

* `Roles`: nobody but Boot leads, and what is in flight comes from it, in its term;
* `Logs`: the leader's log has no gap, and every entry proposed, stored or waited for
  is the leader's entry of that index. It gives log matching, and is why a follower's
  previous-term check never fires in one leadership;
* `Acknowledged`: whoever said yes to an entry stores it, so that the acknowledgements a
  waiter counts are copies; logs only grow;
* `CommittedOnly`: a commit in flight names a committed entry, and blocks copied by a sync
  come from nodes that have only such blocks;
* `OneInFlight`: the loop does not go on while a waiter lives, so the waiter's block
  links to the current tip and its transactions are still in the pool: this is what the
  5 s waiter and the 10 s loop owe each other, and what makes `LeaderChain` inductive;
* `OnePlace`: a submission is in a forward, in the pool or in a block, never in two, so
  that removing the committed ones by Txid removes each once.

`SyncKeepsToLeader` needs one fact more (`Numbered`): hashes grow along the leader's chain,
so that `prevHash` says at which place of it a block is (`ChainPosition`). Of what a sync
installs, the first block that is not the leader's at its place would be a block of the
leader's with another predecessor (`InstallFollows`).

Each part has a step lemma by cases on the actions; `IInvCorrect` puts them together, and the
refinement maps `commitBlock` to the abstract batch and the pool's arrivals to the
abstract submissions, everything else to a stutter.

The last two say where the findings of `LeaderChange` begin. `NoFork` and
`LeadersComplete` fail there after one claim; before it, for every cluster and every bound,
whatever is lost, late or heard again, they hold.
`Unclaimed` says that then `IInv` and `Numbered` do, that no deposed leader is at work and
that only a syncing node has collected statuses (`Collected`). Every step of
`LeaderChange` without a claim is one of `BlockReplication`: a node that hears of Boot
again stutters or starts the sync of a late heartbeat (`ElectUnclaimed`), the rest is the
same by definition (`LedgerIsNext`). So the lemmas about `BlockReplication` carry over.

`DeliverPipelineProofs` proves every property of the `deliver` run, for every set of
ordering nodes and refused blocks, all channel capacities and every bound:

| Theorem | States |
|---|---|
| `TypeCorrect` | `TypeOK` always |
| `HeightsNeverRepeat` | blocks are applied under growing heights, each the block's place on disk |
| `LossesCounted` | one block lost to the world state, at most, per crash and failed write |
| `DiskInOrder` | undisturbed, the chain file is a prefix of the chain |
| `StreamsGoForward` | a stream delivers no block older than one it delivered |

It assumes that capacities are positive and bounds are naturals. Its `IInv` adds:

* `Handling`: a running peer's counter is the number of blocks on disk, and a block
  marked persisted is the last of them; a stopped peer holds nothing else. This is why
  the height given after the write is the block's place, also after a restart;
* `Heights`: while a block is persisted but not applied no height given so far is its
  own;
* `Lag`: notification is at most one block behind the chain, because appending and
  notifying alternate. Without it a snapshot may end far above the next notification:
  `StreamsGoForward` is false when a node appends a batch first;
* `Ascending`: what a stream holds is in order, between what it delivered and what its
  node notifies next;
* `Consecutive` (unless disturbed): disk, hand, queue and stream together are the
  blocks 1, 2, 3, ... up to the last one the node put on the stream. Each disturbance is
  a step that breaks exactly this.

`LeaderElectionProofs` proves `TypeCorrect` (`TypeOK` always) for every finite set of
nodes, all priorities and every bound, and for one succession, `MaxClaims <= 1`, with any
number of nodes, any losses, failures and crashes, and messages prompt or late:

| Theorem | States |
|---|---|
| `OneSuccession` | the invariant `IInv` always |
| `LeadersDiffer` | two nodes never lead in the same term |
| `MajorityHasMoved` | a leader with a successor has lost a majority to it |
| `ElectionImplementsSuccession` | the election implements `Succession`, if Boot joined first (`BootFirst`) |

One claim is a hypothesis because the code does not keep more: section 5 tells how two
claims and a late message make two leaders of one term. `IInv` says for every node which
role, term and leader it can have before and after the claim (`Role`), for every message
and heartbeat what it tells of its sender (`Letter`, `Beat`), that a vote is of a node
that has moved to the claimer's term (`Ballot`), and that a waiter counts nobody twice
(`Count`): then the claimer's quorum of acknowledgements is a majority of nodes, none of
which goes back to term 0. The refinement adds (`SInv`) that a node is alive to itself,
expects only nodes that joined before it, and that only Boot may be in a sync that its
state does not show. Every action is shown to be one step of `Succession` or a stutter.

`WorldStateProofs` proves what `TypeOK`, `ReadsCurrent` and `AppliedOnce` of the
`world_state` run say for every set of keys, every contract that reads a key, every set
of blocks and every bound (`TypeCorrect`, `ReadsCurrentAlways`, `AppliedOnceAlways`); the
types also rest on two stated hypotheses, that contracts run on as many values as they
read write values (`WritesValues`) and that values have lengths (`HaveSizes`). A contract
is any operator `Effect` of the values read. `MVCCInv` adds:

* `Issued`: no version in the state or in a read set is one that a mint or the block in
  progress has yet to give. So whatever is written next gets a version nobody has read,
  which is all that `ReadsCurrent` needs, however the four reads of a key straddle it;
* `Batch`: what the block has written so far carries the block's version in the overlay
  as in the batch, so that a later transaction of the same block sees it;
* `Superseded`: a key that a valid transaction read and rewrote has, or will have when
  the batch is written, another version than the one it read, and an overlay entry does
  not hide that. This is what survives from one ordering of a transaction to the next,
  and `checkReadSet` finds a conflict from it (`SupersededConflicts`).

Two theorems there state `NoMoneyCreated`. `MVCCKeepsMoney` is about MVCC alone: if no
contract makes money when it is run on values of one state, some of which did not come
(`CreatesNothing`), then none is made by calls simulated concurrently, each reading its
keys at different times, ordered in any blocks, repeatedly, with any fetches failing.
Its invariant (`MoneyInv`) follows the state that will be there once the batch is written
(`After(kv, apply.kv)`): what an accepted call read is in it, since every version it
recorded is still current. `ContractsCreateNothing` discharges the hypothesis for the
contracts themselves: any calls of transfer, lock, release and refund (`ContractCalls`)
write two keys whose sum is no more than what was read under them. `NoRewards` leaves
out what creates money by design, the loyalty bonus and a sender's discount. A total over
a set of keys is a fold, about which the library states nothing: `WorthRecurses` and
`WorthTakes` derive what is needed of it, each by its least counterexample.

`WasmPoolProofs` proves every property of the `wasm_pool` run (`TypeCorrect`,
`OneAtATimeCorrect`, `FreshUnlessOvertakenCorrect`), for every finite set of executions,
every pool of at least one sandbox and every number of deploys. Its `PoolInv` adds that
everything in use was issued under a number below the counters (`Issued`), that sandboxes
with one number are one and a sandbox in an execution is in no slot (`Numbered`), and,
unless overtaken, `Fresher`: cache, pool and every execution past an invalidation hold
code at least as new as the deploys that have returned. It is `Fresher` that fails in
exactly the two steps that set `overtaken`.

`ExplorerPagesProofs` proves every property of the `pages` run, for any tabs, accounts,
contracts, schemas, balances and bounds, and that the pages implement the session alone
(`PagesImplementSession`: PagesSpec => Spec), so that the session's theorems are lifted
from `ExplorerSession` instead of proved over the larger state. The invariants are
`SessionInv` (a token's owner is settled when it is issued; a call in flight, a stored
pair and a tab's account agree with it), `FormInv` (what is filled belongs to the schema
last fetched; with answers in order that schema is the selected contract's), `WalletInv`
(the stream is of the account shown, and the last balance it was given is the chain's
once nothing is on its way) and `SchemaInv`.

`ExplorerDataProofs` proves every property of the `feed` run (`TypeCorrect`,
`OneStreamCorrect`, `ShowsTheTipCorrect`), assuming that there may be at least one block
and one load. `FeedInv` adds `OneEnd` (source, timer and status change together), the
numbering of loads (`LoadInv`), that what is shown comes from the latest load applied and
of which account (`LatestOwn`), and `LatestFresh`: without doubt, a height not yet shown
is in a load under way, an event on its way or the next poll.

It also proves every property of the `payload` run (`InStepCorrect`, `RoundTripCorrect`,
`LegacyReadsCorrect`): for bytes of any even number of values, 256 among them, where the
run has eight, and for any numbers and texts. The argument has three parts. Reading w bytes
multiplies and adds what shifting and masking took apart (`UintBack`): after i bytes the
decoder holds the number shifted right by w - i bytes. A field whose bytes are where the
decoder stands is passed over whole, and gives back what its type keeps (`FieldBack`). And
`CodecInv` holds the two sides together: `LayInv`, the
buffer is the fields' bytes, each behind those of the one before, as long as nothing has
thrown; `ReadInv`, if every string fits its prefix, the offset is where the next field
begins and each field read is as given. `LegacyReadsCorrect` needs no more of the state
than these: as far as names tell types the decoder without types is where the encoder was,
field by field (`ToldRead`, from `FieldBack`); which fields can come to be misread first is
in the schemas (`FirstMisread`); what the two bytes in front announce is the two highest
digits of the number that was typed, the first bytes of the address, or the age with the
mark behind it (`MisreadPasses`, `TwoDigits`); and a text is read without an error wherever
the decoder stands (`TextRead`). The functions by
which `Power`, `Uint` and `Reading` recurse are shown to exist by `Recursion`.

`ClusterConsoleProofs` proves both properties of the `console` run (`TypeCorrect`,
`ConsoleShowsTheCluster`), for every set of ports and states, every size of the queue and
every bound. `TInv` says which operations may be at work on a node that is or is not in
the table, `ViewOK` that, for a port without doubt, the picture and the events still
queued add up to the manager's table, and `ListsOK` the same of an answer to
`GET /api/nodes` on its way. An earlier form of the model had no `orphaned` operations: an
operation that went on after its node's removal took a node added later under the same
port for its own, which the code, holding on to the node itself, does not do. The attempt
to prove `TInv` showed it.

Only model-checked: liveness under fairness (`LeaderReturns`) and anything with ENABLED,
which the provers do not reach; the calls of `Contracts` with a discount or with loyalty
points; elections with more than one claim;
and `LeaderChange` after a claim, where its run finds a fork. Induction over data is
done where it was needed, in `BlockReplicationProofs`, `WorldStateProofs` and
`ExplorerDataProofs` (`Climb`), as the search for a least counterexample: the library's
induction theorems take an operator as a parameter, which the provers cannot instantiate.

## 7. Not modelled

* the choice of an orderer, endorsement and signing, the explorer's mirror: in the plan
  below;
* signatures and keys: a signature verifies or does not (`Refused`);
* SQL stores, benchmarks, metrics and queries beside those above: request and response
  over a database, no protocol;
* the k6 script, load generators and command lines: drivers of the modelled code;
* the console's drawing (`NetworkTopology.tsx` and its like), the explorer's detail
  views, receipts and example payloads (`PAYLOAD_EXAMPLES.js`, which nothing imports):
  views of state that other components keep;
* node configuration and events: setters and callbacks;
* generated and vendored code, logs.

## 8. Plan

What is left, in order; each module composes with those it names.

1. `LeaderChange` with more than one change of leader, and properties that hold after one.
2. `Endorsement` and `Discovery`: execution, signing with fallback and retry, delivery,
   what the client is told; the cached membership view with its last good value.
3. `Contracts`: an escrow that stores its parties, the demonstration contracts, a ledger
   of minted amounts.
4. `LedgerMirror`: the bounded queues in front of Postgres.

Proofs to follow, in order: the loyalty contract, whose bonus is paid for by fees on larger
amounts only; elections with several claims and prompt messages.
