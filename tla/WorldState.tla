----------------------------- MODULE WorldState -----------------------------
(***************************************************************************)
(* Optimistic execution of contracts: the core service simulates each       *)
(* transaction against the committing peer's world state and collects its   *)
(* read set (keys with versions) and write set; ordered blocks come back,   *)
(* and ApplyBlock lets a transaction write only if every version it read    *)
(* is still the current one (MVCC).  Nothing locks the state meanwhile.     *)
(*                                                                         *)
(* What interleaves: simulations (one HTTP handler each), the peer's block  *)
(* application, and /wallet/mint.  A contract reads a key with two host     *)
(* calls, SizeOf (a probe with no buffer) and GetState; each fetches the    *)
(* key from the peer, whose handler reads value and version with two        *)
(* separate database reads; RecordRead keeps the version of the first       *)
(* fetch, the contract uses the value of the second.                        *)
(*                                                                         *)
(* Abstractions.  A contract is the sequence of keys it reads and the       *)
(* effect it computes from what it got (module Contracts has the real       *)
(* ones); it runs to the end before it rejects.  "<height>:<index>" is the  *)
(* pair <<height, index>>, "admin:<nanos>:<n>" is <<0, n>>, the version ""  *)
(* of a missing key is <<>>.  The host exports no delete, so write sets     *)
(* have none.  Ordering is external: any endorsed transactions, repeated    *)
(* or not, make a block.                                                    *)
(***************************************************************************)
EXTENDS Naturals, Sequences, FiniteSetsExt

CONSTANTS
  Key,            \* keys of the world state
  Tx,             \* transactions handed to the core service
  Nothing,        \* no value, or the empty one
  ReadKeys,       \* ReadKeys[t]: the distinct keys contract call t reads (one or
                  \* more), in order
  Effect(_, _),   \* Effect(t, got): its writes as a function, or Rejected
  Rejected,       \* what a contract that returns 0 computes
  Size(_),        \* length of a stored value
  InitialValue,   \* the state the peer starts with, seeded through mint
  Blocks,         \* bound: the blocks the orderer may build
  MaxHeight,      \* bound: blocks applied
  MaxFailures,    \* bound: fetches that fail
  Money,          \* the keys whose values are amounts of money
  MintKeys,       \* balances an administrator may mint to
  MaxMints        \* bound: mints

Value == Nat \cup {Nothing}

ASSUME NothingAssumption == Nothing \notin Nat
ASSUME InitialAssumption == InitialValue \in [Key -> Value]
ASSUME ReadAssumption ==
  /\ ReadKeys \in [Tx -> Seq(Key) \ {<<>>}]
  /\ \A t \in Tx : \A i, j \in DOMAIN ReadKeys[t] :
       ReadKeys[t][i] = ReadKeys[t][j] => i = j
ASSUME EmptyAssumption == Size(Nothing) = 0
ASSUME BlockAssumption == Blocks \subseteq Seq(Tx)
ASSUME MintAssumption == MintKeys \subseteq Key
ASSUME MoneyAssumption == Money \subseteq Key /\ IsFiniteSet(Money)
ASSUME BoundAssumption ==
  MaxHeight \in Nat /\ MaxFailures \in Nat /\ MaxMints \in Nat

VARIABLES
  kv,        \* kv:<key>
  ver,       \* ver:<key>
  sim,       \* per transaction: its simulation
  height,    \* blockCount of the peer
  apply,     \* the ApplyBlock in progress, or Idle
  valid,     \* per transaction: how often ApplyBlock found it VALID
  mint,      \* the handleMint in progress, or Idle
  adminSeq,  \* the counter in admin versions
  failures,  \* fetches that failed so far
  mints      \* mints so far

state == <<kv, ver>>
vars == <<kv, ver, sim, height, apply, valid, mint, adminSeq, failures, mints>>

-----------------------------------------------------------------------------
(* Data *)

Missing == <<>>
Version == {Missing} \cup (Nat \X Nat)
Idle == [busy |-> FALSE]

\* A simulation: reads[i] is the version recorded for its i-th key, got[i]
\* the value its contract got, size what the probe of the next key said.
Phase == {"probe", "version", "value", "endorsed", "rejected"}
Simulation == [pc : Phase, size : Nat, reads : Seq(Version), got : Seq(Value)]

KeyOf(t) == ReadKeys[t][Len(sim[t].got) + 1]

-----------------------------------------------------------------------------
(* Simulation in the core service *)

\* The contract goes on with value v for the current key, whose recorded
\* version is r: to the next key, or to its verdict.
Continue(t, r, v) ==
  LET got == Append(sim[t].got, v)
      over == Len(got) = Len(ReadKeys[t])
  IN sim' = [sim EXCEPT ![t] =
       [pc |-> IF ~over THEN "probe"
               ELSE IF Effect(t, got) = Rejected THEN "rejected" ELSE "endorsed",
        size |-> 0,
        reads |-> r,
        got |-> got]]

\* SizeOf, first half: the peer reads the value.  A missing key ends the
\* fetch, with version "".
ProbeValue(t) ==
  /\ sim[t].pc = "probe"
  /\ IF ver[KeyOf(t)] = Missing
     THEN Continue(t, Append(sim[t].reads, Missing), Nothing)
     ELSE sim' = [sim EXCEPT ![t].pc = "version", ![t].size = Size(kv[KeyOf(t)])]
  /\ UNCHANGED <<kv, ver, height, apply, valid, mint, adminSeq, failures, mints>>

\* SizeOf, second half: the peer reads the version, which is recorded.
ProbeVersion(t) ==
  LET r == Append(sim[t].reads, ver[KeyOf(t)]) IN
  /\ sim[t].pc = "version"
  /\ IF sim[t].size = 0
     THEN Continue(t, r, Nothing)
     ELSE sim' = [sim EXCEPT ![t].pc = "value", ![t].reads = r]
  /\ UNCHANGED <<kv, ver, height, apply, valid, mint, adminSeq, failures, mints>>

\* GetState into a buffer of the probed size: the value is read again, the
\* version is not recorded again; a value that has outgrown the buffer is not
\* returned, and the contract takes that for a missing key.
ReadValue(t) ==
  LET v == kv[KeyOf(t)] IN
  /\ sim[t].pc = "value"
  /\ Continue(t, sim[t].reads, IF Size(v) <= sim[t].size THEN v ELSE Nothing)
  /\ UNCHANGED <<kv, ver, height, apply, valid, mint, adminSeq, failures, mints>>

\* A fetch fails: the probe records version "", the second fetch records
\* nothing more; the contract sees a missing key in both cases.
FetchFails(t) ==
  /\ sim[t].pc \in {"probe", "version", "value"}
  /\ failures < MaxFailures
  /\ failures' = failures + 1
  /\ Continue(t, IF sim[t].pc = "value" THEN sim[t].reads
                 ELSE Append(sim[t].reads, Missing), Nothing)
  /\ UNCHANGED <<kv, ver, height, apply, valid, mint, adminSeq, mints>>

-----------------------------------------------------------------------------
(* Block application in the committing peer *)

\* commitLoop takes a block of endorsed transactions and counts it.
BeginBlock(b) ==
  /\ apply = Idle
  /\ height < MaxHeight
  /\ \A i \in DOMAIN b : sim[b[i]].pc = "endorsed"
  /\ height' = height + 1
  /\ apply' = [busy |-> TRUE, txs |-> b, pos |-> 1,
               live |-> <<>>, kv |-> <<>>, ver |-> <<>>]
  /\ UNCHANGED <<kv, ver, sim, valid, mint, adminSeq, failures, mints>>

\* f overridden by g: the entries of an overlay or of a batch.
Over(g, f) ==
  [k \in DOMAIN f \cup DOMAIN g |-> IF k \in DOMAIN g THEN g[k] ELSE f[k]]

\* getVer: the overlay of the block, else the database.
Current_Committed(k) == ver[k]
Current(k) == IF k \in DOMAIN apply.live THEN apply.live[k] ELSE ver[k]

\* checkReadSet: position i of t's read set has another version.
Conflict(t, i) == Current(ReadKeys[t][i]) # sim[t].reads[i]

\* checkReadSet stops at the first conflict; what it looked up stays cached.
Looked(t) ==
  {ReadKeys[t][i] : i \in {j \in DOMAIN ReadKeys[t] :
                             \A h \in 1..(j - 1) : ~Conflict(t, h)}}

\* The overlay after a valid transaction: what it wrote has its new version.
Stamped_Not(live, stamps) == live
Stamped(live, stamps) == Over(stamps, live)

\* One transaction of the block: MVCC check, then its writes join the batch.
ValidateTx ==
  LET t == apply.txs[apply.pos]
      cached == Over([k \in Looked(t) |-> Current(k)], apply.live)
      writes == Effect(t, sim[t].got)
      stamps == [k \in DOMAIN writes |-> <<height, apply.pos - 1>>]
  IN
  /\ apply.busy
  /\ apply.pos <= Len(apply.txs)
  /\ IF \E i \in DOMAIN ReadKeys[t] : Conflict(t, i)
     THEN /\ apply' = [apply EXCEPT !.pos = @ + 1, !.live = cached]
          /\ UNCHANGED valid
     ELSE /\ apply' = [apply EXCEPT !.pos = @ + 1,
                                    !.live = Stamped(cached, stamps),
                                    !.kv = Over(writes, @),
                                    !.ver = Over(stamps, @)]
          /\ valid' = [valid EXCEPT ![t] = @ + 1]
  /\ UNCHANGED <<kv, ver, sim, height, mint, adminSeq, failures, mints>>

\* The batch is written at once.
WriteBatch ==
  /\ apply.busy
  /\ apply.pos > Len(apply.txs)
  /\ kv' = [k \in Key |-> IF k \in DOMAIN apply.kv THEN apply.kv[k] ELSE kv[k]]
  /\ ver' = [k \in Key |-> IF k \in DOMAIN apply.ver THEN apply.ver[k] ELSE ver[k]]
  /\ apply' = Idle
  /\ UNCHANGED <<sim, height, valid, mint, adminSeq, failures, mints>>

-----------------------------------------------------------------------------
(* Mint *)

\* handleMint reads the balance ...
MintRead(k) ==
  /\ mint = Idle
  /\ mints < MaxMints
  /\ mints' = mints + 1
  /\ mint' = [busy |-> TRUE, key |-> k, bal |-> IF kv[k] = Nothing THEN 0 ELSE kv[k]]
  /\ UNCHANGED <<kv, ver, sim, height, apply, valid, adminSeq, failures>>

\* ... and writes the sum, under an admin version.
MintWrite_SameVersion ==
  /\ mint.busy
  /\ kv' = [kv EXCEPT ![mint.key] = mint.bal + 1]
  /\ adminSeq' = adminSeq + 1
  /\ mint' = Idle
  /\ UNCHANGED <<ver, sim, height, apply, valid, failures, mints>>
MintWrite ==
  /\ mint.busy
  /\ kv' = [kv EXCEPT ![mint.key] = mint.bal + 1]
  /\ ver' = [ver EXCEPT ![mint.key] = <<0, adminSeq + 1>>]
  /\ adminSeq' = adminSeq + 1
  /\ mint' = Idle
  /\ UNCHANGED <<sim, height, apply, valid, failures, mints>>

-----------------------------------------------------------------------------
Init ==
  /\ kv = InitialValue
  /\ ver = [k \in Key |-> IF InitialValue[k] = Nothing THEN Missing ELSE <<0, 0>>]
  /\ sim = [t \in Tx |-> [pc |-> "probe", size |-> 0, reads |-> <<>>, got |-> <<>>]]
  /\ height = 0
  /\ apply = Idle
  /\ valid = [t \in Tx |-> 0]
  /\ mint = Idle
  /\ adminSeq = 0
  /\ failures = 0
  /\ mints = 0

Simulate(t) == ProbeValue(t) \/ ProbeVersion(t) \/ ReadValue(t) \/ FetchFails(t)

Next ==
  \/ \E t \in Tx : Simulate(t)
  \/ \E b \in Blocks : BeginBlock(b)
  \/ ValidateTx
  \/ WriteBatch
  \/ \E k \in MintKeys : MintRead(k)
  \/ MintWrite

Spec == Init /\ [][Next]_vars

-----------------------------------------------------------------------------
(* Properties *)

TypeOK ==
  /\ kv \in [Key -> Value]
  /\ ver \in [Key -> Version]
  /\ sim \in [Tx -> Simulation]
  /\ height \in 0..MaxHeight
  /\ apply = Idle \/ (apply.busy /\ apply.txs \in Blocks /\ apply.pos \in 1..(Len(apply.txs) + 1))
  /\ valid \in [Tx -> Nat]
  /\ mint = Idle \/ (mint.busy /\ mint.key \in Key /\ mint.bal \in Nat)
  /\ adminSeq \in 0..MaxMints
  /\ failures \in 0..MaxFailures
  /\ mints \in 0..MaxMints

\* A recorded version vouches for the value the contract got: as long as it is
\* still the key's version, the value is still the key's value.  The two reads
\* of a fetch may straddle a block or a mint (GetKVWithVersion), and version
\* and value come from different fetches (GetState, RecordRead).
ReadsCurrent ==
  \A t \in Tx : \A i \in DOMAIN sim[t].got :
    sim[t].got[i] # Nothing /\ sim[t].reads[i] = ver[ReadKeys[t][i]]
    => sim[t].got[i] = kv[ReadKeys[t][i]]

\* A transaction that writes a key it read takes effect at most once, however
\* often it is ordered, in one block or in several (ApplyBlock's overlay and
\* stamps).
AppliedOnce ==
  \A t \in Tx :
    /\ sim[t].pc = "endorsed"
    /\ \E i \in DOMAIN ReadKeys[t] : ReadKeys[t][i] \in DOMAIN Effect(t, sim[t].got)
    => valid[t] <= 1

Total(f) == MapThenSumSet(LAMBDA k : IF f[k] = Nothing THEN 0 ELSE f[k], Money)

\* No double spend: contracts that move money never create any, whatever is
\* simulated and ordered concurrently and whichever fetches fail.  Mints and
\* contracts that reward a sender, by a loyalty bonus or a discount, create
\* money by design: the first are excluded here, the others by what is called.
NoMoneyCreated == mints = 0 => Total(kv) <= Total(InitialValue)

\* Nor do they lose any: the lost update that MVCC is documented to prevent.
Conservation == mints = 0 => Total(kv) = Total(InitialValue)
=============================================================================
