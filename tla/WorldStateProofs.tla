-------------------------- MODULE WorldStateProofs --------------------------
(***************************************************************************)
(* Proofs about optimistic execution: what a recorded version vouches for, *)
(* and transactions that take effect once, for every set of keys,          *)
(* transactions, contracts and blocks.                                     *)
(***************************************************************************)
EXTENDS WorldState, TLAPS, SequenceTheorems, FiniteSetTheorems, WellFoundedInduction

\* For the last section: the calls of the money contracts that the transactions are.
CONSTANTS Call, Treasury

C == INSTANCE Contracts

(* --- The invariant --------------------------------------------------------- *)

IsSeq(s) == \E S : s \in Seq(S)

Reading(s) == s.pc \in {"probe", "version", "value"}

\* How far simulation s of t has come.
Reader(t, s) ==
  /\ s = [pc |-> s.pc, size |-> s.size, reads |-> s.reads, got |-> s.got]
  /\ s.pc \in Phase
  /\ s.reads \in Seq(Version)
  /\ IsSeq(s.got)
  /\ Len(s.reads) = Len(s.got) + (IF s.pc = "value" THEN 1 ELSE 0)
  /\ Reading(s) => Len(s.got) < Len(ReadKeys[t])
  /\ ~Reading(s) => Len(s.got) = Len(ReadKeys[t])

Shape ==
  /\ kv = [k \in Key |-> kv[k]]
  /\ ver \in [Key -> Version]
  /\ sim = [t \in Tx |-> sim[t]]
  /\ \A t \in Tx : Reader(t, sim[t])
  /\ height \in Nat
  /\ adminSeq \in Nat
  /\ valid \in [Tx -> Nat]
  /\ mint = Idle \/ (mint.busy /\ mint.key \in Key)

\* A version that a mint or a block has written: nothing has the versions that
\* the block in progress or a mint to come will give.
Issued(v) ==
  v # Missing => IF v[1] = 0 THEN v[2] <= adminSeq
                 ELSE v[1] < height \/ (v[1] = height /\ apply = Idle)

Versions ==
  /\ \A k \in Key : Issued(ver[k])
  /\ \A t \in Tx : \A i \in DOMAIN sim[t].reads : Issued(sim[t].reads[i])

\* A version of the block in progress.
Fresh(v) == \E p \in Nat : v = <<height, p>>

\* The block in progress is a record of its six parts.
IsBlock(a) == a = [busy |-> a.busy, txs |-> a.txs, pos |-> a.pos,
                   live |-> a.live, kv |-> a.kv, ver |-> a.ver]

\* The block in progress: what it has written so far is stamped, in the batch
\* as in the overlay.
Batch ==
  /\ IsBlock(apply) /\ apply.busy
  /\ apply.txs \in Seq(Tx)
  /\ apply.pos \in Nat \ {0}
  /\ height # 0
  /\ \A i \in DOMAIN apply.txs : sim[apply.txs[i]].pc = "endorsed"
  /\ DOMAIN apply.kv = DOMAIN apply.ver
  /\ \A k \in DOMAIN apply.ver :
       Fresh(apply.ver[k]) /\ k \in DOMAIN apply.live /\ apply.live[k] = apply.ver[k]

Applying == apply = Idle \/ Batch

\* The i-th version that t has read will not be its key's version again.
Superseded(t, i) ==
  LET k == ReadKeys[t][i] IN
  \/ apply # Idle /\ k \in DOMAIN apply.ver
  \/ /\ ver[k] # sim[t].reads[i]
     /\ apply # Idle /\ k \in DOMAIN apply.live => apply.live[k] # sim[t].reads[i]

Rewrites(t, i) ==
  sim[t].pc = "endorsed" /\ ReadKeys[t][i] \in DOMAIN Effect(t, sim[t].got)

Done(t) ==
  /\ valid[t] > 0 =>
       /\ sim[t].pc = "endorsed"
       /\ \A i \in DOMAIN ReadKeys[t] : Rewrites(t, i) => Superseded(t, i)
  /\ \A i \in DOMAIN ReadKeys[t] : Rewrites(t, i) => valid[t] <= 1

Effective == \A t \in Tx : Done(t)

MVCCInv == Shape /\ Versions /\ Applying /\ ReadsCurrent /\ Effective

(* --- Simulations ----------------------------------------------------------- *)

LEMMA AppendFacts ==
  ASSUME NEW s, IsSeq(s), NEW v
  PROVE  /\ IsSeq(Append(s, v))
         /\ Len(s) \in Nat
         /\ DOMAIN s = 1..Len(s)
         /\ DOMAIN Append(s, v) = 1..(Len(s) + 1)
         /\ Len(Append(s, v)) = Len(s) + 1
         /\ \A i \in 1..Len(s) : Append(s, v)[i] = s[i]
         /\ Append(s, v)[Len(s) + 1] = v
<1>1. PICK S : s \in Seq(S)
  BY DEF IsSeq
<1>2. s \in Seq(S \cup {v})
  BY <1>1, SeqMonotonic
<1>3. Append(s, v) \in Seq(S \cup {v})
  BY <1>2
<1>4. IsSeq(Append(s, v))
  BY <1>3 DEF IsSeq
<1> QED
  BY <1>2, <1>4, AppendProperties

\* What t got is vouched for by the versions it recorded.
Vouched(t, s) ==
  \A i \in DOMAIN s.got :
    s.got[i] # Nothing /\ s.reads[i] = ver[ReadKeys[t][i]]
    => s.got[i] = kv[ReadKeys[t][i]]

\* A step of a simulation that keeps the invariant, whatever it reads.
Simulates(t) ==
  /\ Reading(sim[t])
  /\ \E s : /\ sim' = [sim EXCEPT ![t] = s]
            /\ Reader(t, s)
            /\ \A i \in DOMAIN s.reads : Issued(s.reads[i])
            /\ Vouched(t, s)

\* The parts of a simulation at work.
LEMMA ReaderFacts ==
  ASSUME MVCCInv, NEW t \in Tx, Reading(sim[t])
  PROVE  /\ KeyOf(t) \in Key
         /\ ReadKeys[t] \in Seq(Key)
         /\ sim[t].reads \in Seq(Version) /\ IsSeq(sim[t].got)
         /\ Len(sim[t].got) \in Nat /\ Len(sim[t].reads) \in Nat
         /\ DOMAIN sim[t].got = 1..Len(sim[t].got)
         /\ DOMAIN sim[t].reads = 1..Len(sim[t].reads)
         /\ Len(sim[t].reads) = Len(sim[t].got) + (IF sim[t].pc = "value" THEN 1 ELSE 0)
         /\ Len(sim[t].got) < Len(ReadKeys[t])
<1>1. Reader(t, sim[t])
  BY DEF MVCCInv, Shape
<1>2. /\ sim[t].reads \in Seq(Version) /\ IsSeq(sim[t].got)
      /\ Len(sim[t].reads) = Len(sim[t].got) + (IF sim[t].pc = "value" THEN 1 ELSE 0)
      /\ Len(sim[t].got) < Len(ReadKeys[t])
  BY <1>1 DEF Reader
<1>3. Len(sim[t].got) \in Nat /\ DOMAIN sim[t].got = 1..Len(sim[t].got)
  BY <1>2, AppendFacts
<1>4. ReadKeys[t] \in Seq(Key)
  BY ReadAssumption
<1>5. KeyOf(t) \in Key
  BY <1>2, <1>3, <1>4 DEF KeyOf
<1>6. Len(sim[t].reads) \in Nat /\ DOMAIN sim[t].reads = 1..Len(sim[t].reads)
  BY <1>2, LenProperties
<1> QED
  BY <1>2, <1>3, <1>4, <1>5, <1>6

\* The contract goes on with a value the key has just now, or with none.
LEMMA ContinueSimulates ==
  ASSUME MVCCInv, NEW t \in Tx, Reading(sim[t]), NEW r \in Seq(Version), NEW v,
         Len(r) = Len(sim[t].got) + 1,
         \A i \in DOMAIN r : Issued(r[i]),
         \A i \in 1..Len(sim[t].got) : r[i] = sim[t].reads[i],
         v = Nothing \/ v = kv[KeyOf(t)],
         Continue(t, r, v)
  PROVE  Simulates(t)
<1> DEFINE got == Append(sim[t].got, v)
           s == [pc |-> IF ~(Len(got) = Len(ReadKeys[t])) THEN "probe"
                        ELSE IF Effect(t, got) = Rejected THEN "rejected" ELSE "endorsed",
                 size |-> 0, reads |-> r, got |-> got]
<1>1. sim' = [sim EXCEPT ![t] = s]
  BY DEF Continue
<1>2. /\ IsSeq(got) /\ Len(got) = Len(sim[t].got) + 1
      /\ DOMAIN got = 1..(Len(sim[t].got) + 1)
      /\ \A i \in 1..Len(sim[t].got) : got[i] = sim[t].got[i]
      /\ got[Len(sim[t].got) + 1] = v
  BY ZenonT(30), ReaderFacts, AppendFacts
<1> HIDE DEF got
<1>3. Reader(t, s)
  <2>1. s.pc \in {"probe", "rejected", "endorsed"}
    OBVIOUS
  <2>2. Reading(s) => Len(s.got) < Len(ReadKeys[t])
    <3>1. Len(ReadKeys[t]) \in Nat /\ Len(sim[t].got) \in Nat
          /\ Len(sim[t].got) < Len(ReadKeys[t])
      BY ReaderFacts, LenProperties
    <3>2. Reading(s) => Len(got) # Len(ReadKeys[t])
      BY DEF Reading
    <3> QED
      BY <1>2, <3>1, <3>2
  <2>3. ~Reading(s) => Len(s.got) = Len(ReadKeys[t])
    BY DEF Reading
  <2> QED
    BY <1>2, <2>1, <2>2, <2>3, ReaderFacts DEF Reader, Phase
<1>4. Vouched(t, s)
  <2> SUFFICES ASSUME NEW i \in DOMAIN got, got[i] # Nothing, r[i] = ver[ReadKeys[t][i]]
               PROVE  got[i] = kv[ReadKeys[t][i]]
    BY DEF Vouched
  <2>1. CASE i \in 1..Len(sim[t].got)
    BY <1>2, <2>1, ReaderFacts DEF MVCCInv, ReadsCurrent
  <2>2. CASE i = Len(sim[t].got) + 1
    BY <1>2, <2>2 DEF KeyOf
  <2> QED
    BY <1>2, <2>1, <2>2, ReaderFacts
<1> QED
  BY <1>1, <1>3, <1>4 DEF Simulates

\* A version just read is the next one recorded.
LEMMA RecordFacts ==
  ASSUME MVCCInv, NEW t \in Tx, sim[t].pc \in {"probe", "version"},
         NEW w \in Version, Issued(w)
  PROVE  LET r == Append(sim[t].reads, w) IN
         /\ r \in Seq(Version)
         /\ Len(r) = Len(sim[t].got) + 1
         /\ \A i \in DOMAIN r : Issued(r[i])
         /\ \A i \in 1..Len(sim[t].got) : r[i] = sim[t].reads[i]
<1>1. Reading(sim[t])
  BY DEF Reading
<1>2. /\ sim[t].reads \in Seq(Version) /\ Len(sim[t].reads) = Len(sim[t].got)
      /\ Len(sim[t].got) \in Nat
  <2>1. sim[t].pc # "value"
    OBVIOUS
  <2>2. /\ sim[t].reads \in Seq(Version) /\ Len(sim[t].got) \in Nat
        /\ Len(sim[t].reads) = Len(sim[t].got) + (IF sim[t].pc = "value" THEN 1 ELSE 0)
    BY <1>1, ReaderFacts
  <2> QED
    BY <2>1, <2>2
<1>3. \A i \in DOMAIN sim[t].reads : Issued(sim[t].reads[i])
  BY DEF MVCCInv, Versions
<1> DEFINE r == Append(sim[t].reads, w)
<1>4. /\ r \in Seq(Version) /\ Len(r) = Len(sim[t].got) + 1
      /\ DOMAIN r = 1..(Len(sim[t].got) + 1)
      /\ \A i \in 1..Len(sim[t].got) : r[i] = sim[t].reads[i]
      /\ r[Len(sim[t].got) + 1] = w
  <2>1. /\ r \in Seq(Version) /\ Len(r) = Len(sim[t].reads) + 1
        /\ \A i \in 1..Len(sim[t].reads) : r[i] = sim[t].reads[i]
        /\ r[Len(sim[t].reads) + 1] = w
    BY <1>2, AppendProperties
  <2>2. DOMAIN r = 1..Len(r)
    BY <2>1, LenProperties
  <2> QED
    BY <1>2, <2>1, <2>2
<1>5. ASSUME NEW i \in DOMAIN r PROVE Issued(r[i])
  <2>1. CASE i \in 1..Len(sim[t].got)
    BY <1>2, <1>3, <1>4, <2>1
  <2>2. CASE i = Len(sim[t].got) + 1
    BY <1>4, <2>2
  <2> QED
    BY <1>2, <1>4, <2>1, <2>2
<1> QED
  BY <1>4, <1>5

\* A simulation is a record of its four parts.
LEMMA ProbedFields ==
  ASSUME NEW s, s = [pc |-> s.pc, size |-> s.size, reads |-> s.reads, got |-> s.got],
         NEW a, NEW b
  PROVE  [s EXCEPT !.pc = a, !.size = b]
           = [pc |-> a, size |-> b, reads |-> s.reads, got |-> s.got]
<1>1. DOMAIN s = {"pc", "size", "reads", "got"}
  OBVIOUS
<1>2. [s EXCEPT !.pc = a, !.size = b]
        = [x \in DOMAIN s |-> IF x = "size" THEN b ELSE IF x = "pc" THEN a ELSE s[x]]
  BY <1>1
<1> QED
  BY <1>1, <1>2

LEMMA RecordedFields ==
  ASSUME NEW s, s = [pc |-> s.pc, size |-> s.size, reads |-> s.reads, got |-> s.got],
         NEW a, NEW b
  PROVE  [s EXCEPT !.pc = a, !.reads = b]
           = [pc |-> a, size |-> s.size, reads |-> b, got |-> s.got]
<1>1. DOMAIN s = {"pc", "size", "reads", "got"}
  OBVIOUS
<1>2. [s EXCEPT !.pc = a, !.reads = b]
        = [x \in DOMAIN s |-> IF x = "reads" THEN b ELSE IF x = "pc" THEN a ELSE s[x]]
  BY <1>1
<1> QED
  BY <1>1, <1>2

\* Each step of a simulation is one that Simulates describes.
LEMMA ProbeValueSimulates ==
  ASSUME MVCCInv, NEW t \in Tx, ProbeValue(t)
  PROVE  Simulates(t)
<1>1. sim[t].pc = "probe" /\ Reading(sim[t])
  BY DEF ProbeValue, Reading
<1>2. CASE ver[KeyOf(t)] = Missing
  <2> DEFINE r == Append(sim[t].reads, Missing)
  <2>1. Missing \in Version /\ Issued(Missing)
    BY DEF Version, Issued
  <2>2. /\ r \in Seq(Version) /\ Len(r) = Len(sim[t].got) + 1
        /\ \A i \in DOMAIN r : Issued(r[i])
        /\ \A i \in 1..Len(sim[t].got) : r[i] = sim[t].reads[i]
    BY <1>1, <2>1, RecordFacts
  <2>3. Continue(t, r, Nothing)
    BY <1>2 DEF ProbeValue
  <2> QED
    BY <1>1, <2>2, <2>3, ContinueSimulates
<1>3. CASE ver[KeyOf(t)] # Missing
  <2> DEFINE s == [sim[t] EXCEPT !.pc = "version", !.size = Size(kv[KeyOf(t)])]
  <2>1. Reader(t, sim[t]) /\ sim = [x \in Tx |-> sim[x]]
    BY DEF MVCCInv, Shape
  <2>2. sim' = [sim EXCEPT ![t] = s]
    BY <1>3 DEF ProbeValue
  <2>3. s = [pc |-> "version", size |-> Size(kv[KeyOf(t)]),
             reads |-> sim[t].reads, got |-> sim[t].got]
    BY <2>1, ProbedFields DEF Reader
  <2>4. Reader(t, s)
    BY <1>1, <2>1, <2>3 DEF Reader, Reading, Phase
  <2>5. /\ \A i \in DOMAIN s.reads : Issued(s.reads[i])
        /\ Vouched(t, s)
    BY <2>3 DEF MVCCInv, Versions, ReadsCurrent, Vouched
  <2> QED
    BY <1>1, <2>2, <2>4, <2>5 DEF Simulates
<1> QED
  BY <1>2, <1>3

LEMMA ProbeVersionSimulates ==
  ASSUME MVCCInv, NEW t \in Tx, ProbeVersion(t)
  PROVE  Simulates(t)
<1> DEFINE r == Append(sim[t].reads, ver[KeyOf(t)])
<1>1. sim[t].pc = "version" /\ Reading(sim[t])
  BY DEF ProbeVersion, Reading
<1>2. ver[KeyOf(t)] \in Version /\ Issued(ver[KeyOf(t)])
  BY <1>1, ReaderFacts DEF MVCCInv, Shape, Versions
<1>3. /\ r \in Seq(Version) /\ Len(r) = Len(sim[t].got) + 1
      /\ \A i \in DOMAIN r : Issued(r[i])
      /\ \A i \in 1..Len(sim[t].got) : r[i] = sim[t].reads[i]
  BY <1>1, <1>2, RecordFacts
<1>4. CASE sim[t].size = 0
  <2>1. Continue(t, r, Nothing)
    BY <1>4 DEF ProbeVersion
  <2> QED
    BY <1>1, <1>3, <2>1, ContinueSimulates
<1>5. CASE sim[t].size # 0
  <2> DEFINE s == [sim[t] EXCEPT !.pc = "value", !.reads = r]
  <2>1. Reader(t, sim[t]) /\ sim = [x \in Tx |-> sim[x]]
    BY DEF MVCCInv, Shape
  <2>2. sim' = [sim EXCEPT ![t] = s]
    BY <1>5 DEF ProbeVersion
  <2>3. s = [pc |-> "value", size |-> sim[t].size, reads |-> r, got |-> sim[t].got]
    <3>1. \A b : [sim[t] EXCEPT !.pc = "value", !.reads = b]
                   = [pc |-> "value", size |-> sim[t].size, reads |-> b, got |-> sim[t].got]
      BY <2>1, RecordedFields DEF Reader
    <3> QED
      BY <3>1, Zenon
  <2>4. IsSeq(sim[t].got) /\ Len(sim[t].got) < Len(ReadKeys[t])
    BY <1>1, ReaderFacts
  <2>5. Reader(t, s)
    BY <1>3, <2>3, <2>4 DEF Reader, Reading, Phase
  <2>6. \A i \in DOMAIN s.reads : Issued(s.reads[i])
    BY <1>3, <2>3
  <2>7. Vouched(t, s)
    <3> HIDE DEF r, s
    <3>1. s.got = sim[t].got /\ s.reads = r
      BY <2>3
    <3>2. DOMAIN sim[t].got = 1..Len(sim[t].got)
      BY <1>1, ReaderFacts
    <3>3. \A i \in DOMAIN sim[t].got :
            sim[t].got[i] # Nothing /\ sim[t].reads[i] = ver[ReadKeys[t][i]]
            => sim[t].got[i] = kv[ReadKeys[t][i]]
      BY DEF MVCCInv, ReadsCurrent
    <3> QED
      BY <1>3, <3>1, <3>2, <3>3 DEF Vouched
  <2> QED
    BY <1>1, <2>2, <2>5, <2>6, <2>7 DEF Simulates
<1> QED
  BY <1>4, <1>5

LEMMA ReadValueSimulates ==
  ASSUME MVCCInv, NEW t \in Tx, ReadValue(t)
  PROVE  Simulates(t)
<1> DEFINE v == IF Size(kv[KeyOf(t)]) <= sim[t].size THEN kv[KeyOf(t)] ELSE Nothing
<1>1. sim[t].pc = "value" /\ Reading(sim[t])
  BY DEF ReadValue, Reading
<1>2. sim[t].reads \in Seq(Version) /\ Len(sim[t].reads) = Len(sim[t].got) + 1
  BY <1>1, ReaderFacts
<1>3. \A i \in DOMAIN sim[t].reads : Issued(sim[t].reads[i])
  BY DEF MVCCInv, Versions
<1>4. Continue(t, sim[t].reads, v)
  BY DEF ReadValue
<1>5. v = Nothing \/ v = kv[KeyOf(t)]
  OBVIOUS
<1> QED
  BY <1>1, <1>2, <1>3, <1>4, <1>5, ContinueSimulates

LEMMA FetchFailsSimulates ==
  ASSUME MVCCInv, NEW t \in Tx, FetchFails(t)
  PROVE  Simulates(t)
<1>1. Reading(sim[t])
  BY DEF FetchFails, Reading
<1>2. CASE sim[t].pc = "value"
  <2>1. sim[t].reads \in Seq(Version) /\ Len(sim[t].reads) = Len(sim[t].got) + 1
    BY <1>1, <1>2, ReaderFacts
  <2>2. \A i \in DOMAIN sim[t].reads : Issued(sim[t].reads[i])
    BY DEF MVCCInv, Versions
  <2>3. Continue(t, sim[t].reads, Nothing)
    BY <1>2 DEF FetchFails
  <2> QED
    BY <1>1, <2>1, <2>2, <2>3, ContinueSimulates
<1>3. CASE sim[t].pc # "value"
  <2> DEFINE r == Append(sim[t].reads, Missing)
  <2>1. Missing \in Version /\ Issued(Missing)
    BY DEF Version, Issued
  <2>2. sim[t].pc \in {"probe", "version"}
    BY <1>3 DEF FetchFails
  <2>3. /\ r \in Seq(Version) /\ Len(r) = Len(sim[t].got) + 1
        /\ \A i \in DOMAIN r : Issued(r[i])
        /\ \A i \in 1..Len(sim[t].got) : r[i] = sim[t].reads[i]
    BY <2>1, <2>2, RecordFacts
  <2>4. Continue(t, r, Nothing)
    BY <1>3 DEF FetchFails
  <2> QED
    BY <1>1, <2>3, <2>4, ContinueSimulates
<1> QED
  BY <1>2, <1>3

\* ... and such a step keeps the invariant.
LEMMA SimulatesKeeps ==
  ASSUME MVCCInv, NEW t \in Tx, Simulates(t),
         UNCHANGED <<kv, ver, height, apply, valid, mint, adminSeq>>
  PROVE  MVCCInv'
<1>1. PICK s : /\ sim' = [sim EXCEPT ![t] = s]
               /\ Reader(t, s)
               /\ \A i \in DOMAIN s.reads : Issued(s.reads[i])
               /\ Vouched(t, s)
  BY DEF Simulates
<1>2. /\ sim' = [u \in Tx |-> sim'[u]]
      /\ sim'[t] = s
      /\ \A u \in Tx : u # t => sim'[u] = sim[u]
  BY <1>1 DEF MVCCInv, Shape
<1>3. sim[t].pc # "endorsed"
  BY DEF Simulates, Reading
<1>4. valid[t] = 0
  BY <1>3 DEF MVCCInv, Effective, Done, Shape
<1>5. Shape'
  BY <1>1, <1>2 DEF MVCCInv, Shape, Reader, Reading
<1>6. Versions'
  <2>1. \A v : Issued(v) <=> Issued(v)'
    BY DEF Issued
  <2> QED
    BY <1>1, <1>2, <2>1 DEF MVCCInv, Versions, Issued
<1>7. Applying'
  <2> SUFFICES ASSUME apply # Idle
               PROVE  Batch'
    BY DEF Applying
  <2>1. Batch
    BY DEF MVCCInv, Applying
  <2>2. \A i \in DOMAIN apply.txs : apply.txs[i] \in Tx /\ apply.txs[i] # t
    BY <1>3, <2>1 DEF Batch
  <2>3. \A i \in DOMAIN apply.txs : sim'[apply.txs[i]].pc = "endorsed"
    BY <1>2, <2>1, <2>2 DEF Batch
  <2> QED
    BY <2>1, <2>3 DEF Batch, IsBlock, Fresh
<1>8. ReadsCurrent'
  BY <1>1, <1>2 DEF MVCCInv, ReadsCurrent, Vouched
<1>9. Effective'
  <2> SUFFICES ASSUME NEW u \in Tx
               PROVE  Done(u)'
    BY DEF Effective
  <2>1. CASE u = t
    BY <1>4, <2>1 DEF Done
  <2>2. CASE u # t
    BY <1>2, <2>2 DEF MVCCInv, Effective, Done, Rewrites, Superseded
  <2> QED
    BY <2>1, <2>2
<1> QED
  BY <1>5, <1>6, <1>7, <1>8, <1>9 DEF MVCCInv

(* --- Blocks ---------------------------------------------------------------- *)

\* Only versions of blocks still to come are unlike every version recorded.
LEMMA BeginBlockKeeps ==
  ASSUME MVCCInv, NEW b \in Blocks, BeginBlock(b)
  PROVE  MVCCInv'
<1>1. /\ apply = Idle /\ height' = height + 1 /\ height \in Nat
      /\ apply' = [busy |-> TRUE, txs |-> b, pos |-> 1,
                   live |-> <<>>, kv |-> <<>>, ver |-> <<>>]
      /\ b \in Seq(Tx) /\ \A i \in DOMAIN b : sim[b[i]].pc = "endorsed"
      /\ UNCHANGED <<kv, ver, sim, valid, mint, adminSeq>>
  BY BlockAssumption DEF BeginBlock, MVCCInv, Shape
<1>2. DOMAIN apply'.live = {} /\ DOMAIN apply'.kv = {} /\ DOMAIN apply'.ver = {}
  BY <1>1
<1>3. Shape'
  BY <1>1 DEF MVCCInv, Shape
<1>4. ASSUME NEW v \in Version, Issued(v)
      PROVE  Issued(v)'
  BY <1>1, <1>4 DEF Issued, Version, Missing
<1>5. Versions'
  <2>1. \A k \in Key : ver[k] \in Version
    BY DEF MVCCInv, Shape
  <2>2. ASSUME NEW t \in Tx, NEW i \in DOMAIN sim[t].reads
        PROVE  sim[t].reads[i] \in Version
    <3>1. sim[t].reads \in Seq(Version)
      BY DEF MVCCInv, Shape, Reader
    <3> QED
      BY <3>1
  <2> QED
    BY <1>1, <1>4, <2>1, <2>2 DEF MVCCInv, Versions, Issued
<1>6. Applying'
  BY <1>1, <1>2 DEF Applying, Batch, IsBlock
<1>7. ReadsCurrent'
  BY <1>1 DEF MVCCInv, ReadsCurrent
<1>8. Effective'
  BY <1>1, <1>2 DEF MVCCInv, Effective, Done, Rewrites, Superseded
<1> QED
  BY <1>3, <1>5, <1>6, <1>7, <1>8 DEF MVCCInv

\* What a transaction has recorded, one version per key it read.
LEMMA RecordedFacts ==
  ASSUME MVCCInv, NEW t \in Tx
  PROVE  /\ sim[t].reads \in Seq(Version)
         /\ \A i \in DOMAIN sim[t].reads : sim[t].reads[i] \in Version /\ Issued(sim[t].reads[i])
         /\ \A i \in DOMAIN sim[t].got : i \in DOMAIN sim[t].reads /\ ReadKeys[t][i] \in Key
         /\ \A i \in DOMAIN ReadKeys[t] : ReadKeys[t][i] \in Key
         /\ sim[t].pc = "endorsed" => DOMAIN ReadKeys[t] = DOMAIN sim[t].reads
<1>1. Reader(t, sim[t])
  BY DEF MVCCInv, Shape
<1>2. /\ sim[t].reads \in Seq(Version) /\ IsSeq(sim[t].got)
      /\ Len(sim[t].reads) = Len(sim[t].got) + (IF sim[t].pc = "value" THEN 1 ELSE 0)
  BY <1>1 DEF Reader
<1>3. /\ Len(sim[t].got) \in Nat /\ DOMAIN sim[t].got = 1..Len(sim[t].got)
      /\ Len(sim[t].reads) \in Nat /\ DOMAIN sim[t].reads = 1..Len(sim[t].reads)
  BY <1>2, AppendFacts, LenProperties
<1>4. /\ ReadKeys[t] \in Seq(Key)
      /\ Len(ReadKeys[t]) \in Nat /\ DOMAIN ReadKeys[t] = 1..Len(ReadKeys[t])
  BY ReadAssumption, LenProperties
<1>5. Len(sim[t].got) <= Len(ReadKeys[t])
  BY <1>1, <1>3, <1>4 DEF Reader
<1>6. \A i \in DOMAIN sim[t].reads : Issued(sim[t].reads[i])
  BY DEF MVCCInv, Versions
<1>7. \A i \in DOMAIN ReadKeys[t] : ReadKeys[t][i] \in Key
  BY <1>4
<1>8. ASSUME NEW i \in DOMAIN sim[t].reads
      PROVE  sim[t].reads[i] \in Version
  BY <1>2
<1>9. \A i \in DOMAIN sim[t].got : i \in DOMAIN sim[t].reads /\ i \in DOMAIN ReadKeys[t]
  <2>1. Len(sim[t].got) <= Len(sim[t].reads)
    <3>1. CASE sim[t].pc = "value"
      BY <1>2, <1>3, <3>1
    <3>2. CASE sim[t].pc # "value"
      BY <1>2, <1>3, <3>2
    <3> QED
      BY <3>1, <3>2
  <2> QED
    BY <1>3, <1>4, <1>5, <2>1
<1>10. ASSUME sim[t].pc = "endorsed"
       PROVE  DOMAIN ReadKeys[t] = DOMAIN sim[t].reads
  BY <1>1, <1>2, <1>3, <1>4, <1>10 DEF Reader, Reading
<1> QED
  BY <1>2, <1>6, <1>7, <1>8, <1>9, <1>10

\* Nobody has read a version of the block in progress.
LEMMA FreshUnread ==
  ASSUME MVCCInv, Batch, apply # Idle, NEW t \in Tx, NEW i \in DOMAIN sim[t].reads,
         NEW v, Fresh(v)
  PROVE  sim[t].reads[i] # v
<1>1. Issued(sim[t].reads[i])
  BY RecordedFacts
<1>2. height \in Nat /\ height # 0
  BY DEF MVCCInv, Shape, Batch
<1>3. PICK p \in Nat : v = <<height, p>>
  BY DEF Fresh
<1>4. v # Missing /\ v[1] = height
  BY <1>3 DEF Missing
<1> QED
  BY <1>1, <1>2, <1>4 DEF Issued

\* A block in progress is not idle.
LEMMA BusyFacts ==
  ASSUME MVCCInv, apply.busy
  PROVE  apply # Idle /\ Batch
<1>1. apply # Idle
  BY DEF Idle
<1> QED
  BY <1>1 DEF MVCCInv, Applying

\* The batch gives every key it writes a version nobody has read.
LEMMA WriteBatchKeeps ==
  ASSUME MVCCInv, WriteBatch
  PROVE  MVCCInv'
<1>1. /\ apply # Idle /\ Batch /\ apply' = Idle
      /\ kv' = [k \in Key |-> IF k \in DOMAIN apply.kv THEN apply.kv[k] ELSE kv[k]]
      /\ ver' = [k \in Key |-> IF k \in DOMAIN apply.ver THEN apply.ver[k] ELSE ver[k]]
      /\ UNCHANGED <<sim, height, valid, mint, adminSeq>>
  BY BusyFacts DEF WriteBatch
<1>2. /\ height \in Nat \ {0} /\ ver \in [Key -> Version]
      /\ DOMAIN apply.kv = DOMAIN apply.ver
      /\ \A k \in DOMAIN apply.ver : Fresh(apply.ver[k])
  BY <1>1 DEF MVCCInv, Shape, Batch
<1>3. \A v : Fresh(v) => v \in Version /\ v # Missing /\ v[1] = height
  BY <1>2 DEF Fresh, Version, Missing
<1>4. Shape'
  <2>1. ver' \in [Key -> Version]
    BY <1>1, <1>2, <1>3
  <2>2. kv' = [k \in Key |-> kv'[k]]
    BY <1>1
  <2> QED
    BY <1>1, <2>1, <2>2 DEF MVCCInv, Shape
<1>5. Versions'
  <2>1. \A v : Issued(v) => Issued(v)'
    BY <1>1 DEF Issued
  <2>2. ASSUME NEW k \in Key
        PROVE  Issued(ver[k])'
    <3>1. CASE k \in DOMAIN apply.ver
      <4>1. ver'[k] = apply.ver[k] /\ Fresh(apply.ver[k])
        BY <1>1, <1>2, <3>1
      <4>2. ver'[k][1] = height /\ height # 0
        BY <1>2, <1>3, <4>1
      <4> QED
        BY <1>1, <1>2, <4>2 DEF Issued
    <3>2. CASE k \notin DOMAIN apply.ver
      BY <1>1, <2>1, <3>2 DEF MVCCInv, Versions, Issued
    <3> QED
      BY <3>1, <3>2
  <2>3. \A t \in Tx : \A i \in DOMAIN sim[t].reads : Issued(sim[t].reads[i])'
    BY <1>1, <2>1 DEF MVCCInv, Versions, Issued
  <2> QED
    BY <1>1, <2>2, <2>3 DEF Versions
<1>6. Applying'
  BY <1>1 DEF Applying
<1>7. ASSUME NEW t \in Tx, NEW i \in DOMAIN sim[t].reads, ReadKeys[t][i] \in DOMAIN apply.ver,
             ReadKeys[t][i] \in Key
      PROVE  sim[t].reads[i] # ver'[ReadKeys[t][i]]
  BY <1>1, <1>2, <1>7, FreshUnread
<1>8. ReadsCurrent'
  <2> SUFFICES ASSUME NEW t \in Tx, NEW i \in DOMAIN sim[t].got,
                      sim[t].got[i] # Nothing, sim[t].reads[i] = ver'[ReadKeys[t][i]]
               PROVE  sim[t].got[i] = kv'[ReadKeys[t][i]]
    BY <1>1 DEF ReadsCurrent
  <2>1. i \in DOMAIN sim[t].reads /\ ReadKeys[t][i] \in Key
    BY RecordedFacts
  <2>2. ReadKeys[t][i] \notin DOMAIN apply.ver
    BY <1>7, <2>1
  <2> QED
    BY <1>1, <1>2, <2>1, <2>2 DEF MVCCInv, ReadsCurrent
<1>9. Effective'
  <2> SUFFICES ASSUME NEW t \in Tx, valid[t] > 0
               PROVE  \A i \in DOMAIN ReadKeys[t] : Rewrites(t, i) => Superseded(t, i)'
    BY <1>1 DEF MVCCInv, Effective, Done, Rewrites
  <2> SUFFICES ASSUME NEW i \in DOMAIN ReadKeys[t], Rewrites(t, i)
               PROVE  ver'[ReadKeys[t][i]] # sim[t].reads[i]
    BY <1>1 DEF Superseded
  <2>1. i \in DOMAIN sim[t].reads /\ ReadKeys[t][i] \in Key
    BY RecordedFacts DEF Rewrites
  <2>2. Superseded(t, i)
    BY DEF MVCCInv, Effective, Done
  <2>3. CASE ReadKeys[t][i] \in DOMAIN apply.ver
    BY <1>7, <2>1, <2>3
  <2>4. CASE ReadKeys[t][i] \notin DOMAIN apply.ver
    BY <1>1, <2>1, <2>2, <2>4 DEF Superseded
  <2> QED
    BY <2>3, <2>4
<1> QED
  BY <1>4, <1>5, <1>6, <1>8, <1>9 DEF MVCCInv

(* --- Mint ------------------------------------------------------------------ *)

\* A mint gives its key a version nobody has read.
LEMMA MintWriteKeeps ==
  ASSUME MVCCInv, MintWrite
  PROVE  MVCCInv'
<1> DEFINE m == mint.key
           v == <<0, adminSeq + 1>>
<1>1. /\ mint # Idle /\ m \in Key /\ adminSeq \in Nat /\ height \in Nat
      /\ kv = [k \in Key |-> kv[k]] /\ ver \in [Key -> Version]
  BY DEF MintWrite, MVCCInv, Shape, Idle
<1>2. /\ kv' = [kv EXCEPT ![m] = mint.bal + 1] /\ ver' = [ver EXCEPT ![m] = v]
      /\ adminSeq' = adminSeq + 1 /\ mint' = Idle
      /\ UNCHANGED <<sim, height, apply, valid>>
  BY DEF MintWrite
<1>3. /\ kv' = [k \in Key |-> kv'[k]]
      /\ ver'[m] = v /\ v \in Version
      /\ \A k \in Key : k # m => kv'[k] = kv[k] /\ ver'[k] = ver[k]
      /\ ver' \in [Key -> Version]
  <2>1. v \in Version
    BY <1>1 DEF Version
  <2> HIDE DEF v
  <2> QED
    BY <1>1, <1>2, <2>1
<1>4. v # Missing /\ v[1] = 0 /\ v[2] = adminSeq + 1
  BY DEF Missing
<1> HIDE DEF m, v
<1>5. Shape'
  BY <1>1, <1>2, <1>3 DEF MVCCInv, Shape
<1>6. ASSUME NEW w \in Version, Issued(w)
      PROVE  Issued(w)' /\ w # v
  <2>1. w = Missing \/ (w[1] \in Nat /\ w[2] \in Nat)
    BY DEF Version
  <2> QED
    BY <1>1, <1>2, <1>4, <1>6, <2>1 DEF Issued
<1>7. Versions'
  <2>1. ASSUME NEW k \in Key
        PROVE  Issued(ver[k])'
    <3>1. CASE k = m
      <4>1. ver'[k][1] = 0 /\ ver'[k][2] = adminSeq'
        BY <1>2, <1>3, <1>4, <3>1
      <4>2. adminSeq' \in Nat
        BY <1>1, <1>2
      <4> QED
        BY <4>1, <4>2 DEF Issued
    <3>2. CASE k # m
      BY <1>1, <1>3, <1>6, <3>2 DEF MVCCInv, Versions, Issued
    <3> QED
      BY <3>1, <3>2
  <2>2. \A t \in Tx : \A i \in DOMAIN sim[t].reads : Issued(sim[t].reads[i])'
    BY <1>2, <1>6, RecordedFacts DEF Issued
  <2> QED
    BY <1>2, <2>1, <2>2 DEF Versions
<1>8. Applying'
  BY <1>2 DEF MVCCInv, Applying, Batch, IsBlock, Fresh
<1>9. \A t \in Tx : \A i \in DOMAIN sim[t].reads : sim[t].reads[i] # v
  BY <1>6, RecordedFacts
<1>10. ReadsCurrent'
  <2> SUFFICES ASSUME NEW t \in Tx, NEW i \in DOMAIN sim[t].got,
                      sim[t].got[i] # Nothing, sim[t].reads[i] = ver'[ReadKeys[t][i]]
               PROVE  sim[t].got[i] = kv'[ReadKeys[t][i]]
    BY <1>2 DEF ReadsCurrent
  <2>1. i \in DOMAIN sim[t].reads /\ ReadKeys[t][i] \in Key
    BY RecordedFacts
  <2>2. ReadKeys[t][i] # m
    BY <1>3, <1>9, <2>1
  <2> QED
    BY <1>3, <2>1, <2>2 DEF MVCCInv, ReadsCurrent
<1>11. Effective'
  <2> SUFFICES ASSUME NEW t \in Tx, valid[t] > 0
               PROVE  \A i \in DOMAIN ReadKeys[t] : Rewrites(t, i) => Superseded(t, i)'
    BY <1>2 DEF MVCCInv, Effective, Done, Rewrites
  <2> SUFFICES ASSUME NEW i \in DOMAIN ReadKeys[t], Rewrites(t, i)
               PROVE  Superseded(t, i)'
    OBVIOUS
  <2>1. i \in DOMAIN sim[t].reads /\ ReadKeys[t][i] \in Key
    BY RecordedFacts DEF Rewrites
  <2>2. Superseded(t, i)
    BY DEF MVCCInv, Effective, Done
  <2>3. ver[ReadKeys[t][i]] # sim[t].reads[i] => ver'[ReadKeys[t][i]] # sim[t].reads[i]
    BY <1>3, <1>9, <2>1
  <2> QED
    BY <1>2, <2>2, <2>3 DEF Superseded
<1> QED
  BY <1>5, <1>7, <1>8, <1>10, <1>11 DEF MVCCInv

(* --- Validation ------------------------------------------------------------ *)

LEMMA OverFacts ==
  ASSUME NEW f, NEW g
  PROVE  /\ DOMAIN Over(g, f) = DOMAIN f \cup DOMAIN g
         /\ \A k \in DOMAIN g : Over(g, f)[k] = g[k]
         /\ \A k \in DOMAIN f \ DOMAIN g : Over(g, f)[k] = f[k]
BY DEF Over

LEMMA RejectedFields ==
  ASSUME NEW a, IsBlock(a), NEW l
  PROVE  [a EXCEPT !.pos = @ + 1, !.live = l]
           = [busy |-> a.busy, txs |-> a.txs, pos |-> a.pos + 1,
              live |-> l, kv |-> a.kv, ver |-> a.ver]
<1>1. DOMAIN a = {"busy", "txs", "pos", "live", "kv", "ver"}
  BY DEF IsBlock
<1>2. [a EXCEPT !.pos = @ + 1, !.live = l]
        = [x \in DOMAIN a |-> IF x = "live" THEN l ELSE IF x = "pos" THEN a.pos + 1 ELSE a[x]]
  BY <1>1
<1> QED
  BY <1>1, <1>2

LEMMA AcceptedFields ==
  ASSUME NEW a, IsBlock(a), NEW l, NEW f, NEW g
  PROVE  [a EXCEPT !.pos = @ + 1, !.live = l, !.kv = Over(f, @), !.ver = Over(g, @)]
           = [busy |-> a.busy, txs |-> a.txs, pos |-> a.pos + 1,
              live |-> l, kv |-> Over(f, a.kv), ver |-> Over(g, a.ver)]
<1>1. DOMAIN a = {"busy", "txs", "pos", "live", "kv", "ver"}
  BY DEF IsBlock
<1>2. [a EXCEPT !.pos = @ + 1, !.live = l, !.kv = Over(f, @), !.ver = Over(g, @)]
        = [x \in DOMAIN a |-> IF x = "ver" THEN Over(g, a.ver)
                              ELSE IF x = "kv" THEN Over(f, a.kv)
                              ELSE IF x = "live" THEN l
                              ELSE IF x = "pos" THEN a.pos + 1 ELSE a[x]]
  BY <1>1
<1> QED
  BY <1>1, <1>2

\* A version that will not come back makes checkReadSet find a conflict.
LEMMA SupersededConflicts ==
  ASSUME MVCCInv, Batch, apply # Idle, NEW t \in Tx, NEW i \in DOMAIN sim[t].reads,
         Superseded(t, i)
  PROVE  Conflict(t, i)
<1> DEFINE k == ReadKeys[t][i]
<1>1. CASE k \in DOMAIN apply.ver
  <2>1. Fresh(apply.ver[k]) /\ Current(k) = apply.ver[k]
    BY <1>1 DEF Batch, Current
  <2> QED
    BY <2>1, FreshUnread DEF Conflict
<1>2. CASE k \notin DOMAIN apply.ver
  BY <1>2 DEF Superseded, Conflict, Current
<1> QED
  BY <1>1, <1>2

\* What a step of the block in progress may do to overlay and batch.
Extends ==
  /\ apply # Idle /\ apply' # Idle
  /\ DOMAIN apply.ver \subseteq DOMAIN apply'.ver
  /\ \A k \in DOMAIN apply'.live \ DOMAIN apply'.ver :
       IF k \in DOMAIN apply.live THEN apply'.live[k] = apply.live[k]
       ELSE apply'.live[k] = ver[k]
  /\ ver' = ver /\ sim' = sim

LEMMA StillSuperseded ==
  ASSUME Extends, NEW t \in Tx, NEW i \in DOMAIN ReadKeys[t], Superseded(t, i)
  PROVE  Superseded(t, i)'
BY DEF Extends, Superseded

\* A transaction found valid is not found valid again if it rewrites a key.
LEMMA ValidateTxKeeps ==
  ASSUME MVCCInv, ValidateTx
  PROVE  MVCCInv'
<1> DEFINE t == apply.txs[apply.pos]
           looked == [k \in Looked(t) |-> Current(k)]
           cached == Over(looked, apply.live)
           writes == Effect(t, sim[t].got)
           stamps == [k \in DOMAIN writes |-> <<height, apply.pos - 1>>]
           conflict == \E i \in DOMAIN ReadKeys[t] : Conflict(t, i)
           rejected == [busy |-> apply.busy, txs |-> apply.txs, pos |-> apply.pos + 1,
                        live |-> cached, kv |-> apply.kv, ver |-> apply.ver]
           accepted == [busy |-> apply.busy, txs |-> apply.txs, pos |-> apply.pos + 1,
                        live |-> Over(stamps, cached),
                        kv |-> Over(writes, apply.kv), ver |-> Over(stamps, apply.ver)]
<1>1. apply # Idle /\ Batch
  BY BusyFacts DEF ValidateTx
<1>2. /\ apply.txs \in Seq(Tx) /\ apply.pos \in Nat \ {0} /\ apply.pos <= Len(apply.txs)
      /\ UNCHANGED <<kv, ver, sim, height, mint, adminSeq>>
      /\ height \in Nat
  BY <1>1 DEF Batch, ValidateTx, MVCCInv, Shape
<1>3. t \in Tx /\ sim[t].pc = "endorsed"
  <2>1. apply.pos \in DOMAIN apply.txs
    BY <1>2, LenProperties
  <2> QED
    BY <1>1, <1>2, <2>1 DEF Batch
<1>4. /\ DOMAIN cached = Looked(t) \cup DOMAIN apply.live
      /\ \A k \in DOMAIN apply.live : cached[k] = apply.live[k]
      /\ \A k \in DOMAIN cached \ DOMAIN apply.live : cached[k] = ver[k]
  <2>1. DOMAIN looked = Looked(t)
    OBVIOUS
  <2>2. \A k \in DOMAIN looked :
          looked[k] = IF k \in DOMAIN apply.live THEN apply.live[k] ELSE ver[k]
    BY DEF Current
  <2>3. cached = Over(looked, apply.live)
    OBVIOUS
  <2> HIDE DEF looked, cached
  <2>4. /\ DOMAIN cached = DOMAIN looked \cup DOMAIN apply.live
        /\ \A k \in DOMAIN looked : cached[k] = looked[k]
        /\ \A k \in DOMAIN apply.live \ DOMAIN looked : cached[k] = apply.live[k]
    BY <2>3 DEF Over
  <2> QED
    BY <2>1, <2>2, <2>4
<1>5. /\ conflict => apply' = rejected /\ valid' = valid
      /\ ~conflict => apply' = accepted /\ valid' = [valid EXCEPT ![t] = @ + 1]
  <2> HIDE DEF cached, writes, stamps
  <2>1. IsBlock(apply)
    BY <1>1 DEF Batch
  <2>2. [apply EXCEPT !.pos = @ + 1, !.live = cached] = rejected
    BY <2>1, RejectedFields, Zenon
  <2>3. [apply EXCEPT !.pos = @ + 1, !.live = Over(stamps, cached),
                      !.kv = Over(writes, @), !.ver = Over(stamps, @)] = accepted
    <3> DEFINE all == \A l : [apply EXCEPT !.pos = @ + 1, !.live = l,
                                      !.kv = Over(writes, @), !.ver = Over(stamps, @)]
                             = [busy |-> apply.busy, txs |-> apply.txs, pos |-> apply.pos + 1,
                                live |-> l, kv |-> Over(writes, apply.kv),
                                ver |-> Over(stamps, apply.ver)]
    <3>1. all
      BY <2>1, AcceptedFields
    <3> QED
      BY <3>1, Zenon
  <2> HIDE DEF rejected, accepted
  <2> QED
    BY <2>2, <2>3 DEF ValidateTx, Stamped, cached, writes, stamps
<1>6. \A k \in DOMAIN stamps : Fresh(stamps[k])
  BY <1>2 DEF Fresh
<1>7. DOMAIN stamps = DOMAIN writes
  OBVIOUS
<1> HIDE DEF looked, cached, writes, stamps, conflict
<1>8. /\ DOMAIN Over(stamps, apply.ver) = DOMAIN apply.ver \cup DOMAIN stamps
      /\ \A k \in DOMAIN stamps : Over(stamps, apply.ver)[k] = stamps[k]
      /\ \A k \in DOMAIN apply.ver \ DOMAIN stamps : Over(stamps, apply.ver)[k] = apply.ver[k]
      /\ DOMAIN Over(writes, apply.kv) = DOMAIN apply.kv \cup DOMAIN writes
      /\ DOMAIN Over(stamps, cached) = DOMAIN cached \cup DOMAIN stamps
      /\ \A k \in DOMAIN stamps : Over(stamps, cached)[k] = stamps[k]
      /\ \A k \in DOMAIN cached \ DOMAIN stamps : Over(stamps, cached)[k] = cached[k]
  BY ZenonT(30), OverFacts
<1>9. apply' # Idle
  <2>1. apply.busy
    BY <1>1 DEF Batch
  <2>2. apply'.busy = apply.busy
    BY <1>5
  <2>3. apply'.busy
    BY <2>1, <2>2, Zenon
  <2> QED
    BY <2>3 DEF Idle
<1>10. Shape'
  <2>1. valid' \in [Tx -> Nat]
    <3>1. valid \in [Tx -> Nat]
      BY DEF MVCCInv, Shape
    <3>2. valid' = valid \/ valid' = [valid EXCEPT ![t] = @ + 1]
      BY <1>5
    <3> HIDE DEF t
    <3> QED
      BY <1>3, <3>1, <3>2
  <2> QED
    BY <1>2, <2>1 DEF MVCCInv, Shape
<1>11. Versions'
  BY <1>1, <1>2, <1>9 DEF MVCCInv, Versions, Issued
<1>12. Applying'
  <2>1. CASE conflict
    BY <1>1, <1>2, <1>4, <1>5, <2>1 DEF Applying, Batch, IsBlock, Fresh
  <2>2. CASE ~conflict
    <3>1. apply' = accepted
      BY <1>5, <2>2
    <3>2. DOMAIN apply'.kv = DOMAIN apply'.ver
      BY <1>1, <1>7, <1>8, <3>1 DEF Batch
    <3>3. ASSUME NEW k \in DOMAIN apply'.ver
          PROVE  Fresh(apply'.ver[k]) /\ k \in DOMAIN apply'.live /\ apply'.live[k] = apply'.ver[k]
      <4>1. CASE k \in DOMAIN stamps
        BY <1>6, <1>8, <3>1, <4>1
      <4>2. CASE k \notin DOMAIN stamps
        <5>1. k \in DOMAIN apply.ver /\ apply'.ver[k] = apply.ver[k]
          BY <1>8, <3>1, <4>2
        <5>2. k \in DOMAIN cached /\ cached[k] = apply.ver[k] /\ Fresh(apply.ver[k])
          BY <1>1, <1>4, <5>1 DEF Batch
        <5> QED
          BY <1>8, <3>1, <4>2, <5>1, <5>2
      <4> QED
        BY <4>1, <4>2
    <3>4. /\ IsBlock(apply)' /\ apply'.busy = apply.busy
          /\ apply'.txs = apply.txs /\ apply'.pos = apply.pos + 1
      BY <3>1 DEF IsBlock
    <3> QED
      BY <1>1, <1>2, <3>2, <3>3, <3>4 DEF Applying, Batch, IsBlock, Fresh
  <2> QED
    BY <2>1, <2>2
<1>13. ReadsCurrent'
  BY <1>2 DEF MVCCInv, ReadsCurrent
<1>14. Extends
  <2>1. CASE conflict
    BY <1>1, <1>2, <1>4, <1>5, <1>9, <2>1 DEF Extends
  <2>2. CASE ~conflict
    BY <1>1, <1>2, <1>4, <1>5, <1>8, <1>9, <2>2 DEF Extends
  <2> QED
    BY <2>1, <2>2
<1>15. Effective'
  <2> SUFFICES ASSUME NEW u \in Tx
               PROVE  Done(u)'
    BY DEF Effective
  <2>1. Done(u) /\ valid[u] \in Nat /\ valid \in [Tx -> Nat]
    BY DEF MVCCInv, Effective, Shape
  <2>2. \A i \in DOMAIN ReadKeys[u] : Superseded(u, i) => Superseded(u, i)'
    BY <1>14, StillSuperseded
  <2>3. CASE valid'[u] = valid[u]
    BY <1>2, <2>1, <2>2, <2>3 DEF Done, Rewrites
  <2>4. CASE valid'[u] # valid[u]
    <3>1. u = t /\ ~conflict /\ apply' = accepted /\ valid'[u] = valid[u] + 1
      BY <1>3, <1>5, <2>1, <2>4
    <3>2. ASSUME NEW i \in DOMAIN ReadKeys[u], Rewrites(u, i)
          PROVE  Superseded(u, i)' /\ valid[u] = 0
      <4>1. i \in DOMAIN sim[u].reads
        BY <1>3, <3>1, RecordedFacts
      <4>2. ~Conflict(u, i)
        BY <3>1 DEF conflict
      <4>3. ~Superseded(u, i)
        BY <1>1, <4>1, <4>2, SupersededConflicts
      <4>4. valid[u] = 0
        BY <2>1, <3>2, <4>3 DEF Done
      <4>5. ReadKeys[u][i] \in DOMAIN apply'.ver
        BY <1>7, <1>8, <3>1, <3>2 DEF Rewrites, writes
      <4> QED
        BY <1>9, <4>4, <4>5 DEF Superseded
    <3>3. sim'[u].pc = "endorsed" /\ \A i \in DOMAIN ReadKeys[u] : Rewrites(u, i)' = Rewrites(u, i)
      BY <1>2, <1>3, <3>1 DEF Rewrites
    <3>4. \A i \in DOMAIN ReadKeys[u] : Rewrites(u, i) => Superseded(u, i)'
      BY <3>2
    <3>5. \A i \in DOMAIN ReadKeys[u] : Rewrites(u, i) => valid'[u] <= 1
      BY <3>1, <3>2
    <3> HIDE DEF Superseded, Rewrites
    <3> QED
      BY <3>3, <3>4, <3>5 DEF Done
  <2> QED
    BY <2>3, <2>4
<1> QED
  BY <1>10, <1>11, <1>12, <1>13, <1>15 DEF MVCCInv

(* --- The invariant is inductive -------------------------------------------- *)

LEMMA MintReadKeeps ==
  ASSUME MVCCInv, NEW k \in MintKeys, MintRead(k)
  PROVE  MVCCInv'
<1>1. /\ UNCHANGED <<kv, ver, sim, height, apply, valid, adminSeq>>
      /\ mint' = [busy |-> TRUE, key |-> k, bal |-> IF kv[k] = Nothing THEN 0 ELSE kv[k]]
      /\ k \in Key
  BY MintAssumption DEF MintRead
<1>2. mint'.busy /\ mint'.key = k
  BY <1>1
<1>3. Shape'
  BY <1>1, <1>2 DEF MVCCInv, Shape
<1>4. Versions' /\ ReadsCurrent'
  BY <1>1 DEF MVCCInv, Versions, Issued, ReadsCurrent
<1>5. Applying'
  BY <1>1 DEF MVCCInv, Applying, Batch, IsBlock, Fresh
<1>6. Effective'
  BY <1>1 DEF MVCCInv, Effective, Done, Rewrites, Superseded
<1> QED
  BY <1>3, <1>4, <1>5, <1>6 DEF MVCCInv

LEMMA InitMVCC == Init => MVCCInv
<1> SUFFICES ASSUME Init
             PROVE  MVCCInv
  OBVIOUS
<1> DEFINE start == [pc |-> "probe", size |-> 0, reads |-> <<>>, got |-> <<>>]
<1>1. \A t \in Tx : sim[t] = start
  BY DEF Init
<1>2. ASSUME NEW t \in Tx
      PROVE  Reader(t, start)
  <2>1. ReadKeys[t] \in Seq(Key) /\ ReadKeys[t] # <<>>
    BY ReadAssumption
  <2>2. Len(ReadKeys[t]) \in Nat /\ Len(ReadKeys[t]) # 0
    BY <2>1, EmptySeq, LenProperties
  <2>3. <<>> \in Seq(Version) /\ IsSeq(<<>>) /\ Len(<<>>) = 0
    BY DEF IsSeq
  <2> QED
    BY <2>2, <2>3 DEF Reader, Reading, Phase
<1>3. kv = InitialValue /\ InitialValue \in [Key -> Value]
  BY InitialAssumption DEF Init
<1>4. /\ ver = [k \in Key |-> IF InitialValue[k] = Nothing THEN Missing ELSE <<0, 0>>]
      /\ Missing \in Version /\ <<0, 0>> \in Version
  BY DEF Init, Version
<1>5. Shape
  <2>1. ver \in [Key -> Version]
    BY <1>4
  <2>2. sim = [t \in Tx |-> sim[t]] /\ \A t \in Tx : Reader(t, sim[t])
    BY <1>1, <1>2 DEF Init
  <2> QED
    BY <1>3, <2>1, <2>2 DEF Init, Shape
<1>6. Versions
  BY <1>1, <1>4 DEF Init, Versions, Issued, Missing
<1>7. Applying
  BY DEF Init, Applying
<1>8. ReadsCurrent
  BY <1>1 DEF ReadsCurrent
<1>9. Effective
  BY DEF Init, Effective, Done
<1> QED
  BY <1>5, <1>6, <1>7, <1>8, <1>9 DEF MVCCInv

LEMMA NextMVCC == MVCCInv /\ [Next]_vars => MVCCInv'
<1> SUFFICES ASSUME MVCCInv, [Next]_vars
             PROVE  MVCCInv'
  OBVIOUS
<1>1. ASSUME NEW t \in Tx, Simulate(t)
      PROVE  MVCCInv'
  <2>1. Simulates(t)
    BY <1>1, ProbeValueSimulates, ProbeVersionSimulates, ReadValueSimulates,
       FetchFailsSimulates DEF Simulate
  <2>2. UNCHANGED <<kv, ver, height, apply, valid, mint, adminSeq>>
    BY <1>1 DEF Simulate, ProbeValue, ProbeVersion, ReadValue, FetchFails
  <2> QED
    BY <2>1, <2>2, SimulatesKeeps
<1>2. ASSUME NEW b \in Blocks, BeginBlock(b)
      PROVE  MVCCInv'
  BY <1>2, BeginBlockKeeps
<1>3. CASE ValidateTx
  BY <1>3, ValidateTxKeeps
<1>4. CASE WriteBatch
  BY <1>4, WriteBatchKeeps
<1>5. ASSUME NEW k \in MintKeys, MintRead(k)
      PROVE  MVCCInv'
  BY <1>5, MintReadKeeps
<1>6. CASE MintWrite
  BY <1>6, MintWriteKeeps
<1>7. CASE UNCHANGED vars
  <2>1. UNCHANGED <<kv, ver, sim, height, apply, valid, mint, adminSeq>>
    BY <1>7 DEF vars
  <2>2. Shape' /\ Versions' /\ ReadsCurrent'
    BY <2>1 DEF MVCCInv, Shape, Versions, Issued, ReadsCurrent
  <2>3. Applying'
    BY <2>1 DEF MVCCInv, Applying, Batch, IsBlock, Fresh
  <2>4. Effective'
    BY <2>1 DEF MVCCInv, Effective, Done, Rewrites, Superseded
  <2> QED
    BY <2>2, <2>3, <2>4 DEF MVCCInv
<1> QED
  BY <1>1, <1>2, <1>3, <1>4, <1>5, <1>6, <1>7 DEF Next

\* The versions of a read set are honest about the values of a simulation, and
\* the transactions found valid are superseded: always.
THEOREM MVCCAlways == Spec => []MVCCInv
<1> QED
  BY InitMVCC, NextMVCC, PTL DEF Spec

\* A version that checkReadSet still finds current vouches for the value the
\* contract computed with, although the probe that recorded the version and
\* the read that fetched the value are separate calls, and each of them two
\* database reads (engine.go GetState, server.go handleKVGet).
THEOREM ReadsCurrentAlways == Spec => []ReadsCurrent
<1>1. MVCCInv => ReadsCurrent
  BY DEF MVCCInv
<1> QED
  BY <1>1, MVCCAlways, PTL

\* Ordered twice, in one block or in two, a transaction that rewrites what it
\* read takes effect once (committer.go ApplyBlock).
THEOREM AppliedOnceAlways == Spec => []AppliedOnce
<1>1. MVCCInv => AppliedOnce
  <2> SUFFICES ASSUME MVCCInv, NEW t \in Tx, sim[t].pc = "endorsed",
                      NEW i \in DOMAIN ReadKeys[t],
                      ReadKeys[t][i] \in DOMAIN Effect(t, sim[t].got)
               PROVE  valid[t] <= 1
    BY DEF AppliedOnce
  <2> QED
    BY DEF MVCCInv, Effective, Done, Rewrites
<1> QED
  BY <1>1, MVCCAlways, PTL

(* --- Types ------------------------------------------------------------------ *)

\* What the types rest on: contracts write values, and values have lengths.
WritesValues ==
  \A t \in Tx : \A got \in Seq(Value) :
    Len(got) = Len(ReadKeys[t]) /\ Effect(t, got) # Rejected =>
      \A k \in DOMAIN Effect(t, got) : Effect(t, got)[k] \in Value

HaveSizes == \A v \in Value : Size(v) \in Nat

Verdicts == \A t \in Tx : sim[t].pc = "endorsed" => Effect(t, sim[t].got) # Rejected

BatchTyped == apply # Idle => \A k \in DOMAIN apply.kv : apply.kv[k] \in Value

MintBudget == adminSeq + (IF mint = Idle THEN 0 ELSE 1) <= mints

TypeInv == TypeOK /\ Verdicts /\ BatchTyped /\ MintBudget

LEMMA InitType == Init => TypeInv
<1> SUFFICES ASSUME Init
             PROVE  TypeInv
  OBVIOUS
<1> DEFINE start == [pc |-> "probe", size |-> 0, reads |-> <<>>, got |-> <<>>]
<1>1. start \in Simulation
  BY DEF Simulation, Phase
<1>2. sim = [t \in Tx |-> start]
  BY DEF Init
<1> HIDE DEF start
<1>3. sim \in [Tx -> Simulation]
  BY <1>1, <1>2
<1>4. kv \in [Key -> Value] /\ ver \in [Key -> Version]
  BY InitMVCC, InitialAssumption DEF Init, MVCCInv, Shape
<1>5. TypeOK
  BY <1>3, <1>4, BoundAssumption DEF Init, TypeOK
<1>6. Verdicts /\ BatchTyped /\ MintBudget
  BY DEF Init, Verdicts, BatchTyped, MintBudget
<1> QED
  BY <1>5, <1>6 DEF TypeInv

\* The contract goes on with a value.
LEMMA ContinueTyped ==
  ASSUME MVCCInv, TypeInv, NEW t \in Tx, Reading(sim[t]),
         NEW r \in Seq(Version), NEW v \in Value, Continue(t, r, v)
  PROVE  sim' \in [Tx -> Simulation] /\ Verdicts'
<1> DEFINE got == Append(sim[t].got, v)
           pc == IF ~(Len(got) = Len(ReadKeys[t])) THEN "probe"
                 ELSE IF Effect(t, got) = Rejected THEN "rejected" ELSE "endorsed"
           s == [pc |-> pc, size |-> 0, reads |-> r, got |-> got]
<1>1. sim \in [Tx -> Simulation]
  BY DEF TypeInv, TypeOK
<1>2. got \in Seq(Value)
  BY <1>1 DEF Simulation
<1>3. sim' = [sim EXCEPT ![t] = s]
  BY DEF Continue
<1>4. pc \in Phase
  BY DEF Phase
<1>5. pc = "endorsed" => Effect(t, got) # Rejected
  OBVIOUS
<1> HIDE DEF got, pc
<1>6. s \in Simulation
  BY <1>2, <1>4 DEF Simulation
<1>7. s.pc = pc /\ s.got = got
  OBVIOUS
<1> HIDE DEF s
<1>8. sim' \in [Tx -> Simulation]
  BY <1>1, <1>3, <1>6
<1>9. Verdicts'
  BY <1>1, <1>3, <1>5, <1>7 DEF TypeInv, Verdicts
<1> QED
  BY <1>8, <1>9

LEMMA SimulateTyped ==
  ASSUME HaveSizes, MVCCInv, TypeInv, NEW t \in Tx, Simulate(t)
  PROVE  sim' \in [Tx -> Simulation] /\ Verdicts'
<1>1. /\ kv \in [Key -> Value] /\ ver \in [Key -> Version]
      /\ sim \in [Tx -> Simulation] /\ Verdicts
  BY DEF TypeInv, TypeOK
<1>2. Reading(sim[t])
  BY DEF Simulate, ProbeValue, ProbeVersion, ReadValue, FetchFails, Reading
<1>3. KeyOf(t) \in Key
  BY <1>2, ReaderFacts
<1>4. kv[KeyOf(t)] \in Value /\ ver[KeyOf(t)] \in Version
  BY <1>1, <1>3
<1>5. Missing \in Version /\ Nothing \in Value
  BY DEF Version, Value
<1>6. sim[t].reads \in Seq(Version)
  BY <1>1 DEF Simulation
<1>7. CASE ProbeValue(t)
  <2>1. CASE ver[KeyOf(t)] = Missing
    <3>1. Continue(t, Append(sim[t].reads, Missing), Nothing)
      BY <1>7, <2>1 DEF ProbeValue
    <3>2. Append(sim[t].reads, Missing) \in Seq(Version)
      BY <1>5, <1>6
    <3> QED
      BY <1>2, <1>5, <3>1, <3>2, ContinueTyped
  <2>2. CASE ver[KeyOf(t)] # Missing
    <3> DEFINE z == Size(kv[KeyOf(t)])
    <3>1. z \in Nat
      BY <1>4 DEF HaveSizes
    <3>2. sim' = [sim EXCEPT ![t] = [sim[t] EXCEPT !.pc = "version", !.size = z]]
      BY <1>1, <1>7, <2>2 DEF ProbeValue
    <3> HIDE DEF z
    <3>3. [sim[t] EXCEPT !.pc = "version", !.size = z] \in Simulation
      BY <1>1, <3>1 DEF Simulation, Phase
    <3>4. [sim[t] EXCEPT !.pc = "version", !.size = z].pc = "version"
      BY <1>1 DEF Simulation
    <3> QED
      BY <1>1, <3>2, <3>3, <3>4 DEF Verdicts
  <2> QED
    BY <2>1, <2>2
<1>8. CASE ProbeVersion(t)
  <2> DEFINE r == Append(sim[t].reads, ver[KeyOf(t)])
  <2>1. r \in Seq(Version)
    BY <1>4, <1>6
  <2>2. CASE sim[t].size = 0
    <3>1. Continue(t, r, Nothing)
      BY <1>8, <2>2 DEF ProbeVersion
    <3> QED
      BY <1>2, <1>5, <2>1, <3>1, ContinueTyped
  <2>3. CASE sim[t].size # 0
    <3>1. sim' = [sim EXCEPT ![t] = [sim[t] EXCEPT !.pc = "value", !.reads = r]]
      BY <1>1, <1>8, <2>3 DEF ProbeVersion
    <3> HIDE DEF r
    <3>2. [sim[t] EXCEPT !.pc = "value", !.reads = r] \in Simulation
      BY <1>1, <2>1 DEF Simulation, Phase
    <3>3. [sim[t] EXCEPT !.pc = "value", !.reads = r].pc = "value"
      BY <1>1 DEF Simulation
    <3> QED
      BY <1>1, <3>1, <3>2, <3>3 DEF Verdicts
  <2> QED
    BY <2>2, <2>3
<1>9. CASE ReadValue(t)
  <2> DEFINE v == IF Size(kv[KeyOf(t)]) <= sim[t].size THEN kv[KeyOf(t)] ELSE Nothing
  <2>1. Continue(t, sim[t].reads, v)
    BY <1>9 DEF ReadValue
  <2>2. v \in Value
    BY <1>4, <1>5
  <2> HIDE DEF v
  <2> QED
    BY <1>2, <1>6, <2>1, <2>2, ContinueTyped
<1>10. CASE FetchFails(t)
  <2> DEFINE r == IF sim[t].pc = "value" THEN sim[t].reads ELSE Append(sim[t].reads, Missing)
  <2>1. Continue(t, r, Nothing)
    BY <1>10 DEF FetchFails
  <2>2. r \in Seq(Version)
    BY <1>5, <1>6
  <2> HIDE DEF r
  <2> QED
    BY <1>2, <1>5, <2>1, <2>2, ContinueTyped
<1> QED
  BY <1>7, <1>8, <1>9, <1>10 DEF Simulate

\* One transaction of the block: what the types of the batch depend on.
LEMMA ValidateTyped ==
  ASSUME WritesValues, MVCCInv, TypeInv, ValidateTx
  PROVE  /\ apply'.busy /\ apply'.txs \in Blocks /\ apply'.pos \in 1..(Len(apply'.txs) + 1)
         /\ BatchTyped'
         /\ valid' \in [Tx -> Nat]
<1> DEFINE t == apply.txs[apply.pos]
           looked == [k \in Looked(t) |-> Current(k)]
           cached == Over(looked, apply.live)
           writes == Effect(t, sim[t].got)
           stamps == [k \in DOMAIN writes |-> <<height, apply.pos - 1>>]
           rejected == [busy |-> apply.busy, txs |-> apply.txs, pos |-> apply.pos + 1,
                        live |-> cached, kv |-> apply.kv, ver |-> apply.ver]
           accepted == [busy |-> apply.busy, txs |-> apply.txs, pos |-> apply.pos + 1,
                        live |-> Over(stamps, cached),
                        kv |-> Over(writes, apply.kv), ver |-> Over(stamps, apply.ver)]
<1>1. apply # Idle /\ Batch
  BY BusyFacts DEF ValidateTx
<1>2. /\ apply.txs \in Seq(Tx) /\ apply.pos \in Nat \ {0} /\ apply.pos <= Len(apply.txs)
      /\ apply.txs \in Blocks /\ apply.busy
  BY <1>1 DEF Batch, ValidateTx, TypeInv, TypeOK
<1>3. t \in Tx /\ sim[t].pc = "endorsed"
  <2>1. apply.pos \in DOMAIN apply.txs
    BY <1>2, LenProperties
  <2> QED
    BY <1>1, <1>2, <2>1 DEF Batch
<1>4. \/ apply' = rejected /\ valid' = valid
      \/ apply' = accepted /\ valid' = [valid EXCEPT ![t] = @ + 1]
  <2> HIDE DEF cached, writes, stamps
  <2>1. IsBlock(apply)
    BY <1>1 DEF Batch
  <2>2. [apply EXCEPT !.pos = @ + 1, !.live = cached] = rejected
    BY <2>1, RejectedFields, Zenon
  <2>3. [apply EXCEPT !.pos = @ + 1, !.live = Over(stamps, cached),
                      !.kv = Over(writes, @), !.ver = Over(stamps, @)] = accepted
    <3>1. \A l : [apply EXCEPT !.pos = @ + 1, !.live = l,
                               !.kv = Over(writes, @), !.ver = Over(stamps, @)]
                   = [busy |-> apply.busy, txs |-> apply.txs, pos |-> apply.pos + 1, live |-> l,
                      kv |-> Over(writes, apply.kv), ver |-> Over(stamps, apply.ver)]
      BY <2>1, AcceptedFields
    <3> QED
      BY <3>1, Zenon
  <2> HIDE DEF rejected, accepted
  <2> QED
    BY <2>2, <2>3 DEF ValidateTx, Stamped, cached, writes, stamps
<1>5. \A k \in DOMAIN writes : writes[k] \in Value
  <2>1. sim[t].got \in Seq(Value)
    BY <1>3 DEF TypeInv, TypeOK, Simulation
  <2>2. writes # Rejected
    BY <1>3 DEF TypeInv, Verdicts
  <2>3. Len(sim[t].got) = Len(ReadKeys[t])
    BY <1>3 DEF MVCCInv, Shape, Reader, Reading
  <2> HIDE DEF t
  <2> QED
    BY <1>3, <2>1, <2>2, <2>3 DEF WritesValues
<1> HIDE DEF cached, writes, stamps
<1>6. \A k \in DOMAIN Over(writes, apply.kv) : Over(writes, apply.kv)[k] \in Value
  <2>1. \A k \in DOMAIN apply.kv : apply.kv[k] \in Value
    BY <1>1 DEF TypeInv, BatchTyped
  <2>2. \A k \in DOMAIN Over(writes, apply.kv) :
          \/ k \in DOMAIN writes /\ Over(writes, apply.kv)[k] = writes[k]
          \/ k \in DOMAIN apply.kv /\ Over(writes, apply.kv)[k] = apply.kv[k]
    BY DEF Over
  <2> QED
    BY <1>5, <2>1, <2>2
<1>7. /\ apply'.busy = apply.busy /\ apply'.txs = apply.txs /\ apply'.pos = apply.pos + 1
      /\ apply'.kv = apply.kv \/ apply'.kv = Over(writes, apply.kv)
  BY <1>4
<1>8. apply'.busy
  BY <1>2, <1>7, Zenon
<1>9. apply'.pos \in 1..(Len(apply'.txs) + 1)
  BY <1>2, <1>7, LenProperties
<1>10. BatchTyped'
  BY <1>1, <1>6, <1>7 DEF TypeInv, BatchTyped
<1>11. valid' \in [Tx -> Nat]
  <2>1. valid \in [Tx -> Nat]
    BY DEF MVCCInv, Shape
  <2>2. valid' = valid \/ valid' = [valid EXCEPT ![t] = @ + 1]
    BY <1>4
  <2> HIDE DEF t
  <2> QED
    BY <1>3, <2>1, <2>2
<1> QED
  BY <1>2, <1>7, <1>8, <1>9, <1>10, <1>11

LEMMA NextType ==
  ASSUME WritesValues, HaveSizes
  PROVE  TypeInv /\ MVCCInv /\ MVCCInv' /\ [Next]_vars => TypeInv'
<1> SUFFICES ASSUME TypeInv, MVCCInv, MVCCInv', [Next]_vars
             PROVE  TypeInv'
  OBVIOUS
<1>1. ASSUME NEW t \in Tx, Simulate(t)
      PROVE  TypeInv'
  <2>1. sim' \in [Tx -> Simulation] /\ Verdicts'
    BY <1>1, SimulateTyped
  <2>2. /\ UNCHANGED <<kv, ver, height, apply, valid, mint, adminSeq, mints>>
        /\ failures' = failures \/ (failures < MaxFailures /\ failures' = failures + 1)
    BY <1>1 DEF Simulate, ProbeValue, ProbeVersion, ReadValue, FetchFails
  <2>3. failures' \in 0..MaxFailures
    BY <2>2, BoundAssumption DEF TypeInv, TypeOK
  <2>4. TypeOK'
    BY <2>1, <2>2, <2>3 DEF TypeInv, TypeOK
  <2> QED
    BY <2>1, <2>2, <2>4 DEF TypeInv, BatchTyped, MintBudget
<1>2. ASSUME NEW b \in Blocks, BeginBlock(b)
      PROVE  TypeInv'
  <2>1. /\ UNCHANGED <<kv, ver, sim, valid, mint, adminSeq, failures, mints>>
        /\ height < MaxHeight /\ height' = height + 1
        /\ apply' = [busy |-> TRUE, txs |-> b, pos |-> 1,
                     live |-> <<>>, kv |-> <<>>, ver |-> <<>>]
        /\ b \in Seq(Tx)
    BY <1>2, BlockAssumption DEF BeginBlock
  <2>2. apply'.busy /\ apply'.txs = b /\ apply'.pos = 1 /\ DOMAIN apply'.kv = {}
    BY <2>1
  <2>3. apply'.pos \in 1..(Len(apply'.txs) + 1)
    BY <2>1, <2>2, LenProperties
  <2>4. height' \in 0..MaxHeight
    BY <2>1, BoundAssumption DEF TypeInv, TypeOK
  <2>5. TypeOK'
    BY <2>1, <2>2, <2>3, <2>4 DEF TypeInv, TypeOK
  <2> QED
    BY <2>1, <2>2, <2>5 DEF TypeInv, Verdicts, BatchTyped, MintBudget
<1>3. CASE ValidateTx
  <2>1. UNCHANGED <<kv, ver, sim, height, mint, adminSeq, failures, mints>>
    BY <1>3 DEF ValidateTx
  <2>2. TypeOK' /\ BatchTyped'
    BY <1>3, <2>1, ValidateTyped DEF TypeInv, TypeOK
  <2> QED
    BY <2>1, <2>2 DEF TypeInv, Verdicts, MintBudget
<1>4. CASE WriteBatch
  <2>1. /\ UNCHANGED <<sim, height, valid, mint, adminSeq, failures, mints>>
        /\ kv' = [k \in Key |-> IF k \in DOMAIN apply.kv THEN apply.kv[k] ELSE kv[k]]
        /\ apply' = Idle /\ apply # Idle
    BY <1>4, BusyFacts DEF WriteBatch
  <2>2. kv' \in [Key -> Value]
    BY <2>1 DEF TypeInv, TypeOK, BatchTyped
  <2>3. ver' \in [Key -> Version]
    BY DEF MVCCInv, Shape
  <2>4. TypeOK'
    BY <2>1, <2>2, <2>3 DEF TypeInv, TypeOK
  <2> QED
    BY <2>1, <2>4 DEF TypeInv, Verdicts, BatchTyped, MintBudget
<1>5. ASSUME NEW k \in MintKeys, MintRead(k)
      PROVE  TypeInv'
  <2>1. /\ UNCHANGED <<kv, ver, sim, height, apply, valid, adminSeq, failures>>
        /\ mint = Idle /\ mints < MaxMints /\ mints' = mints + 1
        /\ mint' = [busy |-> TRUE, key |-> k, bal |-> IF kv[k] = Nothing THEN 0 ELSE kv[k]]
        /\ k \in Key
    BY <1>5, MintAssumption DEF MintRead
  <2>2. kv[k] \in Value
    BY <2>1 DEF TypeInv, TypeOK
  <2>3. mint'.busy /\ mint'.key \in Key /\ mint'.bal \in Nat
    BY <2>1, <2>2 DEF Value
  <2>4. mints' \in 0..MaxMints /\ MintBudget'
    BY <2>1, BoundAssumption DEF TypeInv, TypeOK, MintBudget
  <2>5. TypeOK'
    BY <2>1, <2>3, <2>4 DEF TypeInv, TypeOK
  <2> QED
    BY <2>1, <2>4, <2>5 DEF TypeInv, Verdicts, BatchTyped
<1>6. CASE MintWrite
  <2>1. /\ UNCHANGED <<sim, height, apply, valid, failures, mints>>
        /\ kv' = [kv EXCEPT ![mint.key] = mint.bal + 1]
        /\ adminSeq' = adminSeq + 1 /\ mint # Idle /\ mint' = Idle
    BY <1>6 DEF MintWrite, Idle
  <2>2. mint.key \in Key /\ mint.bal \in Nat
    BY <2>1 DEF TypeInv, TypeOK
  <2>3. mint.bal + 1 \in Value
    BY <2>2 DEF Value
  <2>4. kv' \in [Key -> Value]
    BY <2>1, <2>2, <2>3 DEF TypeInv, TypeOK
  <2>5. ver' \in [Key -> Version]
    BY DEF MVCCInv, Shape
  <2>6. adminSeq' \in 0..MaxMints /\ MintBudget'
    BY <2>1, BoundAssumption DEF TypeInv, TypeOK, MintBudget
  <2>7. TypeOK'
    BY <2>1, <2>4, <2>5, <2>6 DEF TypeInv, TypeOK
  <2> QED
    BY <2>1, <2>6, <2>7 DEF TypeInv, Verdicts, BatchTyped
<1>7. CASE UNCHANGED vars
  BY <1>7 DEF vars, TypeInv, TypeOK, Verdicts, BatchTyped, MintBudget
<1> QED
  BY <1>1, <1>2, <1>3, <1>4, <1>5, <1>6, <1>7 DEF Next

\* If contracts write values and values have lengths, the state is well typed
\* and its bounds hold.
THEOREM TypeCorrect ==
  ASSUME WritesValues, HaveSizes
  PROVE  Spec => []TypeOK
<1>1. Init => TypeInv
  BY InitType
<1>2. TypeInv /\ MVCCInv /\ MVCCInv' /\ [Next]_vars => TypeInv'
  BY NextType
<1>3. TypeInv => TypeOK
  BY DEF TypeInv
<1> QED
  BY <1>1, <1>2, <1>3, MVCCAlways, PTL DEF Spec

(* --- Sums of money --------------------------------------------------------- *)

Amount(v) == IF v = Nothing THEN 0 ELSE v

\* What the keys in S hold in f: Total(f) is Worth(f, Money).
Worth(f, S) == MapThenSumSet(LAMBDA k : IF f[k] = Nothing THEN 0 ELSE f[k], S)

Amounts(f, S) == \A k \in S : Amount(f[k]) \in Nat

\* MapThenSumSet takes the elements out one by one, in an order of its own.
Chosen(S) == CHOOSE k \in S : TRUE

IsSums(f, S, g) ==
  g = [s \in SUBSET S |->
         IF s = {} THEN 0 ELSE Amount(f[Chosen(s)]) + g[s \ {Chosen(s)}]]

Sums(f, S) == CHOOSE g : IsSums(f, S, g)

LEMMA WorthIsSum ==
  ASSUME NEW f, NEW S
  PROVE  Worth(f, S) = Sums(f, S)[S]
BY DEF Worth, MapThenSumSet, MapThenFoldSet, Sums, IsSums, Amount, Chosen

\* A set of finite sets has a member that includes no other.
LEMMA LeastSet ==
  ASSUME NEW S, IsFiniteSet(S), NEW T, T \subseteq SUBSET S, T # {}
  PROVE  \E A \in T : \A B \in T : B \subseteq A => B = A
<1>1. IsWellFoundedOn(StrictSubsetOrdering(S), SUBSET S)
  BY FS_StrictSubsetOrderingWellFounded, FS_FiniteSubsetsOfFinite
<1>2. PICK A \in T : \A B \in T : ~(<<B, A>> \in StrictSubsetOrdering(S))
  BY <1>1, WFMin
<1>3. \A B \in T : B \subseteq A /\ B # A => <<B, A>> \in StrictSubsetOrdering(S)
  BY DEF StrictSubsetOrdering
<1>4. \A B \in T : B \subseteq A => B = A
  BY <1>2, <1>3
<1> QED
  BY <1>4

\* Every non-empty set of naturals has a least element.
LEMMA LeastNatural ==
  ASSUME NEW T, T \subseteq Nat, T # {}
  PROVE  \E x \in T : \A y \in T : x <= y
<1> DEFINE R == OpToRel(<, Nat)
<1>1. IsWellFoundedOn(R, Nat)
  BY NatLessThanWellFounded
<1>2. \A x, y \in Nat : y < x => <<y, x>> \in R
  BY DEF OpToRel
<1> HIDE DEF R
<1>3. PICK x \in T : \A y \in T : ~(<<y, x>> \in R)
  BY <1>1, WFMin
<1>4. \A y \in T : y \in Nat /\ ~(y < x)
  BY <1>2, <1>3
<1>5. \A y \in T : x <= y
  BY <1>4
<1> QED
  BY <1>5

\* The sums of the sets of at most n elements.
Small(S, n) == {s \in SUBSET S : Cardinality(s) <= n}
UpTo(f, S, n, g) ==
  g = [s \in Small(S, n) |->
         IF s = {} THEN 0 ELSE Amount(f[Chosen(s)]) + g[s \ {Chosen(s)}]]

LEMMA SmallerFacts ==
  ASSUME NEW S, IsFiniteSet(S), NEW s \in SUBSET S, s # {}
  PROVE  /\ Chosen(s) \in s
         /\ IsFiniteSet(s) /\ IsFiniteSet(s \ {Chosen(s)})
         /\ Cardinality(s) \in Nat \ {0}
         /\ Cardinality(s \ {Chosen(s)}) = Cardinality(s) - 1
<1>1. Chosen(s) \in s
  BY DEF Chosen
<1>2. IsFiniteSet(s)
  BY FS_Subset
<1>3. IsFiniteSet(s \ {Chosen(s)}) /\ Cardinality(s \ {Chosen(s)}) = Cardinality(s) - 1
  BY <1>1, <1>2, FS_RemoveElement
<1>4. Cardinality(s) \in Nat /\ Cardinality(s) # 0
  BY <1>2, FS_CardinalityType, FS_EmptySet
<1> QED
  BY <1>1, <1>2, <1>3, <1>4

LEMMA SumsUpTo ==
  ASSUME NEW f, NEW S, IsFiniteSet(S), NEW n \in Nat
  PROVE  \E g : UpTo(f, S, n, g)
<1> DEFINE Bad == {m \in Nat : ~ \E g : UpTo(f, S, m, g)}
<1> SUFFICES ASSUME Bad # {}
             PROVE  FALSE
  OBVIOUS
<1>1. PICK m \in Bad : \A i \in Bad : m <= i
  <2>1. Bad \subseteq Nat
    OBVIOUS
  <2> HIDE DEF Bad
  <2> QED
    BY <2>1, LeastNatural
<1>2. CASE m = 0
  <2> DEFINE g == [s \in Small(S, 0) |-> 0]
  <2>1. \A s \in Small(S, 0) : s = {}
    <3> SUFFICES ASSUME NEW s \in Small(S, 0), s # {}
                 PROVE  FALSE
      OBVIOUS
    <3>1. s \in SUBSET S /\ Cardinality(s) <= 0
      BY DEF Small
    <3>2. Cardinality(s) \in Nat \ {0}
      BY <3>1, SmallerFacts
    <3> QED
      BY <3>1, <3>2
  <2>2. UpTo(f, S, 0, g)
    BY <2>1 DEF UpTo
  <2> QED
    BY <1>2, <2>2
<1>3. CASE m # 0
  <2>1. m - 1 \in Nat /\ m - 1 \notin Bad
    BY <1>1, <1>3
  <2>2. PICK g : UpTo(f, S, m - 1, g)
    BY <2>1
  <2> DEFINE h == [s \in Small(S, m) |->
                     IF s = {} THEN 0 ELSE Amount(f[Chosen(s)]) + g[s \ {Chosen(s)}]]
  <2>3. ASSUME NEW r \in Small(S, m - 1)
        PROVE  h[r] = g[r]
    <3>1. r \in Small(S, m)
      <4>1. IsFiniteSet(r) /\ r \in SUBSET S /\ Cardinality(r) <= m - 1
        BY <2>3, FS_Subset DEF Small
      <4>2. Cardinality(r) \in Nat
        BY <4>1, FS_CardinalityType
      <4> QED
        BY <2>1, <4>1, <4>2 DEF Small
    <3>2. g[r] = IF r = {} THEN 0 ELSE Amount(f[Chosen(r)]) + g[r \ {Chosen(r)}]
      BY <2>2 DEF UpTo
    <3> QED
      BY <3>1, <3>2
  <2>4. ASSUME NEW s \in Small(S, m), s # {}
        PROVE  s \ {Chosen(s)} \in Small(S, m - 1)
    <3>1. s \in SUBSET S /\ Cardinality(s) <= m
      BY DEF Small
    <3>2. /\ Chosen(s) \in s /\ Cardinality(s) \in Nat \ {0}
          /\ Cardinality(s \ {Chosen(s)}) = Cardinality(s) - 1
      BY <2>4, <3>1, SmallerFacts
    <3>3. m \in Nat /\ Cardinality(s \ {Chosen(s)}) <= m - 1
      BY <3>1, <3>2
    <3> QED
      BY <3>1, <3>3 DEF Small
  <2>5. UpTo(f, S, m, h)
    <3>1. \A s \in Small(S, m) : s # {} => h[s \ {Chosen(s)}] = g[s \ {Chosen(s)}]
      BY <2>3, <2>4
    <3> HIDE DEF h
    <3>2. h = [s \in Small(S, m) |->
                IF s = {} THEN 0 ELSE Amount(f[Chosen(s)]) + h[s \ {Chosen(s)}]]
      BY <3>1 DEF h
    <3> QED
      BY <3>2 DEF UpTo
  <2> QED
    BY <2>5
<1> QED
  BY <1>2, <1>3

LEMMA SumsRecurse ==
  ASSUME NEW f, NEW S, IsFiniteSet(S)
  PROVE  /\ Sums(f, S)[{}] = 0
         /\ \A s \in SUBSET S :
              s # {} =>
                Sums(f, S)[s] = Amount(f[Chosen(s)]) + Sums(f, S)[s \ {Chosen(s)}]
<1>1. Cardinality(S) \in Nat
  BY FS_CardinalityType
<1>2. PICK g : UpTo(f, S, Cardinality(S), g)
  BY <1>1, SumsUpTo
<1>3. Small(S, Cardinality(S)) = SUBSET S
  BY FS_Subset DEF Small
<1>4. IsSums(f, S, g)
  BY <1>2, <1>3 DEF UpTo, IsSums
<1>5. IsSums(f, S, Sums(f, S))
  BY <1>4 DEF Sums
<1> DEFINE g0 == Sums(f, S)
<1> HIDE DEF g0
<1>6. g0 = [s \in SUBSET S |->
              IF s = {} THEN 0 ELSE Amount(f[Chosen(s)]) + g0[s \ {Chosen(s)}]]
  BY <1>5 DEF IsSums, g0
<1>7. /\ g0[{}] = 0
      /\ \A s \in SUBSET S : s # {} => g0[s] = Amount(f[Chosen(s)]) + g0[s \ {Chosen(s)}]
  BY <1>6
<1> QED
  BY <1>7 DEF g0

\* A sum depends on what the set's elements hold, and on nothing else.
LEMMA SumsAgree ==
  ASSUME NEW f, NEW h, NEW S, NEW T, IsFiniteSet(S), IsFiniteSet(T),
         NEW A, A \subseteq S, A \subseteq T,
         \A k \in A : Amount(f[k]) = Amount(h[k])
  PROVE  Sums(f, S)[A] = Sums(h, T)[A]
<1> DEFINE u == Sums(f, S)
           v == Sums(h, T)
           Bad == {B \in SUBSET A : u[B] # v[B]}
<1>1. /\ u[{}] = 0 /\ v[{}] = 0
      /\ \A s \in SUBSET S : s # {} => u[s] = Amount(f[Chosen(s)]) + u[s \ {Chosen(s)}]
      /\ \A s \in SUBSET T : s # {} => v[s] = Amount(h[Chosen(s)]) + v[s \ {Chosen(s)}]
  BY SumsRecurse
<1> HIDE DEF u, v
<1> SUFFICES ASSUME Bad # {}
             PROVE  FALSE
  BY DEF u, v
<1>2. PICK B \in Bad : \A D \in Bad : D \subseteq B => D = B
  <2>1. Bad \subseteq SUBSET A /\ IsFiniteSet(A)
    BY FS_Subset
  <2> HIDE DEF Bad
  <2> QED
    BY <2>1, LeastSet
<1>3. B \in SUBSET S /\ B \in SUBSET T /\ B \subseteq A /\ u[B] # v[B]
  OBVIOUS
<1>4. B # {}
  BY <1>1, <1>3
<1>5. Chosen(B) \in B
  BY <1>4 DEF Chosen
<1>6. B \ {Chosen(B)} \notin Bad
  BY <1>2, <1>5
<1>7. u[B \ {Chosen(B)}] = v[B \ {Chosen(B)}]
  BY <1>3, <1>6
<1>8. Amount(f[Chosen(B)]) = Amount(h[Chosen(B)])
  BY <1>3, <1>5
<1>9. /\ u[B] = Amount(f[Chosen(B)]) + u[B \ {Chosen(B)}]
      /\ v[B] = Amount(h[Chosen(B)]) + v[B \ {Chosen(B)}]
  BY <1>1, <1>3, <1>4
<1> HIDE DEF Bad
<1> QED
  BY <1>3, <1>7, <1>8, <1>9

LEMMA WorthSame ==
  ASSUME NEW f, NEW h, NEW S, IsFiniteSet(S), \A k \in S : Amount(f[k]) = Amount(h[k])
  PROVE  Worth(f, S) = Worth(h, S)
BY SumsAgree, WorthIsSum

LEMMA WorthRecurses ==
  ASSUME NEW f
  PROVE  /\ Worth(f, {}) = 0
         /\ \A S : IsFiniteSet(S) /\ S # {} =>
              Worth(f, S) = Amount(f[Chosen(S)]) + Worth(f, S \ {Chosen(S)})
<1>1. Worth(f, {}) = 0
  BY WorthIsSum, SumsRecurse, FS_EmptySet
<1>2. ASSUME NEW S, IsFiniteSet(S), S # {}
      PROVE  Worth(f, S) = Amount(f[Chosen(S)]) + Worth(f, S \ {Chosen(S)})
  <2> DEFINE R == S \ {Chosen(S)}
  <2>1. IsFiniteSet(R) /\ R \subseteq S
    BY <1>2, FS_Subset
  <2> HIDE DEF R
  <2>2. Sums(f, S)[R] = Sums(f, R)[R]
    BY <1>2, <2>1, SumsAgree
  <2>3. Sums(f, S)[S] = Amount(f[Chosen(S)]) + Sums(f, S)[R]
    BY <1>2, SumsRecurse DEF R
  <2>4. Worth(f, S) = Sums(f, S)[S] /\ Worth(f, R) = Sums(f, R)[R]
    BY WorthIsSum
  <2> QED
    BY <2>2, <2>3, <2>4 DEF R
<1> QED
  BY <1>1, <1>2

LEMMA WorthNat ==
  ASSUME NEW f, NEW S, IsFiniteSet(S), Amounts(f, S)
  PROVE  Worth(f, S) \in Nat
<1> DEFINE Bad == {B \in SUBSET S : Worth(f, B) \notin Nat}
<1> SUFFICES ASSUME Bad # {}
             PROVE  FALSE
  OBVIOUS
<1>1. PICK B \in Bad : \A D \in Bad : D \subseteq B => D = B
  <2>1. Bad \subseteq SUBSET S
    OBVIOUS
  <2> HIDE DEF Bad
  <2> QED
    BY <2>1, LeastSet
<1>2. B \in SUBSET S /\ Worth(f, B) \notin Nat
  OBVIOUS
<1>3. B # {} /\ IsFiniteSet(B)
  <2>1. Worth(f, {}) = 0
    BY WorthRecurses
  <2>2. B # {}
    BY <1>2, <2>1
  <2>3. IsFiniteSet(B)
    BY <1>2, FS_Subset
  <2> QED
    BY <2>2, <2>3
<1>4. Chosen(B) \in B
  BY <1>3 DEF Chosen
<1>5. Worth(f, B \ {Chosen(B)}) \in Nat
  BY <1>1, <1>2, <1>4
<1>6. Worth(f, B) = Amount(f[Chosen(B)]) + Worth(f, B \ {Chosen(B)})
  BY <1>3, WorthRecurses
<1>7. Amount(f[Chosen(B)]) \in Nat
  BY <1>2, <1>4 DEF Amounts
<1> HIDE DEF Bad
<1> QED
  BY <1>2, <1>5, <1>6, <1>7

\* The order in which the elements are taken does not matter.
LEMMA WorthTakes ==
  ASSUME NEW f, NEW S, IsFiniteSet(S), Amounts(f, S), NEW x \in S
  PROVE  Worth(f, S) = Amount(f[x]) + Worth(f, S \ {x})
<1> DEFINE Takes(B) == \A y \in B : Worth(f, B) = Amount(f[y]) + Worth(f, B \ {y})
           Bad == {B \in SUBSET S : ~Takes(B)}
<1> SUFFICES ASSUME Bad # {}
             PROVE  FALSE
  OBVIOUS
<1>1. PICK B \in Bad : \A D \in Bad : D \subseteq B => D = B
  <2>1. Bad \subseteq SUBSET S
    OBVIOUS
  <2> HIDE DEF Bad
  <2> QED
    BY <2>1, LeastSet
<1>2. B \in SUBSET S /\ ~Takes(B)
  OBVIOUS
<1>3. \A D \in SUBSET S : D \subseteq B /\ D # B => Takes(D)
  BY <1>1
<1> HIDE DEF Bad
<1>4. PICK y \in B : Worth(f, B) # Amount(f[y]) + Worth(f, B \ {y})
  BY <1>2
<1> DEFINE c == Chosen(B)
<1>5. c \in B /\ IsFiniteSet(B)
  BY <1>2, <1>4, FS_Subset DEF Chosen
<1>6. Worth(f, B) = Amount(f[c]) + Worth(f, B \ {c})
  BY <1>4, <1>5, WorthRecurses
<1> HIDE DEF c
<1>7. y # c
  BY <1>4, <1>6
<1>8. Worth(f, B \ {c}) = Amount(f[y]) + Worth(f, (B \ {c}) \ {y})
  <2>1. Takes(B \ {c})
    BY <1>2, <1>3, <1>5
  <2> QED
    BY <1>7, <2>1
<1>9. Worth(f, B \ {y}) = Amount(f[c]) + Worth(f, (B \ {y}) \ {c})
  <2>1. Takes(B \ {y})
    BY <1>2, <1>3, <1>4
  <2> QED
    BY <1>5, <1>7, <2>1
<1>10. (B \ {c}) \ {y} = (B \ {y}) \ {c}
  OBVIOUS
<1>11. Worth(f, (B \ {y}) \ {c}) \in Nat
  <2>1. IsFiniteSet((B \ {y}) \ {c}) /\ Amounts(f, (B \ {y}) \ {c})
    BY <1>2, <1>5, FS_Subset DEF Amounts
  <2> QED
    BY <2>1, WorthNat
<1>12. Amount(f[y]) \in Nat /\ Amount(f[c]) \in Nat
  BY <1>2, <1>5 DEF Amounts
<1> HIDE DEF Takes
<1> QED
  BY <1>4, <1>6, <1>8, <1>9, <1>10, <1>11, <1>12

(* --- No money is created ---------------------------------------------------- *)

\* Keys that start without a value and that no contract writes.
Unset ==
  {k \in Key : /\ InitialValue[k] = Nothing
               /\ \A t \in Tx : \A got \in Seq(Value) :
                    Len(got) = Len(ReadKeys[t]) /\ Effect(t, got) # Rejected
                    => k \notin DOMAIN Effect(t, got)}

\* f after the writes w.
After(f, w) == [k \in Key |-> IF k \in DOMAIN w THEN w[k] ELSE f[k]]

\* What the contracts owe: run on values that are those of one state, some of
\* which may have failed to come, a call makes no money in that state.
CreatesNothing ==
  \A t \in Tx : \A got \in Seq(Value) : \A before \in [Key -> Value] :
    /\ Len(got) = Len(ReadKeys[t])
    /\ \A i \in DOMAIN got : got[i] \in {Nothing, before[ReadKeys[t][i]]}
    /\ \A k \in Unset : before[k] = Nothing
    /\ Effect(t, got) # Rejected
    => Total(After(before, Effect(t, got))) <= Total(before)

\* What a block has looked up and not written is still in the state.
LiveOK == \A k \in DOMAIN apply.live \ DOMAIN apply.ver : apply.live[k] = ver[k]

\* As long as nothing is minted: neither the state nor what it will be when the
\* batch is written has more money than there was.
Unminted ==
  /\ Total(kv) <= Total(InitialValue)
  /\ \A k \in Unset : kv[k] = Nothing
  /\ apply # Idle =>
       /\ LiveOK
       /\ DOMAIN apply.kv \cap Unset = {}
       /\ Total(After(kv, apply.kv)) <= Total(InitialValue)

MoneyInv == mints = 0 => Unminted

LEMMA TotalFacts ==
  ASSUME NEW f \in [Key -> Value]
  PROVE  Total(f) = Worth(f, Money) /\ Total(f) \in Nat
<1>1. Total(f) = Worth(f, Money)
  BY DEF Total, Worth
<1>2. Amounts(f, Money)
  BY MoneyAssumption, NothingAssumption DEF Amounts, Amount, Value
<1> QED
  BY <1>1, <1>2, WorthNat, MoneyAssumption

LEMMA AfterTyped ==
  ASSUME NEW f \in [Key -> Value], NEW w, \A k \in DOMAIN w : w[k] \in Value
  PROVE  After(f, w) \in [Key -> Value]
BY DEF After

LEMMA AfterOver ==
  ASSUME NEW f, NEW w, NEW v
  PROVE  After(f, Over(v, w)) = After(After(f, w), v)
BY DEF After, Over

LEMMA AfterNothing ==
  ASSUME NEW f \in [Key -> Value]
  PROVE  After(f, <<>>) = f
BY DEF After

\* A transaction found valid has computed with values of the state that the
\* block has made so far, or with none.
LEMMA ValidReads ==
  ASSUME MVCCInv, Batch, apply # Idle, LiveOK, NEW t \in Tx, sim[t].pc = "endorsed",
         \A i \in DOMAIN ReadKeys[t] : ~Conflict(t, i),
         NEW i \in DOMAIN sim[t].got
  PROVE  sim[t].got[i] \in {Nothing, After(kv, apply.kv)[ReadKeys[t][i]]}
<1> DEFINE k == ReadKeys[t][i]
<1>1. i \in DOMAIN ReadKeys[t] /\ i \in DOMAIN sim[t].reads /\ k \in Key
  BY RecordedFacts
<1>2. Current(k) = sim[t].reads[i]
  BY <1>1 DEF Conflict
<1>3. k \notin DOMAIN apply.ver
  <2> SUFFICES ASSUME k \in DOMAIN apply.ver
               PROVE  FALSE
    OBVIOUS
  <2>1. Fresh(apply.ver[k]) /\ Current(k) = apply.ver[k]
    BY DEF Batch, Current
  <2> QED
    BY <1>1, <1>2, <2>1, FreshUnread
<1>4. Current(k) = ver[k]
  BY <1>3 DEF LiveOK, Current
<1>5. sim[t].got[i] # Nothing => sim[t].got[i] = kv[k]
  BY <1>2, <1>4 DEF MVCCInv, ReadsCurrent
<1>6. After(kv, apply.kv)[k] = kv[k]
  BY <1>1, <1>3 DEF After, Batch
<1> QED
  BY <1>5, <1>6

LEMMA ValidateTxPays ==
  ASSUME WritesValues, CreatesNothing, MVCCInv, TypeInv, Unminted, ValidateTx
  PROVE  Unminted'
<1> DEFINE t == apply.txs[apply.pos]
           looked == [k \in Looked(t) |-> Current(k)]
           cached == Over(looked, apply.live)
           writes == Effect(t, sim[t].got)
           stamps == [k \in DOMAIN writes |-> <<height, apply.pos - 1>>]
           conflict == \E i \in DOMAIN ReadKeys[t] : Conflict(t, i)
           rejected == [busy |-> apply.busy, txs |-> apply.txs, pos |-> apply.pos + 1,
                        live |-> cached, kv |-> apply.kv, ver |-> apply.ver]
           accepted == [busy |-> apply.busy, txs |-> apply.txs, pos |-> apply.pos + 1,
                        live |-> Over(stamps, cached),
                        kv |-> Over(writes, apply.kv), ver |-> Over(stamps, apply.ver)]
<1>1. apply # Idle /\ Batch
  BY BusyFacts DEF ValidateTx
<1>2. /\ apply.txs \in Seq(Tx) /\ apply.pos \in Nat \ {0} /\ apply.pos <= Len(apply.txs)
      /\ kv' = kv /\ ver' = ver
  BY <1>1 DEF Batch, ValidateTx
<1>3. t \in Tx /\ sim[t].pc = "endorsed"
  <2>1. apply.pos \in DOMAIN apply.txs
    BY <1>2, LenProperties
  <2> QED
    BY <1>1, <1>2, <2>1 DEF Batch
<1>4. /\ conflict => apply' = rejected
      /\ ~conflict => apply' = accepted
  <2> HIDE DEF cached, writes, stamps
  <2>1. IsBlock(apply)
    BY <1>1 DEF Batch
  <2>2. [apply EXCEPT !.pos = @ + 1, !.live = cached] = rejected
    BY <2>1, RejectedFields, Zenon
  <2>3. [apply EXCEPT !.pos = @ + 1, !.live = Over(stamps, cached),
                      !.kv = Over(writes, @), !.ver = Over(stamps, @)] = accepted
    <3>1. \A l : [apply EXCEPT !.pos = @ + 1, !.live = l,
                               !.kv = Over(writes, @), !.ver = Over(stamps, @)]
                   = [busy |-> apply.busy, txs |-> apply.txs, pos |-> apply.pos + 1, live |-> l,
                      kv |-> Over(writes, apply.kv), ver |-> Over(stamps, apply.ver)]
      BY <2>1, AcceptedFields
    <3> QED
      BY <3>1, Zenon
  <2> HIDE DEF rejected, accepted
  <2> QED
    BY <2>2, <2>3 DEF ValidateTx, Stamped, cached, writes, stamps
<1>5. LiveOK /\ DOMAIN apply.kv \cap Unset = {} /\ \A k \in Unset : kv[k] = Nothing
  BY <1>1 DEF Unminted
<1>6. \A k \in DOMAIN cached : k \notin DOMAIN apply.ver => cached[k] = ver[k]
  BY <1>5 DEF Over, Current, LiveOK
<1>7. DOMAIN stamps = DOMAIN writes
  OBVIOUS
<1> HIDE DEF looked, cached, writes, stamps, conflict
<1>8. /\ DOMAIN Over(stamps, apply.ver) = DOMAIN apply.ver \cup DOMAIN stamps
      /\ DOMAIN Over(writes, apply.kv) = DOMAIN apply.kv \cup DOMAIN writes
      /\ DOMAIN Over(stamps, cached) = DOMAIN cached \cup DOMAIN stamps
      /\ \A k \in DOMAIN cached \ DOMAIN stamps : Over(stamps, cached)[k] = cached[k]
  BY OverFacts
<1>9. CASE conflict
  <2>1. apply'.live = cached /\ apply'.kv = apply.kv /\ apply'.ver = apply.ver
    BY <1>4, <1>9
  <2>2. LiveOK'
    BY <1>2, <1>6, <2>1 DEF LiveOK
  <2> QED
    BY <1>1, <1>2, <2>1, <2>2 DEF Unminted, After
<1>10. CASE ~conflict
  <2>1. /\ apply'.live = Over(stamps, cached) /\ apply'.kv = Over(writes, apply.kv)
        /\ apply'.ver = Over(stamps, apply.ver)
    BY <1>4, <1>10
  <2>2. LiveOK'
    BY <1>2, <1>6, <1>8, <2>1 DEF LiveOK
  <2> DEFINE before == After(kv, apply.kv)
             got == sim[t].got
  <2>3. got \in Seq(Value) /\ Len(got) = Len(ReadKeys[t])
    BY <1>3 DEF TypeInv, TypeOK, Simulation, MVCCInv, Shape, Reader, Reading
  <2>4. Effect(t, got) # Rejected
    BY <1>3 DEF TypeInv, Verdicts
  <2>5. before \in [Key -> Value]
    BY <1>1, AfterTyped DEF TypeInv, TypeOK, BatchTyped
  <2>6. \A i \in DOMAIN got : got[i] \in {Nothing, before[ReadKeys[t][i]]}
    BY <1>1, <1>3, <1>5, <1>10, ValidReads DEF conflict
  <2>7. \A k \in Unset : before[k] = Nothing
    BY <1>5 DEF After, Unset
  <2>8. DOMAIN writes \cap Unset = {}
    BY <1>3, <2>3, <2>4 DEF Unset, writes
  <2>9. \A k \in DOMAIN writes : writes[k] \in Value
    BY <1>3, <2>3, <2>4 DEF WritesValues, writes
  <2> HIDE DEF t, got, before
  <2>10. Total(After(before, writes)) <= Total(before)
    BY <1>3, <2>3, <2>4, <2>5, <2>6, <2>7 DEF CreatesNothing, writes, got
  <2>11. Total(before) <= Total(InitialValue)
    BY <1>1 DEF Unminted, before
  <2>12. After(before, writes) \in [Key -> Value]
    BY <2>5, <2>9, AfterTyped
  <2>13. Total(After(before, writes)) \in Nat /\ Total(before) \in Nat
         /\ Total(InitialValue) \in Nat
    BY <2>5, <2>12, TotalFacts, InitialAssumption
  <2>14. Total(After(before, writes)) <= Total(InitialValue)
    BY <2>10, <2>11, <2>13
  <2>15. After(kv', apply'.kv) = After(before, writes)
    BY <1>2, <2>1, AfterOver DEF before
  <2>16. DOMAIN apply'.kv \cap Unset = {}
    BY <1>5, <1>8, <2>1, <2>8
  <2>17. Total(After(kv, apply.kv))' <= Total(InitialValue)
    BY <2>14, <2>15
  <2> QED
    BY <1>2, <2>2, <2>16, <2>17 DEF Unminted
<1> QED
  BY <1>9, <1>10

LEMMA NextPays ==
  ASSUME WritesValues, CreatesNothing
  PROVE  MoneyInv /\ TypeInv /\ MVCCInv /\ [Next]_vars => MoneyInv'
<1> SUFFICES ASSUME MoneyInv, TypeInv, MVCCInv, [Next]_vars, mints' = 0
             PROVE  Unminted'
  BY DEF MoneyInv
<1>1. mints \in Nat /\ (mints' = mints \/ mints' = mints + 1)
  <2>1. mints \in Nat
    BY BoundAssumption DEF TypeInv, TypeOK
  <2>2. ASSUME NEW t \in Tx, Simulate(t)
        PROVE  mints' = mints
    BY <2>2 DEF Simulate, ProbeValue, ProbeVersion, ReadValue, FetchFails
  <2>3. ASSUME NEW b \in Blocks, BeginBlock(b)
        PROVE  mints' = mints
    BY <2>3 DEF BeginBlock
  <2>4. ASSUME NEW k \in MintKeys, MintRead(k)
        PROVE  mints' = mints + 1
    BY <2>4 DEF MintRead
  <2>5. ValidateTx \/ WriteBatch \/ MintWrite \/ UNCHANGED vars => mints' = mints
    BY DEF ValidateTx, WriteBatch, MintWrite, vars
  <2> QED
    BY <2>1, <2>2, <2>3, <2>4, <2>5 DEF Next
<1>2. mints = 0 /\ mint = Idle /\ Unminted
  <2>1. mints = 0
    BY <1>1
  <2>2. mint = Idle
    BY <2>1, BoundAssumption DEF TypeInv, TypeOK, MintBudget
  <2> QED
    BY <2>1, <2>2 DEF MoneyInv
<1>3. ASSUME NEW t \in Tx, Simulate(t)
      PROVE  Unminted'
  <2>1. UNCHANGED <<kv, ver, apply>>
    BY <1>3 DEF Simulate, ProbeValue, ProbeVersion, ReadValue, FetchFails
  <2> QED
    BY <1>2, <2>1 DEF Unminted, LiveOK
<1>4. ASSUME NEW b \in Blocks, BeginBlock(b)
      PROVE  Unminted'
  <2>1. /\ UNCHANGED <<kv, ver>>
        /\ apply' = [busy |-> TRUE, txs |-> b, pos |-> 1,
                     live |-> <<>>, kv |-> <<>>, ver |-> <<>>]
    BY <1>4 DEF BeginBlock
  <2>2. apply'.kv = <<>> /\ apply'.live = <<>>
    BY <2>1
  <2>3. LiveOK' /\ DOMAIN apply'.kv \cap Unset = {}
    BY <2>2 DEF LiveOK
  <2>4. After(kv', apply'.kv) = kv
    BY <2>1, <2>2, AfterNothing DEF TypeInv, TypeOK
  <2> QED
    BY <1>2, <2>1, <2>3, <2>4 DEF Unminted
<1>5. CASE ValidateTx
  BY <1>2, <1>5, ValidateTxPays
<1>6. CASE WriteBatch
  <2>1. apply # Idle /\ Batch
    BY <1>6, BusyFacts DEF WriteBatch
  <2>2. kv' = After(kv, apply.kv) /\ apply' = Idle
    BY <1>6 DEF WriteBatch, After
  <2>3. \A k \in Unset : kv'[k] = Nothing
    BY <1>2, <2>1, <2>2 DEF Unminted, After, Unset
  <2> QED
    BY <1>2, <2>1, <2>2, <2>3 DEF Unminted
<1>7. ASSUME NEW k \in MintKeys, MintRead(k)
      PROVE  Unminted'
  BY <1>2, <1>7 DEF MintRead
<1>8. CASE MintWrite
  BY <1>2, <1>8 DEF MintWrite, Idle
<1>9. CASE UNCHANGED vars
  BY <1>2, <1>9 DEF vars, Unminted, LiveOK
<1> QED
  BY <1>3, <1>4, <1>5, <1>6, <1>7, <1>8, <1>9 DEF Next

LEMMA InitPays == Init => MoneyInv
<1> SUFFICES ASSUME Init
             PROVE  Unminted
  BY DEF MoneyInv
<1>1. kv = InitialValue /\ apply = Idle
  BY DEF Init
<1>2. Total(InitialValue) \in Nat
  BY TotalFacts, InitialAssumption
<1>3. \A k \in Unset : InitialValue[k] = Nothing
  BY DEF Unset
<1> QED
  BY <1>1, <1>2, <1>3 DEF Unminted

\* Contracts that make no money on values that are current, or did not come, make
\* none however they are simulated and ordered: MVCC lets a call write only if
\* what it read is current, or if it found nothing (ApplyBlock, checkReadSet).
THEOREM MVCCKeepsMoney ==
  ASSUME WritesValues, HaveSizes, CreatesNothing
  PROVE  Spec => []NoMoneyCreated
<1>1. Init => TypeInv
  BY InitType
<1>2. TypeInv /\ MVCCInv /\ MVCCInv' /\ [Next]_vars => TypeInv'
  BY NextType
<1>3. Init => MoneyInv
  BY InitPays
<1>4. MoneyInv /\ TypeInv /\ MVCCInv /\ [Next]_vars => MoneyInv'
  BY NextPays
<1>5. MoneyInv => NoMoneyCreated
  BY DEF MoneyInv, Unminted, NoMoneyCreated
<1> QED
  BY <1>1, <1>2, <1>3, <1>4, <1>5, MVCCAlways, PTL DEF Spec

(* --- The money contracts ---------------------------------------------------- *)

\* Every transaction is a call of one of the money contracts, of an amount that is
\* a natural number and between two accounts.
ContractCalls ==
  \A t \in Tx :
    /\ Call[t].contract \in {"transfer", "lock", "release", "refund", "loyalty"}
    /\ Call[t].amount \in Nat
    /\ Call[t].from # Call[t].to
    /\ ReadKeys[t] = C!KeysOf(Call[t])
    /\ \A got : Effect(t, got) = C!Execute(Call[t], got)

\* None of them rewards its sender: no loyalty bonus, no discount; and what they
\* move is money.
NoRewards ==
  \A t \in Tx :
    /\ Call[t].contract # "loyalty"
    /\ Call[t].contract = "transfer" => InitialValue[C!Discount(Call[t].from)] = Nothing
    /\ {C!Balance(Call[t].from), C!Balance(Call[t].to), C!Escrow(Call[t].id)} \subseteq Money

\* Two writes.
Pair(x, u, y, v) == C!PutWrite(C!PutWrite(<<>>, x, u), y, v)

\* Two writes of no more than what there was under the two keys.
LEMMA PairPays ==
  ASSUME NEW before \in [Key -> Value], NEW x \in Money, NEW y \in Money, x # y,
         NEW u \in Value, NEW v \in Value,
         Amount(u) + Amount(v) <= Amount(before[x]) + Amount(before[y])
  PROVE  Total(After(before, Pair(x, u, y, v))) <= Total(before)
<1> DEFINE f == After(before, Pair(x, u, y, v))
           R == (Money \ {x}) \ {y}
<1>1. x \in Key /\ y \in Key /\ IsFiniteSet(Money) /\ IsFiniteSet(Money \ {x}) /\ IsFiniteSet(R)
  BY MoneyAssumption, FS_RemoveElement
<1>2. /\ f[x] = u /\ f[y] = v
      /\ \A k \in R : f[k] = before[k]
      /\ f \in [Key -> Value]
  <2>1. PICK w : w = Pair(x, u, y, v)
    OBVIOUS
  <2>2. DOMAIN w = {x, y} /\ w[x] = u /\ w[y] = v
    BY <2>1 DEF Pair, C!PutWrite
  <2>3. After(before, w) \in [Key -> Value]
    BY <2>2, AfterTyped
  <2>4. /\ After(before, w)[x] = u /\ After(before, w)[y] = v
        /\ \A k \in R : After(before, w)[k] = before[k]
    BY <1>1, <2>2, MoneyAssumption DEF After
  <2> QED
    BY <2>1, <2>3, <2>4
<1> HIDE DEF f
<1>3. \A h \in [Key -> Value] :
        /\ Total(h) = Worth(h, Money) /\ Worth(h, Money) \in Nat
        /\ Amounts(h, Money) /\ Amounts(h, Money \ {x}) /\ Amounts(h, R)
        /\ Amount(h[x]) \in Nat /\ Amount(h[y]) \in Nat
  BY TotalFacts, MoneyAssumption, NothingAssumption DEF Amounts, Amount, Value
<1>4. \A h \in [Key -> Value] :
        Worth(h, Money) = Amount(h[x]) + (Amount(h[y]) + Worth(h, R)) /\ Worth(h, R) \in Nat
  <2> SUFFICES ASSUME NEW h \in [Key -> Value]
               PROVE  /\ Worth(h, Money) = Amount(h[x]) + (Amount(h[y]) + Worth(h, R))
                      /\ Worth(h, R) \in Nat
    OBVIOUS
  <2>1. Worth(h, Money) = Amount(h[x]) + Worth(h, Money \ {x})
    BY <1>1, <1>3, WorthTakes
  <2>2. Worth(h, Money \ {x}) = Amount(h[y]) + Worth(h, R)
    <3>1. y \in Money \ {x} /\ Amounts(h, Money \ {x})
      BY <1>3
    <3> QED
      BY <1>1, <3>1, WorthTakes
  <2>3. Worth(h, R) \in Nat
    BY <1>1, <1>3, WorthNat
  <2> QED
    BY <2>1, <2>2, <2>3
<1>5. Worth(f, R) = Worth(before, R)
  BY <1>1, <1>2, WorthSame
<1> HIDE DEF R
<1>6. Amount(f[x]) = Amount(u) /\ Amount(f[y]) = Amount(v)
  BY <1>2
<1>7. Total(f) <= Total(before)
  <2>1. /\ Total(f) = Amount(u) + (Amount(v) + Worth(before, R))
        /\ Amount(u) \in Nat /\ Amount(v) \in Nat
    BY <1>2, <1>3, <1>4, <1>5, <1>6
  <2>2. /\ Total(before) = Amount(before[x]) + (Amount(before[y]) + Worth(before, R))
        /\ Amount(before[x]) \in Nat /\ Amount(before[y]) \in Nat /\ Worth(before, R) \in Nat
    BY <1>3, <1>4
  <2> HIDE DEF Amount
  <2> QED
    BY <2>1, <2>2
<1> QED
  BY <1>7 DEF f

\* Values that came, or did not.
LEMMA GotFacts ==
  ASSUME NEW got \in Seq(Value), NEW n \in Nat, Len(got) = n
  PROVE  /\ DOMAIN got = 1..n
         /\ \A i \in 1..n : got[i] \in Value /\ C!GetInt(got[i]) = Amount(got[i])
                            /\ Amount(got[i]) \in Nat
<1>1. DOMAIN got = 1..n /\ \A i \in 1..n : got[i] \in Value
  BY LenProperties
<1>2. \A v \in Value : C!GetInt(v) = Amount(v) /\ Amount(v) \in Nat
  BY NothingAssumption DEF C!GetInt, Amount, Value
<1> QED
  BY <1>1, <1>2

LEMMA NatValue == /\ \A n \in Nat : n \in Value /\ Amount(n) = n
                  /\ Nothing \in Value /\ Amount(Nothing) = 0
BY NothingAssumption DEF Value, Amount

\* The kinds of keys differ, and a kind's keys differ where what they belong to does.
LEMMA KeyKinds ==
  /\ \A a, b : a # b => C!Balance(a) # C!Balance(b)
  /\ \A a, b : C!Balance(a) # C!Escrow(b) /\ C!Balance(a) # C!Discount(b)
               /\ C!Escrow(a) # C!Discount(b)
BY DEF C!Balance, C!Escrow, C!Discount

\* What a call of a contract without bonus writes: two keys, if it writes at all.
Wrote(w, x, u, y, v) ==
  /\ w = Pair(x, u, y, v)
  /\ u \in Value /\ v \in Value

LEMMA TransferWrites ==
  ASSUME NEW c, c.contract = "transfer", c.amount \in Nat,
         NEW got \in Seq(Value), Len(got) = Len(C!KeysOf(c)),
         C!Execute(c, got) # Rejected
  PROVE  \E d \in Nat :
           /\ got[1] = Nothing => d = c.amount
           /\ d <= Amount(got[2])
           /\ Wrote(C!Execute(c, got), C!Balance(c.from), Amount(got[2]) - d,
                    C!Balance(c.to), Amount(got[3]) + c.amount)
<1> DEFINE d == C!Debit(c.amount, C!GetInt(got[1]))
<1>1. Len(got) = 3
  BY DEF C!KeysOf, C!TransferKeys
<1>2. \A i \in 1..3 : /\ got[i] \in Value /\ C!GetInt(got[i]) = Amount(got[i])
                      /\ Amount(got[i]) \in Nat
  BY <1>1, GotFacts
<1>3. d \in Nat /\ (got[1] = Nothing => d = c.amount)
  <2>1. C!GetInt(got[1]) \in Nat /\ (got[1] = Nothing => C!GetInt(got[1]) = 0)
    BY <1>2 DEF C!GetInt
  <2> QED
    BY <2>1 DEF C!Debit
<1>4. C!Execute(c, got) = C!Transfer(c, got)
  BY DEF C!Execute
<1>5. /\ ~(Amount(got[2]) < d)
      /\ C!Execute(c, got) = Pair(C!Balance(c.from), Amount(got[2]) - d,
                                  C!Balance(c.to), Amount(got[3]) + c.amount)
  BY <1>2, <1>4 DEF C!Transfer, Pair
<1> HIDE DEF d
<1>6. Amount(got[2]) - d \in Nat /\ Amount(got[3]) + c.amount \in Nat /\ d <= Amount(got[2])
  BY <1>2, <1>3, <1>5
<1> QED
  BY <1>3, <1>5, <1>6, NatValue DEF Wrote

LEMMA EscrowWrites ==
  ASSUME NEW c, c.contract \in {"lock", "release", "refund"}, c.amount \in Nat,
         NEW got \in Seq(Value), Len(got) = Len(C!KeysOf(c)),
         C!Execute(c, got) # Rejected
  PROVE  \E u \in Value, v \in Value :
           /\ Wrote(C!Execute(c, got),
                    C!Balance(IF c.contract = "release" THEN c.to ELSE c.from), u,
                    C!Escrow(c.id), v)
           /\ Amount(u) + Amount(v) <= Amount(got[1]) + Amount(got[2])
<1>1. Len(got) = 2
  BY DEF C!KeysOf, C!LockKeys, C!ReleaseKeys, C!RefundKeys
<1>2. \A i \in 1..2 : /\ got[i] \in Value /\ C!GetInt(got[i]) = Amount(got[i])
                      /\ Amount(got[i]) \in Nat
  BY <1>1, GotFacts
<1>3. CASE c.contract = "lock"
  <2>1. C!Execute(c, got) = C!Lock(c, got)
    BY <1>3 DEF C!Execute
  <2>2. /\ ~(Amount(got[2]) < c.amount)
        /\ C!Execute(c, got) = Pair(C!Balance(c.from), Amount(got[2]) - c.amount,
                                    C!Escrow(c.id), c.amount)
    BY <1>2, <2>1 DEF C!Lock, Pair
  <2>3. Amount(got[2]) - c.amount \in Nat
    BY <1>2, <2>2
  <2>4. Amount(Amount(got[2]) - c.amount) + Amount(c.amount) <= Amount(got[1]) + Amount(got[2])
    BY <1>2, <2>3, NatValue
  <2> QED
    BY <1>3, <2>2, <2>3, <2>4, NatValue DEF Wrote
<1>4. CASE c.contract \in {"release", "refund"}
  <2> DEFINE a == IF c.contract = "release" THEN c.to ELSE c.from
  <2>1. C!Execute(c, got) = IF c.contract = "release" THEN C!Release(c, got) ELSE C!Refund(c, got)
    BY <1>4 DEF C!Execute
  <2>2. /\ got[1] # Nothing
        /\ C!Execute(c, got) = Pair(C!Balance(a), Amount(got[2]) + got[1],
                                    C!Escrow(c.id), Nothing)
    BY <1>2, <1>4, <2>1 DEF C!Release, C!Refund, Pair
  <2>3. got[1] \in Nat /\ Amount(got[1]) = got[1]
    BY <1>2, <2>2 DEF Value, Amount
  <2>4. Amount(got[2]) + got[1] \in Nat
    BY <1>2, <2>3
  <2>5. Amount(Amount(got[2]) + got[1]) + Amount(Nothing) <= Amount(got[1]) + Amount(got[2])
    BY <1>2, <2>3, <2>4, NatValue
  <2> QED
    BY <1>4, <2>2, <2>4, <2>5, NatValue DEF Wrote
<1> QED
  BY <1>3, <1>4

\* A call of a contract without bonus writes values.
LEMMA CallWrites ==
  ASSUME ContractCalls, NoRewards, NEW t \in Tx, NEW got \in Seq(Value),
         Len(got) = Len(ReadKeys[t]), Effect(t, got) # Rejected
  PROVE  \E x, y, u, v :
           /\ Wrote(Effect(t, got), x, u, y, v)
           /\ x = C!Balance(Call[t].from) \/ x = C!Balance(Call[t].to)
           /\ y = C!Balance(Call[t].to) \/ y = C!Escrow(Call[t].id)
           /\ x # y
<1> DEFINE c == Call[t]
<1>1. /\ c.amount \in Nat /\ c.from # c.to
      /\ ReadKeys[t] = C!KeysOf(c) /\ Effect(t, got) = C!Execute(c, got)
      /\ c.contract \in {"transfer", "lock", "release", "refund"}
  BY DEF ContractCalls, NoRewards
<1>2. Len(got) = Len(C!KeysOf(c)) /\ C!Execute(c, got) # Rejected
  BY <1>1
<1> HIDE DEF c
<1>3. CASE c.contract = "transfer"
  <2>1. \E d \in Nat : Wrote(C!Execute(c, got), C!Balance(c.from), Amount(got[2]) - d,
                             C!Balance(c.to), Amount(got[3]) + c.amount)
    BY <1>1, <1>2, <1>3, TransferWrites
  <2>2. C!Balance(c.from) # C!Balance(c.to)
    BY <1>1, KeyKinds
  <2>3. PICK x : x = C!Balance(c.from)
    OBVIOUS
  <2>4. PICK y : y = C!Balance(c.to)
    OBVIOUS
  <2>5. \E u, v : Wrote(C!Execute(c, got), x, u, y, v)
    BY <2>1, <2>3, <2>4
  <2> QED
    BY <1>1, <2>2, <2>3, <2>4, <2>5 DEF c
<1>4. CASE c.contract \in {"lock", "release", "refund"}
  <2>1. PICK x : x = C!Balance(IF c.contract = "release" THEN c.to ELSE c.from)
    OBVIOUS
  <2>2. PICK y : y = C!Escrow(c.id)
    OBVIOUS
  <2>3. \E u, v : Wrote(C!Execute(c, got), x, u, y, v)
    BY <1>1, <1>2, <1>4, <2>1, <2>2, EscrowWrites
  <2>4. x # y /\ (x = C!Balance(c.from) \/ x = C!Balance(c.to))
    BY <2>1, <2>2, KeyKinds
  <2> QED
    BY <1>1, <2>2, <2>3, <2>4 DEF c
<1> QED
  BY <1>1, <1>3, <1>4

LEMMA CallsWriteValues == ASSUME ContractCalls, NoRewards PROVE WritesValues
<1> SUFFICES ASSUME NEW t \in Tx, NEW got \in Seq(Value),
                    Len(got) = Len(ReadKeys[t]), Effect(t, got) # Rejected,
                    NEW k \in DOMAIN Effect(t, got)
             PROVE  Effect(t, got)[k] \in Value
  BY DEF WritesValues
<1>1. PICK x, y, u, v : Wrote(Effect(t, got), x, u, y, v) /\ x # y
  BY CallWrites
<1>2. PICK w : w = Pair(x, u, y, v)
  OBVIOUS
<1>3. DOMAIN w = {x, y} /\ w[x] = u /\ w[y] = v
  BY <1>1, <1>2 DEF Pair, C!PutWrite
<1>4. \A h \in DOMAIN w : w[h] \in Value
  BY <1>1, <1>3 DEF Wrote
<1> QED
  BY <1>1, <1>2, <1>4 DEF Wrote

\* No call writes a discount.
LEMMA DiscountsUnset ==
  ASSUME ContractCalls, NoRewards, NEW t \in Tx, Call[t].contract = "transfer"
  PROVE  C!Discount(Call[t].from) \in Unset
<1> DEFINE k == C!Discount(Call[t].from)
<1>1. k \in Key
  <2>1. ReadKeys[t] \in Seq(Key) /\ ReadKeys[t] = C!TransferKeys(Call[t])
    BY ReadAssumption DEF ContractCalls, C!KeysOf
  <2>2. Len(ReadKeys[t]) = 3 /\ ReadKeys[t][1] = k
    BY <2>1 DEF C!TransferKeys
  <2> QED
    BY <2>1, <2>2
<1>2. InitialValue[k] = Nothing
  BY DEF NoRewards
<1>3. ASSUME NEW s \in Tx, NEW got \in Seq(Value), Len(got) = Len(ReadKeys[s]),
             Effect(s, got) # Rejected
      PROVE  k \notin DOMAIN Effect(s, got)
  <2>1. PICK x, y, u, v :
          /\ Wrote(Effect(s, got), x, u, y, v)
          /\ x = C!Balance(Call[s].from) \/ x = C!Balance(Call[s].to)
          /\ y = C!Balance(Call[s].to) \/ y = C!Escrow(Call[s].id)
          /\ x # y
    BY <1>3, CallWrites
  <2>2. k # x /\ k # y
    BY <2>1, KeyKinds
  <2>3. DOMAIN Effect(s, got) = {x, y}
    <3>1. PICK w : w = Pair(x, u, y, v)
      OBVIOUS
    <3>2. DOMAIN w = {x, y}
      BY <3>1 DEF Pair, C!PutWrite
    <3> QED
      BY <2>1, <3>1, <3>2 DEF Wrote
  <2> QED
    BY <2>2, <2>3
<1> QED
  BY <1>1, <1>2, <1>3 DEF Unset

\* What one pays and the other gets.
LEMMA Exchange ==
  ASSUME NEW d \in Nat, NEW m \in Nat, NEW n \in Nat, NEW x \in Nat, NEW y \in Nat,
         m <= x, n <= y
  PROVE  (m - d) + (n + d) <= x + y
OBVIOUS

LEMMA CallsCreateNothing == ASSUME ContractCalls, NoRewards PROVE CreatesNothing
<1> SUFFICES ASSUME NEW t \in Tx, NEW got \in Seq(Value), NEW before \in [Key -> Value],
                    Len(got) = Len(ReadKeys[t]),
                    \A i \in DOMAIN got : got[i] \in {Nothing, before[ReadKeys[t][i]]},
                    \A k \in Unset : before[k] = Nothing,
                    Effect(t, got) # Rejected
             PROVE  Total(After(before, Effect(t, got))) <= Total(before)
  BY DEF CreatesNothing
<1>1. PICK c : c = Call[t]
  OBVIOUS
<1>2. /\ c.amount \in Nat /\ c.from # c.to
      /\ ReadKeys[t] = C!KeysOf(c) /\ Effect(t, got) = C!Execute(c, got)
      /\ c.contract \in {"transfer", "lock", "release", "refund"}
      /\ {C!Balance(c.from), C!Balance(c.to), C!Escrow(c.id)} \subseteq Money
  BY <1>1 DEF ContractCalls, NoRewards
<1>3. Len(got) = Len(C!KeysOf(c)) /\ C!Execute(c, got) # Rejected
  BY <1>2
<1>4. \A i \in DOMAIN got : /\ Amount(got[i]) <= Amount(before[ReadKeys[t][i]])
                            /\ Amount(got[i]) \in Nat
                            /\ Amount(before[ReadKeys[t][i]]) \in Nat
  <2> SUFFICES ASSUME NEW i \in DOMAIN got
               PROVE  /\ Amount(got[i]) <= Amount(before[ReadKeys[t][i]])
                      /\ Amount(got[i]) \in Nat
                      /\ Amount(before[ReadKeys[t][i]]) \in Nat
    OBVIOUS
  <2>1. i \in DOMAIN ReadKeys[t] /\ ReadKeys[t][i] \in Key
    <3>1. ReadKeys[t] \in Seq(Key)
      BY ReadAssumption
    <3>2. DOMAIN got = 1..Len(got) /\ DOMAIN ReadKeys[t] = 1..Len(ReadKeys[t])
      BY <3>1, LenProperties
    <3> QED
      BY <3>1, <3>2, LenProperties
  <2>2. before[ReadKeys[t][i]] \in Value
    BY <2>1
  <2>3. got[i] = Nothing \/ got[i] = before[ReadKeys[t][i]]
    OBVIOUS
  <2> QED
    BY <2>2, <2>3, NothingAssumption DEF Amount, Value
<1>5. CASE c.contract = "transfer"
  <2>1. PICK d \in Nat :
          /\ got[1] = Nothing => d = c.amount
          /\ d <= Amount(got[2])
          /\ Wrote(C!Execute(c, got), C!Balance(c.from), Amount(got[2]) - d,
                   C!Balance(c.to), Amount(got[3]) + c.amount)
    BY <1>2, <1>3, <1>5, TransferWrites
  <2>2. DOMAIN got = 1..3 /\ ReadKeys[t] = <<C!Discount(c.from), C!Balance(c.from), C!Balance(c.to)>>
    <3>1. C!KeysOf(c) = <<C!Discount(c.from), C!Balance(c.from), C!Balance(c.to)>>
      BY <1>5 DEF C!KeysOf, C!TransferKeys
    <3> QED
      BY <1>2, <1>3, <3>1, LenProperties
  <2>3. /\ 1 \in DOMAIN got /\ 2 \in DOMAIN got /\ 3 \in DOMAIN got
        /\ ReadKeys[t][1] = C!Discount(c.from)
        /\ ReadKeys[t][2] = C!Balance(c.from)
        /\ ReadKeys[t][3] = C!Balance(c.to)
    BY <2>2
  <2>4. got[1] = Nothing
    <3>1. C!Discount(c.from) \in Unset
      BY <1>1, <1>5, DiscountsUnset
    <3> QED
      BY <2>3, <3>1
  <2>5. /\ Amount(got[2]) <= Amount(before[C!Balance(c.from)])
        /\ Amount(got[3]) <= Amount(before[C!Balance(c.to)])
        /\ Amount(got[2]) \in Nat /\ Amount(got[3]) \in Nat
        /\ Amount(before[C!Balance(c.from)]) \in Nat /\ Amount(before[C!Balance(c.to)]) \in Nat
    BY <1>4, <2>3
  <2>6. PICK u, v : u = Amount(got[2]) - d /\ v = Amount(got[3]) + c.amount
    OBVIOUS
  <2>7. u \in Nat /\ v \in Nat /\ Amount(u) = u /\ Amount(v) = v
    <3>1. PICK m, n : m = Amount(got[2]) /\ n = Amount(got[3])
      OBVIOUS
    <3>2. m \in Nat /\ n \in Nat /\ d <= m /\ c.amount \in Nat
      BY <1>2, <2>1, <2>5, <3>1
    <3>3. u = m - d /\ v = n + c.amount
      BY <2>6, <3>1
    <3>4. u \in Nat /\ v \in Nat
      BY <3>2, <3>3
    <3> QED
      BY <3>4, NatValue
  <2>8. Amount(u) + Amount(v) <= Amount(before[C!Balance(c.from)]) + Amount(before[C!Balance(c.to)])
    <3>1. PICK m, n, x, y :
            /\ m = Amount(got[2]) /\ n = Amount(got[3])
            /\ x = Amount(before[C!Balance(c.from)]) /\ y = Amount(before[C!Balance(c.to)])
      OBVIOUS
    <3>2. /\ m \in Nat /\ n \in Nat /\ x \in Nat /\ y \in Nat
          /\ m <= x /\ n <= y
      BY <2>5, <3>1
    <3>3. u = m - d /\ v = n + d
      BY <2>1, <2>4, <2>6, <3>1
    <3>4. (m - d) + (n + d) <= x + y
      BY <3>2, Exchange
    <3> QED
      BY <2>7, <3>1, <3>3, <3>4
  <2>9. C!Balance(c.from) # C!Balance(c.to)
    BY <1>2, KeyKinds
  <2>10. u \in Value /\ v \in Value
    BY <2>7, NatValue
  <2>11. Effect(t, got) = Pair(C!Balance(c.from), u, C!Balance(c.to), v)
    BY <1>2, <2>1, <2>6 DEF Wrote
  <2>12. Total(After(before, Pair(C!Balance(c.from), u, C!Balance(c.to), v))) <= Total(before)
    BY <1>2, <2>8, <2>9, <2>10, PairPays
  <2> QED
    BY <2>11, <2>12
<1>6. CASE c.contract \in {"lock", "release", "refund"}
  <2> DEFINE x == C!Balance(IF c.contract = "release" THEN c.to ELSE c.from)
             y == C!Escrow(c.id)
  <2>1. PICK u \in Value, v \in Value :
          /\ Wrote(C!Execute(c, got), x, u, y, v)
          /\ Amount(u) + Amount(v) <= Amount(got[1]) + Amount(got[2])
    BY <1>2, <1>3, <1>6, EscrowWrites
  <2>2. x \in Money /\ y \in Money /\ x # y
    BY <1>2, KeyKinds
  <2>3. DOMAIN got = 1..2 /\ ReadKeys[t] = <<y, x>>
    <3>1. C!KeysOf(c) = <<y, x>>
      BY <1>6 DEF C!KeysOf, C!LockKeys, C!ReleaseKeys, C!RefundKeys
    <3> HIDE DEF x, y
    <3> QED
      BY <1>2, <1>3, <3>1, LenProperties
  <2> HIDE DEF x, y
  <2>4. 1 \in DOMAIN got /\ 2 \in DOMAIN got /\ ReadKeys[t][1] = y /\ ReadKeys[t][2] = x
    BY <2>3
  <2>5. /\ Amount(got[1]) <= Amount(before[y]) /\ Amount(got[2]) <= Amount(before[x])
        /\ Amount(got[1]) \in Nat /\ Amount(got[2]) \in Nat
        /\ Amount(before[x]) \in Nat /\ Amount(before[y]) \in Nat
    BY <1>4, <2>4
  <2>6. Amount(u) \in Nat /\ Amount(v) \in Nat
    BY NothingAssumption DEF Amount, Value
  <2>7. Amount(u) + Amount(v) <= Amount(before[x]) + Amount(before[y])
    BY <2>1, <2>5, <2>6
  <2>8. Effect(t, got) = Pair(x, u, y, v)
    BY <1>2, <2>1 DEF Wrote
  <2>9. Total(After(before, Pair(x, u, y, v))) <= Total(before)
    BY <2>2, <2>7, PairPays
  <2> QED
    BY <2>8, <2>9
<1> QED
  BY <1>2, <1>5, <1>6

\* Property NoMoneyCreated for the contracts of the network: however many calls of
\* transfer and of the escrow, of any amounts and between any accounts, are simulated
\* and ordered concurrently, whatever blocks are built of them and whichever fetches
\* fail, they make no money as long as no sender has a discount.
THEOREM ContractsCreateNothing ==
  ASSUME ContractCalls, NoRewards, HaveSizes
  PROVE  Spec => []NoMoneyCreated
BY CallsWriteValues, CallsCreateNothing, MVCCKeepsMoney

=============================================================================
