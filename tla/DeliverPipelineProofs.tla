----------------------- MODULE DeliverPipelineProofs -----------------------
(***************************************************************************)
(* Theorems about DeliverPipeline, for every set of ordering nodes and of   *)
(* refused blocks, every channel capacity and every value of the bounds.    *)
(***************************************************************************)
EXTENDS DeliverPipeline, Integers, TLAPS, SequenceTheorems

-----------------------------------------------------------------------------
(* The inductive invariant *)

\* A running peer counts the blocks on disk; a block marked persisted is the
\* last one there; a stopped peer keeps nothing but the disk.
Handling ==
  /\ up => blockCount = Len(file)
  /\ ~up => stream = None /\ blockChan = <<>> /\ hand = <<>>
  /\ persisted => /\ up
                  /\ Len(hand) = 1
                  /\ Len(file) \in DOMAIN file
                  /\ file[Len(file)] = hand[1]

\* Every height given so far is below that of a block not yet applied.
Heights ==
  /\ HeightsFresh
  /\ persisted => \A i \in DOMAIN applied : applied[i].height < Len(file)

\* Notification is at most one block behind the chain.
Lag == \A o \in Orderer : notified[o] <= length[o] /\ length[o] <= notified[o] + 1

\* What a stream still holds is in order, after what it delivered and not
\* after what its node is about to notify.
Ascending ==
  stream \in Sending =>
    LET next == notified[stream.orderer] + 1
    IN /\ stream.last <= next /\ stream.seen <= next
       /\ \A i \in DOMAIN stream.out : stream.last <= stream.out[i] /\ stream.out[i] <= next
       /\ \A i, j \in DOMAIN stream.out : i <= j => stream.out[i] <= stream.out[j]

\* Number of blocks on disk or about to be.
Held == Len(file) + (IF Len(hand) = 1 /\ ~persisted THEN 1 ELSE 0)

\* Disk, hand, queue and stream hold consecutive blocks, up to the one the
\* ordering node sent last.
Consecutive ==
  /\ \A i \in DOMAIN file : file[i] = i
  /\ (Len(hand) = 1 /\ ~persisted) => hand[1] = Len(file) + 1
  /\ \A i \in DOMAIN blockChan : blockChan[i] = Held + i
  /\ stream \in Requested =>
       blockChan = <<>> /\ Held = Len(file) /\ stream.from = Len(file) + 1
  /\ stream \in Sending =>
       LET sent == Held + Len(blockChan) + Len(stream.out)
       IN /\ \A i \in DOMAIN stream.out : stream.out[i] = Held + Len(blockChan) + i
          /\ stream.phase = "snapshot" =>
               sent = IF stream.seen + 1 < stream.from THEN stream.from - 1
                                                       ELSE stream.seen
          /\ stream.phase = "live" => sent = notified[stream.orderer]

IInv ==
  /\ TypeOK /\ Handling /\ Heights /\ LossAccounted /\ Lag /\ Ascending
  /\ ~disturbed => Consecutive

-----------------------------------------------------------------------------
(* Sequences *)

\* What appending one element does to a sequence.
LEMMA AppendFacts ==
  ASSUME NEW S, NEW s \in Seq(S), NEW e \in S
  PROVE  /\ Append(s, e) \in Seq(S)
         /\ Len(Append(s, e)) = Len(s) + 1
         /\ DOMAIN Append(s, e) = 1..(Len(s) + 1)
         /\ \A i \in 1..Len(s) : Append(s, e)[i] = s[i]
         /\ Append(s, e)[Len(s) + 1] = e
OBVIOUS

\* What taking the first element leaves.
LEMMA TailFacts ==
  ASSUME NEW S, NEW s \in Seq(S), s # <<>>
  PROVE  /\ Head(s) \in S /\ Head(s) = s[1]
         /\ Len(s) \in Nat \ {0} /\ DOMAIN s = 1..Len(s)
         /\ Tail(s) \in Seq(S)
         /\ Len(Tail(s)) = Len(s) - 1
         /\ DOMAIN Tail(s) = 1..(Len(s) - 1)
         /\ \A i \in 1..(Len(s) - 1) : Tail(s)[i] = s[i + 1]
BY HeadTailProperties, LenProperties

\* Concatenating a sequence of one element is appending that element.
LEMMA ConcatOne ==
  ASSUME NEW S, NEW s \in Seq(S), NEW h \in Seq(S), Len(h) = 1
  PROVE  h[1] \in S /\ s \o h = Append(s, h[1])
<1>1. h[1] \in S /\ h = <<h[1]>>
  BY SMTT(30)
<1> QED
  BY <1>1, AppendIsConcat

\* A function on 1..n is a sequence.
LEMMA FunctionIsSeq ==
  ASSUME NEW S, NEW n \in Nat, NEW f \in [1..n -> S]
  PROVE  f \in Seq(S)
BY SeqDef

\* The blocks from an index on.
LEMMA AboveFacts ==
  ASSUME NEW o \in Orderer, NEW from \in Nat \ {0}, length[o] \in 0..MaxBlocks
  PROVE  /\ Above(o, from) \in Seq(Block)
         /\ Len(Above(o, from)) = IF length[o] + 1 < from THEN 0 ELSE length[o] + 1 - from
         /\ \A i \in DOMAIN Above(o, from) :
              Above(o, from)[i] = from + i - 1 /\ Above(o, from)[i] <= length[o]
<1> DEFINE n == IF length[o] + 1 < from THEN 0 ELSE length[o] + 1 - from
<1>1. n \in Nat /\ 1..(length[o] + 1 - from) = 1..n
  BY BoundAssumption
<1>2. \A i \in 1..n : from + i - 1 \in Block /\ from + i - 1 <= length[o]
  BY BoundAssumption DEF Block
<1>3. Above(o, from) = [i \in 1..n |-> from + i - 1]
  BY <1>1 DEF Above
<1>4. Above(o, from) \in [1..n -> Block]
  BY <1>2, <1>3
<1>5. Above(o, from) \in Seq(Block)
  <2> HIDE DEF n
  <2> QED
    BY <1>1, <1>4, FunctionIsSeq
<1>6. Len(Above(o, from)) = n /\ DOMAIN Above(o, from) = 1..n
  BY <1>1, <1>3, <1>5, LenProperties
<1> HIDE DEF n
<1> QED
  BY <1>2, <1>3, <1>5, <1>6 DEF n

-----------------------------------------------------------------------------
(* Streams *)

\* The three kinds of stream exclude each other.
LEMMA StreamKinds ==
  ASSUME TypeOK
  PROVE  /\ stream = None \/ stream \in Requested \/ stream \in Sending
         /\ stream.phase = "none" => stream = None
         /\ stream.phase = "request" => stream \in Requested
         /\ stream.phase \in {"snapshot", "live"} => stream \in Sending
         /\ stream \in Requested => stream # None /\ stream \notin Sending
         /\ stream \in Sending => stream # None /\ stream \notin Requested
         /\ stream = None => stream \notin Sending /\ stream \notin Requested
         /\ Live(stream.orderer) => stream \in Sending
BY DEF TypeOK, None, Requested, Sending, Live

\* The fields of a sending stream.
LEMMA SendingFields ==
  ASSUME NEW r \in Sending
  PROVE  /\ r.phase \in {"snapshot", "live"} /\ r.orderer \in Orderer
         /\ r.out \in Seq(Block) /\ r.from \in Nat \ {0}
         /\ r.seen \in 0..MaxBlocks /\ r.last \in 0..MaxBlocks
BY DEF Sending

\* What a step makes of a sending stream: its channel, the block delivered
\* last or its phase change, and nothing else does.
SameOrderer(r, v) == v.orderer = r.orderer /\ v.from = r.from /\ v.seen = r.seen

LEMMA OutFacts ==
  ASSUME NEW r \in Sending, NEW q \in Seq(Block), NEW v, v = [r EXCEPT !.out = q]
  PROVE  v \in Sending /\ SameOrderer(r, v) /\ v.out = q /\ v.last = r.last
         /\ v.phase = r.phase
BY DEF Sending, SameOrderer

LEMMA LiveFacts ==
  ASSUME NEW r \in Sending, NEW v, v = [r EXCEPT !.phase = "live"]
  PROVE  v \in Sending /\ SameOrderer(r, v) /\ v.out = r.out /\ v.last = r.last
         /\ v.phase = "live"
BY DEF Sending, SameOrderer

\* Notify, Receive and Subscribe, in these terms.
LEMMA NotifyFacts ==
  ASSUME TypeOK, NEW o \in Orderer, Notify(o)
  PROVE  /\ notified[o] + 1 \in Block /\ notified[o] < length[o]
         /\ notified' = [notified EXCEPT ![o] = @ + 1]
         /\ \/ /\ Live(o) /\ stream \in Sending /\ stream' \in Sending
               /\ SameOrderer(stream, stream')
               /\ stream'.phase = stream.phase /\ stream'.last = stream.last
               /\ stream'.out = Append(stream.out, notified[o] + 1)
            \/ stream' = stream /\ (disturbed' \/ ~Live(o))
         /\ disturbed => disturbed'
         /\ disturbed' \in BOOLEAN
<1>1. /\ notified[o] < length[o]
      /\ notified' = [notified EXCEPT ![o] = @ + 1]
      /\ \/ Live(o) /\ stream' = [stream EXCEPT !.out = Append(@, notified[o] + 1)]
         \/ stream' = stream /\ ~(Live(o) /\ Len(stream.out) < SubCap)
      /\ disturbed' = (disturbed \/ (Live(o) /\ Len(stream.out) >= SubCap))
  BY Zenon DEF Notify
<1>2. notified[o] + 1 \in Block
  <2> HIDE DEF Live
  <2> QED
    BY SMTT(30), <1>1, BoundAssumption DEF TypeOK, Block
<1>3. ASSUME Live(o), stream' = [stream EXCEPT !.out = Append(@, notified[o] + 1)]
      PROVE  /\ stream \in Sending /\ stream' \in Sending
             /\ SameOrderer(stream, stream')
             /\ stream'.phase = stream.phase /\ stream'.last = stream.last
             /\ stream'.out = Append(stream.out, notified[o] + 1)
  <2>1. stream \in Sending
    BY <1>3, StreamKinds DEF Live
  <2>2. Append(stream.out, notified[o] + 1) \in Seq(Block)
    BY <1>2, <2>1, SendingFields, AppendFacts
  <2>3. PICK q \in Seq(Block) : q = Append(stream.out, notified[o] + 1)
    BY <2>2
  <2>4. stream' = [stream EXCEPT !.out = q]
    BY <1>3, <2>3, Zenon
  <2>5. /\ stream' \in Sending /\ SameOrderer(stream, stream') /\ stream'.out = q
        /\ stream'.last = stream.last /\ stream'.phase = stream.phase
    BY SMTT(30), <2>1, <2>4, OutFacts
  <2> QED
    BY <2>1, <2>3, <2>5, Zenon
<1>4. ASSUME stream' = stream, ~(Live(o) /\ Len(stream.out) < SubCap)
      PROVE  disturbed' \/ ~Live(o)
  <2>1. Live(o) => stream \in Sending
    BY StreamKinds DEF Live
  <2>2. Live(o) => Len(stream.out) >= SubCap
    BY <1>4, <2>1, SendingFields, LenProperties, CapAssumption
  <2> QED
    BY <1>1, <2>2
<1>5. disturbed' \in BOOLEAN /\ (disturbed => disturbed')
  BY <1>1 DEF TypeOK
<1> QED
  BY <1>1, <1>2, <1>3, <1>4, <1>5

LEMMA ReceiveFacts ==
  ASSUME TypeOK, Receive
  PROVE  /\ stream \in Sending /\ stream' \in Sending
         /\ SameOrderer(stream, stream') /\ stream'.phase = stream.phase
         /\ stream.out # <<>> /\ Head(stream.out) \in Block
         /\ stream'.out = Tail(stream.out) /\ Tail(stream.out) \in Seq(Block)
         /\ stream'.last = Head(stream.out)
         /\ Len(blockChan) < ChanCap /\ blockChan' = Append(blockChan, Head(stream.out))
<1>1. /\ stream.phase \in {"snapshot", "live"} /\ stream.out # <<>>
      /\ stream' = [stream EXCEPT !.out = Tail(stream.out), !.last = Head(stream.out)]
      /\ Len(blockChan) < ChanCap /\ blockChan' = Append(blockChan, Head(stream.out))
  BY Zenon DEF Receive
<1>2. stream \in Sending
  BY <1>1, StreamKinds, Zenon
<1>3. Head(stream.out) \in Block /\ Tail(stream.out) \in Seq(Block)
  <2>1. stream.out \in Seq(Block) /\ stream.out # <<>>
    BY <1>1, <1>2, SendingFields, Zenon
  <2> QED
    BY <2>1, TailFacts, Zenon
<1>4. Head(stream.out) \in 0..MaxBlocks
  BY <1>3, BoundAssumption DEF Block
<1> QED
  <2>1. /\ stream' \in Sending /\ SameOrderer(stream, stream')
        /\ stream'.out = Tail(stream.out) /\ stream'.last = Head(stream.out)
        /\ stream'.phase = stream.phase
    <3>1. PICK q \in Seq(Block), b \in 0..MaxBlocks :
            q = Tail(stream.out) /\ b = Head(stream.out)
      BY <1>3, <1>4
    <3>2. stream' = [stream EXCEPT !.out = q, !.last = b]
      BY <1>1, <3>1, Zenon
    <3>3. \A r \in Sending : \A w : w = [r EXCEPT !.out = q, !.last = b] =>
            w \in Sending /\ w.orderer = r.orderer /\ w.from = r.from /\ w.seen = r.seen
            /\ w.out = q /\ w.last = b /\ w.phase = r.phase
      BY DEF Sending
    <3> QED
      BY <1>2, <3>1, <3>2, <3>3 DEF SameOrderer
  <2> QED
    BY <1>1, <1>2, <1>3, <2>1, Zenon

LEMMA SubscribeFacts ==
  ASSUME TypeOK, Subscribe
  PROVE  /\ stream \in Sending /\ stream' \in Sending
         /\ SameOrderer(stream, stream')
         /\ stream.phase = "snapshot" /\ stream'.phase = "live"
         /\ stream.out = <<>> /\ stream'.out = <<>> /\ stream'.last = stream.last
         /\ disturbed' = (disturbed \/ notified[stream.orderer] # stream.seen
                                    \/ stream.seen + 1 < stream.from)
<1>1. /\ stream.phase = "snapshot" /\ stream.out = <<>>
      /\ stream' = [stream EXCEPT !.phase = "live"]
      /\ disturbed' = (disturbed \/ notified[stream.orderer] # stream.seen
                                 \/ stream.seen + 1 < stream.from)
  BY Zenon DEF Subscribe
<1>2. stream \in Sending
  BY <1>1, StreamKinds, Zenon
<1> QED
  BY <1>1, <1>2, LiveFacts, Zenon

-----------------------------------------------------------------------------
(* Types *)

LEMMA TypeInit == Init => TypeOK
<1> SUFFICES ASSUME Init PROVE TypeOK
  OBVIOUS
<1>1. /\ length \in [Orderer -> 0..MaxBlocks] /\ notified \in [Orderer -> 0..MaxBlocks]
      /\ breaks \in 0..MaxBreaks /\ crashes \in 0..MaxCrashes
      /\ failures \in 0..MaxFailures
  BY BoundAssumption DEF Init
<1>2. /\ blockChan \in Seq(Block) /\ Len(blockChan) <= ChanCap
      /\ hand \in Seq(Block) /\ Len(hand) <= 1
      /\ file \in Seq(Block) /\ applied \in Seq([block : Block, height : Nat])
  BY CapAssumption, EmptySeq DEF Init
<1> QED
  BY <1>1, <1>2 DEF Init, TypeOK

LEMMA TypeStep == TypeOK /\ Handling /\ [Next]_vars => TypeOK'
<1> SUFFICES ASSUME TypeOK, Handling, [Next]_vars PROVE TypeOK'
  OBVIOUS
<1> USE BoundAssumption, CapAssumption
<1>1. ASSUME NEW o \in Orderer, Append1(o) PROVE TypeOK'
  BY <1>1 DEF Append1, TypeOK, peerVars, bounds
<1>2. ASSUME NEW o \in Orderer, Notify(o) PROVE TypeOK'
  <2>1. notified' \in [Orderer -> 0..MaxBlocks]
    <3>1. notified[o] + 1 \in 0..MaxBlocks /\ notified' = [notified EXCEPT ![o] = @ + 1]
      BY <1>2, NotifyFacts DEF Block
    <3> QED
      BY <3>1 DEF TypeOK
  <2>2. stream' \in {None} \cup Requested \cup Sending /\ disturbed' \in BOOLEAN
    BY <1>2, NotifyFacts DEF TypeOK
  <2>3. UNCHANGED <<length, peerVars, bounds>>
    BY <1>2 DEF Notify
  <2> QED
    BY <2>1, <2>2, <2>3 DEF TypeOK, peerVars, bounds
<1>3. ASSUME NEW o \in Orderer, Serve(o) PROVE TypeOK'
  <2>1. stream \in Requested
    BY <1>3, StreamKinds DEF Serve
  <2>2. length[o] \in 0..MaxBlocks /\ stream.from \in Nat \ {0}
    BY <2>1 DEF TypeOK, Requested
  <2>3. stream' \in Sending
    BY <1>3, <2>2, AboveFacts DEF Serve, Sending
  <2> QED
    BY <1>3, <2>3 DEF Serve, TypeOK, ordererVars, peerVars, bounds
<1>4. CASE Subscribe
  <2>1. stream' \in Sending /\ disturbed' \in BOOLEAN
    BY <1>4, SubscribeFacts DEF TypeOK
  <2>2. UNCHANGED <<ordererVars, peerVars, bounds>>
    BY <1>4 DEF Subscribe
  <2> QED
    BY <2>1, <2>2 DEF TypeOK, ordererVars, peerVars, bounds
<1>5. CASE Request
  <2>1. stream' \in Requested
    BY <1>5 DEF Request, TypeOK, FromIndex, Requested
  <2> QED
    BY <1>5, <2>1 DEF Request, TypeOK, ordererVars, peerVars, bounds
<1>6. CASE Receive
  <2>1. blockChan' \in Seq(Block) /\ Len(blockChan') <= ChanCap
    <3>1. /\ Head(stream.out) \in Block /\ Len(blockChan) < ChanCap
          /\ blockChan' = Append(blockChan, Head(stream.out))
      BY <1>6, ReceiveFacts
    <3>2. PICK b \in Block : b = Head(stream.out)
      BY <3>1
    <3> QED
      BY <3>1, <3>2, AppendFacts DEF TypeOK
  <2>2. stream' \in Sending
    BY <1>6, ReceiveFacts
  <2>3. UNCHANGED <<ordererVars, hand, persisted, file, blockCount, applied, up,
                    bounds, disturbed>>
    BY <1>6 DEF Receive
  <2> QED
    BY <2>1, <2>2, <2>3 DEF TypeOK, ordererVars, bounds
<1>7. CASE Break
  BY <1>7 DEF Break, TypeOK, ordererVars, peerVars
<1>8. CASE Take
  <2>1. /\ Head(blockChan) \in Block /\ Tail(blockChan) \in Seq(Block)
        /\ Len(Tail(blockChan)) <= ChanCap
    BY <1>8, TailFacts DEF Take, TypeOK
  <2>2. hand' \in Seq(Block) /\ Len(hand') <= 1
    BY <1>8, <2>1 DEF Take
  <2>3. disturbed' \in BOOLEAN
    BY <1>8 DEF Take, TypeOK
  <2> QED
    BY <1>8, <2>1, <2>2, <2>3 DEF Take, TypeOK, ordererVars, bounds
<1>9. CASE Persist
  <2>1. file' \in Seq(Block)
    BY <1>9, ConcatProperties DEF Persist, TypeOK
  <2> QED
    BY <1>9, <2>1 DEF Persist, TypeOK, ordererVars, bounds
<1>10. CASE PersistFails
  BY <1>10 DEF PersistFails, TypeOK, ordererVars
<1>11. CASE Apply
  <2>1. hand \in Seq(Block) /\ Len(hand) = 1 /\ blockCount \in Nat
    BY <1>11 DEF Apply, Handling, TypeOK
  <2>2. hand[1] \in Block
    BY <2>1
  <2>3. [block |-> hand[1], height |-> blockCount] \in [block : Block, height : Nat]
    BY <2>1, <2>2
  <2>4. applied' \in Seq([block : Block, height : Nat])
    BY <1>11, <2>3, AppendProperties DEF Apply, TypeOK
  <2>5. hand' \in Seq(Block) /\ Len(hand') <= 1 /\ persisted' \in BOOLEAN
    <3>1. hand' = <<>>
      BY <1>11, Zenon DEF Apply
    <3>2. hand' \in Seq(Block) /\ Len(hand') <= 1
      BY <3>1
    <3>3. persisted' \in BOOLEAN
      BY <1>11, Zenon DEF Apply
    <3> QED
      BY <3>2, <3>3
  <2>6. UNCHANGED <<length, notified, stream, blockChan, file, blockCount, up,
                    breaks, crashes, failures, disturbed>>
    BY <1>11 DEF Apply, ordererVars, bounds
  <2> QED
    BY <2>4, <2>5, <2>6 DEF TypeOK
<1>12. CASE ApplyFails
  <2>1. hand' = <<>> /\ persisted' = FALSE
    BY <1>12, Zenon DEF ApplyFails
  <2>2. hand' \in Seq(Block) /\ Len(hand') <= 1
    BY <2>1
  <2>3. failures' \in 0..MaxFailures
    BY <1>12 DEF ApplyFails, TypeOK
  <2> QED
    BY <1>12, <2>1, <2>2, <2>3 DEF ApplyFails, TypeOK, ordererVars
<1>13. CASE Crash
  <2>1. hand' = <<>> /\ blockChan' = <<>>
    BY <1>13, Zenon DEF Crash
  <2>2. /\ hand' \in Seq(Block) /\ Len(hand') <= 1
        /\ blockChan' \in Seq(Block) /\ Len(blockChan') <= ChanCap
    BY <2>1
  <2>3. crashes' \in 0..MaxCrashes
    BY <1>13 DEF Crash, TypeOK
  <2>4. /\ stream' \in {None} \cup Requested \cup Sending
        /\ persisted' \in BOOLEAN /\ up' \in BOOLEAN
    BY <1>13, Zenon DEF Crash
  <2>5. /\ blockCount' = 0
        /\ UNCHANGED <<length, notified, file, applied, breaks, failures, disturbed>>
    BY <1>13, Zenon DEF Crash, ordererVars
  <2> QED
    BY <2>2, <2>3, <2>4, <2>5 DEF TypeOK
<1>14. CASE Restart
  BY <1>14 DEF Restart, Restarted, TypeOK, ordererVars, bounds
<1>15. CASE UNCHANGED vars
  BY <1>15 DEF vars, TypeOK, ordererVars, peerVars, bounds
<1> QED
  BY <1>1, <1>2, <1>3, <1>4, <1>5, <1>6, <1>7, <1>8, <1>9, <1>10, <1>11, <1>12,
     <1>13, <1>14, <1>15 DEF Next

-----------------------------------------------------------------------------
(* The peer's counter and its versions *)

\* Persist puts the block in hand at the end of the file.
LEMMA PersistFacts ==
  ASSUME TypeOK, Persist
  PROVE  /\ Len(hand) = 1 /\ hand[1] \in Block /\ ~persisted /\ persisted' /\ up
         /\ file' = Append(file, hand[1])
         /\ Len(file') = Len(file) + 1 /\ DOMAIN file' = 1..(Len(file) + 1)
         /\ \A i \in DOMAIN file : file'[i] = file[i]
         /\ file'[Len(file) + 1] = hand[1]
         /\ blockCount' = blockCount + 1
         /\ UNCHANGED <<length, notified, stream, blockChan, hand, applied, up,
                        breaks, crashes, failures, disturbed>>
<1>1. Len(hand) = 1 /\ hand \in Seq(Block) /\ file \in Seq(Block)
  <2>1. hand \in Seq(Block) /\ hand # <<>> /\ Len(hand) <= 1 /\ file \in Seq(Block)
    BY DEF Persist, TypeOK
  <2>2. Len(hand) \in Nat \ {0} /\ Len(hand) <= 1
    BY <2>1, TailFacts, Zenon
  <2>3. Len(hand) = 1
    BY <2>2
  <2> QED
    BY <2>1, <2>3, Zenon
<1>2. PICK b \in Block : b = hand[1]
  BY <1>1
<1>3. file' = Append(file, b)
  <2>1. file' = file \o hand
    BY Zenon DEF Persist
  <2> QED
    BY <1>1, <1>2, <2>1, ConcatOne
<1>4. /\ Len(file') = Len(file) + 1 /\ DOMAIN file' = 1..(Len(file) + 1)
      /\ \A i \in DOMAIN file : file'[i] = file[i]
      /\ file'[Len(file) + 1] = b
  <2>1. DOMAIN file = 1..Len(file)
    BY <1>1, LenProperties
  <2> QED
    BY <1>1, <1>3, <2>1, AppendFacts
<1>5. /\ ~persisted /\ persisted' /\ up /\ blockCount' = blockCount + 1
      /\ UNCHANGED <<length, notified, stream, blockChan, hand, applied, up,
                     breaks, crashes, failures, disturbed>>
  BY DEF Persist, ordererVars, bounds
<1> QED
  BY <1>1, <1>2, <1>3, <1>4, <1>5

\* Apply stamps the last block of the file with its number.
LEMMA ApplyFacts ==
  ASSUME TypeOK, Handling, Apply
  PROVE  /\ Len(file) \in DOMAIN file
         /\ DOMAIN applied' = 1..(Len(applied) + 1) /\ Len(applied') = Len(applied) + 1
         /\ \A i \in 1..Len(applied) : applied'[i] = applied[i]
         /\ applied'[Len(applied) + 1] = [block |-> file[Len(file)], height |-> Len(file)]
         /\ hand' = <<>> /\ persisted /\ ~persisted' /\ up
         /\ UNCHANGED <<length, notified, stream, blockChan, file, blockCount, up,
                        breaks, crashes, failures, disturbed>>
<1>1. /\ Len(file) \in DOMAIN file /\ file[Len(file)] = hand[1] /\ blockCount = Len(file)
      /\ Len(file) \in Nat /\ Len(hand) = 1 /\ hand \in Seq(Block)
  BY LenProperties DEF Handling, Apply, TypeOK
<1>2. PICK e \in [block : Block, height : Nat] :
        e = [block |-> file[Len(file)], height |-> Len(file)]
  <2>1. file[Len(file)] \in Block
    BY <1>1
  <2> QED
    BY <1>1, <2>1
<1>3. applied' = Append(applied, e)
  <2>1. applied' = Append(applied, [block |-> hand[1], height |-> blockCount])
    BY Zenon DEF Apply
  <2> QED
    BY <1>1, <1>2, <2>1, Zenon
<1>4. /\ DOMAIN applied' = 1..(Len(applied) + 1) /\ Len(applied') = Len(applied) + 1
      /\ \A i \in 1..Len(applied) : applied'[i] = applied[i]
      /\ applied'[Len(applied) + 1] = e
  BY <1>3, AppendFacts DEF TypeOK
<1>5. /\ hand' = <<>> /\ persisted /\ ~persisted' /\ up
      /\ UNCHANGED <<length, notified, stream, blockChan, file, blockCount, up,
                     breaks, crashes, failures, disturbed>>
  BY Zenon DEF Apply, ordererVars, bounds
<1> QED
  BY <1>1, <1>2, <1>4, <1>5

LEMMA HandlingInit == Init => Handling
<1> SUFFICES ASSUME Init PROVE Handling
  OBVIOUS
<1>1. up /\ ~persisted /\ blockCount = 0 /\ file = <<>>
  BY DEF Init
<1>2. Len(file) = 0
  BY <1>1
<1> QED
  BY <1>1, <1>2 DEF Handling

LEMMA HandlingStep == TypeOK /\ Handling /\ [Next]_vars => Handling'
<1> SUFFICES ASSUME TypeOK, Handling, [Next]_vars PROVE Handling'
  OBVIOUS
<1>1. CASE UNCHANGED <<stream, blockChan, hand, persisted, file, blockCount, up>>
  BY <1>1 DEF Handling
<1>2. CASE up /\ UNCHANGED <<hand, persisted, file, blockCount, up>>
  BY <1>2 DEF Handling
<1>3. ASSUME NEW o \in Orderer, Append1(o) PROVE Handling'
  BY <1>1, <1>3 DEF Append1, peerVars
<1>4. ASSUME stream # None PROVE up
  BY <1>4 DEF Handling
<1>5. ASSUME NEW o \in Orderer, Notify(o) PROVE Handling'
  <2>1. UNCHANGED peerVars /\ (stream' = stream \/ stream # None)
    BY <1>5, NotifyFacts, StreamKinds DEF Notify
  <2> QED
    BY <1>1, <1>2, <1>4, <2>1 DEF peerVars
<1>6. ASSUME NEW o \in Orderer, Serve(o) PROVE Handling'
  <2>1. stream # None
    BY <1>6, StreamKinds DEF Serve
  <2> QED
    BY <1>2, <1>4, <1>6, <2>1 DEF Serve, peerVars
<1>7. CASE Subscribe
  <2>1. stream # None /\ UNCHANGED peerVars
    BY <1>7, SubscribeFacts, StreamKinds DEF Subscribe
  <2> QED
    BY <1>2, <1>4, <2>1 DEF peerVars
<1>8. CASE Request
  BY <1>2, <1>8 DEF Request, peerVars
<1>9. CASE Receive
  <2>1. stream # None /\ UNCHANGED <<hand, persisted, file, blockCount, up>>
    BY <1>9, ReceiveFacts, StreamKinds DEF Receive
  <2> QED
    BY <1>2, <1>4, <2>1
<1>10. CASE Break
  BY <1>2, <1>4, <1>10 DEF Break, peerVars
<1>11. CASE Take
  <2>1. up /\ ~persisted' /\ UNCHANGED <<stream, file, blockCount, up>>
    BY <1>11, Zenon DEF Take
  <2> QED
    BY <2>1 DEF Handling
<1>12. CASE Persist
  <2>1. blockCount' = Len(file') /\ Len(file') \in DOMAIN file'
        /\ file'[Len(file')] = hand'[1]
    <3>1. blockCount = Len(file) /\ Len(file) \in Nat
      BY <1>12, PersistFacts DEF Handling, TypeOK
    <3> QED
      BY <1>12, <3>1, PersistFacts
  <2> QED
    BY <1>12, <2>1, PersistFacts DEF Handling
<1>13. CASE PersistFails
  <2>1. up /\ ~persisted' /\ UNCHANGED <<file, blockCount, up>>
    BY <1>13, Zenon DEF PersistFails
  <2> QED
    BY <2>1 DEF Handling
<1>14. CASE Apply
  BY <1>14, ApplyFacts DEF Handling
<1>15. CASE ApplyFails
  <2>1. up /\ ~persisted' /\ UNCHANGED <<file, blockCount, up>>
    BY <1>15, Zenon DEF ApplyFails
  <2> QED
    BY <2>1 DEF Handling
<1>16. CASE Crash
  <2>1. ~up' /\ ~persisted' /\ stream' = None /\ blockChan' = <<>> /\ hand' = <<>>
    BY <1>16, Zenon DEF Crash
  <2> QED
    BY <2>1 DEF Handling
<1>17. CASE Restart
  <2>1. up' /\ blockCount' = Len(file) /\ ~persisted' /\ file' = file
    <3>1. ~persisted
      BY <1>17 DEF Restart, Handling
    <3> QED
      BY <1>17, <3>1 DEF Restart, Restarted
  <2> QED
    BY <2>1 DEF Handling
<1>18. CASE UNCHANGED vars
  BY <1>1, <1>18 DEF vars, peerVars
<1> QED
  BY <1>3, <1>5, <1>6, <1>7, <1>8, <1>9, <1>10, <1>11, <1>12, <1>13, <1>14, <1>15,
     <1>16, <1>17, <1>18 DEF Next

\* A step that leaves the disk alone, and counts a block it gives up.
KeepsDisk ==
  /\ UNCHANGED <<file, applied>>
  /\ crashes' \in Nat /\ failures' \in Nat
  /\ crashes <= crashes' /\ failures <= failures'
  /\ \/ persisted' = persisted
     \/ ~persisted' /\ (persisted => crashes' + failures' = crashes + failures + 1)

\* Every step but Persist and Apply is of this kind.
LEMMA DiskStep ==
  ASSUME TypeOK, Handling, [Next]_vars
  PROVE  Persist \/ Apply \/ KeepsDisk
<1>1. crashes \in Nat /\ failures \in Nat
  BY BoundAssumption DEF TypeOK
<1>2. ASSUME UNCHANGED <<file, applied, crashes, failures, persisted>> PROVE KeepsDisk
  BY <1>1, <1>2 DEF KeepsDisk
<1>3. ASSUME NEW o \in Orderer, Append1(o) \/ Notify(o) \/ Serve(o) PROVE KeepsDisk
  <2>1. UNCHANGED <<peerVars, bounds>>
    BY <1>3 DEF Append1, Notify, Serve
  <2> QED
    BY <1>2, <2>1 DEF peerVars, bounds
<1>4. CASE Subscribe \/ Request \/ Receive
  <2>1. UNCHANGED <<file, applied, persisted, bounds>>
    BY <1>4 DEF Subscribe, Request, Receive, peerVars
  <2> QED
    BY <1>2, <2>1 DEF bounds
<1>5. CASE Break
  BY <1>2, <1>5 DEF Break, peerVars
<1>6. CASE Take
  <2>1. ~persisted' /\ ~persisted /\ UNCHANGED <<file, applied, bounds>>
    <3>1. hand = <<>> /\ ~persisted' /\ UNCHANGED <<file, applied, bounds>>
      BY <1>6, Zenon DEF Take
    <3>2. persisted => Len(hand) = 1
      BY DEF Handling
    <3> QED
      BY <3>1, <3>2, EmptySeq
  <2> QED
    BY <1>1, <2>1 DEF bounds, KeepsDisk
<1>7. CASE PersistFails \/ ApplyFails
  <2>1. /\ failures' = failures + 1 /\ UNCHANGED <<file, applied, crashes>>
        /\ persisted' = persisted \/ ~persisted'
    BY <1>7, Zenon DEF PersistFails, ApplyFails
  <2> QED
    BY <1>1, <2>1 DEF KeepsDisk
<1>8. CASE Crash
  <2>1. crashes' = crashes + 1 /\ ~persisted' /\ UNCHANGED <<file, applied, failures>>
    BY <1>8, Zenon DEF Crash
  <2> QED
    BY <1>1, <2>1 DEF KeepsDisk
<1>9. CASE Restart \/ UNCHANGED vars
  BY <1>2, <1>9 DEF Restart, vars, peerVars, bounds
<1> QED
  BY <1>3, <1>4, <1>5, <1>6, <1>7, <1>8, <1>9, Zenon DEF Next

LEMMA HeightsStep ==
  ASSUME TypeOK, Handling, Heights, [Next]_vars
  PROVE  Heights'
<1>1. Len(file) \in Nat /\ DOMAIN file = 1..Len(file) /\ DOMAIN applied = 1..Len(applied)
      /\ Len(applied) \in Nat
  BY LenProperties DEF TypeOK
<1>2. \A i \in DOMAIN applied : applied[i].height \in 1..Len(file)
  BY <1>1 DEF Heights, HeightsFresh
<1>3. CASE Persist
  <2>1. HeightsFresh'
    BY <1>1, <1>2, <1>3, PersistFacts DEF Heights, HeightsFresh
  <2>2. \A i \in DOMAIN applied' : applied'[i].height < Len(file')
    BY <1>1, <1>2, <1>3, PersistFacts
  <2> QED
    BY <2>1, <2>2 DEF Heights
<1>4. CASE Apply
  <2> DEFINE n == Len(applied)
  <2>1. /\ DOMAIN applied' = 1..(n + 1) /\ file' = file /\ ~persisted'
        /\ \A i \in 1..n : applied'[i] = applied[i]
        /\ applied'[n + 1].block = file[Len(file)] /\ applied'[n + 1].height = Len(file)
        /\ Len(file) \in DOMAIN file
    BY <1>4, ApplyFacts
  <2>2. \A i \in 1..n : applied[i].height < Len(file)
    BY <1>1, <1>4, ApplyFacts DEF Heights
  <2>3. n \in Nat /\ \A i \in 1..(n + 1) : i \in 1..n \/ i = n + 1
    BY <1>1
  <2> HIDE DEF n
  <2>4. \A i \in DOMAIN applied' : /\ applied'[i].height \in DOMAIN file'
                                  /\ applied'[i].block = file'[applied'[i].height]
    <3>1. \A i \in 1..n : /\ applied[i].height \in DOMAIN file
                           /\ applied[i].block = file[applied[i].height]
      BY <1>1 DEF Heights, HeightsFresh, n
    <3> QED
      BY <2>1, <2>3, <3>1
  <2>5. \A i, j \in DOMAIN applied' : i < j => applied'[i].height < applied'[j].height
    <3>1. \A i, j \in 1..n : i < j => applied[i].height < applied[j].height
      BY <1>1 DEF Heights, HeightsFresh, n
    <3> QED
      BY <2>1, <2>2, <2>3, <3>1
  <2> QED
    BY <2>1, <2>4, <2>5 DEF Heights, HeightsFresh
<1>5. CASE KeepsDisk
  BY <1>5 DEF Heights, HeightsFresh, KeepsDisk
<1> QED
  BY <1>3, <1>4, <1>5, DiskStep

\* The sum LossAccounted bounds the file by, when a block is given up.
LEMMA LossArithmetic ==
  ASSUME NEW a \in Nat, NEW b \in Nat, NEW c \in Nat, NEW f \in Nat,
         NEW d \in Nat, NEW g \in Nat, NEW h \in {0, 1}, NEW k \in {0, 1},
         a <= b + c + f + h, c <= d, f <= g, k = h \/ (h = 1 => d + g = c + f + 1)
  PROVE  a <= b + d + g + k
OBVIOUS

LEMMA LossStep ==
  ASSUME TypeOK, Handling, LossAccounted, [Next]_vars
  PROVE  LossAccounted'
<1>1. /\ Len(file) \in Nat /\ Len(applied) \in Nat
      /\ crashes \in Nat /\ failures \in Nat
  BY BoundAssumption, LenProperties DEF TypeOK
<1>2. CASE Persist
  <2>1. /\ Len(file') = Len(file) + 1 /\ applied' = applied /\ crashes' = crashes
        /\ failures' = failures /\ ~persisted /\ persisted'
    BY <1>2, PersistFacts
  <2> QED
    BY <1>1, <2>1 DEF LossAccounted
<1>3. CASE Apply
  <2>1. /\ file' = file /\ Len(applied') = Len(applied) + 1 /\ crashes' = crashes
        /\ failures' = failures /\ persisted /\ ~persisted'
    BY <1>3, ApplyFacts
  <2> QED
    BY <1>1, <2>1 DEF LossAccounted
<1>4. CASE KeepsDisk
  <2> DEFINE h == IF persisted THEN 1 ELSE 0
             k == IF persisted' THEN 1 ELSE 0
  <2>1. /\ Len(file') = Len(file) /\ Len(applied') = Len(applied)
        /\ crashes' \in Nat /\ failures' \in Nat
        /\ crashes <= crashes' /\ failures <= failures'
    BY <1>4, Zenon DEF KeepsDisk
  <2>2. h \in {0, 1} /\ k \in {0, 1}
    OBVIOUS
  <2>3. k = h \/ (h = 1 => crashes' + failures' = crashes + failures + 1)
    <3>1. CASE persisted' = persisted
      BY <3>1, Zenon
    <3>2. CASE ~persisted' /\ (persisted => crashes' + failures' = crashes + failures + 1)
      <4>1. k = 0 /\ (persisted \/ h = 0)
        BY <3>2
      <4> QED
        BY <3>2, <4>1, Zenon
    <3> QED
      BY <1>4, <3>1, <3>2, Zenon DEF KeepsDisk
  <2>4. Len(file) <= Len(applied) + crashes + failures + h
    BY DEF LossAccounted
  <2> HIDE DEF h, k
  <2>5. Len(file) <= Len(applied) + crashes' + failures' + k
    BY <1>1, <2>1, <2>2, <2>3, <2>4, LossArithmetic
  <2> QED
    BY <2>1, <2>5, Zenon DEF LossAccounted, k
<1> QED
  BY <1>2, <1>3, <1>4, DiskStep

-----------------------------------------------------------------------------
(* Streams go forward *)

\* What every step leaves of the ordering nodes' counters.
LEMMA OrdererStep ==
  ASSUME TypeOK, [Next]_vars
  PROVE  \/ UNCHANGED ordererVars
         \/ \E o \in Orderer : Append1(o) \/ Notify(o)
<1>1. ASSUME NEW o \in Orderer, Serve(o) PROVE UNCHANGED ordererVars
  BY <1>1, Zenon DEF Serve
<1>2. CASE Subscribe \/ Request \/ Receive \/ Break \/ Take \/ Persist \/ PersistFails
  BY <1>2, Zenon DEF Subscribe, Request, Receive, Break, Take, Persist, PersistFails, peerVars
<1>3. CASE Apply \/ ApplyFails \/ Crash \/ Restart \/ UNCHANGED vars
  BY <1>3, Zenon DEF Apply, ApplyFails, Crash, Restart, vars
<1> QED
  BY <1>1, <1>2, <1>3, Zenon DEF Next

LEMMA LagStep ==
  ASSUME TypeOK, Lag, [Next]_vars
  PROVE  Lag'
<1> SUFFICES ASSUME NEW p \in Orderer
             PROVE  notified'[p] <= length'[p] /\ length'[p] <= notified'[p] + 1
  BY DEF Lag
<1>1. /\ notified[p] \in Nat /\ length[p] \in Nat
      /\ notified[p] <= length[p] /\ length[p] <= notified[p] + 1
  BY BoundAssumption DEF Lag, TypeOK
<1>2. ASSUME NEW o \in Orderer, Append1(o)
      PROVE  notified'[p] <= length'[p] /\ length'[p] <= notified'[p] + 1
  BY <1>1, <1>2 DEF Append1, TypeOK
<1>3. ASSUME NEW o \in Orderer, Notify(o)
      PROVE  notified'[p] <= length'[p] /\ length'[p] <= notified'[p] + 1
  <2>1. notified' = [notified EXCEPT ![o] = @ + 1] /\ notified[o] < length[o]
    BY <1>3, NotifyFacts
  <2>2. length' = length
    BY <1>3 DEF Notify
  <2> QED
    BY <1>1, <2>1, <2>2 DEF TypeOK
<1>4. CASE UNCHANGED ordererVars
  BY <1>1, <1>4 DEF ordererVars
<1> QED
  BY <1>2, <1>3, <1>4, OrdererStep

\* What a stream becomes in a step, seen by its reader.
LEMMA StreamStep ==
  ASSUME TypeOK, [Next]_vars
  PROVE  \/ stream' = stream
         \/ stream' \in {None} \cup Requested
         \/ \E o \in Orderer : Serve(o) \/ Notify(o)
         \/ Subscribe \/ Receive
<1>1. ASSUME NEW o \in Orderer, Append1(o) PROVE stream' = stream
  BY <1>1, Zenon DEF Append1
<1>2. CASE Request
  <2>1. Len(file) + 1 \in Nat \ {0}
    BY LenProperties DEF TypeOK
  <2> QED
    BY <1>2, <2>1 DEF Request, Requested, FromIndex
<1>3. CASE Break \/ Crash
  BY <1>3, Zenon DEF Break, Crash
<1>4. CASE Take \/ Persist \/ PersistFails \/ Apply \/ ApplyFails \/ Restart
  BY <1>4, Zenon DEF Take, Persist, PersistFails, Apply, ApplyFails, Restart
<1>5. CASE UNCHANGED vars
  BY <1>5, Zenon DEF vars
<1> QED
  BY <1>1, <1>2, <1>3, <1>4, <1>5, Zenon DEF Next

\* No node takes a notification back.
LEMMA NotifiedGrows ==
  ASSUME TypeOK, [Next]_vars, NEW o \in Orderer
  PROVE  notified[o] \in Nat /\ notified'[o] \in Nat /\ notified[o] <= notified'[o]
<1>1. notified[o] \in Nat
  BY BoundAssumption DEF TypeOK
<1>2. ASSUME NEW p \in Orderer, Notify(p)
      PROVE  notified'[o] \in Nat /\ notified[o] <= notified'[o]
  <2>1. notified' = [notified EXCEPT ![p] = @ + 1]
    BY <1>2, NotifyFacts
  <2> QED
    BY <1>1, <2>1 DEF TypeOK
<1>3. ASSUME NEW p \in Orderer, Append1(p) PROVE notified' = notified
  BY <1>3 DEF Append1
<1>4. CASE notified' = notified
  BY <1>1, <1>4
<1> QED
  BY <1>1, <1>2, <1>3, <1>4, OrdererStep DEF ordererVars

\* Serve answers a request with the blocks above its index.
LEMMA ServeFacts ==
  ASSUME TypeOK, NEW o \in Orderer, Serve(o)
  PROVE  /\ stream \in Requested /\ stream.from \in Nat \ {0} /\ length[o] \in 0..MaxBlocks
         /\ stream' \in Sending /\ stream'.phase = "snapshot" /\ stream'.orderer = o
         /\ stream'.out = Above(o, stream.from) /\ stream'.from = stream.from
         /\ stream'.seen = length[o] /\ stream'.last = 0
         /\ UNCHANGED <<ordererVars, peerVars, bounds, disturbed>>
<1>1. /\ stream \in Requested
      /\ UNCHANGED <<ordererVars, peerVars, bounds, disturbed>>
      /\ stream' = [phase |-> "snapshot", orderer |-> o, out |-> Above(o, stream.from),
                    from |-> stream.from, seen |-> length[o], last |-> 0]
  BY StreamKinds, Zenon DEF Serve
<1>2. stream.from \in Nat \ {0} /\ length[o] \in 0..MaxBlocks
  BY <1>1 DEF Requested, TypeOK
<1>3. PICK q \in Seq(Block) : q = Above(o, stream.from)
  BY <1>2, AboveFacts
<1>4. /\ stream' \in Sending /\ stream'.phase = "snapshot" /\ stream'.orderer = o
      /\ stream'.out = q /\ stream'.from = stream.from
      /\ stream'.seen = length[o] /\ stream'.last = 0
  BY <1>1, <1>2, <1>3, BoundAssumption DEF Sending
<1> QED
  BY <1>1, <1>2, <1>3, <1>4, Zenon

\* The order of a stream's blocks, for a step that moves no block.
InOrderUpTo(out, last, next) ==
  /\ last <= next
  /\ \A i \in DOMAIN out : last <= out[i] /\ out[i] <= next
  /\ \A i, j \in DOMAIN out : i <= j => out[i] <= out[j]

LEMMA AscendingDef ==
  Ascending <=> (stream \in Sending =>
                  /\ stream.seen <= notified[stream.orderer] + 1
                  /\ InOrderUpTo(stream.out, stream.last, notified[stream.orderer] + 1))
BY Zenon DEF Ascending, InOrderUpTo

LEMMA OrderGrows ==
  ASSUME NEW out \in Seq(Block), NEW last \in Nat, NEW m \in Nat, NEW n \in Nat,
         InOrderUpTo(out, last, m), m <= n
  PROVE  InOrderUpTo(out, last, n)
<1>1. \A i \in DOMAIN out : out[i] \in Nat
  BY BoundAssumption DEF Block
<1> QED
  BY <1>1 DEF InOrderUpTo

LEMMA OrderAppends ==
  ASSUME NEW out \in Seq(Block), NEW last \in Nat, NEW b \in Block,
         InOrderUpTo(out, last, b)
  PROVE  InOrderUpTo(Append(out, b), last, b)
<1>1. PICK n \in Nat : n = Len(out)
  BY LenProperties
<1>2. /\ DOMAIN out = 1..n /\ DOMAIN Append(out, b) = 1..(n + 1)
      /\ \A i \in 1..n : Append(out, b)[i] = out[i]
      /\ Append(out, b)[n + 1] = b
  BY <1>1, AppendFacts, LenProperties
<1>3. b \in Nat /\ \A i \in 1..n : out[i] \in Nat
  BY <1>1, BoundAssumption DEF Block
<1>4. \A i \in 1..(n + 1) : i \in 1..n \/ i = n + 1
  BY <1>1
<1> QED
  BY <1>2, <1>3, <1>4 DEF InOrderUpTo

LEMMA OrderTakes ==
  ASSUME NEW out \in Seq(Block), NEW last \in Nat, NEW n \in Nat, out # <<>>,
         InOrderUpTo(out, last, n)
  PROVE  last <= Head(out) /\ InOrderUpTo(Tail(out), Head(out), n)
<1>1. PICK k \in Nat : k = Len(out) - 1
  BY TailFacts
<1>2. /\ Head(out) = out[1] /\ DOMAIN out = 1..(k + 1) /\ DOMAIN Tail(out) = 1..k
      /\ \A i \in 1..k : Tail(out)[i] = out[i + 1]
  BY <1>1, TailFacts
<1>3. \A i \in 1..(k + 1) : out[i] \in Nat
  BY <1>2, BoundAssumption DEF Block
<1>4. 1 \in 1..(k + 1) /\ \A i \in 1..k : i + 1 \in 1..(k + 1) /\ 1 <= i + 1
  OBVIOUS
<1>5. /\ \A i \in 1..(k + 1) : last <= out[i] /\ out[i] <= n
      /\ \A i, j \in 1..(k + 1) : i <= j => out[i] <= out[j]
  BY <1>2 DEF InOrderUpTo
<1>6. last <= Head(out) /\ Head(out) <= n
  BY <1>2, <1>4, <1>5
<1>7. \A i \in 1..k : Head(out) <= Tail(out)[i] /\ Tail(out)[i] <= n
  BY <1>2, <1>4, <1>5
<1>8. \A i, j \in 1..k : i <= j => Tail(out)[i] <= Tail(out)[j]
  <2> SUFFICES ASSUME NEW i \in 1..k, NEW j \in 1..k, i <= j
               PROVE  out[i + 1] <= out[j + 1]
    BY <1>2
  <2>1. i + 1 \in 1..(k + 1) /\ j + 1 \in 1..(k + 1) /\ i + 1 <= j + 1
    OBVIOUS
  <2> QED
    BY <1>5, <2>1
<1> QED
  BY <1>2, <1>6, <1>7, <1>8 DEF InOrderUpTo

LEMMA AscendingStep ==
  ASSUME TypeOK, Lag, Ascending, [Next]_vars
  PROVE  Ascending'
<1> DEFINE after == notified'[stream'.orderer] + 1
<1> SUFFICES ASSUME stream' \in Sending
             PROVE  stream'.seen <= after /\ InOrderUpTo(stream'.out, stream'.last, after)
  BY Zenon DEF Ascending, InOrderUpTo
<1>1. /\ stream'.orderer \in Orderer /\ stream'.out \in Seq(Block)
      /\ stream'.seen \in Nat /\ stream'.last \in Nat
  BY SendingFields, BoundAssumption
<1>2. notified[stream'.orderer] + 1 \in Nat /\ after \in Nat
      /\ notified[stream'.orderer] + 1 <= after
  BY <1>1, NotifiedGrows
<1> HIDE DEF after
\* It is enough to show the bound before the step.
<1>3. ASSUME stream'.seen <= notified[stream'.orderer] + 1,
             InOrderUpTo(stream'.out, stream'.last, notified[stream'.orderer] + 1)
      PROVE  stream'.seen <= after /\ InOrderUpTo(stream'.out, stream'.last, after)
  BY <1>1, <1>2, <1>3, OrderGrows
<1>4. stream \in Sending =>
        /\ stream.seen <= notified[stream.orderer] + 1
        /\ InOrderUpTo(stream.out, stream.last, notified[stream.orderer] + 1)
        /\ stream.out \in Seq(Block) /\ stream.last \in Nat
  BY AscendingDef, SendingFields, BoundAssumption
<1>5. CASE stream' = stream
  BY <1>3, <1>4, <1>5, Zenon
<1>6. stream' \notin {None} \cup Requested
  BY DEF None, Requested, Sending
<1>7. ASSUME NEW o \in Orderer, Serve(o)
      PROVE  stream'.seen <= after /\ InOrderUpTo(stream'.out, stream'.last, after)
  <2>1. /\ stream.from \in Nat \ {0} /\ length[o] \in 0..MaxBlocks
        /\ stream'.orderer = o /\ stream'.out = Above(o, stream.from)
        /\ stream'.seen = length[o] /\ stream'.last = 0
    BY <1>7, ServeFacts
  <2>2. length[o] \in Nat /\ length[o] <= notified[o] + 1 /\ notified[o] + 1 \in Nat
    BY <1>2, <2>1 DEF Lag
  <2>3. \A i \in DOMAIN Above(o, stream.from) :
          /\ i \in Nat /\ Above(o, stream.from)[i] = stream.from + i - 1
          /\ 0 <= stream.from + i - 1 /\ stream.from + i - 1 <= length[o]
    <3>1. Above(o, stream.from) \in Seq(Block)
      BY <2>1, AboveFacts
    <3>2. \A i \in DOMAIN Above(o, stream.from) : i \in Nat \ {0}
      BY <3>1, LenProperties
    <3> QED
      BY <2>1, <3>2, AboveFacts
  <2>4. InOrderUpTo(Above(o, stream.from), 0, notified[o] + 1)
    BY <2>1, <2>2, <2>3 DEF InOrderUpTo
  <2> QED
    BY <1>3, <2>1, <2>2, <2>4
<1>8. ASSUME NEW o \in Orderer, Notify(o)
      PROVE  stream'.seen <= after /\ InOrderUpTo(stream'.out, stream'.last, after)
  <2>1. ASSUME Live(o), stream \in Sending, SameOrderer(stream, stream'),
               stream'.last = stream.last,
               stream'.out = Append(stream.out, notified[o] + 1)
        PROVE  stream'.seen <= after /\ InOrderUpTo(stream'.out, stream'.last, after)
    <3>1. stream'.orderer = o /\ stream.orderer = o /\ stream'.seen = stream.seen
      BY <2>1 DEF SameOrderer, Live
    <3>2. PICK b \in Block : b = notified[o] + 1
      BY <1>8, NotifyFacts
    <3>3. InOrderUpTo(Append(stream.out, b), stream.last, b)
      BY <1>4, <2>1, <3>1, <3>2, OrderAppends
    <3> QED
      BY <1>3, <1>4, <2>1, <3>1, <3>2, <3>3
  <2> QED
    BY <1>5, <1>8, <2>1, NotifyFacts
<1>9. CASE Subscribe
  <2>1. /\ stream \in Sending /\ SameOrderer(stream, stream')
        /\ stream'.out = stream.out /\ stream'.last = stream.last
    BY <1>9, SubscribeFacts
  <2> QED
    BY <1>3, <1>4, <2>1, Zenon DEF SameOrderer
<1>10. CASE Receive
  <2>1. /\ stream \in Sending /\ SameOrderer(stream, stream') /\ stream.out # <<>>
        /\ stream'.out = Tail(stream.out) /\ stream'.last = Head(stream.out)
    BY <1>10, ReceiveFacts
  <2>2. InOrderUpTo(Tail(stream.out), Head(stream.out), notified[stream.orderer] + 1)
    <3>1. notified[stream.orderer] + 1 \in Nat
      BY <1>2, <2>1 DEF SameOrderer
    <3> QED
      BY <1>4, <2>1, <3>1, OrderTakes
  <2> QED
    BY <1>3, <1>4, <2>1, <2>2, Zenon DEF SameOrderer
<1> QED
  BY <1>5, <1>6, <1>7, <1>8, <1>9, <1>10, StreamStep

-----------------------------------------------------------------------------
(* Disk holds the chain *)

\* A disturbance is never forgotten.
LEMMA DisturbedStays ==
  ASSUME TypeOK, [Next]_vars, disturbed
  PROVE  disturbed'
<1>1. ASSUME NEW o \in Orderer, Append1(o) \/ Serve(o) PROVE disturbed'
  BY <1>1, Zenon DEF Append1, Serve
<1>2. ASSUME NEW o \in Orderer, Notify(o) PROVE disturbed'
  BY <1>2, NotifyFacts
<1>3. CASE Subscribe
  BY <1>3, SubscribeFacts
<1>4. CASE Request \/ Receive \/ Break \/ Take \/ Persist
  BY <1>4, Zenon DEF Request, Receive, Break, Take, Persist
<1>5. CASE PersistFails \/ Apply \/ ApplyFails \/ Crash \/ Restart \/ UNCHANGED vars
  BY <1>5, Zenon DEF PersistFails, Apply, ApplyFails, Crash, Restart, vars
<1> QED
  BY <1>1, <1>2, <1>3, <1>4, <1>5, Zenon DEF Next

\* Consecutive in parts: the disk and the hand; the queue; the stream.
DiskPart ==
  /\ \A i \in DOMAIN file : file[i] = i
  /\ (Len(hand) = 1 /\ ~persisted) => hand[1] = Len(file) + 1

QueuePart == \A i \in DOMAIN blockChan : blockChan[i] = Held + i

Received == Held + Len(blockChan)

StreamPart ==
  /\ stream \in Requested =>
       blockChan = <<>> /\ Held = Len(file) /\ stream.from = Len(file) + 1
  /\ stream \in Sending =>
       /\ \A i \in DOMAIN stream.out : stream.out[i] = Received + i
       /\ stream.phase = "snapshot" =>
            Received + Len(stream.out) = IF stream.seen + 1 < stream.from
                                         THEN stream.from - 1 ELSE stream.seen
       /\ stream.phase = "live" => Received + Len(stream.out) = notified[stream.orderer]

LEMMA ConsecutiveParts == Consecutive <=> DiskPart /\ QueuePart /\ StreamPart
BY Zenon DEF Consecutive, DiskPart, QueuePart, StreamPart, Received

LEMMA HeldType ==
  ASSUME TypeOK
  PROVE  /\ Held \in Nat /\ Received \in Nat /\ Len(file) \in Nat
         /\ Len(blockChan) \in Nat /\ Len(hand) \in Nat
         /\ DOMAIN file = 1..Len(file) /\ DOMAIN blockChan = 1..Len(blockChan)
<1>1. /\ Len(file) \in Nat /\ Len(blockChan) \in Nat /\ Len(hand) \in Nat
      /\ DOMAIN file = 1..Len(file) /\ DOMAIN blockChan = 1..Len(blockChan)
  BY LenProperties DEF TypeOK
<1> QED
  BY <1>1 DEF Held, Received

\* The steps of the peer between the queue and the disk.
LEMMA HandSteps ==
  ASSUME TypeOK, Handling, DiskPart, QueuePart, ~disturbed',
         Take \/ Persist \/ Apply \/ ApplyFails
  PROVE  /\ DiskPart' /\ QueuePart' /\ Received' = Received
         /\ stream' = stream /\ notified' = notified
         /\ stream \in Requested /\ blockChan = <<>> /\ Held = Len(file) =>
              blockChan' = <<>> /\ Held' = Len(file') /\ Len(file') = Len(file)
<1> USE HeldType
<1>1. CASE Take
  <2>1. /\ hand = <<>> /\ blockChan # <<>> /\ blockChan' = Tail(blockChan)
        /\ hand' = <<Head(blockChan)>> /\ ~persisted'
        /\ UNCHANGED <<file, stream, notified>>
    BY <1>1, Zenon DEF Take, ordererVars
  <2>2. PICK k \in Nat : k = Len(blockChan) - 1
    BY <2>1, TailFacts DEF TypeOK
  <2>3. /\ Head(blockChan) = blockChan[1] /\ DOMAIN blockChan = 1..(k + 1)
        /\ DOMAIN Tail(blockChan) = 1..k /\ Len(Tail(blockChan)) = k
        /\ \A i \in 1..k : Tail(blockChan)[i] = blockChan[i + 1]
    BY <2>1, <2>2, TailFacts DEF TypeOK
  <2>4. Held = Len(file) /\ Held' = Len(file) + 1
    <3>1. Len(hand) = 0 /\ Len(hand') = 1
      BY <2>1
    <3> QED
      BY <2>1, <3>1 DEF Held
  <2>5. /\ hand'[1] = blockChan[1] /\ 1 \in 1..(k + 1)
        /\ \A i \in 1..k : i + 1 \in 1..(k + 1)
    BY <2>1, <2>3
  <2>6. DiskPart'
    BY <2>1, <2>3, <2>4, <2>5 DEF DiskPart, QueuePart
  <2>7. QueuePart'
    <3> SUFFICES ASSUME NEW i \in 1..k PROVE blockChan[i + 1] = Held' + i
      BY <2>1, <2>3 DEF QueuePart
    <3>1. blockChan[i + 1] = Held + (i + 1)
      BY <2>3, <2>5 DEF QueuePart
    <3> QED
      BY <2>4, <3>1
  <2>8. Received' = Received
    BY <2>1, <2>2, <2>3, <2>4 DEF Received
  <2> QED
    BY <2>1, <2>6, <2>7, <2>8
<1>2. CASE Persist
  <2>1. /\ Len(hand) = 1 /\ ~persisted /\ persisted'
        /\ Len(file') = Len(file) + 1 /\ DOMAIN file' = 1..(Len(file) + 1)
        /\ \A i \in 1..Len(file) : file'[i] = file[i]
        /\ file'[Len(file) + 1] = hand[1]
        /\ UNCHANGED <<notified, stream, blockChan, hand>>
    BY <1>2, PersistFacts
  <2>2. Held = Len(file) + 1 /\ Held' = Len(file) + 1
    BY <2>1 DEF Held
  <2>3. DiskPart'
    BY <2>1 DEF DiskPart
  <2> QED
    BY <2>1, <2>2, <2>3 DEF QueuePart, Received
<1>3. CASE Apply \/ ApplyFails
  <2>1. /\ persisted /\ hand' = <<>> /\ ~persisted'
        /\ UNCHANGED <<notified, stream, blockChan, file>>
    BY <1>3, Zenon DEF Apply, ApplyFails, ordererVars
  <2>2. Held = Len(file) /\ Held' = Len(file) /\ Len(hand') = 0
    <3>1. Len(hand') = 0
      BY <2>1
    <3> QED
      BY <2>1, <3>1 DEF Held
  <2>3. DiskPart'
    BY <2>1, <2>2 DEF DiskPart
  <2> QED
    BY <2>1, <2>2, <2>3 DEF QueuePart, Received
<1> QED
  BY <1>1, <1>2, <1>3

\* The steps of the stream goroutine and of the ordering nodes.
LEMMA NotifyConsecutive ==
  ASSUME TypeOK, StreamPart, NEW o \in Orderer, Notify(o), ~disturbed'
  PROVE  StreamPart'
<1>1. /\ notified[o] + 1 \in Block /\ notified' = [notified EXCEPT ![o] = @ + 1]
      /\ notified \in [Orderer -> 0..MaxBlocks]
  BY NotifyFacts DEF TypeOK
<1>2. Held' = Held /\ blockChan' = blockChan /\ Received' = Received /\ file' = file
  BY DEF Notify, peerVars, Held, Received
<1>3. Received \in Nat
  BY HeldType
<1>4. CASE Live(o) /\ stream \in Sending /\ stream' \in Sending
           /\ SameOrderer(stream, stream') /\ stream'.phase = stream.phase
           /\ stream'.out = Append(stream.out, notified[o] + 1)
  <2>1. stream.orderer = o /\ stream'.orderer = o /\ stream'.phase = "live"
        /\ stream.phase = "live"
    BY <1>4 DEF Live, SameOrderer
  <2>2. PICK b \in Block : b = notified[o] + 1
    BY <1>1
  <2>3. PICK n \in Nat : n = Len(stream.out)
    BY <1>4, SendingFields, LenProperties
  <2>4. /\ stream'.out = Append(stream.out, b) /\ DOMAIN stream.out = 1..n
        /\ DOMAIN stream'.out = 1..(n + 1) /\ Len(stream'.out) = n + 1
        /\ \A i \in 1..n : stream'.out[i] = stream.out[i]
        /\ stream'.out[n + 1] = b
    BY <1>4, <2>2, <2>3, SendingFields, AppendFacts, LenProperties
  <2>5. Received + n = notified[o] /\ \A i \in 1..n : stream.out[i] = Received + i
    BY <1>4, <2>1, <2>3, <2>4 DEF StreamPart
  <2>6. notified'[o] = Received + (n + 1) /\ b = Received + (n + 1)
    BY <1>1, <1>3, <2>2, <2>5
  <2>7. \A i \in 1..(n + 1) : i \in 1..n \/ i = n + 1
    OBVIOUS
  <2>8. \A i \in DOMAIN stream'.out : stream'.out[i] = Received + i
    BY <2>4, <2>5, <2>6, <2>7
  <2>9. stream' \notin Requested
    BY <1>4 DEF Requested, Sending
  <2> QED
    BY <1>2, <2>1, <2>4, <2>6, <2>8, <2>9 DEF StreamPart
<1>5. CASE stream' = stream /\ ~Live(o)
  <2>1. stream.phase = "live" => stream.orderer # o
    BY <1>5 DEF Live
  <2>2. (stream \in Sending /\ stream.phase = "live") =>
          notified'[stream.orderer] = notified[stream.orderer]
    BY <1>1, <2>1, SendingFields
  <2> QED
    BY <1>2, <1>5, <2>2 DEF StreamPart
<1> QED
  BY <1>4, <1>5, NotifyFacts

LEMMA ServeConsecutive ==
  ASSUME TypeOK, StreamPart, NEW o \in Orderer, Serve(o)
  PROVE  StreamPart'
<1>1. /\ stream \in Requested /\ stream.from \in Nat \ {0} /\ length[o] \in 0..MaxBlocks
      /\ stream' \in Sending /\ stream'.phase = "snapshot"
      /\ stream'.out = Above(o, stream.from) /\ stream'.from = stream.from
      /\ stream'.seen = length[o]
      /\ UNCHANGED peerVars
  BY ServeFacts
<1>2. Held' = Held /\ Received' = Received
  BY <1>1 DEF peerVars, Held, Received
<1>3. Received = Len(file) /\ stream.from = Received + 1 /\ Received \in Nat
  <2>1. blockChan = <<>> /\ Held = Len(file) /\ stream.from = Len(file) + 1
    BY <1>1 DEF StreamPart
  <2>2. Len(blockChan) = 0
    BY <2>1
  <2> QED
    BY <2>1, <2>2, HeldType DEF Received
<1>4. /\ Above(o, stream.from) \in Seq(Block)
      /\ Len(Above(o, stream.from)) =
           IF length[o] + 1 < stream.from THEN 0 ELSE length[o] + 1 - stream.from
      /\ \A i \in DOMAIN Above(o, stream.from) : Above(o, stream.from)[i] = stream.from + i - 1
  BY <1>1, AboveFacts
<1>5. \A i \in DOMAIN stream'.out : stream'.out[i] = Received + i
  <2> SUFFICES ASSUME NEW i \in DOMAIN Above(o, stream.from)
               PROVE  Above(o, stream.from)[i] = Received + i
    BY <1>1, Zenon
  <2>1. i \in Nat
    BY <1>4, LenProperties
  <2>2. Above(o, stream.from)[i] = stream.from + i - 1
    BY <1>4
  <2> QED
    BY <1>3, <2>1, <2>2
<1>6. Received + Len(stream'.out) = IF stream'.seen + 1 < stream'.from
                                    THEN stream'.from - 1 ELSE stream'.seen
  <2>1. PICK l \in Nat : l = length[o]
    BY <1>1, BoundAssumption
  <2>2. /\ stream'.seen = l /\ stream'.from = Received + 1
        /\ Len(stream'.out) = IF l + 1 < Received + 1 THEN 0 ELSE l + 1 - (Received + 1)
    BY <1>1, <1>3, <1>4, <2>1, Zenon
  <2>3. /\ l + 1 < Received + 1 => Len(stream'.out) = 0
        /\ ~(l + 1 < Received + 1) => Len(stream'.out) = l - Received
    BY <1>3, <2>2
  <2> QED
    BY <1>3, <2>2, <2>3
<1>7. stream' \notin Requested
  BY <1>1 DEF Requested, Sending
<1> QED
  BY <1>1, <1>2, <1>5, <1>6, <1>7 DEF StreamPart

LEMMA SubscribeConsecutive ==
  ASSUME TypeOK, StreamPart, Subscribe, ~disturbed'
  PROVE  StreamPart'
<1>1. /\ stream \in Sending /\ stream' \in Sending /\ SameOrderer(stream, stream')
      /\ stream.phase = "snapshot" /\ stream'.phase = "live"
      /\ stream.out = <<>> /\ stream'.out = <<>>
      /\ notified[stream.orderer] = stream.seen /\ ~(stream.seen + 1 < stream.from)
  BY SubscribeFacts
<1>2. UNCHANGED <<ordererVars, peerVars>>
  BY DEF Subscribe
<1>3. Held' = Held /\ Received' = Received /\ notified' = notified
  BY <1>2 DEF ordererVars, peerVars, Held, Received
<1>4. Received + Len(stream'.out) = notified'[stream'.orderer]
  BY <1>1, <1>3 DEF StreamPart, SameOrderer
<1>5. DOMAIN stream'.out = {}
  BY <1>1
<1>6. stream' \notin Requested
  BY <1>1 DEF Requested, Sending
<1> QED
  BY <1>1, <1>3, <1>4, <1>5, <1>6 DEF StreamPart

LEMMA ReceiveConsecutive ==
  ASSUME TypeOK, QueuePart, StreamPart, Receive
  PROVE  QueuePart' /\ StreamPart'
<1>1. /\ stream \in Sending /\ stream' \in Sending /\ SameOrderer(stream, stream')
      /\ stream'.phase = stream.phase
      /\ stream.out # <<>> /\ stream.out \in Seq(Block) /\ Head(stream.out) \in Block
      /\ stream'.out = Tail(stream.out)
      /\ blockChan' = Append(blockChan, Head(stream.out))
  BY ReceiveFacts, SendingFields, Zenon
<1>2. Held' = Held /\ notified' = notified /\ Held \in Nat
  BY HeldType DEF Receive, Held, ordererVars
<1>3. PICK k \in Nat : k = Len(stream.out) - 1
  BY <1>1, TailFacts
<1>4. /\ Head(stream.out) = stream.out[1] /\ DOMAIN stream.out = 1..(k + 1)
      /\ DOMAIN stream'.out = 1..k /\ Len(stream'.out) = k /\ Len(stream.out) = k + 1
      /\ \A i \in 1..k : stream'.out[i] = stream.out[i + 1]
  BY <1>1, <1>3, TailFacts
<1>5. PICK n \in Nat : n = Len(blockChan)
  BY HeldType
<1>6. PICK b \in Block : b = Head(stream.out)
  BY <1>1
<1>7. /\ DOMAIN blockChan = 1..n /\ DOMAIN blockChan' = 1..(n + 1) /\ Len(blockChan') = n + 1
      /\ \A i \in 1..n : blockChan'[i] = blockChan[i]
      /\ blockChan'[n + 1] = b
  <2>1. blockChan \in Seq(Block) /\ blockChan' = Append(blockChan, b)
    BY <1>1, <1>6 DEF TypeOK
  <2> QED
    BY <1>5, <2>1, AppendFacts, LenProperties
<1>8. Received = Held + n /\ Received' = Held + n + 1
  BY <1>2, <1>5, <1>7 DEF Received
<1>9. /\ \A i \in 1..(k + 1) : stream.out[i] = Held + n + i
      /\ 1 \in 1..(k + 1) /\ \A i \in 1..k : i + 1 \in 1..(k + 1)
  <2>1. \A i \in 1..(k + 1) : stream.out[i] = Received + i
    BY <1>1, <1>4 DEF StreamPart
  <2>2. Received = Held + n
    BY <1>8
  <2>3. 1 \in 1..(k + 1) /\ \A i \in 1..k : i + 1 \in 1..(k + 1)
    OBVIOUS
  <2> QED
    BY <2>1, <2>2, <2>3
<1>10. QueuePart'
  <2>1. b = Held + n + 1
    BY <1>4, <1>6, <1>9
  <2>2. \A i \in 1..(n + 1) : i \in 1..n \/ i = n + 1
    OBVIOUS
  <2>3. \A i \in 1..n : blockChan[i] = Held + i
    BY <1>7 DEF QueuePart
  <2>4. \A i \in 1..(n + 1) : blockChan'[i] = Held + i
    BY <1>2, <1>7, <2>1, <2>2, <2>3
  <2> QED
    BY <1>2, <1>7, <2>4 DEF QueuePart
<1>11. \A i \in DOMAIN stream'.out : stream'.out[i] = Received' + i
  <2> SUFFICES ASSUME NEW i \in 1..k PROVE stream.out[i + 1] = Held + n + 1 + i
    BY <1>4, <1>8
  <2>1. stream.out[i + 1] = Held + n + (i + 1)
    BY <1>9
  <2> QED
    BY <1>2, <2>1
<1>12. Received' + Len(stream'.out) = Received + Len(stream.out)
  BY <1>2, <1>4, <1>8
<1>13. stream' \notin Requested
  BY <1>1 DEF Requested, Sending
<1>14. StreamPart'
  BY <1>1, <1>2, <1>11, <1>12, <1>13 DEF StreamPart, SameOrderer
<1> QED
  BY <1>10, <1>14

LEMMA ConsecutiveStep ==
  ASSUME TypeOK, Handling, ~disturbed => Consecutive, [Next]_vars, ~disturbed'
  PROVE  Consecutive'
<1>1. DiskPart /\ QueuePart /\ StreamPart
  BY DisturbedStays, ConsecutiveParts
<1>2. Consecutive' <=> DiskPart' /\ QueuePart' /\ StreamPart'
  BY ConsecutiveParts, PTL
<1>3. ASSUME UNCHANGED <<file, hand, persisted, blockChan>>
      PROVE  /\ DiskPart' /\ QueuePart'
             /\ Held' = Held /\ Received' = Received /\ Len(file') = Len(file)
  BY <1>1, <1>3 DEF DiskPart, QueuePart, Held, Received
<1>4. ASSUME NEW o \in Orderer, Append1(o) PROVE Consecutive'
  <2>1. UNCHANGED <<file, hand, persisted, blockChan, stream, notified>>
    BY <1>4, Zenon DEF Append1, peerVars
  <2> QED
    BY <1>1, <1>2, <1>3, <2>1 DEF StreamPart
<1>5. ASSUME NEW o \in Orderer, Notify(o) \/ Serve(o) PROVE Consecutive'
  <2>1. UNCHANGED <<file, hand, persisted, blockChan>>
    BY <1>5, Zenon DEF Notify, Serve, peerVars
  <2>2. StreamPart'
    BY <1>1, <1>5, NotifyConsecutive, ServeConsecutive
  <2> QED
    BY <1>2, <1>3, <2>1, <2>2
<1>6. CASE Subscribe
  <2>1. UNCHANGED <<file, hand, persisted, blockChan>>
    BY <1>6, Zenon DEF Subscribe, peerVars
  <2> QED
    BY <1>1, <1>2, <1>3, <1>6, <2>1, SubscribeConsecutive
<1>7. CASE Request
  <2>1. /\ UNCHANGED <<file, hand, persisted, blockChan>>
        /\ stream' = [phase |-> "request", from |-> Len(file) + 1]
        /\ blockChan = <<>> /\ (hand = <<>> \/ persisted)
    BY <1>7, Zenon DEF Request, peerVars, FromIndex
  <2>2. Held = Len(file)
    <3>1. hand = <<>> => Len(hand) = 0
      OBVIOUS
    <3>2. CASE persisted
      BY <3>2, HeldType DEF Held
    <3>3. CASE hand = <<>>
      BY <3>1, <3>3, HeldType DEF Held
    <3> QED
      BY <2>1, <3>2, <3>3
  <2>3. stream'.from = Len(file) + 1 /\ stream' \notin Sending
    BY <2>1 DEF Sending
  <2>4. StreamPart'
    BY <1>3, <2>1, <2>2, <2>3 DEF StreamPart
  <2> QED
    BY <1>2, <1>3, <2>1, <2>4
<1>8. CASE Receive
  <2>1. UNCHANGED <<file, hand, persisted>>
    BY <1>8, Zenon DEF Receive
  <2>2. DiskPart'
    BY <1>1, <2>1 DEF DiskPart
  <2> QED
    BY <1>1, <1>2, <1>8, <2>2, ReceiveConsecutive
<1>9. CASE Break
  <2>1. UNCHANGED <<file, hand, persisted, blockChan>> /\ stream' = None
    BY <1>9, Zenon DEF Break, peerVars
  <2>2. StreamPart'
    BY <2>1 DEF StreamPart, None, Requested, Sending
  <2> QED
    BY <1>2, <1>3, <2>1, <2>2
<1>10. CASE Take \/ Persist \/ Apply \/ ApplyFails
  <2>1. /\ DiskPart' /\ QueuePart' /\ Received' = Received
        /\ stream' = stream /\ notified' = notified
        /\ stream \in Requested /\ blockChan = <<>> /\ Held = Len(file) =>
             blockChan' = <<>> /\ Held' = Len(file') /\ Len(file') = Len(file)
    BY <1>1, <1>10, HandSteps
  <2>2. StreamPart'
    BY <1>1, <2>1 DEF StreamPart
  <2> QED
    BY <1>2, <2>1, <2>2
<1>11. CASE PersistFails
  BY <1>11 DEF PersistFails
<1>12. CASE Crash
  <2>1. /\ blockChan' = <<>> /\ hand' = <<>> /\ stream' = None /\ file' = file
    BY <1>12, Zenon DEF Crash
  <2>2. Len(hand') = 0 /\ DOMAIN blockChan' = {}
    BY <2>1
  <2>3. DiskPart' /\ QueuePart'
    BY <1>1, <2>1, <2>2 DEF DiskPart, QueuePart
  <2>4. StreamPart'
    BY <2>1 DEF StreamPart, None, Requested, Sending
  <2> QED
    BY <1>2, <2>3, <2>4
<1>13. CASE Restart \/ UNCHANGED vars
  <2>1. UNCHANGED <<file, hand, persisted, blockChan, stream, notified>>
    BY <1>13, Zenon DEF Restart, vars, ordererVars, peerVars
  <2> QED
    BY <1>1, <1>2, <1>3, <2>1 DEF StreamPart
<1> QED
  BY <1>4, <1>5, <1>6, <1>7, <1>8, <1>9, <1>10, <1>11, <1>12, <1>13, Zenon DEF Next

-----------------------------------------------------------------------------
(* Theorems *)

LEMMA IInvInit == Init => IInv
<1> SUFFICES ASSUME Init PROVE IInv
  OBVIOUS
<1>1. TypeOK /\ Handling
  BY TypeInit, HandlingInit
<1>2. /\ Len(file) = 0 /\ Len(applied) = 0 /\ Len(hand) = 0 /\ DOMAIN file = {}
      /\ DOMAIN applied = {} /\ DOMAIN blockChan = {} /\ ~persisted
      /\ crashes = 0 /\ failures = 0
  BY DEF Init
<1>3. Heights /\ LossAccounted
  BY <1>2 DEF Heights, HeightsFresh, LossAccounted
<1>4. Lag
  <2> SUFFICES ASSUME NEW o \in Orderer
               PROVE  notified[o] <= length[o] /\ length[o] <= notified[o] + 1
    BY Zenon DEF Lag
  <2>1. length[o] = 0 /\ notified[o] = 0
    BY DEF Init
  <2> QED
    BY <2>1
<1>5. stream \notin Sending /\ stream \notin Requested
  BY DEF Init, None, Sending, Requested
<1>6. Ascending /\ Consecutive
  BY <1>2, <1>5 DEF Ascending, Consecutive
<1> QED
  BY <1>1, <1>3, <1>4, <1>6 DEF IInv

LEMMA IInvStep == IInv /\ [Next]_vars => IInv'
<1> SUFFICES ASSUME IInv, [Next]_vars PROVE IInv'
  OBVIOUS
<1>1. TypeOK' /\ Handling'
  BY TypeStep, HandlingStep DEF IInv
<1>2. Heights' /\ LossAccounted'
  BY HeightsStep, LossStep DEF IInv
<1>3. Lag' /\ Ascending'
  BY LagStep, AscendingStep DEF IInv
<1>4. ~disturbed' => Consecutive'
  BY ConsecutiveStep DEF IInv
<1> QED
  BY <1>1, <1>2, <1>3, <1>4 DEF IInv

LEMMA IInvCorrect == Spec => []IInv
BY IInvInit, IInvStep, PTL DEF Spec

\* The variables keep their types.
THEOREM TypeCorrect == Spec => []TypeOK
BY IInvCorrect, PTL DEF IInv

\* What the world state received comes from the chain file, under heights that
\* never repeat, whatever crashes and replays there were.
THEOREM HeightsNeverRepeat == Spec => []HeightsFresh
<1>1. IInv => HeightsFresh
  BY DEF IInv, Heights
<1> QED
  BY <1>1, IInvCorrect, PTL

\* The world state lacks one block at most for each crash and failed write.
THEOREM LossesCounted == Spec => []LossAccounted
<1>1. IInv => LossAccounted
  BY DEF IInv
<1> QED
  BY <1>1, IInvCorrect, PTL

\* Without one of the known disturbances the chain file holds the chain.
THEOREM DiskInOrder == Spec => []InOrder
<1>1. IInv => InOrder
  BY DEF IInv, InOrder, Consecutive
<1> QED
  BY <1>1, IInvCorrect, PTL

\* No stream delivers a block older than one it delivered.
THEOREM StreamsGoForward == Spec => StreamForward
<1>1. ASSUME IInv, [Next]_vars, stream.phase \in {"snapshot", "live"},
             stream'.phase = stream.phase
      PROVE  stream'.last >= stream.last
  <2>1. TypeOK /\ stream \in Sending /\ stream.last \in Nat
    BY <1>1, StreamKinds, SendingFields, BoundAssumption DEF IInv
  <2>2. CASE stream' = stream
    BY <2>1, <2>2
  <2>3. stream' \notin {None} \cup Requested
    BY <1>1 DEF None, Requested
  <2>4. ASSUME NEW o \in Orderer, Serve(o) PROVE FALSE
    BY <2>1, <2>4, ServeFacts, StreamKinds
  <2>5. ASSUME NEW o \in Orderer, Notify(o) PROVE stream'.last >= stream.last
    BY <2>1, <2>2, <2>5, NotifyFacts
  <2>6. CASE Subscribe
    BY <1>1, <2>1, <2>6, SubscribeFacts
  <2>7. CASE Receive
    <3>1. /\ stream.out # <<>> /\ stream.out \in Seq(Block) /\ Head(stream.out) \in Nat
          /\ stream'.last = Head(stream.out)
      BY <2>1, <2>7, ReceiveFacts, SendingFields, BoundAssumption DEF Block
    <3>2. /\ InOrderUpTo(stream.out, stream.last, notified[stream.orderer] + 1)
          /\ notified[stream.orderer] + 1 \in Nat
      BY <1>1, <2>1, AscendingDef, SendingFields, NotifiedGrows DEF IInv
    <3> QED
      BY <2>1, <3>1, <3>2, OrderTakes
  <2> QED
    BY <1>1, <2>1, <2>2, <2>3, <2>4, <2>5, <2>6, <2>7, StreamStep
<1>2. IInv /\ [Next]_vars =>
        [stream.phase \in {"snapshot", "live"} /\ stream'.phase = stream.phase
           => stream'.last >= stream.last]_vars
  BY <1>1
<1> QED
  BY <1>2, IInvCorrect, PTL DEF Spec, StreamForward
=============================================================================
