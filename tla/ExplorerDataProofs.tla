-------------------------- MODULE ExplorerDataProofs --------------------------
(***************************************************************************)
(* Proofs about the data of the explorer: what its dashboard is fed and     *)
(* what its forms encode.                                                   *)
(* Of the feed: its variables keep their types, there is always one event   *)
(* source or one timer that will make one, and a dashboard at rest shows    *)
(* the ledger's tip unless a listed cause is known.                         *)
(* Of the codec: the decoder follows the encoder field by field, gives back *)
(* what was given, and the decoder without types goes with them as far as    *)
(* names tell types and is lost behind - for every number of values a byte   *)
(* may have.                                                                *)
(***************************************************************************)
EXTENDS ExplorerFeed, PayloadCodec, TLAPS, FiniteSetTheorems, SequenceTheorems,
        WellFoundedInduction

(* --- The feed: its invariant ------------------------------------------------ *)

Account == Users \cup {NoUser}

\* What a source may be; its server has seen no block that is not there.
Sources == [ready : BOOLEAN, seeded : BOOLEAN, tip : 0..MaxHeight, news : Nat]

\* One source and no timer, or one timer and no source.
OneEnd ==
  \/ timers = 1 /\ sources = {}
  \/ timers = 0 /\ \E s \in Sources : sources = {s}

StreamInv ==
  /\ OneEnd
  /\ \A s \in sources : s.tip <= height /\ (s.seeded => s.ready)
  /\ streamStatus = "disconnected" => sources = {}
  /\ streamStatus = "connected" => \E s \in sources : s.ready

\* A height the page was given, if it was given one, is one there has been.
Given(h) == h = Unserved \/ h <= height

Loads == [id : 1..begun, user : Account, blocks : 0..Unserved, txs : 0..Unserved]

LoadInv ==
  /\ height \in 0..MaxHeight
  /\ user \in Account
  /\ shown \in [blocks : 0..MaxHeight, user : Account, txs : 0..MaxHeight]
  /\ shown.blocks <= height /\ shown.txs <= height
  /\ begun \in 0..MaxLoads /\ applied \in 0..begun
  /\ loads \subseteq Loads
  /\ \A l \in loads : Given(l.blocks) /\ Given(l.txs)
  /\ doubt \in BOOLEAN

\* The latest load, under way or shown, is of the account that is signed in.
LatestOwn ==
  ~doubt => /\ \A l \in Pending : l.user = user
            /\ Pending = {} => shown.user = user /\ applied = begun

\* No older than h: blocks b and, for somebody signed in, transactions t.
Fresh(b, t, h) == b >= h /\ (user # NoUser => t >= h)

\* A stream that has nothing more to announce has seen nothing that the latest
\* load does not bring or has not brought.
LatestFresh ==
  ~doubt => \A s \in sources : s.seeded /\ s.news = 0 =>
    /\ \A l \in Pending : Fresh(l.blocks, l.txs, s.tip)
    /\ Pending = {} => Fresh(shown.blocks, shown.txs, s.tip)

FeedInv == StreamInv /\ LoadInv /\ LatestOwn /\ LatestFresh

(* --- The stream ------------------------------------------------------------ *)

StreamVars == <<sources, timers, streamStatus>>

LEMMA SourceParts ==
  ASSUME NEW s \in Sources
  PROVE  /\ s.ready \in BOOLEAN /\ s.seeded \in BOOLEAN
         /\ s.tip \in 0..MaxHeight /\ s.news \in Nat
BY DEF Sources

LEMMA NewSource == Source \in Sources /\ ~Source.seeded /\ ~Source.ready /\ Source.tip = 0
BY Bounds DEF Source, Sources

\* There is no source but the one that steps.
LEMMA OnlySource ==
  ASSUME OneEnd, NEW s \in sources
  PROVE  s \in Sources /\ sources = {s} /\ timers = 0
BY DEF OneEnd

\* A source that becomes another.
LEMMA SourceStep ==
  ASSUME StreamInv, height' = height, NEW s \in sources, NEW t \in Sources,
         Replace(s, t), timers' = timers, t.tip <= height, t.seeded => t.ready,
         s.ready => t.ready,
         streamStatus' = streamStatus \/ (streamStatus' = "connected" /\ t.ready)
  PROVE  StreamInv'
<1>1. sources = {s} /\ timers = 0
  BY OnlySource DEF StreamInv
<1>2. sources' = {t}
  BY <1>1 DEF Replace
<1>3. streamStatus # "disconnected"
  BY <1>1 DEF StreamInv
<1>4. streamStatus = "connected" => s.ready
  BY <1>1 DEF StreamInv
<1>5. OneEnd'
  BY <1>1, <1>2 DEF OneEnd, Sources
<1>6. \A r \in sources' : r.tip <= height' /\ (r.seeded => r.ready)
  BY <1>2
<1>7. streamStatus' # "disconnected"
  BY <1>3
<1>8. streamStatus' = "connected" => t.ready
  BY <1>4
<1> QED
  BY <1>2, <1>5, <1>6, <1>7, <1>8 DEF StreamInv

\* A commit, or a step that leaves the stream alone.
LEMMA StreamKept ==
  ASSUME StreamInv, LoadInv, height' \in 0..MaxHeight, height' >= height,
         UNCHANGED StreamVars
  PROVE  StreamInv'
<1>1. OneEnd'
  BY DEF StreamInv, StreamVars, OneEnd, Sources
<1>2. \A s \in sources' : s.tip <= height' /\ (s.seeded => s.ready)
  <2> SUFFICES ASSUME NEW s \in sources
               PROVE  s.tip <= height' /\ (s.seeded => s.ready)
    BY DEF StreamVars
  <2>1. s.tip \in 0..MaxHeight /\ s.tip <= height /\ (s.seeded => s.ready)
    BY OnlySource, SourceParts DEF StreamInv
  <2> QED
    BY <2>1, Bounds DEF LoadInv
<1> QED
  BY <1>1, <1>2 DEF StreamInv, StreamVars

LEMMA ConnectStep ==
  ASSUME StreamInv, LoadInv, Connect
  PROVE  StreamInv'
<1>1. sources' = {Source} /\ timers' = 0 /\ streamStatus' = "connecting"
  BY DEF Connect, StreamInv, OneEnd
<1>2. height' = height
  BY DEF Connect
<1> QED
  BY <1>1, <1>2, NewSource, Bounds DEF StreamInv, OneEnd, LoadInv, Sources

LEMMA ErrorStep ==
  ASSUME StreamInv, NEW s \in sources, Error(s)
  PROVE  StreamInv' /\ sources' = {}
<1>1. sources = {s} /\ timers = 0
  BY OnlySource DEF StreamInv
<1>2. sources' = {} /\ timers' = 1 /\ streamStatus' = "disconnected"
  BY <1>1 DEF Error, ScheduleReconnect
<1> QED
  BY <1>2 DEF StreamInv, OneEnd

(* --- Loads ------------------------------------------------------------------ *)

LEMMA LoadParts ==
  ASSUME NEW l \in Loads
  PROVE  /\ l.id \in 1..begun /\ l.user \in Account
         /\ l.blocks \in 0..Unserved /\ l.txs \in 0..Unserved
BY DEF Loads

LEMMA UnservedLarge ==
  /\ MaxHeight \in Nat /\ MaxLoads \in Nat
  /\ Unserved \in Nat /\ \A h \in 0..MaxHeight : h < Unserved
BY Bounds DEF Unserved

\* A load begun is the latest, of the account given, and makes up for all that
\* was doubtful.
LEMMA BeginStep ==
  ASSUME LoadInv, NEW old \in SUBSET loads, NEW u \in Account, Begin(old, u),
         user' = u, height' = height,
         shown' \in [blocks : 0..MaxHeight, user : Account, txs : 0..MaxHeight],
         shown'.blocks <= height, shown'.txs <= height, applied' = applied,
         \A s \in sources' : s.tip \in 0..MaxHeight
  PROVE  LoadInv' /\ LatestOwn' /\ LatestFresh'
<1> DEFINE l == Load(u)
<1>1. /\ begun' = begun + 1 /\ begun' \in 0..MaxLoads /\ begun \in Nat
      /\ loads' = old \cup {l} /\ doubt' = FALSE
  BY UnservedLarge DEF Begin, LoadInv
<1>2. /\ l.id = begun' /\ l.user = u /\ l.blocks = Unserved
      /\ l.txs = IF u = NoUser THEN 0 ELSE Unserved
  BY <1>1 DEF Load
<1>3. l \in Loads'
  <2>1. l = [id |-> begun', user |-> u, blocks |-> Unserved,
             txs |-> IF u = NoUser THEN 0 ELSE Unserved]
    BY <1>1 DEF Load
  <2>2. begun' \in 1..begun' /\ 0 \in 0..Unserved /\ Unserved \in 0..Unserved
    BY <1>1, UnservedLarge
  <2>3. Unserved' = Unserved /\ Account' = Account
    BY DEF Unserved, Account
  <2> QED
    BY <2>1, <2>2, <2>3 DEF Loads
<1>4. \A k \in loads : k.id # begun' /\ k \in Loads'
  <2> TAKE k \in loads
  <2>1. k \in Loads
    BY DEF LoadInv
  <2>2. k.id \in 1..begun
    BY <2>1, LoadParts
  <2> QED
    BY <2>1, <2>2, <1>1 DEF Loads, Account, Unserved
<1>5. Pending' = {l}
  BY <1>1, <1>2, <1>4 DEF Pending
<1>6. LoadInv'
  <2>1. loads' \subseteq Loads'
    BY <1>1, <1>3, <1>4
  <2>2. \A k \in loads' : Given(k.blocks)' /\ Given(k.txs)'
    BY <1>1, <1>2, UnservedLarge DEF LoadInv, Given, Unserved
  <2>3. applied' \in 0..begun'
    BY <1>1 DEF LoadInv
  <2> QED
    BY <2>1, <2>2, <2>3, <1>1 DEF LoadInv, Account
<1>7. LatestOwn'
  BY <1>2, <1>5 DEF LatestOwn
<1>8. LatestFresh'
  <2> SUFFICES ASSUME NEW s \in sources'
               PROVE  l.blocks >= s.tip /\ (user' # NoUser => l.txs >= s.tip)
    BY <1>5 DEF LatestFresh, Fresh
  <2>1. Unserved >= s.tip
    BY UnservedLarge
  <2> QED
    BY <1>2, <2>1
<1> QED
  BY <1>6, <1>7, <1>8

\* A step that begins no load and changes no more of the loads and of what is
\* shown than their parts say.
LEMMA LoadsKept ==
  ASSUME LoadInv, UNCHANGED <<user, shown, loads, begun, applied>>,
         height' \in 0..MaxHeight, height' >= height, doubt' \in BOOLEAN
  PROVE  LoadInv'
<1>1. \A k \in loads : Given(k.blocks)' /\ Given(k.txs)'
  <2> TAKE k \in loads
  <2>1. k \in Loads
    BY DEF LoadInv
  <2>2. k.blocks \in Int /\ k.txs \in Int /\ Given(k.blocks) /\ Given(k.txs)
    BY <2>1, LoadParts, UnservedLarge DEF LoadInv
  <2> QED
    BY <2>2 DEF Given, Unserved, LoadInv
<1>2. shown.blocks \in 0..MaxHeight /\ shown.txs \in 0..MaxHeight
  BY DEF LoadInv
<1>3. shown'.blocks <= height' /\ shown'.txs <= height'
  BY <1>2 DEF LoadInv
<1>4. loads' \subseteq Loads'
  BY DEF LoadInv, Loads, Account, Unserved
<1> QED
  BY <1>1, <1>3, <1>4 DEF LoadInv, Account

\* Nothing the two say of the latest load has changed, or doubt has come up.
LEMMA LatestKept ==
  ASSUME LatestOwn, LatestFresh, UNCHANGED <<user, shown, loads, begun, applied>>,
         doubt \in BOOLEAN, doubt' = doubt \/ doubt' = TRUE,
         \A s \in sources' : s.seeded /\ s.news = 0 => s \in sources
  PROVE  LatestOwn' /\ LatestFresh'
<1>1. Pending' = Pending
  BY DEF Pending
<1> QED
  BY <1>1 DEF LatestOwn, LatestFresh, Fresh

\* A load that has been answered in part.
LEMMA ServeStep ==
  ASSUME LoadInv, LatestOwn, LatestFresh, NEW l \in loads, NEW k \in Loads,
         \A s \in sources : s.tip <= height /\ s.tip \in Nat,
         k.id = l.id, k.user = l.user, Given(k.blocks), Given(k.txs),
         \/ k.txs = l.txs /\ k.blocks = height
         \/ k.blocks = l.blocks /\ k.txs = height,
         loads' = (loads \ {l}) \cup {k},
         UNCHANGED <<height, user, shown, begun, applied, sources, doubt>>
  PROVE  LoadInv' /\ LatestOwn' /\ LatestFresh'
<1>1. LoadInv'
  BY DEF LoadInv, Loads, Account, Given, Unserved
<1>2. \A j \in Pending' : j \in Pending \/ (j = k /\ l \in Pending)
  BY DEF Pending
<1>3. l \in Pending => k \in Pending'
  BY DEF Pending
<1>4. Pending' = {} => Pending = {}
  BY <1>3 DEF Pending
<1>5. LatestOwn'
  BY <1>2, <1>4 DEF LatestOwn
<1>6. LatestFresh'
  <2> SUFFICES ASSUME ~doubt, NEW s \in sources, s.seeded, s.news = 0
               PROVE  /\ \A j \in Pending' : Fresh(j.blocks, j.txs, s.tip)
                      /\ Pending' = {} => Fresh(shown.blocks, shown.txs, s.tip)
    BY DEF LatestFresh, Fresh
  <2>1. \A j \in Pending : Fresh(j.blocks, j.txs, s.tip)
    BY DEF LatestFresh
  <2>2. Pending' = {} => Fresh(shown.blocks, shown.txs, s.tip)
    BY <1>4 DEF LatestFresh
  <2>3. height >= s.tip
    BY DEF LoadInv
  <2>4. l \in Pending => Fresh(k.blocks, k.txs, s.tip)
    BY <2>1, <2>3 DEF Fresh
  <2> QED
    BY <2>1, <2>2, <2>4, <1>2
<1> QED
  BY <1>1, <1>5, <1>6

LEMMA ApplyStep ==
  ASSUME LoadInv, LatestOwn, LatestFresh, StreamInv, NEW l \in loads, Apply(l)
  PROVE  LoadInv' /\ LatestOwn' /\ LatestFresh'
<1>1. /\ l.id \in 1..begun /\ l.user \in Account
      /\ l.blocks \in 0..height /\ l.txs \in 0..height
  <2>1. l \in Loads /\ Given(l.blocks) /\ Given(l.txs)
    BY DEF LoadInv
  <2>2. l.blocks # Unserved /\ l.txs # Unserved
    BY DEF Apply
  <2> QED
    BY <2>1, <2>2, LoadParts, UnservedLarge DEF Given, LoadInv
<1>2. /\ shown' = [blocks |-> l.blocks, user |-> l.user, txs |-> l.txs]
      /\ loads' = loads \ {l} /\ begun' = begun /\ height' = height
      /\ user' = user /\ sources' = sources
      /\ applied' = IF l.id > applied THEN l.id ELSE applied
      /\ doubt' = (doubt \/ l.id < applied)
  BY DEF Apply
<1>3. LoadInv'
  <2>1. shown' \in [blocks : 0..MaxHeight, user : Account, txs : 0..MaxHeight]
    BY <1>1, <1>2, UnservedLarge DEF LoadInv
  <2>2. shown'.blocks <= height /\ shown'.txs <= height
    BY <1>1, <1>2 DEF LoadInv
  <2>3. applied' \in 0..begun'
    BY <1>1, <1>2 DEF LoadInv
  <2>4. doubt' \in BOOLEAN
    BY <1>1, <1>2 DEF LoadInv
  <2>5. loads' \subseteq Loads' /\ \A k \in loads' : Given(k.blocks)' /\ Given(k.txs)'
    BY <1>2 DEF LoadInv, Loads, Account, Unserved, Given
  <2> QED
    BY <1>2, <2>1, <2>2, <2>3, <2>4, <2>5 DEF LoadInv, Account
<1>4. \A k \in Pending' : k \in Pending
  BY <1>2 DEF Pending
<1>5. Pending' = {} /\ ~doubt' => l.id = begun
  <2> SUFFICES ASSUME Pending' = {}, ~doubt', l.id # begun
               PROVE  FALSE
    OBVIOUS
  <2>1. Pending = {}
    BY <1>2 DEF Pending
  <2>2. applied = begun /\ begun \in Nat
    BY <1>2, <2>1, UnservedLarge DEF LatestOwn, LoadInv
  <2>3. l.id < applied
    BY <1>1, <2>2
  <2> QED
    BY <1>2, <2>3
<1>6. l.id = begun => l \in Pending
  BY DEF Pending
<1>7. LatestOwn'
  <2> SUFFICES ASSUME ~doubt'
               PROVE  /\ \A k \in Pending' : k.user = user'
                      /\ Pending' = {} => shown'.user = user' /\ applied' = begun'
    BY DEF LatestOwn
  <2>1. \A k \in Pending : k.user = user
    BY <1>2 DEF LatestOwn
  <2>2. CASE Pending' = {}
    <3>1. shown'.user = user'
      BY <1>2, <1>5, <1>6, <2>1, <2>2
    <3>2. applied' = begun'
      BY <1>1, <1>2, <1>5, <2>2, UnservedLarge DEF LoadInv
    <3> QED
      BY <2>2, <3>1, <3>2
  <2> QED
    BY <1>2, <1>4, <2>1, <2>2
<1>8. LatestFresh'
  <2> SUFFICES ASSUME ~doubt', NEW s \in sources, s.seeded, s.news = 0
               PROVE  /\ \A k \in Pending' : Fresh(k.blocks, k.txs, s.tip)
                      /\ Pending' = {} => Fresh(l.blocks, l.txs, s.tip)
    BY <1>2 DEF LatestFresh, Fresh
  <2>1. \A k \in Pending : Fresh(k.blocks, k.txs, s.tip)
    BY <1>2 DEF LatestFresh
  <2> QED
    BY <1>4, <1>5, <1>6, <2>1
<1> QED
  BY <1>3, <1>7, <1>8

LEMMA LoadFailsStep ==
  ASSUME LoadInv, LatestOwn, LatestFresh, NEW l \in loads, LoadFails(l)
  PROVE  LoadInv' /\ LatestOwn' /\ LatestFresh'
<1>1. /\ loads' = loads \ {l} /\ doubt' = (doubt \/ l.id = begun)
      /\ UNCHANGED <<height, user, shown, begun, applied, sources>>
  BY DEF LoadFails
<1>2. LoadInv'
  BY <1>1 DEF LoadInv, Loads, Account, Given, Unserved
<1>3. ~doubt' => ~doubt /\ Pending' = Pending
  <2> SUFFICES ASSUME ~doubt'
               PROVE  ~doubt /\ Pending' = Pending
    OBVIOUS
  <2>1. ~doubt /\ l.id # begun
    BY <1>1
  <2> QED
    BY <1>1, <2>1 DEF Pending
<1>4. LatestOwn' /\ LatestFresh'
  BY <1>1, <1>3 DEF LatestOwn, LatestFresh, Fresh
<1> QED
  BY <1>2, <1>4

\* The stream takes its first tip: either the latest load knows it, or doubt.
LEMMA SeedStep ==
  ASSUME LoadInv, LatestOwn, LatestFresh, StreamInv, NEW s \in sources, Seed(s)
  PROVE  LoadInv' /\ LatestOwn' /\ LatestFresh'
<1> DEFINE t == [s EXCEPT !.seeded = TRUE, !.tip = height]
<1>1. s \in Sources /\ sources = {s}
  BY OnlySource DEF StreamInv
<1>2. /\ sources' = {t} /\ t.tip = height
      /\ UNCHANGED <<height, user, shown, loads, begun, applied>>
      /\ doubt' = (doubt \/ ~Covered)
  BY <1>1 DEF Seed, Replace, Sources
<1>3. LoadInv' /\ height \in Int
  BY <1>2, LoadsKept, UnservedLarge DEF LoadInv
<1>4. Pending' = Pending
  BY <1>2 DEF Pending
<1>5. LatestOwn'
  BY <1>2, <1>4 DEF LatestOwn
<1>6. LatestFresh'
  <2> SUFFICES ASSUME Covered
               PROVE  /\ \A k \in Pending : Fresh(k.blocks, k.txs, height)
                      /\ Pending = {} => Fresh(shown.blocks, shown.txs, height)
    BY <1>2, <1>4 DEF LatestFresh, Fresh
  <2>1. Unserved >= height /\ height >= height
    BY UnservedLarge, <1>3 DEF LoadInv
  <2>2. CASE Pending = {}
    BY <2>1, <2>2 DEF Covered, Latest, Fresh
  <2>3. CASE Pending # {}
    BY <2>1, <2>3 DEF Covered, Fresh
  <2> QED
    BY <2>2, <2>3
<1> QED
  BY <1>3, <1>5, <1>6

(* --- Every step -------------------------------------------------------------- *)

FeedLoads == LoadInv /\ LatestOwn /\ LatestFresh

LEMMA TipsTyped ==
  ASSUME StreamInv
  PROVE  \A s \in sources : s \in Sources /\ s.tip \in 0..MaxHeight /\ s.tip \in Nat
                             /\ s.tip <= height
<1> TAKE s \in sources
<1>1. s \in Sources /\ s.tip <= height
  BY OnlySource DEF StreamInv
<1> QED
  BY <1>1, SourceParts, UnservedLarge

\* A step that begins a load and leaves stream and ledger alone.
LEMMA LoadBegun ==
  ASSUME FeedInv, NEW u \in Account, Begin(loads, u), user' = u,
         UNCHANGED <<height, shown, applied>>, UNCHANGED StreamVars
  PROVE  FeedInv'
<1>1. StreamInv'
  <2>1. height' \in 0..MaxHeight /\ height' >= height
    BY UnservedLarge DEF FeedInv, LoadInv
  <2> QED
    BY <2>1, StreamKept DEF FeedInv
<1>2. \A s \in sources' : s.tip \in 0..MaxHeight
  BY TipsTyped DEF FeedInv, StreamVars
<1>3. LoadInv' /\ LatestOwn' /\ LatestFresh'
  BY <1>2, BeginStep DEF FeedInv, LoadInv
<1> QED
  BY <1>1, <1>3 DEF FeedInv

\* A step that begins no load, and changes neither what is shown nor the ledger.
LEMMA OnlyStream ==
  ASSUME FeedInv, StreamInv', UNCHANGED <<user, shown, loads, begun, applied, height>>,
         doubt' \in BOOLEAN, doubt' = doubt \/ doubt' = TRUE,
         \A s \in sources' : s.seeded /\ s.news = 0 => s \in sources
  PROVE  FeedInv'
<1>1. height' \in 0..MaxHeight /\ height' >= height
  BY UnservedLarge DEF FeedInv, LoadInv
<1>2. LoadInv'
  BY <1>1, LoadsKept DEF FeedInv
<1>3. LatestOwn' /\ LatestFresh'
  BY LatestKept DEF FeedInv, LoadInv
<1> QED
  BY <1>2, <1>3 DEF FeedInv

LEMMA FeedInit == Init => FeedInv
<1> SUFFICES ASSUME Init PROVE FeedInv
  OBVIOUS
<1> DEFINE l == [id |-> 1, user |-> user, blocks |-> Unserved,
                 txs |-> IF user = NoUser THEN 0 ELSE Unserved]
<1>1. /\ height \in 0..1 /\ user = NoUser /\ shown = Nothing /\ begun = 1
      /\ applied = 0 /\ loads = {l} /\ sources = {Source} /\ timers = 0
      /\ streamStatus = "connecting" /\ doubt = FALSE
  BY DEF Init
<1>2. height \in 0..MaxHeight /\ begun \in 0..MaxLoads
  BY <1>1, Bounds
<1>3. StreamInv
  <2>1. OneEnd
    BY <1>1, NewSource DEF OneEnd
  <2> QED
    BY <1>1, <1>2, <2>1, NewSource DEF StreamInv
<1>4. l \in Loads
  BY <1>1, UnservedLarge DEF Loads, Account
<1>5. shown \in [blocks : 0..MaxHeight, user : Account, txs : 0..MaxHeight]
      /\ shown.blocks = 0 /\ shown.txs = 0 /\ shown.user = NoUser
  BY <1>1, UnservedLarge DEF Nothing, Account
<1>6. LoadInv
  <2>1. \A k \in loads : Given(k.blocks) /\ Given(k.txs)
    BY <1>1, <1>2 DEF Given
  <2>2. loads \subseteq Loads
    BY <1>1, <1>4
  <2>3. shown.blocks <= height /\ shown.txs <= height /\ applied \in 0..begun
    BY <1>1, <1>5
  <2>4. user \in Account /\ height \in 0..MaxHeight /\ doubt \in BOOLEAN
    BY <1>1, <1>2 DEF Account
  <2> QED
    BY <1>2, <1>5, <2>1, <2>2, <2>3, <2>4 DEF LoadInv
<1>7. Pending = {l}
  BY <1>1 DEF Pending
<1>8. LatestOwn
  <2>1. l.user = user
    OBVIOUS
  <2> HIDE DEF l
  <2> QED
    BY <1>7, <2>1 DEF LatestOwn
<1>9. LatestFresh
  BY <1>1, NewSource DEF LatestFresh
<1> QED
  BY <1>3, <1>6, <1>8, <1>9 DEF FeedInv

LEMMA CommitStep ==
  ASSUME FeedInv, Commit
  PROVE  FeedInv'
<1>1. /\ height' \in 0..MaxHeight /\ height' >= height
      /\ UNCHANGED <<user, shown, loads, begun, applied, sources, doubt>>
      /\ UNCHANGED StreamVars
  BY UnservedLarge DEF FeedInv, LoadInv, Commit, StreamVars
<1>2. doubt' \in BOOLEAN
  BY <1>1 DEF FeedInv, LoadInv
<1>3. StreamInv' /\ LoadInv'
  BY <1>1, <1>2, StreamKept, LoadsKept DEF FeedInv
<1>4. LatestOwn' /\ LatestFresh'
  BY <1>1 DEF FeedInv, LatestOwn, LatestFresh, Fresh, Pending
<1> QED
  BY <1>3, <1>4 DEF FeedInv

LEMMA LoadStep ==
  ASSUME FeedInv, NEW l \in loads,
         ServeBlocks(l) \/ ServeTransactions(l) \/ Apply(l) \/ LoadFails(l)
  PROVE  FeedInv'
<1>1. height' \in 0..MaxHeight /\ height' >= height /\ UNCHANGED StreamVars
  BY UnservedLarge
     DEF FeedInv, LoadInv, ServeBlocks, ServeTransactions, Apply, LoadFails, StreamVars
<1>2. StreamInv'
  BY <1>1, StreamKept DEF FeedInv
<1>3. l \in Loads /\ Given(l.blocks) /\ Given(l.txs) /\ height \in 0..Unserved
  BY UnservedLarge DEF FeedInv, LoadInv
<1>4. \A s \in sources : s.tip <= height /\ s.tip \in Nat
  BY TipsTyped DEF FeedInv
<1>5. Given(height)
  BY <1>1 DEF Given, FeedInv, LoadInv
<1>6. CASE ServeBlocks(l)
  <2> DEFINE k == [l EXCEPT !.blocks = height]
  <2>1. /\ k \in Loads /\ k.id = l.id /\ k.user = l.user /\ k.txs = l.txs
        /\ k.blocks = height
    BY <1>3 DEF Loads
  <2>2. /\ loads' = (loads \ {l}) \cup {k}
        /\ UNCHANGED <<height, user, shown, begun, applied, sources, doubt>>
    BY <1>6 DEF ServeBlocks
  <2>3. Given(k.blocks) /\ Given(k.txs)
    BY <1>3, <1>5, <2>1
  <2> HIDE DEF k
  <2>4. LoadInv' /\ LatestOwn' /\ LatestFresh'
    BY <1>4, <2>1, <2>2, <2>3, ServeStep DEF FeedInv
  <2> QED
    BY <1>2, <2>4 DEF FeedInv
<1>7. CASE ServeTransactions(l)
  <2> DEFINE k == [l EXCEPT !.txs = height]
  <2>1. /\ k \in Loads /\ k.id = l.id /\ k.user = l.user /\ k.blocks = l.blocks
        /\ k.txs = height
    BY <1>3 DEF Loads
  <2>2. /\ loads' = (loads \ {l}) \cup {k}
        /\ UNCHANGED <<height, user, shown, begun, applied, sources, doubt>>
    BY <1>7 DEF ServeTransactions
  <2>3. Given(k.blocks) /\ Given(k.txs)
    BY <1>3, <1>5, <2>1
  <2> HIDE DEF k
  <2>4. LoadInv' /\ LatestOwn' /\ LatestFresh'
    BY <1>4, <2>1, <2>2, <2>3, ServeStep DEF FeedInv
  <2> QED
    BY <1>2, <2>4 DEF FeedInv
<1>8. CASE Apply(l)
  BY <1>2, <1>8, ApplyStep DEF FeedInv
<1>9. CASE LoadFails(l)
  BY <1>2, <1>9, LoadFailsStep DEF FeedInv
<1> QED
  BY <1>6, <1>7, <1>8, <1>9

\* Sign-in and sign-out, the search for a transaction and the polling begin a load.
LEMMA LoadingStep ==
  ASSUME FeedInv, (\E u \in Account : SetAccount(u)) \/ LookForIt \/ Poll
  PROVE  FeedInv'
<1>1. user \in Account
  BY DEF FeedInv, LoadInv
<1>2. ASSUME NEW u \in Account, SetAccount(u) PROVE FeedInv'
  BY <1>2, LoadBegun DEF SetAccount, StreamVars
<1>3. CASE LookForIt
  BY <1>1, <1>3, LoadBegun DEF LookForIt, StreamVars
<1>4. CASE Poll
  BY <1>1, <1>4, LoadBegun DEF Poll, StreamVars
<1> QED
  BY <1>2, <1>3, <1>4

\* A lookup's answer either shows a block, and is doubtful, or nothing.
LEMMA LookupStep ==
  ASSUME FeedInv, HandleFetchBlock \/ FetchedBlock \/ Submitted
  PROVE  FeedInv'
<1>1. /\ height' = height /\ UNCHANGED StreamVars
      /\ UNCHANGED <<user, loads, begun, applied>>
  BY DEF HandleFetchBlock, FetchedBlock, Submitted, StreamVars
<1>2. StreamInv' /\ height \in 0..MaxHeight
  BY <1>1, StreamKept, UnservedLarge DEF FeedInv, LoadInv
<1>3. CASE UNCHANGED <<shown, doubt>>
  <2>1. doubt' \in BOOLEAN
    BY <1>3 DEF FeedInv, LoadInv
  <2> QED
    BY <1>1, <1>2, <1>3, <2>1, OnlyStream DEF StreamVars
<1>4. ASSUME NEW h \in 1..height,
             shown' = [blocks |-> h, user |-> NoUser, txs |-> h], doubt' = TRUE
      PROVE  FeedInv'
  <2>1. shown' \in [blocks : 0..MaxHeight, user : Account, txs : 0..MaxHeight]
        /\ shown'.blocks <= height /\ shown'.txs <= height
    BY <1>2, <1>4, UnservedLarge DEF Account
  <2>2. LoadInv'
    BY <1>1, <1>4, <2>1 DEF FeedInv, LoadInv, Loads, Account, Given, Unserved
  <2>3. LatestOwn' /\ LatestFresh'
    BY <1>4 DEF LatestOwn, LatestFresh
  <2> QED
    BY <1>2, <2>2, <2>3 DEF FeedInv
<1> QED
  BY <1>3, <1>4 DEF HandleFetchBlock, FetchedBlock, Submitted

\* A step of the source: being ready, taking the first tip, announcing a tip.
LEMMA SourceSteps ==
  ASSUME FeedInv, NEW s \in sources, Ready(s) \/ Seed(s) \/ Tick(s)
  PROVE  FeedInv'
<1>1. s \in Sources /\ sources = {s}
  BY OnlySource DEF FeedInv, StreamInv
<1>2. /\ s.ready \in BOOLEAN /\ s.seeded \in BOOLEAN /\ s.tip \in Nat
      /\ s.news \in Nat /\ s.tip <= height /\ (s.seeded => s.ready)
  BY <1>1, SourceParts, UnservedLarge DEF FeedInv, StreamInv
<1>3. height \in 0..MaxHeight /\ height <= height /\ doubt \in BOOLEAN
  BY UnservedLarge DEF FeedInv, LoadInv
<1>4. CASE Ready(s)
  <2> DEFINE t == [s EXCEPT !.ready = TRUE]
  <2>1. /\ t \in Sources /\ t.ready /\ t.tip = s.tip /\ t.news = s.news
        /\ t.seeded = s.seeded
    BY <1>1 DEF Sources
  <2>2. /\ Replace(s, t) /\ streamStatus' = "connected"
        /\ UNCHANGED <<height, timers, user, shown, loads, begun, applied, doubt>>
    BY <1>4 DEF Ready
  <2> HIDE DEF t
  <2>3. StreamInv'
    BY <1>2, <2>1, <2>2, SourceStep DEF FeedInv
  <2>4. sources' = {t}
    BY <1>1, <2>2 DEF Replace
  <2>5. LoadInv'
    BY <1>3, <2>2, LoadsKept DEF FeedInv
  <2>6. LatestOwn' /\ LatestFresh'
    BY <2>1, <2>2, <2>4 DEF FeedInv, LatestOwn, LatestFresh, Fresh, Pending
  <2> QED
    BY <2>3, <2>5, <2>6 DEF FeedInv
<1>5. CASE Seed(s)
  <2> DEFINE t == [s EXCEPT !.seeded = TRUE, !.tip = height]
  <2>1. /\ t \in Sources /\ t.ready = s.ready /\ t.tip = height
    BY <1>1, <1>3 DEF Sources
  <2>2. /\ Replace(s, t) /\ s.ready
        /\ UNCHANGED <<height, timers, streamStatus>>
    BY <1>5 DEF Seed
  <2> HIDE DEF t
  <2>3. StreamInv'
    BY <1>3, <2>1, <2>2, SourceStep DEF FeedInv
  <2>4. LoadInv' /\ LatestOwn' /\ LatestFresh'
    BY <1>5, SeedStep DEF FeedInv
  <2> QED
    BY <2>3, <2>4 DEF FeedInv
<1>6. CASE Tick(s)
  <2> DEFINE t == [s EXCEPT !.tip = height, !.news = @ + 1]
  <2>1. /\ t \in Sources /\ t.ready = s.ready /\ t.tip = height
        /\ t.seeded = s.seeded /\ t.news = s.news + 1
    <3>1. s.news + 1 \in Nat
      BY <1>2
    <3>2. t = [s EXCEPT !.tip = height, !.news = s.news + 1]
      OBVIOUS
    <3> QED
      BY <1>1, <1>3, <3>1, <3>2 DEF Sources
  <2>2. /\ Replace(s, t)
        /\ UNCHANGED <<height, timers, streamStatus, user, shown, loads, begun,
                       applied, doubt>>
    BY <1>6 DEF Tick
  <2> HIDE DEF t
  <2>3. StreamInv'
    BY <1>2, <1>3, <2>1, <2>2, SourceStep DEF FeedInv
  <2>4. sources' = {t} /\ t.news # 0
    BY <1>1, <1>2, <2>1, <2>2 DEF Replace
  <2>5. LoadInv'
    BY <1>3, <2>2, LoadsKept DEF FeedInv
  <2>6. LatestOwn' /\ LatestFresh'
    BY <2>2, <2>4 DEF FeedInv, LatestOwn, LatestFresh, Pending
  <2> QED
    BY <2>3, <2>5, <2>6 DEF FeedInv
<1> QED
  BY <1>4, <1>5, <1>6

\* An announcement reaches the page, which loads.
LEMMA LedgerUpdateStep ==
  ASSUME FeedInv, NEW s \in sources, LedgerUpdate(s)
  PROVE  FeedInv'
<1> DEFINE t == [s EXCEPT !.news = @ - 1]
<1>1. s \in Sources /\ sources = {s}
  BY OnlySource DEF FeedInv, StreamInv
<1>2. /\ s.ready \in BOOLEAN /\ s.seeded \in BOOLEAN /\ s.tip \in 0..MaxHeight
      /\ s.news \in Nat /\ s.tip <= height /\ (s.seeded => s.ready) /\ s.news > 0
  BY <1>1, SourceParts DEF FeedInv, StreamInv, LedgerUpdate
<1>3. /\ t \in Sources /\ t.ready = s.ready /\ t.tip = s.tip /\ t.seeded = s.seeded
  BY <1>1, <1>2 DEF Sources
<1>4. /\ Replace(s, t) /\ Begin(loads, user)
      /\ UNCHANGED <<height, timers, streamStatus, user, shown, applied>>
  BY DEF LedgerUpdate
<1> HIDE DEF t
<1>5. StreamInv'
  BY <1>2, <1>3, <1>4, SourceStep DEF FeedInv
<1>6. \A r \in sources' : r.tip \in 0..MaxHeight
  BY <1>1, <1>2, <1>3, <1>4 DEF Replace
<1>7. LoadInv' /\ LatestOwn' /\ LatestFresh'
  BY <1>4, <1>6, BeginStep DEF FeedInv, LoadInv
<1> QED
  BY <1>5, <1>7 DEF FeedInv

LEMMA ConnectErrorStep ==
  ASSUME FeedInv, Connect \/ \E s \in sources : Error(s)
  PROVE  FeedInv'
<1>1. UNCHANGED <<user, shown, loads, begun, applied, height, doubt>>
  BY DEF Connect, Error
<1>2. StreamInv'
  BY ConnectStep, ErrorStep DEF FeedInv
<1>3. \A s \in sources' : s.seeded /\ s.news = 0 => s \in sources
  BY ErrorStep, NewSource DEF FeedInv, Connect
<1>4. doubt' \in BOOLEAN
  BY <1>1 DEF FeedInv, LoadInv
<1> QED
  BY <1>1, <1>2, <1>3, <1>4, OnlyStream

LEMMA ReopenStep ==
  ASSUME FeedInv, Reopen
  PROVE  FeedInv'
<1>1. /\ user' = NoUser /\ sources' = {Source} /\ timers' = 0
      /\ streamStatus' = "connecting" /\ shown' = Nothing
      /\ Begin({}, NoUser) /\ height' = height /\ applied' = applied
  BY DEF Reopen
<1>2. height \in 0..MaxHeight /\ 0 \in 0..MaxHeight /\ 0 <= height
  BY UnservedLarge DEF FeedInv, LoadInv
<1>3. StreamInv'
  <2>1. OneEnd'
    BY <1>1, NewSource DEF OneEnd, Sources
  <2> QED
    BY <1>1, <1>2, <2>1, NewSource DEF StreamInv
<1>4. shown' \in [blocks : 0..MaxHeight, user : Account, txs : 0..MaxHeight]
      /\ shown'.blocks <= height /\ shown'.txs <= height
  BY <1>1, <1>2 DEF Nothing, Account
<1>5. NoUser \in Account /\ {} \in SUBSET loads
  BY DEF Account
<1>6. \A s \in sources' : s.tip \in 0..MaxHeight
  BY <1>1, <1>2, NewSource
<1>7. LoadInv' /\ LatestOwn' /\ LatestFresh'
  BY <1>1, <1>4, <1>5, <1>6, BeginStep DEF FeedInv
<1> QED
  BY <1>3, <1>7 DEF FeedInv

LEMMA FeedNext == FeedInv /\ [Next]_vars => FeedInv'
<1> SUFFICES ASSUME FeedInv, [Next]_vars PROVE FeedInv'
  OBVIOUS
<1>1. CASE Commit
  BY <1>1, CommitStep
<1>2. CASE \E l \in loads : ServeBlocks(l) \/ ServeTransactions(l) \/ Apply(l) \/ LoadFails(l)
  BY <1>2, LoadStep
<1>3. CASE (\E u \in Account : SetAccount(u)) \/ LookForIt \/ Poll
  BY <1>3, LoadingStep
<1>4. CASE HandleFetchBlock \/ FetchedBlock \/ Submitted
  BY <1>4, LookupStep
<1>5. CASE \E s \in sources : Ready(s) \/ Seed(s) \/ Tick(s)
  BY <1>5, SourceSteps
<1>6. CASE \E s \in sources : LedgerUpdate(s)
  BY <1>6, LedgerUpdateStep
<1>7. CASE Connect \/ \E s \in sources : Error(s)
  BY <1>7, ConnectErrorStep
<1>8. CASE Reopen
  BY <1>8, ReopenStep
<1>9. CASE UNCHANGED vars
  <2>1. /\ UNCHANGED <<user, shown, loads, begun, applied, height, doubt, sources>>
        /\ UNCHANGED StreamVars
    BY <1>9 DEF vars, StreamVars
  <2>2. height' \in 0..MaxHeight /\ height' >= height /\ doubt' \in BOOLEAN
    BY <2>1, UnservedLarge DEF FeedInv, LoadInv
  <2>3. StreamInv'
    BY <2>1, <2>2, StreamKept DEF FeedInv
  <2> QED
    BY <2>1, <2>2, <2>3, OnlyStream
<1> QED
  BY <1>1, <1>2, <1>3, <1>4, <1>5, <1>6, <1>7, <1>8, <1>9 DEF Next, Account

LEMMA FeedInvariant == Spec => []FeedInv
<1>1. Init => FeedInv
  BY FeedInit
<1>2. FeedInv /\ [Next]_vars => FeedInv'
  BY FeedNext
<1> QED
  BY <1>1, <1>2, PTL DEF Spec

(* --- The theorems -------------------------------------------------------------- *)

\* Every variable of the dashboard keeps its type, and the stream's status is what
\* the stream is (Dashboard.jsx, HandleExplorerStream).
THEOREM TypeCorrect == Spec => []TypeOK
<1>1. FeedInv => TypeOK
  <2> SUFFICES ASSUME FeedInv PROVE TypeOK
    OBVIOUS
  <2>1. \A s \in sources : s.tip <= height /\ s.news \in Nat /\ (s.seeded => s.ready)
    BY OnlySource, SourceParts DEF FeedInv, StreamInv
  <2> QED
    BY <2>1 DEF FeedInv, StreamInv, LoadInv, Loads, Account, TypeOK
<1> QED
  BY <1>1, FeedInvariant, PTL

\* One source or one timer, however often an error is handled and the page loaded
\* again (scheduleReconnect and the effect's cleanup).
THEOREM OneStreamCorrect == Spec => []OneStream
<1>1. FeedInv => OneStream
  <2> SUFFICES ASSUME FeedInv PROVE OneStream
    OBVIOUS
  <2>1. CASE timers = 1 /\ sources = {}
    BY <2>1, FS_EmptySet DEF OneStream
  <2>2. CASE timers = 0 /\ \E s \in Sources : sources = {s}
    <3>1. PICK s \in Sources : sources = {s}
      BY <2>2
    <3>2. Cardinality(sources) = 1
      BY <3>1, FS_Singleton
    <3> QED
      BY <2>2, <3>2 DEF OneStream
  <2> QED
    BY <2>1, <2>2 DEF FeedInv, StreamInv, OneEnd
<1> QED
  BY <1>1, FeedInvariant, PTL

\* A dashboard at rest shows the tip, and its account's transactions up to it,
\* unless a known cause for doubt came after its latest load had begun
\* (loadCommittedData, ledger_update, HandleExplorerStream).
THEOREM ShowsTheTipCorrect == Spec => []ShowsTheTip
<1>1. FeedInv => ShowsTheTip
  <2> SUFFICES ASSUME FeedInv, Quiet, ~doubt
               PROVE  /\ shown.blocks = height /\ shown.user = user
                      /\ user # NoUser => shown.txs = height
    BY DEF ShowsTheTip
  <2>1. PICK s \in sources : s.seeded /\ s.tip = height /\ s.news = 0
    BY DEF Quiet
  <2>2. Pending = {}
    BY DEF Quiet, Pending
  <2>3. shown.user = user /\ Fresh(shown.blocks, shown.txs, height)
    BY <2>1, <2>2 DEF FeedInv, LatestOwn, LatestFresh
  <2>4. /\ shown.blocks \in Int /\ shown.txs \in Int /\ height \in Int
        /\ shown.blocks <= height /\ shown.txs <= height
    BY UnservedLarge DEF FeedInv, LoadInv
  <2> QED
    BY <2>3, <2>4 DEF Fresh
<1> QED
  BY <1>1, FeedInvariant, PTL

(* --- Recursion over the naturals ------------------------------------------- *)

\* Every non-empty set of naturals has a least element.
LEMMA LeastNatural ==
  ASSUME NEW T, T \subseteq Nat, T # {}
  PROVE  \E x \in T : \A y \in T : x <= y
<1> DEFINE R == OpToRel(<, Nat)
<1>1. IsWellFoundedOn(R, Nat)
  BY NatLessThanWellFounded
<1>2. \A x, y \in Nat : y < x => <<y, x>> \in R
  BY DEF OpToRel
<1> HIDE DEF R
<1>3. PICK x \in T : \A y \in T : ~(<<y, x>> \in R)
  BY <1>1, WFMin
<1>4. \A y \in T : y \in Nat /\ ~(y < x)
  BY <1>2, <1>3
<1>5. \A y \in T : x <= y
  BY <1>4
<1> QED
  BY <1>5

\* What holds of 0 and passes from each number below w to the next holds up to w.
LEMMA Climb ==
  ASSUME NEW w \in Nat, NEW T, 0 \in T,
         \A i \in Nat : i < w /\ i \in T => i + 1 \in T
  PROVE  \A i \in 0..w : i \in T
<1> DEFINE M == (0..w) \ T
<1> SUFFICES ASSUME M # {}
             PROVE  FALSE
  OBVIOUS
<1>1. PICK m \in M : \A y \in M : m <= y
  <2>1. M \subseteq Nat
    OBVIOUS
  <2> HIDE DEF M
  <2> QED
    BY <2>1, LeastNatural
<1>2. m \in 0..w /\ m \notin T /\ m # 0
  OBVIOUS
<1>3. m - 1 \in Nat /\ m - 1 < w /\ m - 1 \in 0..w /\ ~(m <= m - 1)
  BY <1>2
<1>4. m - 1 \in T
  BY <1>1, <1>3
<1>5. (m - 1) + 1 = m
  BY <1>2
<1> QED
  BY <1>2, <1>3, <1>4, <1>5

\* And to every number if it always passes on.
LEMMA ClimbOn ==
  ASSUME NEW T, 0 \in T, \A i \in Nat : i \in T => i + 1 \in T
  PROVE  \A i \in Nat : i \in T
<1> TAKE n \in Nat
<1>1. \A i \in 0..n : i \in T
  <2>1. \A i \in Nat : i < n /\ i \in T => i + 1 \in T
    OBVIOUS
  <2> QED
    BY <2>1, Climb
<1> QED
  BY <1>1

\* A sequence of values each made of the one before it exists.
Recurs(f, x, G) == f[0] = x /\ \A i \in Nat : f[i + 1] = G[i][f[i]]

LEMMA Recursion ==
  ASSUME NEW S, NEW x \in S, NEW G \in [Nat -> [S -> S]]
  PROVE  \E f \in [Nat -> S] : Recurs(f, x, G)
<1> DEFINE Upto(n, g) == /\ g \in [0..n -> S] /\ g[0] = x
                         /\ \A i \in Nat : i < n => g[i + 1] = G[i][g[i]]
           T == {n \in Nat : \E g : Upto(n, g)}
<1>1. \A n \in Nat : \E g : Upto(n, g)
  <2>1. 0 \in T
    <3>1. Upto(0, [i \in 0..0 |-> x])
      OBVIOUS
    <3> QED
      BY <3>1
  <2>2. ASSUME NEW n \in Nat, NEW g, Upto(n, g)
        PROVE  Upto(n + 1, [i \in 0..(n + 1) |-> IF i = n + 1 THEN G[n][g[n]] ELSE g[i]])
    <3> DEFINE h == [i \in 0..(n + 1) |-> IF i = n + 1 THEN G[n][g[n]] ELSE g[i]]
    <3>1. \A i \in 0..n : g[i] \in S /\ h[i] = g[i]
      BY <2>2
    <3>2. h[n + 1] = G[n][g[n]] /\ G[n][g[n]] \in S
      <4>1. n \in 0..n /\ n + 1 \in 0..(n + 1)
        OBVIOUS
      <4>2. g[n] \in S
        BY <3>1, <4>1
      <4>3. G[n] \in [S -> S]
        OBVIOUS
      <4>4. G[n][g[n]] \in S
        BY <4>2, <4>3
      <4> QED
        BY <4>1, <4>4
    <3>3. h \in [0..(n + 1) -> S]
      <4>1. \A i \in 0..(n + 1) : i = n + 1 \/ i \in 0..n
        OBVIOUS
      <4>2. \A i \in 0..(n + 1) : h[i] \in S
        BY <3>1, <3>2, <4>1
      <4>3. h = [i \in 0..(n + 1) |-> h[i]]
        OBVIOUS
      <4> HIDE DEF h
      <4> QED
        BY <4>2, <4>3
    <3>4. ASSUME NEW i \in Nat, i < n + 1
          PROVE  h[i + 1] = G[i][h[i]]
      <4>1. CASE i = n
        BY <3>1, <3>2, <4>1
      <4>2. CASE i < n
        <5>1. i \in 0..n /\ i + 1 \in 0..n
          BY <4>2
        <5> QED
          BY <2>2, <3>1, <4>2, <5>1
      <4> QED
        BY <3>4, <4>1, <4>2
    <3> QED
      BY <2>2, <3>1, <3>3, <3>4
  <2>3. \A n \in Nat : n \in T => n + 1 \in T
    <3> SUFFICES ASSUME NEW n \in Nat, n \in T
                 PROVE  n + 1 \in T
      OBVIOUS
    <3>1. PICK g : Upto(n, g)
      OBVIOUS
    <3>2. \E h : Upto(n + 1, h)
      <4> HIDE DEF Upto
      <4> QED
        BY <2>2, <3>1
    <3> QED
      BY <3>2
  <2> HIDE DEF T
  <2>4. \A n \in Nat : n \in T
    BY <2>1, <2>3, ClimbOn
  <2> QED
    BY <2>4 DEF T
<1>2. ASSUME NEW n \in Nat, NEW m \in Nat, NEW g, NEW h, Upto(n, g), Upto(m, h), n <= m
      PROVE  g[n] = h[n]
  <2> DEFINE Q == {i \in Nat : g[i] = h[i]}
  <2>1. 0 \in Q
    BY <1>2
  <2>2. \A i \in Nat : i < n /\ i \in Q => i + 1 \in Q
    BY <1>2
  <2> HIDE DEF Q
  <2>3. \A i \in 0..n : i \in Q
    BY <2>1, <2>2, Climb
  <2> QED
    BY <2>3 DEF Q
<1> DEFINE f == [n \in Nat |-> (CHOOSE g : Upto(n, g))[n]]
<1> HIDE DEF Upto
<1>3. \A n, m \in Nat : \A h : Upto(m, h) /\ n <= m => f[n] = h[n]
  BY <1>1, <1>2
<1> HIDE DEF f
<1>4. ASSUME NEW n \in Nat
      PROVE  f[n] \in S /\ f[0] = x /\ f[n + 1] = G[n][f[n]]
  <2>1. PICK h : Upto(n + 1, h)
    <3>1. n + 1 \in Nat
      OBVIOUS
    <3> QED
      BY ZenonT(30), <1>1, <3>1
  <2>2. f[0] = h[0] /\ f[n] = h[n] /\ f[n + 1] = h[n + 1]
    <3>1. 0 <= n + 1 /\ n <= n + 1 /\ n + 1 <= n + 1 /\ n + 1 \in Nat
      OBVIOUS
    <3> QED
      BY <1>3, <2>1, <3>1
  <2> QED
    BY <2>1, <2>2 DEF Upto
<1>5. f \in [Nat -> S]
  BY <1>4 DEF f
<1> QED
  BY <1>4, <1>5 DEF Recurs

(* --- Numbers and their bytes ----------------------------------------------- *)

Byte == 0..(ByteBase - 1)

LEMMA BaseFacts == ByteBase \in Nat \ {0}
BY Base

LEMMA PowerFacts ==
  /\ Power[0] = 1
  /\ \A k \in Nat : Power[k + 1] = ByteBase * Power[k] /\ Power[k] \in Nat \ {0}
<1> USE Base
<1> DEFINE S == Nat \ {0}
           G == [i \in Nat |-> [p \in S |-> ByteBase * p]]
           Is(p) == p = [k \in Nat |-> IF k = 0 THEN 1 ELSE ByteBase * p[k - 1]]
<1>1. \E p : Is(p)
  <2>1. 1 \in S /\ \A p \in S : ByteBase * p \in S
    OBVIOUS
  <2>2. G \in [Nat -> [S -> S]]
    BY <2>1
  <2>3. PICK f \in [Nat -> S] : Recurs(f, 1, G)
    <3> HIDE DEF G, S
    <3> QED
      BY <2>1, <2>2, Recursion
  <2>4. ASSUME NEW k \in Nat
        PROVE  f[k] = IF k = 0 THEN 1 ELSE ByteBase * f[k - 1]
    <3>1. CASE k # 0
      <4>1. k - 1 \in Nat /\ (k - 1) + 1 = k
        BY <3>1
      <4>2. f[(k - 1) + 1] = G[k - 1][f[k - 1]]
        BY <2>3, <4>1 DEF Recurs
      <4>3. f[k - 1] \in S
        BY <2>3, <4>1
      <4> QED
        BY <3>1, <4>1, <4>2, <4>3
    <3> QED
      BY <2>3, <3>1 DEF Recurs
  <2> QED
    BY <2>3, <2>4
<1>2. Is(Power)
  <2>1. Power = CHOOSE p : Is(p)
    BY DEF Power
  <2> HIDE DEF Is
  <2> QED
    BY <1>1, <2>1
<1>3. Power[0] = 1 /\ \A k \in Nat : Power[k + 1] = ByteBase * Power[k]
  <2>1. \A k \in Nat : Power[k] = IF k = 0 THEN 1 ELSE ByteBase * Power[k - 1]
    BY <1>2
  <2>2. \A k \in Nat : k + 1 \in Nat /\ k + 1 # 0 /\ (k + 1) - 1 = k
    OBVIOUS
  <2> QED
    BY <2>1, <2>2
<1>4. ASSUME NEW k \in Nat
      PROVE  Power[k] \in S
  <2> DEFINE T == {i \in Nat : Power[i] \in S}
  <2>1. 0 \in T
    BY <1>3
  <2>2. \A i \in Nat : i \in T => i + 1 \in T
    BY <1>3
  <2> HIDE DEF T
  <2>3. \A i \in Nat : i \in T
    BY <2>1, <2>2, ClimbOn
  <2> QED
    BY <2>3 DEF T
<1> QED
  BY <1>3, <1>4

\* Quotient and remainder.
LEMMA Division ==
  ASSUME NEW n \in Int, NEW c \in Nat \ {0}
  PROVE  /\ n \div c \in Int /\ n % c \in 0..(c - 1)
         /\ n = (n \div c) * c + (n % c)
OBVIOUS

LEMMA Shifts ==
  ASSUME NEW n \in Int, NEW c \in Nat \ {0}, NEW d \in Nat \ {0}
  PROVE  (n \div c) \div d = n \div (c * d)
OBVIOUS

LEMMA TooSmall ==
  ASSUME NEW n \in Nat, NEW c \in Nat \ {0}, n < c
  PROVE  n \div c = 0
OBVIOUS

LEMMA WritesBytes ==
  ASSUME NEW n \in Int, NEW w \in Nat
  PROVE  /\ WriteUint(n, w) \in Seq(Byte) /\ Len(WriteUint(n, w)) = w
         /\ \A i \in 1..w : WriteUint(n, w)[i] = (n \div Power[w - i]) % ByteBase
<1>1. ASSUME NEW i \in 1..w
      PROVE  (n \div Power[w - i]) % ByteBase \in Byte
  <2>1. w - i \in Nat
    OBVIOUS
  <2>2. Power[w - i] \in Nat \ {0}
    BY <2>1, PowerFacts
  <2>3. PICK m \in Int : m = n \div Power[w - i]
    BY <2>2, Division
  <2>4. PICK c \in Nat \ {0} : c = ByteBase
    BY BaseFacts
  <2>5. m % c \in 0..(c - 1)
    BY Division
  <2> QED
    BY <2>3, <2>4, <2>5 DEF Byte
<1> QED
  BY <1>1 DEF WriteUint

LEMMA ByteFacts == 0 \in Byte /\ Byte \subseteq Nat
BY Base DEF Byte

LEMMA ReadsByte ==
  ASSUME NEW b \in Seq(Byte), NEW i \in Nat \ {0}
  PROVE  /\ ByteAt(b, i) \in Byte /\ ByteAt(b, i) \in Nat
         /\ i <= Len(b) => ByteAt(b, i) = b[i]
<1>1. i <= Len(b) => b[i] \in Byte
  OBVIOUS
<1> QED
  BY <1>1, ByteFacts DEF ByteAt

\* What reading a number of w bytes goes through.
Gathers(f, b, o, w) ==
  /\ f \in [0..w -> Nat]
  /\ f[0] = 0
  /\ \A i \in Nat : i < w => f[i + 1] = f[i] * ByteBase + ByteAt(b, o + (i + 1))

LEMMA UintGathers ==
  ASSUME NEW b \in Seq(Byte), NEW o \in Nat, NEW w \in Nat
  PROVE  \E f : Gathers(f, b, o, w) /\ Uint(b, o, w) = f[w]
<1> DEFINE Is(f) == f = [i \in 0..w |-> IF i = 0 THEN 0
                                        ELSE f[i - 1] * ByteBase + ByteAt(b, o + i)]
           G == [i \in Nat |-> [v \in Nat |-> v * ByteBase + ByteAt(b, o + (i + 1))]]
<1>1. \E f : Is(f)
  <2>1. G \in [Nat -> [Nat -> Nat]]
    <3>1. \A i \in Nat : ByteAt(b, o + (i + 1)) \in Nat
      BY ReadsByte
    <3>2. ASSUME NEW i \in Nat, NEW v \in Nat
          PROVE  v * ByteBase + ByteAt(b, o + (i + 1)) \in Nat
      <4>1. v * ByteBase \in Nat
        BY BaseFacts
      <4>2. PICK p \in Nat, q \in Nat : p = v * ByteBase /\ q = ByteAt(b, o + (i + 1))
        BY <3>1, <4>1
      <4>3. p + q \in Nat
        OBVIOUS
      <4> QED
        BY <4>2, <4>3
    <3> QED
      BY <3>2
  <2>2. PICK f \in [Nat -> Nat] : Recurs(f, 0, G)
    <3> HIDE DEF G
    <3> QED
      BY <2>1, Recursion
  <2> DEFINE g == [i \in 0..w |-> f[i]]
  <2>3. ASSUME NEW i \in 0..w
        PROVE  g[i] = IF i = 0 THEN 0 ELSE g[i - 1] * ByteBase + ByteAt(b, o + i)
    <3>1. CASE i # 0
      <4>1. i - 1 \in Nat /\ (i - 1) + 1 = i /\ i - 1 \in 0..w
        BY <3>1
      <4>2. f[(i - 1) + 1] = G[i - 1][f[i - 1]]
        BY <2>2, <4>1 DEF Recurs
      <4>3. f[i - 1] \in Nat
        BY <4>1
      <4> QED
        BY <3>1, <4>1, <4>2, <4>3
    <3> QED
      BY <2>2, <3>1 DEF Recurs
  <2>4. Is(g)
    BY <2>3
  <2> QED
    BY <2>4
<1> DEFINE h == CHOOSE f : Is(f)
<1>2. Is(h) /\ Uint(b, o, w) = h[w]
  <2>1. Uint(b, o, w) = h[w]
    BY DEF Uint
  <2> HIDE DEF Is
  <2> QED
    BY <1>1, <2>1
<1> HIDE DEF h
<1>3. \A i \in 0..w : h[i] = IF i = 0 THEN 0 ELSE h[i - 1] * ByteBase + ByteAt(b, o + i)
  BY <1>2
<1>4. DOMAIN h = 0..w
  BY <1>2
<1>5. h[0] = 0 /\ \A i \in Nat : i < w => h[i + 1] = h[i] * ByteBase + ByteAt(b, o + (i + 1))
  <2>1. 0 \in 0..w
    OBVIOUS
  <2>2. ASSUME NEW i \in Nat, i < w
        PROVE  h[i + 1] = h[i] * ByteBase + ByteAt(b, o + (i + 1))
    <3>1. i + 1 \in 0..w /\ i + 1 # 0 /\ (i + 1) - 1 = i
      BY <2>2
    <3> QED
      BY <1>3, <3>1
  <2> QED
    BY <1>3, <2>1, <2>2
<1>6. \A i \in 0..w : h[i] \in Nat
  <2> DEFINE T == {i \in Nat : h[i] \in Nat}
  <2>1. 0 \in T
    BY <1>5
  <2>2. ASSUME NEW i \in Nat, i < w, i \in T
        PROVE  i + 1 \in T
    <3>1. ByteAt(b, o + (i + 1)) \in Nat
      BY ReadsByte
    <3>2. h[i] \in Nat /\ i + 1 \in Nat
      BY <2>2
    <3>3. h[i] * ByteBase \in Nat
      BY <3>2, BaseFacts
    <3>4. h[i + 1] = h[i] * ByteBase + ByteAt(b, o + (i + 1))
      BY <1>5, <2>2
    <3>5. h[i + 1] \in Nat
      BY <3>1, <3>3, <3>4
    <3> QED
      BY <3>2, <3>5
  <2> HIDE DEF T
  <2>3. \A i \in 0..w : i \in T
    BY <2>1, <2>2, Climb
  <2> QED
    BY <2>3 DEF T
<1>7. h = [i \in 0..w |-> h[i]]
  BY <1>2
<1>8. Gathers(h, b, o, w)
  <2> HIDE DEF Is
  <2>1. h \in [0..w -> Nat]
    BY <1>6, <1>7
  <2> QED
    BY <1>5, <2>1 DEF Gathers
<1> QED
  BY <1>2, <1>8

LEMMA UintNat ==
  ASSUME NEW b \in Seq(Byte), NEW o \in Nat, NEW w \in Nat
  PROVE  Uint(b, o, w) \in Nat
<1>1. PICK f : Gathers(f, b, o, w) /\ Uint(b, o, w) = f[w]
  BY UintGathers
<1> QED
  BY <1>1 DEF Gathers

\* The bytes of a number that fits them are read as that number.
LEMMA UintBack ==
  ASSUME NEW b \in Seq(Byte), NEW o \in Nat, NEW w \in Nat, NEW n \in Nat,
         n < Power[w], o + w <= Len(b),
         \A i \in 1..w : b[o + i] = (n \div Power[w - i]) % ByteBase
  PROVE  Uint(b, o, w) = n
<1>1. PICK f : Gathers(f, b, o, w) /\ Uint(b, o, w) = f[w]
  BY UintGathers
<1> DEFINE T == {i \in Nat : i <= w => f[i] = n \div Power[w - i]}
<1>2. 0 \in T
  <2>1. Power[w] \in Nat \ {0} /\ w - 0 = w
    BY PowerFacts
  <2>2. n \div Power[w] = 0
    BY <2>1, TooSmall
  <2> QED
    BY <1>1, <2>1, <2>2 DEF Gathers
<1>3. ASSUME NEW i \in Nat, i < w, i \in T
      PROVE  i + 1 \in T
  <2> DEFINE m == n \div Power[w - (i + 1)]
  <2>1. /\ w - (i + 1) \in Nat /\ (w - (i + 1)) + 1 = w - i /\ i + 1 \in 1..w
        /\ o + (i + 1) \in Nat \ {0} /\ o + (i + 1) <= Len(b)
    BY <1>3
  <2>2. Power[w - (i + 1)] \in Nat \ {0} /\ Power[w - i] = ByteBase * Power[w - (i + 1)]
    BY <2>1, PowerFacts
  <2>3. m \in Int
    <3>1. PICK p \in Nat \ {0} : p = Power[w - (i + 1)]
      BY <2>2
    <3>2. n \in Int
      OBVIOUS
    <3>3. n \div p \in Int
      BY <3>2, Division
    <3> QED
      BY <3>1, <3>3
  <2>4. f[i] = m \div ByteBase
    <3>1. PICK p \in Nat \ {0} : p = Power[w - (i + 1)]
      BY <2>2
    <3>2. PICK c \in Nat \ {0} : c = ByteBase
      BY BaseFacts
    <3>3. n \in Int
      OBVIOUS
    <3>4. (n \div p) \div c = n \div (p * c)
      BY ZenonT(30), <3>3, Shifts
    <3>5. p * c = c * p
      OBVIOUS
    <3>6. f[i] = n \div Power[w - i]
      BY <1>3
    <3> QED
      BY <2>2, <3>1, <3>2, <3>4, <3>5, <3>6
  <2>5. ByteAt(b, o + (i + 1)) = m % ByteBase
    BY <2>1, ReadsByte
  <2> HIDE DEF m
  <2>6. m = (m \div ByteBase) * ByteBase + (m % ByteBase)
    BY <2>3, Division, BaseFacts
  <2>7. f[i + 1] = m
    BY <1>1, <1>3, <2>4, <2>5, <2>6 DEF Gathers
  <2> QED
    BY <2>7 DEF m
<1> HIDE DEF T
<1>4. \A i \in 0..w : i \in T
  BY <1>2, <1>3, Climb
<1>5. f[w] = n \div Power[0]
  <2>1. w \in 0..w /\ w - w = 0
    OBVIOUS
  <2>2. w \in T
    BY <1>4, <2>1
  <2> QED
    BY <2>1, <2>2 DEF T
<1>6. n \div Power[0] = n
  BY PowerFacts
<1> QED
  BY <1>1, <1>5, <1>6

(* --- Fields and their bytes ------------------------------------------------ *)

FieldTypes == NumberTypes \cup {"STRING", "BOOLEAN", "ADDRESS"}

\* The bytes s stand in b behind the first o.
Holds(b, o, s) == o + Len(s) <= Len(b) /\ \A j \in 1..Len(s) : b[o + j] = s[j]

LEMMA HoldsParts ==
  ASSUME NEW b \in Seq(Byte), NEW o \in Nat, NEW s \in Seq(Byte), NEW t \in Seq(Byte),
         Holds(b, o, s \o t)
  PROVE  Holds(b, o, s) /\ Holds(b, o + Len(s), t)
<1>1. /\ Len(s \o t) = Len(s) + Len(t)
      /\ \A i \in 1..(Len(s) + Len(t)) :
           (s \o t)[i] = IF i <= Len(s) THEN s[i] ELSE t[i - Len(s)]
  BY ConcatProperties
<1>2. Len(s) \in Nat /\ Len(t) \in Nat /\ Len(b) \in Nat
  OBVIOUS
<1>3. ASSUME NEW j \in 1..Len(s)
      PROVE  b[o + j] = s[j]
  <2>1. j \in 1..(Len(s) + Len(t)) /\ j <= Len(s)
    BY <1>2
  <2> QED
    BY <1>1, <2>1 DEF Holds
<1>4. ASSUME NEW j \in 1..Len(t)
      PROVE  b[(o + Len(s)) + j] = t[j]
  <2>1. /\ Len(s) + j \in 1..(Len(s) + Len(t)) /\ ~(Len(s) + j <= Len(s))
        /\ (Len(s) + j) - Len(s) = j /\ o + (Len(s) + j) = (o + Len(s)) + j
    BY <1>2
  <2>2. b[o + (Len(s) + j)] = (s \o t)[Len(s) + j]
    BY <1>1, <2>1 DEF Holds
  <2> QED
    BY <1>1, <2>1, <2>2
<1>5. o + Len(s) <= Len(b) /\ (o + Len(s)) + Len(t) <= Len(b)
  BY <1>1, <1>2 DEF Holds
<1> QED
  BY <1>3, <1>4, <1>5 DEF Holds

LEMMA HoldsGrown ==
  ASSUME NEW b \in Seq(Byte), NEW t \in Seq(Byte)
  PROVE  /\ b \o t \in Seq(Byte) /\ Len(b \o t) = Len(b) + Len(t)
         /\ Holds(b \o t, Len(b), t)
         /\ \A o \in Nat : \A s \in Seq(Byte) : Holds(b, o, s) => Holds(b \o t, o, s)
<1>1. /\ b \o t \in Seq(Byte) /\ Len(b \o t) = Len(b) + Len(t)
      /\ \A i \in 1..(Len(b) + Len(t)) :
           (b \o t)[i] = IF i <= Len(b) THEN b[i] ELSE t[i - Len(b)]
  BY ConcatProperties
<1>2. Len(t) \in Nat /\ Len(b) \in Nat
  OBVIOUS
<1>3. Holds(b \o t, Len(b), t)
  <2>1. ASSUME NEW j \in 1..Len(t)
        PROVE  (b \o t)[Len(b) + j] = t[j]
    <3>1. /\ Len(b) + j \in 1..(Len(b) + Len(t)) /\ ~(Len(b) + j <= Len(b))
          /\ (Len(b) + j) - Len(b) = j
      BY <1>2
    <3> QED
      BY <1>1, <3>1
  <2>2. Len(b) + Len(t) <= Len(b \o t)
    BY <1>1, <1>2
  <2> QED
    BY <2>1, <2>2 DEF Holds
<1>4. ASSUME NEW o \in Nat, NEW s \in Seq(Byte), Holds(b, o, s)
      PROVE  Holds(b \o t, o, s)
  <2>1. Len(s) \in Nat /\ o + Len(s) <= Len(b)
    BY <1>4 DEF Holds
  <2>2. ASSUME NEW j \in 1..Len(s)
        PROVE  (b \o t)[o + j] = s[j]
    <3>1. o + j \in 1..(Len(b) + Len(t)) /\ o + j <= Len(b)
      BY <1>2, <2>1
    <3>2. b[o + j] = s[j]
      BY <1>4 DEF Holds
    <3> QED
      BY <1>1, <3>1, <3>2
  <2>3. o + Len(s) <= Len(b \o t)
    BY <1>1, <1>2, <2>1
  <2> QED
    BY <2>2, <2>3 DEF Holds
<1> QED
  BY <1>1, <1>3, <1>4

LEMMA SliceBytes ==
  ASSUME NEW b \in Seq(Byte), NEW o \in Nat, NEW n \in Nat
  PROVE  Slice(b, o, n) \in Seq(Byte)
<1> DEFINE m == IF o + n <= Len(b) THEN o + n ELSE Len(b)
<1>1. o + 1 \in Int /\ m \in Int /\ m <= Len(b)
  OBVIOUS
<1>2. \A i \in (o + 1)..m : b[i] \in Byte
  <2>1. \A i \in (o + 1)..m : i \in 1..Len(b)
    OBVIOUS
  <2> HIDE DEF m
  <2> QED
    BY <2>1, ElementOfSeq
<1>3. Slice(b, o, n) = SubSeq(b, o + 1, m)
  BY DEF Slice
<1> HIDE DEF m
<1> QED
  BY <1>1, <1>2, <1>3, SubSeqProperties

LEMMA SliceBack ==
  ASSUME NEW b \in Seq(Byte), NEW o \in Nat, NEW s \in Seq(Byte), Holds(b, o, s)
  PROVE  Slice(b, o, Len(s)) = s
<1> DEFINE m == o + Len(s)
           t == SubSeq(b, o + 1, m)
<1>1. Len(s) \in Nat /\ m \in Int /\ o + 1 \in Int /\ m <= Len(b)
  BY DEF Holds
<1>2. Slice(b, o, Len(s)) = t
  BY <1>1 DEF Slice
<1>3. \A i \in (o + 1)..m : b[i] \in Byte
  <2>1. \A i \in (o + 1)..m : i \in 1..Len(b)
    BY <1>1
  <2> HIDE DEF m
  <2> QED
    BY <2>1, ElementOfSeq
<1>4. /\ t \in Seq(Byte) /\ Len(t) = IF o + 1 <= m THEN m - (o + 1) + 1 ELSE 0
      /\ \A i \in 1..(m - (o + 1) + 1) : t[i] = b[(o + 1) + i - 1]
  <2> HIDE DEF m
  <2> QED
    BY <1>1, <1>3, SubSeqProperties
<1>5. Len(t) = Len(s)
  BY <1>1, <1>4
<1>6. ASSUME NEW i \in 1..Len(s)
      PROVE  t[i] = s[i]
  <2>1. i \in 1..(m - (o + 1) + 1) /\ (o + 1) + i - 1 = o + i
    BY <1>1
  <2>2. t[i] = b[o + i]
    <3> HIDE DEF t, m
    <3> QED
      BY <1>4, <2>1
  <2> QED
    BY <2>2 DEF Holds
<1> HIDE DEF t
<1> QED
  BY <1>2, <1>4, <1>5, <1>6, SeqEqual

LEMMA WidthFacts ==
  /\ \A type \in NumberTypes : Width[type] \in Nat \ {0}
  /\ Width["UINT8"] = 1 /\ Width["UINT16"] = 2 /\ Width["UINT32"] = 4
  /\ Width["UINT64"] = 8 /\ Width["ADDRESS"] = 20
BY DEF Width, NumberTypes

\* What a field of each type is given, and the bytes it becomes.
LEMMA NumberWritten ==
  ASSUME NEW type \in NumberTypes, NEW v \in Inputs(type)
  PROVE  /\ v.int \in Int
         /\ Written(type, v) = WriteUint(v.int, Width[type])
         /\ Written(type, v) \in Seq(Byte) /\ Len(Written(type, v)) = Width[type]
<1>1. type # "STRING" /\ type # "ADDRESS" /\ type # "BOOLEAN"
  BY DEF NumberTypes
<1>2. v \in [int : Numbers, whole : BOOLEAN]
  BY <1>1 DEF Inputs
<1>3. v.int \in Int
  BY <1>2, Typed
<1>4. Written(type, v) = WriteUint(v.int, Width[type])
  BY <1>1 DEF Written
<1>5. Width[type] \in Nat
  BY WidthFacts
<1> QED
  BY <1>3, <1>4, <1>5, WritesBytes

LEMMA StringWritten ==
  ASSUME NEW v \in Inputs("STRING")
  PROVE  /\ v \in Seq(Byte) /\ Len(v) \in Nat
         /\ Written("STRING", v) = WriteUint(Len(v), 2) \o v
         /\ WriteUint(Len(v), 2) \in Seq(Byte) /\ Len(WriteUint(Len(v), 2)) = 2
         /\ Written("STRING", v) \in Seq(Byte) /\ Len(Written("STRING", v)) = 2 + Len(v)
<1>1. v \in Seq(Byte)
  BY Typed DEF Inputs, NumberTypes, Byte
<1>2. Len(v) \in Nat /\ Len(v) \in Int
  BY <1>1
<1>3. Written("STRING", v) = WriteUint(Len(v), 2) \o v
  BY WidthFacts DEF Written, NumberTypes, WriteString
<1>4. WriteUint(Len(v), 2) \in Seq(Byte) /\ Len(WriteUint(Len(v), 2)) = 2
  BY <1>2, WritesBytes
<1>5. PICK w \in Seq(Byte) : w = WriteUint(Len(v), 2)
  BY <1>4
<1>6. w \o v \in Seq(Byte) /\ Len(w \o v) = Len(w) + Len(v)
  BY <1>1, ConcatProperties
<1> QED
  BY <1>1, <1>2, <1>3, <1>4, <1>5, <1>6

LEMMA BytesInARow ==
  ASSUME NEW n \in Nat, NEW f \in [1..n -> Byte]
  PROVE  f \in Seq(Byte) /\ Len(f) = n
OBVIOUS

LEMMA AddressWritten ==
  ASSUME NEW v \in Inputs("ADDRESS")
  PROVE  /\ v \in Seq(Byte)
         /\ Written("ADDRESS", v) \in Seq(Byte) /\ Len(Written("ADDRESS", v)) = 20
         /\ Len(v) = 20 => Written("ADDRESS", v) = v
<1>1. v \in Seq(Byte)
  BY Typed DEF Inputs, NumberTypes, Byte
<1>2. Written("ADDRESS", v) = [i \in 1..20 |-> IF i <= Len(v) THEN v[i] ELSE 0]
  BY WidthFacts DEF Written, NumberTypes, WriteAddress
<1>3. \A i \in 1..20 : (IF i <= Len(v) THEN v[i] ELSE 0) \in Byte
  BY <1>1, ByteFacts
<1>4. Written("ADDRESS", v) \in Seq(Byte) /\ Len(Written("ADDRESS", v)) = 20
  <2>1. Written("ADDRESS", v) \in [1..20 -> Byte]
    BY <1>2, <1>3
  <2> QED
    BY <2>1, BytesInARow
<1>5. ASSUME Len(v) = 20
      PROVE  Written("ADDRESS", v) = v
  <2>1. \A i \in 1..Len(v) : Written("ADDRESS", v)[i] = v[i]
    BY <1>2, <1>5
  <2> QED
    BY <1>1, <1>4, <1>5, <2>1, SeqEqual
<1> QED
  BY <1>1, <1>4, <1>5

LEMMA BooleanWritten ==
  ASSUME NEW v \in Inputs("BOOLEAN")
  PROVE  /\ v \in BOOLEAN
         /\ Written("BOOLEAN", v) \in Seq(Byte) /\ Len(Written("BOOLEAN", v)) = 1
         /\ Written("BOOLEAN", v)[1] = IF v THEN 1 ELSE 0
<1>1. v \in BOOLEAN
  BY DEF Inputs, NumberTypes
<1>2. Written("BOOLEAN", v) = IF v THEN <<1>> ELSE <<0>>
  BY DEF Written, NumberTypes, WriteBoolean
<1>3. 0 \in Byte /\ 1 \in Byte
  BY Base DEF Byte
<1>4. <<0>> \in Seq(Byte) /\ Len(<<0>>) = 1 /\ <<1>> \in Seq(Byte) /\ Len(<<1>>) = 1
  BY <1>3
<1>5. CASE v
  <2>1. Written("BOOLEAN", v) = <<1>> /\ (IF v THEN 1 ELSE 0) = 1
    BY Zenon, <1>2, <1>5
  <2>2. <<1>>[1] = 1
    OBVIOUS
  <2> QED
    BY Zenon, <1>1, <1>4, <2>1, <2>2
<1>6. CASE ~v
  <2>1. Written("BOOLEAN", v) = <<0>> /\ (IF v THEN 1 ELSE 0) = 0
    BY Zenon, <1>2, <1>6
  <2>2. <<0>>[1] = 0
    OBVIOUS
  <2> QED
    BY Zenon, <1>1, <1>4, <2>1, <2>2
<1> QED
  BY <1>1, <1>5, <1>6

LEMMA FieldWritten ==
  ASSUME NEW type \in FieldTypes, NEW v \in Inputs(type)
  PROVE  Written(type, v) \in Seq(Byte)
<1>1. CASE type \in NumberTypes
  BY <1>1, NumberWritten
<1>2. CASE type = "STRING"
  BY <1>2, StringWritten
<1>3. CASE type = "ADDRESS"
  BY <1>3, AddressWritten
<1>4. CASE type = "BOOLEAN"
  BY <1>4, BooleanWritten
<1> QED
  BY <1>1, <1>2, <1>3, <1>4 DEF FieldTypes

(* --- Reading a field ------------------------------------------------------- *)

\* Whatever a field's reader may give.
Readable == Int \cup {Undefined} \cup BOOLEAN \cup Seq(Byte)
Reads == [value : Readable, next : Nat, ok : BOOLEAN]

LEMMA ReadsTyped ==
  /\ \A x \in Readable : \A n \in Nat :
       /\ Read(x, n) \in Reads /\ Read(x, n).value = x
       /\ Read(x, n).next = n /\ Read(x, n).ok = TRUE
  /\ \A n \in Nat : Threw(n) \in Reads
BY DEF Readable, Reads, Read, Threw

LEMMA ValuesFacts ==
  \A type \in NumberTypes : Values(type) = Power[Width[type]] /\ Values(type) \in Nat
<1> TAKE type \in NumberTypes
<1>1. Width[type] \in Nat
  BY WidthFacts
<1> QED
  BY <1>1, PowerFacts DEF Values

LEMMA SignedInt ==
  ASSUME NEW n \in Nat
  PROVE  Signed(n) \in Int
<1>1. Values("UINT32") \in Nat
  BY ValuesFacts DEF NumberTypes
<1> QED
  BY <1>1 DEF Signed

LEMMA FieldTyped ==
  ASSUME NEW b \in Seq(Byte), NEW o \in Nat, NEW type \in FieldTypes
  PROVE  ReadField(type, b, o) \in Reads
<1> USE ReadsTyped
<1>0. /\ Undefined \in Readable /\ \A n \in Int : n \in Readable
      /\ \A t \in Seq(Byte) : t \in Readable
  BY DEF Readable
<1>1. CASE type = "UINT8"
  <2>1. ReadField(type, b, o) = Read(IF o < Len(b) THEN b[o + 1] ELSE Undefined, o + 1)
    BY <1>1 DEF ReadField, ReadUint8
  <2>2. o < Len(b) => b[o + 1] \in Byte
    OBVIOUS
  <2>3. (IF o < Len(b) THEN b[o + 1] ELSE Undefined) \in Readable
    <3>1. \A x \in Byte : x \in Int
      BY Base DEF Byte
    <3>2. o < Len(b) => b[o + 1] \in Int
      BY <2>2, <3>1
    <3> QED
      BY <1>0, <3>2
  <2>4. o + 1 \in Nat
    OBVIOUS
  <2> QED
    BY <2>1, <2>3, <2>4
<1>2. CASE type = "UINT16"
  <2>1. ReadField(type, b, o) = Read(Uint(b, o, 2), o + 2)
    BY <1>2 DEF ReadField, ReadUint16
  <2>2. Uint(b, o, 2) \in Readable /\ o + 2 \in Nat
    BY <1>0, UintNat
  <2> QED
    BY <2>1, <2>2
<1>3. CASE type = "UINT32"
  <2>1. ReadField(type, b, o) = Read(Signed(Uint(b, o, 4)), o + 4)
    BY <1>3 DEF ReadField, ReadUint32
  <2>2. Signed(Uint(b, o, 4)) \in Readable /\ o + 4 \in Nat
    <3>1. PICK n \in Nat : n = Uint(b, o, 4)
      BY UintNat
    <3>2. Signed(n) \in Int
      BY SignedInt
    <3>3. o + 4 \in Nat
      OBVIOUS
    <3> QED
      BY <1>0, <3>1, <3>2, <3>3
  <2> QED
    BY <2>1, <2>2
<1>4. CASE type = "UINT64"
  <2>1. ReadField(type, b, o) = IF o + 8 <= Len(b) THEN Read(Uint(b, o, 8), o + 8)
                                ELSE Threw(o)
    BY <1>4 DEF ReadField, ReadUint64
  <2>2. Uint(b, o, 8) \in Readable /\ o + 8 \in Nat
    BY <1>0, UintNat
  <2> QED
    BY <2>1, <2>2
<1>5. CASE type = "STRING"
  <2>1. PICK n \in Nat : n = Uint(b, o, 2)
    BY UintNat
  <2>2. ReadField(type, b, o) = Read(Slice(b, o + 2, n), (o + 2) + n)
    BY <1>5, <2>1 DEF ReadField, ReadString, ReadUint16, Read
  <2>3. o + 2 \in Nat /\ (o + 2) + n \in Nat
    OBVIOUS
  <2>4. Slice(b, o + 2, n) \in Readable
    BY <1>0, <2>3, SliceBytes
  <2> QED
    BY <2>2, <2>3, <2>4
<1>6. CASE type = "BOOLEAN"
  <2>1. ReadField(type, b, o) = Read(ReadUint8(b, o).value # 0, o + 1)
    BY <1>6 DEF ReadField, ReadBoolean
  <2>2. (ReadUint8(b, o).value # 0) \in Readable /\ o + 1 \in Nat
    <3>1. (ReadUint8(b, o).value # 0) \in BOOLEAN
      BY Zenon
    <3> QED
      BY <3>1 DEF Readable
  <2> QED
    BY Zenon, <2>1, <2>2, ReadsTyped
<1>7. CASE type = "ADDRESS"
  <2>1. ReadField(type, b, o) = Read(Slice(b, o, 20), o + 20)
    BY <1>7 DEF ReadField, ReadAddress
  <2>2. Slice(b, o, 20) \in Readable /\ o + 20 \in Nat
    BY <1>0, SliceBytes
  <2> QED
    BY <2>1, <2>2
<1> QED
  BY <1>1, <1>2, <1>3, <1>4, <1>5, <1>6, <1>7 DEF FieldTypes, NumberTypes

\* What is kept of a value, and what is then read.
Keeps(type, v) ==
  CASE type \in NumberTypes ->
         v.whole /\ v.int \in 0..Values(type) - 1
           /\ (type = "UINT32" => 2 * v.int < Values(type))
    [] type = "ADDRESS" -> Len(v) = Width[type]
    [] OTHER -> TRUE
Meant(type, v) == IF type \in NumberTypes THEN v.int ELSE v

\* A field whose bytes are where the decoder is: it passes over them all, and
\* gives a value that is kept.
Back(type, v, b, o) ==
  LET r == ReadField(type, b, o) IN
  /\ r.ok /\ r.next = o + Len(Written(type, v))
  /\ Keeps(type, v) => r.value = Meant(type, v)

\* A number of w bytes, where its bytes are.
LEMMA UintThere ==
  ASSUME NEW b \in Seq(Byte), NEW o \in Nat, NEW w \in Nat, NEW n \in Int,
         Holds(b, o, WriteUint(n, w))
  PROVE  /\ o + w <= Len(b)
         /\ n \in Nat /\ n < Power[w] => Uint(b, o, w) = n
<1>1. /\ Len(WriteUint(n, w)) = w
      /\ \A i \in 1..w : WriteUint(n, w)[i] = (n \div Power[w - i]) % ByteBase
  BY WritesBytes
<1>2. o + w <= Len(b) /\ \A i \in 1..w : b[o + i] = WriteUint(n, w)[i]
  BY <1>1 DEF Holds
<1>3. \A i \in 1..w : b[o + i] = (n \div Power[w - i]) % ByteBase
  BY <1>1, <1>2
<1> QED
  BY <1>2, <1>3, UintBack

LEMMA NumberThere ==
  ASSUME NEW b \in Seq(Byte), NEW o \in Nat, NEW type \in NumberTypes,
         NEW v \in Inputs(type), Holds(b, o, Written(type, v))
  PROVE  /\ v.int \in Int /\ Meant(type, v) = v.int
         /\ Len(Written(type, v)) = Width[type]
         /\ o + Width[type] <= Len(b)
         /\ Keeps(type, v) =>
              /\ Uint(b, o, Width[type]) = v.int /\ v.int \in Nat
              /\ type = "UINT32" => 2 * v.int < Values(type)
<1>1. /\ v.int \in Int /\ Written(type, v) = WriteUint(v.int, Width[type])
      /\ Len(Written(type, v)) = Width[type] /\ Width[type] \in Nat
  BY NumberWritten, WidthFacts
<1>2. /\ o + Width[type] <= Len(b)
      /\ v.int \in Nat /\ v.int < Power[Width[type]] => Uint(b, o, Width[type]) = v.int
  BY <1>1, UintThere
<1>3. Keeps(type, v) => /\ v.int \in 0..Values(type) - 1
                        /\ type = "UINT32" => 2 * v.int < Values(type)
  <2>1. type # "ADDRESS"
    BY DEF NumberTypes
  <2> QED
    BY <2>1 DEF Keeps
<1>4. Values(type) = Power[Width[type]] /\ Values(type) \in Nat
  BY ValuesFacts
<1>5. v.int \in 0..Values(type) - 1 => v.int \in Nat /\ v.int < Power[Width[type]]
  BY <1>4
<1> QED
  BY <1>1, <1>2, <1>3, <1>5 DEF Meant

LEMMA Uint8There ==
  ASSUME NEW b \in Seq(Byte), NEW o \in Nat, o + 1 <= Len(b)
  PROVE  Uint(b, o, 1) = b[o + 1]
<1>1. PICK f : Gathers(f, b, o, 1) /\ Uint(b, o, 1) = f[1]
  BY UintGathers
<1>2. f[0] = 0 /\ f[0 + 1] = f[0] * ByteBase + ByteAt(b, o + (0 + 1))
  BY <1>1 DEF Gathers
<1>3. ByteAt(b, o + (0 + 1)) = b[o + 1] /\ ByteAt(b, o + (0 + 1)) \in Nat
  BY ReadsByte
<1>4. 0 * ByteBase = 0
  BY BaseFacts
<1> QED
  BY <1>1, <1>2, <1>3, <1>4

LEMMA NumberBack ==
  ASSUME NEW b \in Seq(Byte), NEW o \in Nat, NEW type \in NumberTypes,
         NEW v \in Inputs(type), Holds(b, o, Written(type, v))
  PROVE  Back(type, v, b, o)
<1>1. /\ v.int \in Int /\ Meant(type, v) = v.int
      /\ Len(Written(type, v)) = Width[type]
      /\ o + Width[type] <= Len(b)
      /\ Keeps(type, v) =>
           /\ Uint(b, o, Width[type]) = v.int /\ v.int \in Nat
           /\ type = "UINT32" => 2 * v.int < Values(type)
  BY NumberThere
<1> USE WidthFacts
<1>2. CASE type = "UINT8"
  <2>1. o + 1 <= Len(b) /\ Uint(b, o, 1) = b[o + 1]
    BY <1>1, <1>2, Uint8There
  <2>2. ReadField(type, b, o) = Read(b[o + 1], o + 1)
    BY <1>2, <2>1 DEF ReadField, ReadUint8
  <2> QED
    BY <1>1, <1>2, <2>1, <2>2 DEF Back, Read
<1>3. CASE type = "UINT16"
  <2>1. ReadField(type, b, o) = Read(Uint(b, o, 2), o + 2)
    BY <1>3 DEF ReadField, ReadUint16
  <2> QED
    BY <1>1, <1>3, <2>1 DEF Back, Read
<1>4. CASE type = "UINT32"
  <2>1. ReadField(type, b, o) = Read(Signed(Uint(b, o, 4)), o + 4)
    BY <1>4 DEF ReadField, ReadUint32
  <2>2. Values("UINT32") \in Nat
    BY ValuesFacts DEF NumberTypes
  <2>3. Keeps(type, v) => Signed(Uint(b, o, 4)) = v.int
    BY <1>1, <1>4, <2>2 DEF Signed
  <2> QED
    BY <1>1, <1>4, <2>1, <2>3 DEF Back, Read
<1>5. CASE type = "UINT64"
  <2>1. o + 8 <= Len(b)
    BY <1>1, <1>5
  <2>2. ReadField(type, b, o) = Read(Uint(b, o, 8), o + 8)
    BY <1>5, <2>1 DEF ReadField, ReadUint64
  <2> QED
    BY <1>1, <1>5, <2>2 DEF Back, Read
<1> QED
  BY <1>2, <1>3, <1>4, <1>5 DEF NumberTypes

LEMMA StringBack ==
  ASSUME NEW b \in Seq(Byte), NEW o \in Nat, NEW v \in Inputs("STRING"),
         Holds(b, o, Written("STRING", v)), Len(v) < Values("UINT16")
  PROVE  Back("STRING", v, b, o)
<1>1. /\ v \in Seq(Byte) /\ Len(v) \in Nat
      /\ Written("STRING", v) = WriteUint(Len(v), 2) \o v
      /\ WriteUint(Len(v), 2) \in Seq(Byte) /\ Len(WriteUint(Len(v), 2)) = 2
      /\ Len(Written("STRING", v)) = 2 + Len(v)
  BY StringWritten
<1>2. Holds(b, o, WriteUint(Len(v), 2)) /\ Holds(b, o + 2, v)
  <2>1. PICK w \in Seq(Byte) : w = WriteUint(Len(v), 2)
    BY <1>1
  <2>2. Holds(b, o, w) /\ Holds(b, o + Len(w), v)
    <3>1. Holds(b, o, w \o v)
      BY <1>1, <2>1
    <3> QED
      BY ZenonT(30), <1>1, <3>1, HoldsParts
  <2> QED
    BY <1>1, <2>1, <2>2
<1>3. Uint(b, o, 2) = Len(v)
  <2>1. Values("UINT16") = Power[2]
    BY ValuesFacts, WidthFacts DEF NumberTypes
  <2>2. Len(v) \in Int /\ Len(v) < Power[2]
    BY <1>1, <2>1
  <2> QED
    BY <1>1, <1>2, <2>2, UintThere
<1>4. Slice(b, o + 2, Len(v)) = v
  <2>1. o + 2 \in Nat
    OBVIOUS
  <2> QED
    BY <1>1, <1>2, <2>1, SliceBack
<1>5. ReadField("STRING", b, o) = Read(v, (o + 2) + Len(v))
  <2>1. ReadField("STRING", b, o)
          = Read(Slice(b, o + 2, Uint(b, o, 2)), (o + 2) + Uint(b, o, 2))
    BY DEF ReadField, ReadString, ReadUint16, Read
  <2> QED
    BY <1>3, <1>4, <2>1
<1>6. (o + 2) + Len(v) = o + (2 + Len(v))
  BY <1>1
<1>7. Meant("STRING", v) = v
  BY DEF Meant, NumberTypes
<1>8. /\ Read(v, (o + 2) + Len(v)).ok = TRUE /\ Read(v, (o + 2) + Len(v)).value = v
      /\ Read(v, (o + 2) + Len(v)).next = (o + 2) + Len(v)
  BY DEF Read
<1> QED
  BY Zenon, <1>1, <1>5, <1>6, <1>7, <1>8 DEF Back

LEMMA AddressBack ==
  ASSUME NEW b \in Seq(Byte), NEW o \in Nat, NEW v \in Inputs("ADDRESS"),
         Holds(b, o, Written("ADDRESS", v))
  PROVE  Back("ADDRESS", v, b, o)
<1>1. /\ v \in Seq(Byte) /\ Len(Written("ADDRESS", v)) = 20
      /\ Len(v) = 20 => Written("ADDRESS", v) = v
  BY AddressWritten
<1>2. Keeps("ADDRESS", v) => Len(v) = 20
  BY WidthFacts DEF Keeps, NumberTypes
<1>3. ReadField("ADDRESS", b, o) = Read(Slice(b, o, 20), o + 20)
  BY DEF ReadField, ReadAddress
<1>4. Keeps("ADDRESS", v) => Slice(b, o, 20) = v
  BY <1>1, <1>2, SliceBack
<1>5. Meant("ADDRESS", v) = v
  BY DEF Meant, NumberTypes
<1>6. /\ Read(Slice(b, o, 20), o + 20).ok = TRUE
      /\ Read(Slice(b, o, 20), o + 20).value = Slice(b, o, 20)
      /\ Read(Slice(b, o, 20), o + 20).next = o + 20
  BY DEF Read
<1> QED
  BY Zenon, <1>1, <1>3, <1>4, <1>5, <1>6 DEF Back

LEMMA BooleanBack ==
  ASSUME NEW b \in Seq(Byte), NEW o \in Nat, NEW v \in Inputs("BOOLEAN"),
         Holds(b, o, Written("BOOLEAN", v))
  PROVE  Back("BOOLEAN", v, b, o)
<1>1. /\ v \in BOOLEAN /\ Len(Written("BOOLEAN", v)) = 1
      /\ Written("BOOLEAN", v)[1] = IF v THEN 1 ELSE 0
  BY BooleanWritten
<1>2. o + 1 <= Len(b) /\ b[o + 1] = IF v THEN 1 ELSE 0
  BY <1>1 DEF Holds
<1>3. ReadField("BOOLEAN", b, o) = Read(b[o + 1] # 0, o + 1)
  <2>1. o < Len(b)
    BY <1>2
  <2> QED
    BY <2>1 DEF ReadField, ReadBoolean, ReadUint8, Read
<1>4. (b[o + 1] # 0) = v
  <2>1. CASE v
    <3>1. b[o + 1] = 1
      BY Zenon, <1>2, <2>1
    <3>2. b[o + 1] # 0
      BY <3>1
    <3> QED
      BY Zenon, <1>1, <2>1, <3>2
  <2>2. CASE ~v
    <3>1. b[o + 1] = 0
      BY Zenon, <1>2, <2>2
    <3> QED
      BY Zenon, <1>1, <2>2, <3>1
  <2> QED
    BY <2>1, <2>2
<1>5. Meant("BOOLEAN", v) = v
  BY DEF Meant, NumberTypes
<1>6. /\ Read(v, o + 1).ok = TRUE /\ Read(v, o + 1).next = o + 1
      /\ Read(v, o + 1).value = v
  BY DEF Read
<1>7. ReadField("BOOLEAN", b, o) = Read(v, o + 1)
  BY Zenon, <1>3, <1>4
<1> QED
  BY Zenon, <1>1, <1>5, <1>6, <1>7 DEF Back

LEMMA FieldBack ==
  ASSUME NEW b \in Seq(Byte), NEW o \in Nat, NEW type \in FieldTypes,
         NEW v \in Inputs(type), Holds(b, o, Written(type, v)),
         type = "STRING" => Len(v) < Values("UINT16")
  PROVE  Back(type, v, b, o)
<1>1. CASE type \in NumberTypes
  BY <1>1, NumberBack
<1>2. CASE type = "STRING"
  BY <1>2, StringBack
<1>3. CASE type = "ADDRESS"
  BY <1>3, AddressBack
<1>4. CASE type = "BOOLEAN"
  BY <1>4, BooleanBack
<1> QED
  BY <1>1, <1>2, <1>3, <1>4 DEF FieldTypes

(* --- The codec: its invariant ----------------------------------------------- *)

AnyInput == UNION {Inputs(type) : type \in FieldTypes}
Phases == {"writing", "encoder threw", "reading", "decoder threw", "done"}

TypeInv ==
  /\ kind \in Kinds /\ phase \in Phases
  /\ given \in Seq(AnyInput) /\ Len(given) <= Len(Schema)
  /\ \A i \in 1..Len(given) : given[i] \in Inputs(Schema[i].type)
  /\ starts \in Seq(Nat) /\ Len(starts) = Len(given)
  /\ buffer \in Seq(Byte)
  /\ offset \in Nat
  /\ result \in Seq(Readable)

\* Nothing is read before all is written, and all is read in the end.
TurnInv ==
  /\ phase \in {"writing", "encoder threw"} => result = <<>>
  /\ phase \in {"reading", "decoder threw", "done"} =>
       Len(given) = Len(Schema) /\ Len(result) <= Len(Schema)
  /\ phase = "done" => Len(result) = Len(Schema)

\* Where field i begins, or will begin.
Begins(s, b, i) == IF i <= Len(s) THEN s[i] ELSE Len(b)

\* The buffer is the fields' bytes, each behind those of the one before.
Lays(schema, g, s, b) ==
  /\ Begins(s, b, 1) = 0
  /\ \A i \in 1..Len(g) :
       /\ Holds(b, s[i], Written(schema[i].type, g[i]))
       /\ Begins(s, b, i + 1) = s[i] + Len(Written(schema[i].type, g[i]))

LayInv == phase # "encoder threw" => Lays(Schema, given, starts, buffer)

\* The decoder has not lost its place, and what it read was given.
ReadInv ==
  AllFit =>
    /\ phase # "decoder threw"
    /\ phase \in {"reading", "done"} => offset = Begins(starts, buffer, Len(result) + 1)
    /\ \A i \in 1..Len(result) :
         Keeps(Schema[i].type, given[i]) => result[i] = Meant(Schema[i].type, given[i])

CodecInv == TypeInv /\ TurnInv /\ LayInv /\ ReadInv

LEMMA SchemaFacts ==
  ASSUME NEW k \in Kinds
  PROVE  /\ Len(Schemas[k]) \in Nat \ {0} /\ DOMAIN Schemas[k] = 1..Len(Schemas[k])
         /\ \A i \in 1..Len(Schemas[k]) : Schemas[k][i].type \in FieldTypes
<1>1. k \in {"TRANSFER", "CONTRACT_CALL", "TOKEN_SWAP", "STAKE", "USER_PROFILE"}
  BY DEF Kinds, Schemas
<1> USE DEF Schemas, Field, FieldTypes, NumberTypes
<1>2. CASE k = "TRANSFER"
  BY <1>2
<1>3. CASE k = "CONTRACT_CALL"
  BY <1>3
<1>4. CASE k = "TOKEN_SWAP"
  BY <1>4
<1>5. CASE k = "STAKE"
  BY <1>5
<1>6. CASE k = "USER_PROFILE"
  BY <1>6
<1> QED
  BY <1>1, <1>2, <1>3, <1>4, <1>5, <1>6

LEMMA Appended ==
  ASSUME NEW S, NEW s \in Seq(S), NEW x \in S
  PROVE  /\ Append(s, x) \in Seq(S) /\ Len(Append(s, x)) = Len(s) + 1
         /\ \A i \in 1..Len(s) : Append(s, x)[i] = s[i]
         /\ Append(s, x)[Len(s) + 1] = x
BY AppendProperties

LEMMA CodecInitInv == CodecInit => CodecInv
<1> SUFFICES ASSUME CodecInit
             PROVE  CodecInv
  OBVIOUS
<1> USE DEF CodecInit
<1>1. Len(Schema) \in Nat
  BY SchemaFacts DEF Schema
<1>2. TypeInv
  BY <1>1 DEF TypeInv, Phases
<1>3. TurnInv
  BY DEF TurnInv
<1>4. LayInv
  BY DEF LayInv, Lays, Begins
<1>5. ReadInv
  BY DEF ReadInv
<1> QED
  BY <1>2, <1>3, <1>4, <1>5 DEF CodecInv

\* A field more is laid.
LEMMA LaysOn ==
  ASSUME NEW schema, NEW g, NEW s \in Seq(Nat), NEW b \in Seq(Byte), NEW n \in Nat,
         Len(g) = n, Len(s) = n, Lays(schema, g, s, b),
         \A i \in 1..n : Written(schema[i].type, g[i]) \in Seq(Byte),
         NEW h, Len(h) = n + 1, \A i \in 1..n : h[i] = g[i],
         NEW w \in Seq(Byte), w = Written(schema[n + 1].type, h[n + 1])
  PROVE  Lays(schema, h, Append(s, Len(b)), b \o w)
<1> DEFINE t == Append(s, Len(b))
           c == b \o w
<1>1. /\ Len(t) = n + 1 /\ t[n + 1] = Len(b) /\ \A i \in 1..n : t[i] = s[i]
  <2>1. Len(b) \in Nat
    OBVIOUS
  <2> QED
    BY <2>1, Appended
<1>2. /\ Len(c) = Len(b) + Len(w) /\ Holds(c, Len(b), w)
      /\ \A o \in Nat : \A x \in Seq(Byte) : Holds(b, o, x) => Holds(c, o, x)
  BY HoldsGrown
<1> HIDE DEF t, c
<1>3. \A i \in 1..(n + 1) : i \in 1..n \/ i = n + 1
  OBVIOUS
<1>4. \A i \in 1..n : Begins(t, c, i) = Begins(s, b, i)
  BY <1>1 DEF Begins
<1>5. Begins(t, c, n + 1) = Begins(s, b, n + 1)
  BY <1>1 DEF Begins
<1>6. Begins(t, c, (n + 1) + 1) = Len(c)
  BY <1>1 DEF Begins
<1>7. \A i \in 1..(n + 1) : Begins(t, c, i) = Begins(s, b, i)
  BY <1>3, <1>4, <1>5
<1>8. Begins(t, c, 1) = 0
  <2>1. 1 \in 1..(n + 1)
    OBVIOUS
  <2> QED
    BY <1>7, <2>1 DEF Lays
<1>9. ASSUME NEW i \in 1..n
      PROVE  /\ Holds(c, t[i], Written(schema[i].type, h[i]))
             /\ Begins(t, c, i + 1) = t[i] + Len(Written(schema[i].type, h[i]))
  <2>1. /\ Holds(b, s[i], Written(schema[i].type, g[i]))
        /\ Begins(s, b, i + 1) = s[i] + Len(Written(schema[i].type, g[i]))
    BY DEF Lays
  <2>2. s[i] \in Nat /\ i + 1 \in 1..(n + 1)
    OBVIOUS
  <2>3. Holds(c, s[i], Written(schema[i].type, g[i]))
    BY <1>2, <2>1, <2>2
  <2> QED
    BY <1>1, <1>7, <2>1, <2>2, <2>3
<1>10. /\ Holds(c, t[n + 1], Written(schema[n + 1].type, h[n + 1]))
       /\ Begins(t, c, (n + 1) + 1) = t[n + 1] + Len(Written(schema[n + 1].type, h[n + 1]))
  BY <1>1, <1>2, <1>6
<1>11. \A i \in 1..(n + 1) :
         /\ Holds(c, t[i], Written(schema[i].type, h[i]))
         /\ Begins(t, c, i + 1) = t[i] + Len(Written(schema[i].type, h[i]))
  BY <1>3, <1>9, <1>10
<1>12. Lays(schema, h, t, c)
  BY <1>8, <1>11 DEF Lays
<1> QED
  BY <1>12 DEF t, c

\* The field that is written, or is not because its value throws.
LEMMA WriteStep == CodecInv /\ WriteField => CodecInv'
<1> SUFFICES ASSUME CodecInv, WriteField
             PROVE  CodecInv'
  OBVIOUS
<1>1. /\ phase = "writing" /\ Len(given) < Len(Schema)
      /\ UNCHANGED <<kind, offset, result>> /\ UNCHANGED Schema
  BY DEF WriteField, Schema
<1>2. /\ TypeInv /\ result = <<>> /\ LayInv
      /\ Len(given) \in Nat /\ Len(starts) = Len(given)
      /\ Len(buffer) \in Nat /\ Len(Schema) \in Nat
  <2>1. Len(Schema) \in Nat
    BY SchemaFacts DEF CodecInv, TypeInv, Schema
  <2> QED
    BY <1>1, <2>1 DEF CodecInv, TypeInv, TurnInv
<1>3. PICK n \in Nat : n = Len(given)
  BY <1>2
<1>4. PICK type : type = Schema[n + 1].type
  OBVIOUS
<1>5. n + 1 \in 1..Len(Schema) /\ type \in FieldTypes
  <2>1. n + 1 \in 1..Len(Schema)
    BY <1>1, <1>2, <1>3
  <2> QED
    BY <1>2, <1>4, <2>1, SchemaFacts DEF TypeInv, Schema
<1>6. PICK v \in Inputs(type) :
        /\ given' = Append(given, v)
        /\ starts' = Append(starts, Len(buffer))
        /\ IF Throws(type, v)
             THEN phase' = "encoder threw" /\ UNCHANGED buffer
             ELSE buffer' = buffer \o Written(type, v) /\ UNCHANGED phase
  BY <1>3, <1>4 DEF WriteField
<1>7. /\ given' \in Seq(AnyInput) /\ Len(given') = n + 1
      /\ \A i \in 1..n : given'[i] = given[i]
      /\ given'[n + 1] = v
  <2>1. v \in AnyInput
    BY <1>5 DEF AnyInput
  <2>2. given \in Seq(AnyInput)
    BY <1>2 DEF TypeInv
  <2>3. /\ Append(given, v) \in Seq(AnyInput) /\ Len(Append(given, v)) = Len(given) + 1
        /\ \A i \in 1..Len(given) : Append(given, v)[i] = given[i]
        /\ Append(given, v)[Len(given) + 1] = v
    BY ONLY <2>1, <2>2, Appended
  <2>4. given' = Append(given, v)
    BY <1>6
  <2> QED
    BY ONLY <1>3, <2>3, <2>4
<1>8. starts' \in Seq(Nat) /\ Len(starts') = n + 1
  <2>1. starts \in Seq(Nat)
    BY <1>2 DEF TypeInv
  <2>2. /\ Append(starts, Len(buffer)) \in Seq(Nat)
        /\ Len(Append(starts, Len(buffer))) = Len(starts) + 1
    BY <1>2, <2>1, Appended
  <2>3. starts' = Append(starts, Len(buffer))
    BY <1>6
  <2> QED
    BY <1>2, <1>3, <2>2, <2>3
<1>9. PICK w \in Seq(Byte) : w = Written(type, v)
  BY <1>5, FieldWritten
<1>10. buffer \in Seq(Byte) /\ buffer' \in Seq(Byte)
  <2>1. buffer \in Seq(Byte)
    BY <1>2 DEF TypeInv
  <2>2. buffer \o w \in Seq(Byte)
    BY <2>1, HoldsGrown
  <2> QED
    BY <1>6, <1>9, <2>1, <2>2
<1>11. TypeInv'
  <2>1. \A i \in 1..(n + 1) : i \in 1..n \/ i = n + 1
    OBVIOUS
  <2>2. \A i \in 1..n : given[i] \in Inputs(Schema[i].type)
    BY <1>2, <1>3 DEF TypeInv
  <2>3. \A i \in 1..(n + 1) : given'[i] \in Inputs(Schema[i].type)
    BY <1>4, <1>7, <2>1, <2>2
  <2>4. phase' \in Phases
    BY <1>1, <1>6 DEF Phases
  <2>5. n + 1 <= Len(Schema)
    BY <1>5
  <2> QED
    BY <1>1, <1>2, <1>7, <1>8, <1>10, <2>3, <2>4, <2>5 DEF TypeInv
<1>12. phase' \in {"writing", "encoder threw"} /\ result' = <<>> /\ Len(result') = 0
  BY <1>1, <1>2, <1>6
<1>13. TurnInv'
  BY <1>12 DEF TurnInv
<1>14. ReadInv'
  <2>1. phase' # "decoder threw" /\ phase' \notin {"reading", "done"}
    BY <1>12
  <2>2. 1..Len(result') = {}
    <3>1. 1..0 = {}
      OBVIOUS
    <3> QED
      BY Zenon, <1>12, <3>1
  <2> QED
    BY <2>1, <2>2 DEF ReadInv
<1>15. ASSUME phase' # "encoder threw"
       PROVE  Lays(Schema', given', starts', buffer')
  <2>1. buffer' = buffer \o w
    BY <1>6, <1>9, <1>15
  <2>2. Lays(Schema, given, starts, buffer)
    BY <1>1, <1>2 DEF LayInv
  <2>3. \A i \in 1..n : Written(Schema[i].type, given[i]) \in Seq(Byte)
    <3> TAKE i \in 1..n
    <3>1. i \in 1..Len(Schema) /\ given[i] \in Inputs(Schema[i].type)
      BY <1>2, <1>3, <1>5 DEF TypeInv
    <3>2. Schema[i].type \in FieldTypes
      BY <1>2, <3>1, SchemaFacts DEF TypeInv, Schema
    <3> QED
      BY <3>1, <3>2, FieldWritten
  <2>4. w = Written(Schema[n + 1].type, given'[n + 1])
    BY <1>4, <1>7, <1>9
  <2>5. starts \in Seq(Nat) /\ Len(starts) = n /\ Len(given) = n
    BY <1>2, <1>3 DEF TypeInv
  <2>6. Lays(Schema, given', Append(starts, Len(buffer)), buffer \o w)
    BY <1>7, <1>10, <2>2, <2>3, <2>4, <2>5, LaysOn
  <2> QED
    BY <1>1, <1>6, <2>1, <2>6
<1>16. LayInv'
  BY <1>15 DEF LayInv
<1> QED
  BY <1>11, <1>13, <1>14, <1>16 DEF CodecInv

\* The bytes go to the decoder.
LEMMA HandOverStep == CodecInv /\ HandOver => CodecInv'
<1> SUFFICES ASSUME CodecInv, HandOver
             PROVE  CodecInv'
  OBVIOUS
<1>1. /\ phase = "writing" /\ Len(given) = Len(Schema)
      /\ phase' = "reading" /\ offset' = 0
      /\ UNCHANGED <<kind, given, starts, buffer, result>> /\ UNCHANGED Schema
  BY DEF HandOver, Schema
<1>2. TypeInv /\ result = <<>> /\ Lays(Schema, given, starts, buffer)
  BY <1>1 DEF CodecInv, TurnInv, LayInv
<1>3. /\ Len(result') = 0 /\ 1..Len(result') = {} /\ Len(result') + 1 = 1
      /\ Len(Schema) \in Nat
  <2>1. Len(result') = 0 /\ 1..0 = {} /\ 0 + 1 = 1
    BY <1>1, <1>2
  <2>2. Len(Schema) \in Nat
    BY <1>2, SchemaFacts DEF TypeInv, Schema
  <2> QED
    BY Zenon, <2>1, <2>2
<1>4. TypeInv'
  BY <1>1, <1>2 DEF TypeInv, Phases
<1>5. TurnInv'
  BY <1>1, <1>3 DEF TurnInv
<1>6. LayInv'
  BY <1>1, <1>2 DEF LayInv
<1>7. ReadInv'
  <2>1. offset' = Begins(starts', buffer', Len(result') + 1)
    BY <1>1, <1>2, <1>3 DEF Lays
  <2> QED
    BY <1>1, <1>3, <2>1 DEF ReadInv
<1> QED
  BY <1>4, <1>5, <1>6, <1>7 DEF CodecInv

LEMMA ReturnStep == CodecInv /\ Return => CodecInv'
<1> SUFFICES ASSUME CodecInv, Return
             PROVE  CodecInv'
  OBVIOUS
<1>1. /\ phase = "reading" /\ Len(result) = Len(Schema) /\ phase' = "done"
      /\ UNCHANGED <<kind, given, starts, buffer, offset, result>> /\ UNCHANGED Schema
  BY DEF Return, Schema
<1>2. TypeInv'
  BY <1>1 DEF CodecInv, TypeInv, Phases
<1>3. TurnInv'
  BY <1>1 DEF CodecInv, TurnInv
<1>4. LayInv'
  BY <1>1 DEF CodecInv, LayInv
<1>5. ReadInv'
  BY <1>1 DEF CodecInv, ReadInv, AllFit, Fits
<1> QED
  BY <1>2, <1>3, <1>4, <1>5 DEF CodecInv

\* The field that is read, or is not because there are too few bytes.
LEMMA DecodeStep == CodecInv /\ DecodeField => CodecInv'
<1> SUFFICES ASSUME CodecInv, DecodeField
             PROVE  CodecInv'
  OBVIOUS
<1>1. /\ phase = "reading" /\ Len(result) < Len(Schema)
      /\ UNCHANGED <<kind, given, starts, buffer>> /\ UNCHANGED Schema
  BY DEF DecodeField, Schema
<1>2. /\ TypeInv /\ Lays(Schema, given, starts, buffer)
      /\ Len(given) = Len(Schema) /\ Len(starts) = Len(Schema)
      /\ Len(Schema) \in Nat /\ Len(result) \in Nat
  <2>1. Len(Schema) \in Nat
    BY SchemaFacts DEF CodecInv, TypeInv, Schema
  <2> QED
    BY <1>1, <2>1 DEF CodecInv, TypeInv, TurnInv, LayInv
<1>3. PICK n \in Nat : n = Len(result) /\ n + 1 \in 1..Len(Schema) /\ n < Len(Schema)
  BY <1>1, <1>2
<1>4. PICK type \in FieldTypes : type = Schema[n + 1].type
  BY <1>2, <1>3, SchemaFacts DEF TypeInv, Schema
<1>5. PICK r \in Reads : r = ReadField(type, buffer, offset)
  BY <1>2, FieldTyped DEF TypeInv
<1>6. /\ offset' = r.next
      /\ IF r.ok THEN result' = Append(result, r.value) /\ UNCHANGED phase
                 ELSE phase' = "decoder threw" /\ UNCHANGED result
  BY <1>3, <1>4, <1>5 DEF DecodeField
<1>7. r.value \in Readable /\ r.next \in Nat /\ r.ok \in BOOLEAN
  BY DEF Reads
<1>8. ASSUME r.ok
      PROVE  /\ phase' = "reading" /\ result' \in Seq(Readable) /\ Len(result') = n + 1
             /\ \A i \in 1..n : result'[i] = result[i]
             /\ result'[n + 1] = r.value
  <2>1. result \in Seq(Readable)
    BY <1>2 DEF TypeInv
  <2>2. /\ Append(result, r.value) \in Seq(Readable)
        /\ Len(Append(result, r.value)) = Len(result) + 1
        /\ \A i \in 1..Len(result) : Append(result, r.value)[i] = result[i]
        /\ Append(result, r.value)[Len(result) + 1] = r.value
    BY ONLY <1>7, <2>1, Appended
  <2>3. result' = Append(result, r.value) /\ phase' = "reading"
    BY <1>1, <1>6, <1>8
  <2> QED
    BY ONLY <1>3, <2>2, <2>3
<1>9. ASSUME ~r.ok
      PROVE  phase' = "decoder threw" /\ result' = result
  BY <1>6, <1>9
<1>10. \A i \in 1..(n + 1) : i \in 1..n \/ i = n + 1
  OBVIOUS
<1>11. TypeInv'
  <2>1. phase' \in Phases /\ result' \in Seq(Readable)
    BY <1>2, <1>8, <1>9 DEF Phases, TypeInv
  <2> QED
    BY <1>1, <1>2, <1>6, <1>7, <2>1 DEF TypeInv
<1>12. TurnInv'
  <2>1. Len(result') <= Len(Schema)
    <3>1. CASE r.ok
      BY <1>2, <1>3, <1>8, <3>1
    <3>2. CASE ~r.ok
      <4>1. result' = result
        BY <1>9, <3>2
      <4>2. Len(result) <= Len(Schema)
        BY <1>2, <1>3
      <4> QED
        BY <4>1, <4>2
    <3> QED
      BY <3>1, <3>2
  <2>2. phase' \in {"reading", "decoder threw"}
    BY <1>8, <1>9
  <2> QED
    BY <1>1, <1>2, <2>1, <2>2 DEF TurnInv
<1>13. LayInv'
  BY <1>1, <1>2 DEF LayInv
<1>14. ReadInv'
  <2> SUFFICES ASSUME AllFit'
               PROVE  /\ phase' # "decoder threw"
                      /\ phase' \in {"reading", "done"} =>
                           offset' = Begins(starts', buffer', Len(result') + 1)
                      /\ \A i \in 1..Len(result') :
                           Keeps(Schema'[i].type, given'[i]) =>
                             result'[i] = Meant(Schema'[i].type, given'[i])
    BY DEF ReadInv
  <2>1. AllFit
    BY <1>1 DEF AllFit, Fits
  <2>2. /\ offset = Begins(starts, buffer, n + 1)
        /\ \A i \in 1..n : Keeps(Schema[i].type, given[i]) =>
             result[i] = Meant(Schema[i].type, given[i])
    BY <1>1, <1>3, <2>1 DEF CodecInv, ReadInv
  <2>3. n + 1 \in 1..Len(given) /\ n + 1 <= Len(starts) /\ (n + 1) + 1 \in Nat
    BY <1>2, <1>3
  <2>4. PICK v \in Inputs(type) : v = given[n + 1]
    BY <1>2, <1>4, <2>3 DEF TypeInv
  <2>5. /\ offset = starts[n + 1]
        /\ Holds(buffer, offset, Written(type, v))
        /\ Begins(starts, buffer, (n + 1) + 1) = offset + Len(Written(type, v))
    <3>1. offset = starts[n + 1]
      BY <2>2, <2>3 DEF Begins
    <3>2. /\ Holds(buffer, starts[n + 1], Written(Schema[n + 1].type, given[n + 1]))
          /\ Begins(starts, buffer, (n + 1) + 1)
               = starts[n + 1] + Len(Written(Schema[n + 1].type, given[n + 1]))
      BY <1>2, <2>3 DEF Lays
    <3> QED
      BY <1>4, <2>4, <3>1, <3>2
  <2>6. type = "STRING" => Len(v) < Values("UINT16")
    <3>1. n + 1 \in DOMAIN given
      BY <1>2, <2>3 DEF TypeInv
    <3>2. Fits(n + 1)
      BY <2>1, <3>1 DEF AllFit
    <3> QED
      BY <1>4, <2>4, <3>2 DEF Fits
  <2>7. Back(type, v, buffer, offset)
    BY <1>2, <2>5, <2>6, FieldBack DEF TypeInv
  <2>8. /\ r.ok /\ r.next = Begins(starts, buffer, (n + 1) + 1)
        /\ Keeps(type, v) => r.value = Meant(type, v)
    BY <1>5, <2>5, <2>7 DEF Back
  <2>9. \A i \in 1..(n + 1) : Keeps(Schema[i].type, given[i]) =>
             result'[i] = Meant(Schema[i].type, given[i])
    <3>1. ASSUME NEW i \in 1..n, Keeps(Schema[i].type, given[i])
          PROVE  result'[i] = Meant(Schema[i].type, given[i])
      BY <1>8, <2>2, <2>8, <3>1
    <3>2. Keeps(Schema[n + 1].type, given[n + 1]) =>
            result'[n + 1] = Meant(Schema[n + 1].type, given[n + 1])
      BY <1>4, <1>8, <2>4, <2>8
    <3> QED
      BY <1>10, <3>1, <3>2
  <2>10. phase' = "reading" /\ Len(result') = n + 1
    BY <1>8, <2>8
  <2>11. offset' = Begins(starts', buffer', Len(result') + 1)
    BY <1>1, <1>6, <2>8, <2>10
  <2> QED
    BY <1>1, <2>9, <2>10, <2>11
<1> QED
  BY <1>11, <1>12, <1>13, <1>14 DEF CodecInv

LEMMA CodecStutter == CodecInv /\ UNCHANGED codecVars => CodecInv'
<1> SUFFICES ASSUME CodecInv, UNCHANGED codecVars
             PROVE  CodecInv'
  OBVIOUS
<1> USE DEF codecVars
<1>1. UNCHANGED Schema
  BY DEF Schema
<1>2. TypeInv'
  BY <1>1 DEF CodecInv, TypeInv
<1>3. TurnInv'
  BY <1>1 DEF CodecInv, TurnInv
<1>4. LayInv'
  BY <1>1 DEF CodecInv, LayInv
<1>5. ReadInv'
  BY <1>1 DEF CodecInv, ReadInv, AllFit, Fits
<1> QED
  BY <1>2, <1>3, <1>4, <1>5 DEF CodecInv

LEMMA CodecNextInv == CodecInv /\ [CodecNext]_codecVars => CodecInv'
<1>1. CodecInv /\ WriteField => CodecInv'
  BY WriteStep
<1>2. CodecInv /\ HandOver => CodecInv'
  BY HandOverStep
<1>3. CodecInv /\ DecodeField => CodecInv'
  BY DecodeStep
<1>4. CodecInv /\ Return => CodecInv'
  BY ReturnStep
<1>5. CodecInv /\ UNCHANGED codecVars => CodecInv'
  BY CodecStutter
<1> QED
  BY <1>1, <1>2, <1>3, <1>4, <1>5 DEF CodecNext

\* Every state of the codec satisfies the invariant: the encoder's bytes are
\* laid one field behind the other, and the decoder follows them.
THEOREM CodecInvariant == CodecSpec => []CodecInv
<1>1. CodecInit => CodecInv
  BY CodecInitInv
<1>2. CodecInv /\ [CodecNext]_codecVars => CodecInv'
  BY CodecNextInv
<1> QED
  BY <1>1, <1>2, PTL DEF CodecSpec

\* As long as every string fits its prefix, the decoder is where the encoder
\* was at every field, ends at the buffer's end and never throws: whatever a
\* byte holds, whatever the numbers and however long the texts.
THEOREM InStepCorrect == CodecSpec => []InStep
<1>1. CodecInv => InStep
  <2> SUFFICES ASSUME CodecInv, AllFit
               PROVE  /\ phase # "decoder threw"
                      /\ phase = "reading" /\ Len(result) < Len(Schema) =>
                           offset = starts[Len(result) + 1]
                      /\ phase = "done" => offset = Len(buffer)
    BY DEF InStep
  <2>1. /\ phase # "decoder threw"
        /\ phase \in {"reading", "done"} =>
             offset = Begins(starts, buffer, Len(result) + 1)
    BY DEF CodecInv, ReadInv
  <2>2. /\ Len(starts) = Len(given) /\ Len(result) \in Nat
        /\ phase \in {"reading", "done"} => Len(given) = Len(Schema)
        /\ phase = "done" => Len(result) = Len(Schema)
    <3>1. Len(starts) = Len(given) /\ Len(result) \in Nat
      BY DEF CodecInv, TypeInv
    <3>2. /\ phase \in {"reading", "done"} => Len(given) = Len(Schema)
          /\ phase = "done" => Len(result) = Len(Schema)
      BY DEF CodecInv, TurnInv
    <3> QED
      BY <3>1, <3>2
  <2>3. Len(Schema) \in Nat
    BY SchemaFacts DEF CodecInv, TypeInv, Schema
  <2>4. ASSUME phase = "reading", Len(result) < Len(Schema)
        PROVE  offset = starts[Len(result) + 1]
    <3>1. Len(result) + 1 <= Len(starts)
      BY <2>2, <2>3, <2>4
    <3> QED
      BY <2>1, <2>4, <3>1 DEF Begins
  <2>5. ASSUME phase = "done"
        PROVE  offset = Len(buffer)
    <3>1. ~(Len(result) + 1 <= Len(starts))
      BY <2>2, <2>3, <2>5
    <3> QED
      BY <2>1, <2>5, <3>1 DEF Begins
  <2> QED
    BY <2>1, <2>4, <2>5
<1> QED
  BY <1>1, CodecInvariant, PTL

\* What was given is what is read, field by field, even next to a field that
\* was cut off.
THEOREM RoundTripCorrect == CodecSpec => []RoundTrip
<1>1. CodecInv => RoundTrip
  <2> SUFFICES ASSUME CodecInv, AllFit, NEW i \in DOMAIN result, Kept(i)
               PROVE  result[i] = Sent(i)
    BY DEF RoundTrip
  <2>1. i \in 1..Len(result)
    BY DEF CodecInv, TypeInv
  <2>2. Keeps(Schema[i].type, given[i])
    BY DEF Kept, Keeps
  <2>3. result[i] = Meant(Schema[i].type, given[i])
    BY <2>1, <2>2 DEF CodecInv, ReadInv
  <2> QED
    BY <2>3 DEF Sent, Meant
<1> QED
  BY <1>1, CodecInvariant, PTL

(* --- The decoder without types ---------------------------------------------- *)

\* The number in two bytes.
LEMMA UintTwo ==
  ASSUME NEW b \in Seq(Byte), NEW o \in Nat
  PROVE  Uint(b, o, 2) = ByteBase * ByteAt(b, o + 1) + ByteAt(b, o + 2)
<1>1. PICK f : Gathers(f, b, o, 2) /\ Uint(b, o, 2) = f[2]
  BY UintGathers
<1>2. PICK x \in Nat, y \in Nat : x = ByteAt(b, o + 1) /\ y = ByteAt(b, o + 2)
  BY ReadsByte
<1>3. PICK c \in Nat : c = ByteBase
  BY BaseFacts
<1>4. f[0] = 0 /\ f[0 + 1] = f[0] * c + x /\ f[1 + 1] = f[1] * c + y
  BY <1>1, <1>2, <1>3 DEF Gathers
<1>5. f[1] = x
  BY <1>4
<1>6. f[2] = x * c + y
  BY <1>4, <1>5
<1>7. x * c = c * x
  OBVIOUS
<1> QED
  BY <1>1, <1>2, <1>3, <1>6, <1>7

\* The two bytes the reader of a text begins with, where a field's bytes are.
LEMMA FirstTwo ==
  ASSUME NEW b \in Seq(Byte), NEW o \in Nat, NEW s \in Seq(Byte), Holds(b, o, s),
         2 <= Len(s)
  PROVE  Uint(b, o, 2) = ByteBase * s[1] + s[2]
<1>1. 1 \in 1..Len(s) /\ 2 \in 1..Len(s) /\ o + Len(s) <= Len(b)
  BY DEF Holds
<1>2. b[o + 1] = s[1] /\ b[o + 2] = s[2]
  BY <1>1 DEF Holds
<1>3. o + 1 \in Nat \ {0} /\ o + 2 \in Nat \ {0} /\ o + 1 <= Len(b) /\ o + 2 <= Len(b)
  BY <1>1
<1>4. ByteAt(b, o + 1) = s[1] /\ ByteAt(b, o + 2) = s[2]
  BY <1>2, <1>3, ReadsByte
<1> QED
  BY <1>4, UintTwo

\* The two lowest digits of a number.
LEMMA TwoDigits ==
  ASSUME NEW q \in Int, NEW c \in Nat \ {0}
  PROVE  c * ((q \div c) % c) + (q % c) = q % (c * c)
<1>1. PICK u \in Int, x \in 0..(c - 1) : u = q \div c /\ x = q % c /\ q = u * c + x
  BY Division
<1>2. PICK v \in Int, y \in 0..(c - 1) : v = u \div c /\ y = u % c /\ u = v * c + y
  BY Division
<1>3. q = v * (c * c) + (c * y + x)
  <2>1. q = (v * c + y) * c + x
    BY <1>1, <1>2
  <2>2. (v * c + y) * c = (v * c) * c + y * c /\ (v * c) * c = v * (c * c) /\ y * c = c * y
    OBVIOUS
  <2>3. v * (c * c) \in Int /\ c * y \in Int
    OBVIOUS
  <2> QED
    BY <2>1, <2>2, <2>3
<1>4. c * c \in Nat \ {0}
  OBVIOUS
<1>5. c * y + x \in 0..(c * c - 1)
  <2>1. c * y <= c * (c - 1)
    OBVIOUS
  <2>2. c * y \in Nat
    OBVIOUS
  <2>3. c * (c - 1) = c * c - c
    OBVIOUS
  <2> QED
    BY <1>4, <2>1, <2>2, <2>3
<1>6. q % (c * c) = c * y + x
  <2>1. PICK d \in Nat \ {0} : d = c * c
    BY <1>4
  <2>2. PICK z \in 0..(d - 1) : z = c * y + x
    BY <1>5, <2>1
  <2>3. q = v * d + z
    BY <1>3, <2>1, <2>2
  <2>4. q % d = z
    BY ONLY <2>3, v \in Int, d \in Nat \ {0}, z \in 0..(d - 1)
  <2> QED
    BY <2>1, <2>2, <2>4
<1> QED
  BY <1>1, <1>2, <1>6

\* What the first bytes of a misread number, address, or age and mark announce.
LEMMA NumberAnnounces ==
  ASSUME NEW b \in Seq(Byte), NEW o \in Nat, NEW v \in Inputs("UINT64"),
         Holds(b, o, Written("UINT64", v))
  PROVE  Uint(b, o, 2) = (v.int \div Power[6]) % Power[2]
<1>1. /\ v.int \in Int /\ Written("UINT64", v) = WriteUint(v.int, 8)
      /\ Written("UINT64", v) \in Seq(Byte) /\ Len(Written("UINT64", v)) = 8
  BY NumberWritten, WidthFacts DEF NumberTypes
<1>2. PICK n \in Int : n = v.int
  BY <1>1
<1>3. /\ WriteUint(n, 8)[1] = (n \div Power[7]) % ByteBase
      /\ WriteUint(n, 8)[2] = (n \div Power[6]) % ByteBase
  <2>1. 1 \in 1..8 /\ 2 \in 1..8 /\ 8 - 1 = 7 /\ 8 - 2 = 6 /\ 8 \in Nat
    OBVIOUS
  <2>2. \A i \in 1..8 : WriteUint(n, 8)[i] = (n \div Power[8 - i]) % ByteBase
    BY <2>1, WritesBytes
  <2> QED
    BY ONLY <2>1, <2>2
<1>4. Uint(b, o, 2) = ByteBase * ((n \div Power[7]) % ByteBase) + ((n \div Power[6]) % ByteBase)
  <2>1. PICK s \in Seq(Byte) : s = Written("UINT64", v)
    BY <1>1
  <2>2. Uint(b, o, 2) = ByteBase * s[1] + s[2]
    BY <1>1, <2>1, FirstTwo
  <2>3. s = WriteUint(n, 8)
    BY <1>1, <1>2, <2>1
  <2> QED
    BY Zenon, <1>3, <2>2, <2>3
<1>5. PICK c \in Nat \ {0} : c = ByteBase
  BY BaseFacts
<1>6. PICK p \in Nat \ {0} : p = Power[6]
  BY PowerFacts
<1>7. Power[7] = p * c /\ Power[2] = c * c
  <2>1. /\ Power[6 + 1] = ByteBase * Power[6] /\ Power[1 + 1] = ByteBase * Power[1]
        /\ Power[0 + 1] = ByteBase * Power[0] /\ Power[0] = 1
    BY PowerFacts
  <2>2. c * p = p * c
    OBVIOUS
  <2> QED
    BY <1>5, <1>6, <2>1, <2>2
<1>8. PICK q \in Int : q = n \div p
  BY Division
<1>9. n \div Power[7] = q \div c
  <2>1. (n \div p) \div c = n \div (p * c)
    BY Shifts
  <2> QED
    BY <1>7, <1>8, <2>1
<1>10. c * ((q \div c) % c) + (q % c) = q % (c * c)
  BY TwoDigits
<1>11. Uint(b, o, 2) = c * ((q \div c) % c) + (q % c)
  BY <1>4, <1>5, <1>6, <1>8, <1>9
<1> QED
  BY <1>2, <1>6, <1>7, <1>8, <1>10, <1>11

LEMMA AddressAnnounces ==
  ASSUME NEW b \in Seq(Byte), NEW o \in Nat, NEW v \in Inputs("ADDRESS"),
         Holds(b, o, Written("ADDRESS", v))
  PROVE  Uint(b, o, 2) =
           IF v = <<>> THEN 0 ELSE ByteBase * v[1] + (IF Len(v) = 1 THEN 0 ELSE v[2])
<1>1. /\ v \in Seq(Byte)
      /\ Written("ADDRESS", v) \in Seq(Byte) /\ Len(Written("ADDRESS", v)) = 20
  BY AddressWritten
<1>2. Written("ADDRESS", v) = [i \in 1..20 |-> IF i <= Len(v) THEN v[i] ELSE 0]
  BY WidthFacts DEF Written, NumberTypes, WriteAddress
<1>3. /\ Written("ADDRESS", v)[1] = IF 1 <= Len(v) THEN v[1] ELSE 0
      /\ Written("ADDRESS", v)[2] = IF 2 <= Len(v) THEN v[2] ELSE 0
  <2>1. 1 \in 1..20 /\ 2 \in 1..20
    OBVIOUS
  <2> QED
    BY Zenon, <1>2, <2>1
<1>4. Uint(b, o, 2) = ByteBase * Written("ADDRESS", v)[1] + Written("ADDRESS", v)[2]
  BY <1>1, FirstTwo
<1>5. CASE v = <<>>
  <2>1. ByteBase * 0 + 0 = 0
    BY BaseFacts
  <2> QED
    BY <1>3, <1>4, <1>5, <2>1
<1>6. CASE v # <<>>
  <2>1. Len(v) \in Nat /\ Len(v) # 0
    BY <1>1, <1>6, EmptySeq
  <2>2. 1 <= Len(v) /\ (2 <= Len(v) <=> Len(v) # 1)
    <3>1. PICK n \in Nat : n = Len(v)
      BY <2>1
    <3>2. n # 0 => 1 <= n /\ (2 <= n <=> n # 1)
      OBVIOUS
    <3> QED
      BY <2>1, <3>1, <3>2
  <2> QED
    BY <1>3, <1>4, <1>6, <2>2
<1> QED
  BY <1>5, <1>6

LEMMA AgeAnnounces ==
  ASSUME NEW b \in Seq(Byte), NEW o \in Nat, NEW v \in Inputs("UINT8"),
         NEW w \in Inputs("BOOLEAN"), Holds(b, o, Written("UINT8", v)),
         Holds(b, o + 1, Written("BOOLEAN", w))
  PROVE  Uint(b, o, 2) = ByteBase * (v.int % ByteBase) + (IF w THEN 1 ELSE 0)
<1>1. /\ v.int \in Int /\ Written("UINT8", v) = WriteUint(v.int, 1)
      /\ Len(Written("UINT8", v)) = 1
  BY NumberWritten, WidthFacts DEF NumberTypes
<1>2. Written("UINT8", v)[1] = v.int % ByteBase
  <2>1. WriteUint(v.int, 1)[1] = (v.int \div Power[0]) % ByteBase
    <3>1. 1 \in 1..1 /\ 1 - 1 = 0 /\ 1 \in Nat
      OBVIOUS
    <3>2. \A i \in 1..1 : WriteUint(v.int, 1)[i] = (v.int \div Power[1 - i]) % ByteBase
      BY <1>1, <3>1, WritesBytes
    <3> QED
      BY ONLY <3>1, <3>2
  <2>2. v.int \div Power[0] = v.int
    <3>1. PICK n \in Int : n = v.int
      BY <1>1
    <3>2. n \div 1 = n /\ Power[0] = 1
      BY PowerFacts
    <3> QED
      BY <3>1, <3>2
  <2> QED
    BY <1>1, <2>1, <2>2
<1>3. /\ Len(Written("BOOLEAN", w)) = 1
      /\ Written("BOOLEAN", w)[1] = IF w THEN 1 ELSE 0
  BY BooleanWritten
<1>4. b[o + 1] = v.int % ByteBase /\ o + 1 <= Len(b)
  BY <1>1, <1>2 DEF Holds
<1>5. b[o + 2] = (IF w THEN 1 ELSE 0) /\ o + 2 <= Len(b)
  <2>1. (o + 1) + 1 = o + 2 /\ 1 \in 1..1
    OBVIOUS
  <2>2. b[(o + 1) + 1] = Written("BOOLEAN", w)[1] /\ (o + 1) + 1 <= Len(b)
    BY <1>3, <2>1 DEF Holds
  <2> QED
    BY Zenon, <1>3, <2>1, <2>2
<1>6. ByteAt(b, o + 1) = v.int % ByteBase /\ ByteAt(b, o + 2) = IF w THEN 1 ELSE 0
  <2>1. o + 1 \in Nat \ {0} /\ o + 2 \in Nat \ {0}
    OBVIOUS
  <2>2. ByteAt(b, o + 1) = b[o + 1] /\ ByteAt(b, o + 2) = b[o + 2]
    BY <1>4, <1>5, <2>1, ReadsByte
  <2> QED
    BY Zenon, <1>4, <1>5, <2>2
<1>7. Uint(b, o, 2) = ByteBase * ByteAt(b, o + 1) + ByteAt(b, o + 2)
  BY UintTwo
<1> QED
  BY Zenon, <1>6, <1>7

\* A text read anywhere: no error, and nothing of it behind the last byte.
LEMMA TextRead ==
  ASSUME NEW b \in Seq(Byte), NEW o \in Nat
  PROVE  LET r == ReadField("STRING", b, o) IN
         /\ r.ok = TRUE /\ r.next = (o + 2) + Uint(b, o, 2)
         /\ Len(b) <= o + 2 => r.value = <<>>
<1>1. PICK n \in Nat : n = Uint(b, o, 2)
  BY UintNat
<1>2. ReadField("STRING", b, o) = Read(Slice(b, o + 2, n), (o + 2) + n)
  BY <1>1 DEF ReadField, ReadString, ReadUint16, Read
<1>3. ASSUME Len(b) <= o + 2
      PROVE  Slice(b, o + 2, n) = <<>>
  <2> DEFINE m == IF (o + 2) + n <= Len(b) THEN (o + 2) + n ELSE Len(b)
  <2>1. m \in Int /\ (o + 2) + 1 \in Int /\ m < (o + 2) + 1
    BY <1>3
  <2>2. Slice(b, o + 2, n) = SubSeq(b, (o + 2) + 1, m)
    BY DEF Slice
  <2> HIDE DEF m
  <2> QED
    BY <2>1, <2>2, SubSeqEmpty
<1> QED
  BY <1>1, <1>2, <1>3 DEF Read

\* Reading field after field, each from where the one before ended.
LEMMA ReadingSteps ==
  ASSUME NEW types, NEW b \in Seq(Byte), NEW n \in Nat, Len(types) = n,
         \A i \in 1..n : types[i] \in FieldTypes
  PROVE  LET r == Reading(types, b) IN
         /\ r[0] = Read(Undefined, 0)
         /\ \A i \in Nat : i < n =>
              r[i + 1] = IF ~r[i].ok THEN Threw(r[i].next)
                         ELSE ReadField(types[i + 1], b, r[i].next)
<1> DEFINE Is(r) == r = [i \in 0..n |->
                           IF i = 0 THEN Read(Undefined, 0)
                           ELSE IF ~r[i - 1].ok THEN Threw(r[i - 1].next)
                           ELSE ReadField(types[i], b, r[i - 1].next)]
           After(i, x) == IF ~x.ok THEN Threw(x.next)
                          ELSE ReadField(IF i < n THEN types[i + 1] ELSE "STRING", b, x.next)
           G == [i \in Nat |-> [x \in Reads |-> After(i, x)]]
<1>1. \E r : Is(r)
  <2>1. \A i \in Nat : (IF i < n THEN types[i + 1] ELSE "STRING") \in FieldTypes
    <3> TAKE i \in Nat
    <3>1. i < n => i + 1 \in 1..n
      OBVIOUS
    <3>2. "STRING" \in FieldTypes
      BY DEF FieldTypes
    <3> QED
      BY <3>1, <3>2
  <2>2. ASSUME NEW i \in Nat, NEW x \in Reads
        PROVE  After(i, x) \in Reads
    <3>1. x.next \in Nat
      BY DEF Reads
    <3>2. Threw(x.next) \in Reads
      BY <3>1, ReadsTyped
    <3>3. PICK type \in FieldTypes : type = IF i < n THEN types[i + 1] ELSE "STRING"
      BY <2>1
    <3>4. ReadField(type, b, x.next) \in Reads
      BY <3>1, FieldTyped
    <3> QED
      BY Zenon, <3>2, <3>3, <3>4
  <2> HIDE DEF After
  <2>3. G \in [Nat -> [Reads -> Reads]]
    BY <2>2
  <2>4. Read(Undefined, 0) \in Reads
    BY ReadsTyped DEF Readable
  <2>5. PICK f \in [Nat -> Reads] : Recurs(f, Read(Undefined, 0), G)
    <3> HIDE DEF G
    <3> QED
      BY <2>3, <2>4, Recursion
  <2> DEFINE g == [i \in 0..n |-> f[i]]
  <2>6. ASSUME NEW i \in 0..n
        PROVE  g[i] = IF i = 0 THEN Read(Undefined, 0)
                      ELSE IF ~g[i - 1].ok THEN Threw(g[i - 1].next)
                      ELSE ReadField(types[i], b, g[i - 1].next)
    <3>1. CASE i # 0
      <4>1. i - 1 \in Nat /\ (i - 1) + 1 = i /\ i - 1 \in 0..n /\ i - 1 < n
        BY <3>1
      <4>2. f[(i - 1) + 1] = G[i - 1][f[i - 1]]
        BY <2>5, <4>1 DEF Recurs
      <4>3. f[i - 1] \in Reads
        BY <4>1
      <4>4. f[i] = After(i - 1, f[i - 1])
        BY <4>1, <4>2, <4>3
      <4>5. g[i] = After(i - 1, g[i - 1])
        BY <4>1, <4>4
      <4> HIDE DEF g
      <4> QED
        BY <3>1, <4>1, <4>5 DEF After
    <3> QED
      BY <2>5, <3>1 DEF Recurs
  <2>7. Is(g)
    BY <2>6
  <2> QED
    BY <2>7
<1> DEFINE h == CHOOSE r : Is(r)
<1>2. Is(h) /\ Reading(types, b) = h
  <2>1. Reading(types, b) = h
    BY DEF Reading
  <2> HIDE DEF Is
  <2> QED
    BY <1>1, <2>1
<1> HIDE DEF h
<1>3. \A i \in 0..n : h[i] = IF i = 0 THEN Read(Undefined, 0)
                             ELSE IF ~h[i - 1].ok THEN Threw(h[i - 1].next)
                             ELSE ReadField(types[i], b, h[i - 1].next)
  BY <1>2
<1>4. h[0] = Read(Undefined, 0)
  <2>1. 0 \in 0..n
    OBVIOUS
  <2> QED
    BY <1>3, <2>1
<1>5. ASSUME NEW i \in Nat, i < n
      PROVE  h[i + 1] = IF ~h[i].ok THEN Threw(h[i].next)
                        ELSE ReadField(types[i + 1], b, h[i].next)
  <2>1. i + 1 \in 0..n /\ i + 1 # 0 /\ (i + 1) - 1 = i
    BY <1>5
  <2> QED
    BY <1>3, <2>1
<1> HIDE DEF Is
<1> QED
  BY <1>2, <1>4, <1>5

LEMMA LegacySteps ==
  ASSUME NEW k \in Kinds, NEW b \in Seq(Byte)
  PROVE  LET r == LegacyReading(k, b) IN
         /\ r[0].ok = TRUE /\ r[0].next = 0
         /\ \A i \in Nat : i < Len(Schemas[k]) /\ r[i].ok = TRUE =>
              r[i + 1] = ReadField(Guess(Schemas[k][i + 1].name), b, r[i].next)
<1> DEFINE types == GuessedTypes(Schemas[k])
<1>1. PICK n \in Nat : n = Len(Schemas[k]) /\ DOMAIN Schemas[k] = 1..n
  BY SchemaFacts
<1>2. types = [i \in 1..n |-> Guess(Schemas[k][i].name)]
  BY <1>1 DEF GuessedTypes
<1>3. Len(types) = n /\ \A i \in 1..n : types[i] = Guess(Schemas[k][i].name)
  BY <1>2
<1>4. \A i \in 1..n : types[i] \in FieldTypes
  BY <1>3 DEF Guess, FieldTypes, NumberTypes
<1> HIDE DEF types
<1> DEFINE r == Reading(types, b)
<1>5. /\ r[0] = Read(Undefined, 0)
      /\ \A i \in Nat : i < n =>
           r[i + 1] = IF ~r[i].ok THEN Threw(r[i].next)
                      ELSE ReadField(types[i + 1], b, r[i].next)
  BY <1>3, <1>4, ReadingSteps
<1>6. LegacyReading(k, b) = r
  BY DEF LegacyReading, types
<1> HIDE DEF r
<1>7. ASSUME NEW i \in Nat, i < n, r[i].ok = TRUE
      PROVE  r[i + 1] = ReadField(Guess(Schemas[k][i + 1].name), b, r[i].next)
  <2>1. r[i + 1] = ReadField(types[i + 1], b, r[i].next)
    BY Zenon, <1>5, <1>7
  <2>2. i + 1 \in 1..n
    BY <1>7
  <2> QED
    BY <1>3, <2>1, <2>2
<1>8. r[0].ok = TRUE /\ r[0].next = 0
  BY <1>5 DEF Read
<1> QED
  BY <1>1, <1>6, <1>7, <1>8

\* Which guesses come to be the first wrong ones: numbers of eight bytes,
\* addresses, and a profile's age; each is taken for a text.
LEMMA FirstMisread ==
  ASSUME NEW k \in Kinds, NEW i \in 1..Len(Schemas[k]),
         \A j \in 1..(i - 1) : Guess(Schemas[k][j].name) = Schemas[k][j].type,
         Guess(Schemas[k][i].name) # Schemas[k][i].type
  PROVE  /\ Guess(Schemas[k][i].name) = "STRING"
         /\ Schemas[k][i].type \in {"UINT64", "ADDRESS", "UINT8"}
         /\ Schemas[k][i].type = "UINT8" =>
              i = 4 /\ Len(Schemas[k]) = 5 /\ Schemas[k][5].type = "BOOLEAN"
<1>1. k \in {"TRANSFER", "CONTRACT_CALL", "TOKEN_SWAP", "STAKE", "USER_PROFILE"}
  BY DEF Kinds, Schemas
<1>2. i = 1 \/ 1 \in 1..(i - 1)
  OBVIOUS
<1> USE DEF Schemas, Field, Guess
<1>3. CASE k = "TRANSFER"
  <2>1. i \in {1, 2}
    BY <1>3
  <2> QED
    BY <1>3, <2>1
<1>4. CASE k = "CONTRACT_CALL"
  BY <1>2, <1>4
<1>5. CASE k = "TOKEN_SWAP"
  BY <1>2, <1>5
<1>6. CASE k = "STAKE"
  BY <1>2, <1>6
<1>7. CASE k = "USER_PROFILE"
  <2>1. i \in {1, 2, 3, 4, 5}
    BY <1>7
  <2>2. i # 5
    <3>1. i = 5 => 4 \in 1..(i - 1)
      OBVIOUS
    <3> QED
      BY <1>7, <3>1
  <2> QED
    BY <1>7, <2>1, <2>2
<1> QED
  BY <1>1, <1>3, <1>4, <1>5, <1>6, <1>7

\* The fields before an amount that is guessed as one are texts to this decoder.
LEMMA TextsFirst ==
  ASSUME NEW k \in Kinds, k # "TRANSFER", NEW i \in 1..Len(Schemas[k]),
         ~(k = "TOKEN_SWAP" /\ i >= 3)
  PROVE  Guess(Schemas[k][i].name) = "STRING"
<1>1. k \in {"CONTRACT_CALL", "TOKEN_SWAP", "STAKE", "USER_PROFILE"}
  BY DEF Kinds, Schemas
<1> USE DEF Schemas, Field, Guess
<1>2. CASE k = "CONTRACT_CALL"
  <2>1. i \in {1, 2, 3}
    BY <1>2
  <2> QED
    BY <1>2, <2>1
<1>3. CASE k = "TOKEN_SWAP"
  <2>1. i \in {1, 2}
    BY <1>3
  <2> QED
    BY <1>3, <2>1
<1>4. CASE k = "STAKE"
  <2>1. i \in {1, 2, 3}
    BY <1>4
  <2> QED
    BY <1>4, <2>1
<1>5. CASE k = "USER_PROFILE"
  <2>1. i \in {1, 2, 3, 4, 5}
    BY <1>5
  <2> QED
    BY <1>5, <2>1
<1> QED
  BY <1>1, <1>2, <1>3, <1>4, <1>5

\* A transfer's names tell all its types; a profile's fields are texts up to
\* the third and to this decoder all.
LEMMA KnownSchemas ==
  /\ \A i \in 1..Len(Schemas["TRANSFER"]) :
       Guess(Schemas["TRANSFER"][i].name) = Schemas["TRANSFER"][i].type
  /\ Len(Schemas["USER_PROFILE"]) = 5
  /\ \A i \in 1..3 :
       Guess(Schemas["USER_PROFILE"][i].name) = Schemas["USER_PROFILE"][i].type
  /\ Guess(Schemas["USER_PROFILE"][4].name) = "STRING"
  /\ Guess(Schemas["USER_PROFILE"][5].name) = "STRING"
  /\ Schemas["USER_PROFILE"][4].type = "UINT8"
  /\ Schemas["USER_PROFILE"][5].type = "BOOLEAN"
<1> USE DEF Schemas, Field, Guess
<1>1. Len(Schemas["TRANSFER"]) = 2 /\ Len(Schemas["USER_PROFILE"]) = 5
  OBVIOUS
<1>2. \A i \in 1..2 : i = 1 \/ i = 2
  OBVIOUS
<1>3. \A i \in 1..3 : i = 1 \/ i = 2 \/ i = 3
  OBVIOUS
<1>4. \A i \in 1..2 : Guess(Schemas["TRANSFER"][i].name) = Schemas["TRANSFER"][i].type
  BY <1>2
<1>5. \A i \in 1..3 :
        Guess(Schemas["USER_PROFILE"][i].name) = Schemas["USER_PROFILE"][i].type
  BY <1>3
<1> QED
  BY <1>1, <1>4, <1>5

\* When all is written, each field's bytes are where it began, and the next
\* field, or the end, is behind them.
LEMMA FieldInPlace ==
  ASSUME CodecInv, Complete, NEW i \in 1..Len(Schema)
  PROVE  /\ kind \in Kinds /\ buffer \in Seq(Byte)
         /\ DOMAIN given = 1..Len(Schema) /\ Len(Schema) \in Nat
         /\ Len(starts) = Len(Schema)
         /\ starts[i] \in Nat /\ Schema[i].type \in FieldTypes
         /\ given[i] \in Inputs(Schema[i].type)
         /\ Begins(starts, buffer, i) = starts[i]
         /\ Begins(starts, buffer, i + 1) = End(i)
         /\ End(i) = starts[i] + Len(Written(Schema[i].type, given[i]))
         /\ Holds(buffer, starts[i], Written(Schema[i].type, given[i]))
<1>1. phase \in {"reading", "decoder threw", "done"}
  BY DEF CodecInv, TypeInv, Phases, Complete
<1>2. /\ kind \in Kinds /\ buffer \in Seq(Byte) /\ starts \in Seq(Nat)
      /\ given \in Seq(AnyInput) /\ Len(starts) = Len(given)
      /\ \A j \in 1..Len(given) : given[j] \in Inputs(Schema[j].type)
  BY DEF CodecInv, TypeInv
<1>3. Len(given) = Len(Schema) /\ Lays(Schema, given, starts, buffer)
  BY <1>1 DEF CodecInv, TurnInv, LayInv
<1>4. Len(Schema) \in Nat /\ Schema[i].type \in FieldTypes
  BY <1>2, SchemaFacts DEF Schema
<1>5. DOMAIN given = 1..Len(Schema) /\ starts[i] \in Nat /\ i <= Len(starts)
  BY <1>2, <1>3
<1>6. /\ Holds(buffer, starts[i], Written(Schema[i].type, given[i]))
      /\ Begins(starts, buffer, i + 1) = starts[i] + Len(Written(Schema[i].type, given[i]))
  BY <1>3 DEF Lays
<1>7. Begins(starts, buffer, i + 1) = End(i)
  <2>1. i + 1 <= Len(starts) <=> i < Len(starts)
    BY <1>2, <1>5
  <2> QED
    BY <2>1 DEF Begins, End
<1>8. Begins(starts, buffer, i) = starts[i]
  BY <1>5 DEF Begins
<1>9. given[i] \in Inputs(Schema[i].type)
  BY <1>2, <1>3
<1> QED
  BY <1>2, <1>3, <1>4, <1>5, <1>6, <1>7, <1>8, <1>9

\* As far as names tell types, this decoder is where the encoder was, and reads
\* what was given.
LEMMA ToldRead ==
  ASSUME CodecInv, Complete, AllFit
  PROVE  LET r == LegacyReading(kind, buffer) IN
         \A i \in 0..Len(Schema) : Told(i) =>
           /\ r[i].ok = TRUE /\ r[i].next = Begins(starts, buffer, i + 1)
           /\ i > 0 /\ Keeps(Schema[i].type, given[i]) =>
                r[i].value = Meant(Schema[i].type, given[i])
<1>1. kind \in Kinds /\ buffer \in Seq(Byte)
  BY DEF CodecInv, TypeInv
<1>2. PICK n \in Nat : n = Len(Schema) /\ n = Len(Schemas[kind])
  BY <1>1, SchemaFacts DEF Schema
<1>3. Begins(starts, buffer, 1) = 0
  <2>1. phase # "encoder threw"
    BY DEF Complete
  <2> QED
    BY <2>1 DEF CodecInv, LayInv, Lays
<1>4. PICK r : r = LegacyReading(kind, buffer)
  OBVIOUS
<1>5. /\ r[0].ok = TRUE /\ r[0].next = 0
      /\ \A i \in Nat : i < n /\ r[i].ok = TRUE =>
           r[i + 1] = ReadField(Guess(Schema[i + 1].name), buffer, r[i].next)
  BY <1>1, <1>2, <1>4, LegacySteps DEF Schema
<1> DEFINE Right(i) ==
             /\ r[i].ok = TRUE /\ r[i].next = Begins(starts, buffer, i + 1)
             /\ i > 0 /\ Keeps(Schema[i].type, given[i]) =>
                  r[i].value = Meant(Schema[i].type, given[i])
           T == {i \in Nat : Told(i) => Right(i)}
<1>6. 0 \in T
  <2>1. 0 + 1 = 1 /\ ~(0 > 0)
    OBVIOUS
  <2> QED
    BY <1>3, <1>5, <2>1
<1>7. ASSUME NEW i \in Nat, i < n, i \in T
      PROVE  i + 1 \in T
  <2>0. (Told(i + 1) => Right(i + 1)) => i + 1 \in T
    <3> HIDE DEF Right
    <3> QED
      OBVIOUS
  <2> SUFFICES ASSUME Told(i + 1)
               PROVE  Right(i + 1)
    <3> HIDE DEF T, Right
    <3> QED
      BY <2>0
  <2>1. i + 1 \in 1..Len(Schema) /\ i + 1 \in 1..(i + 1)
    BY <1>2, <1>7
  <2>2. Told(i) /\ Guess(Schema[i + 1].name) = Schema[i + 1].type
    <3>1. \A j \in 1..i : j \in 1..(i + 1)
      OBVIOUS
    <3> QED
      BY <2>1, <3>1 DEF Told
  <2>3. r[i].ok = TRUE /\ r[i].next = Begins(starts, buffer, i + 1)
    BY <1>7, <2>2
  <2>4. PICK type \in FieldTypes : type = Schema[i + 1].type
    BY <2>1, FieldInPlace
  <2>5. PICK v \in Inputs(type) : v = given[i + 1]
    BY <2>1, <2>4, FieldInPlace
  <2>6. PICK o \in Nat : o = starts[i + 1]
    BY <2>1, FieldInPlace
  <2>7. /\ Begins(starts, buffer, i + 1) = o
        /\ Begins(starts, buffer, (i + 1) + 1) = o + Len(Written(type, v))
        /\ Holds(buffer, o, Written(type, v))
        /\ i + 1 \in DOMAIN given
    BY <2>1, <2>4, <2>5, <2>6, FieldInPlace
  <2>8. type = "STRING" => Len(v) < Values("UINT16")
    <3>1. Fits(i + 1)
      BY <2>7 DEF AllFit
    <3> QED
      BY <2>4, <2>5, <3>1 DEF Fits
  <2>9. Back(type, v, buffer, o)
    BY <1>1, <2>7, <2>8, FieldBack
  <2>10. r[i + 1] = ReadField(type, buffer, o)
    BY <1>5, <1>7, <2>2, <2>3, <2>4, <2>7
  <2>11. PICK x : x = ReadField(type, buffer, o)
    OBVIOUS
  <2>12. x \in [value : Readable, next : Nat, ok : BOOLEAN]
    BY <1>1, <2>11, FieldTyped DEF Reads
  <2>13. /\ x.ok = TRUE /\ x.next = o + Len(Written(type, v))
         /\ Keeps(type, v) => x.value = Meant(type, v)
    BY Zenon, <2>9, <2>11, <2>12 DEF Back
  <2> QED
    BY <2>4, <2>5, <2>7, <2>10, <2>11, <2>13
<1> HIDE DEF T
<1>8. \A i \in 0..n : i \in T
  BY <1>6, <1>7, Climb
<1> QED
  BY <1>2, <1>4, <1>8 DEF T

\* The first wrong guess: no error, and the decoder passes over two bytes and
\* over as many more as these announce.
LEMMA MisreadPasses ==
  ASSUME CodecInv, Complete, AllFit, NEW i \in 1..Len(Schema), Misread(i)
  PROVE  LET r == LegacyReading(kind, buffer) IN
         r[i].ok = TRUE /\ r[i].next = starts[i] + 2 + Announced(i)
<1>1. PICK r : r = LegacyReading(kind, buffer)
  OBVIOUS
<1>2. kind \in Kinds /\ buffer \in Seq(Byte) /\ i \in 1..Len(Schemas[kind])
  BY FieldInPlace DEF Schema
<1>3. i - 1 \in Nat /\ (i - 1) + 1 = i /\ i - 1 \in 0..Len(Schema) /\ i - 1 < Len(Schemas[kind])
  BY <1>2 DEF Schema
<1>4. /\ \A j \in 1..(i - 1) : Guess(Schemas[kind][j].name) = Schemas[kind][j].type
      /\ Guess(Schemas[kind][i].name) # Schemas[kind][i].type
  <2>1. \A j \in 1..i : j \in 1..(i - 1) \/ j = i
    OBVIOUS
  <2>2. Told(i - 1) /\ ~Told(i)
    BY DEF Misread
  <2> QED
    BY <2>1, <2>2 DEF Told, Schema
<1>5. /\ Guess(Schema[i].name) = "STRING"
      /\ Schema[i].type \in {"UINT64", "ADDRESS", "UINT8"}
      /\ Schema[i].type = "UINT8" =>
           i = 4 /\ Len(Schema) = 5 /\ Schema[5].type = "BOOLEAN"
  BY <1>2, <1>4, FirstMisread DEF Schema
<1>6. PICK o \in Nat : o = starts[i]
  BY FieldInPlace
<1>7. r[i - 1].ok = TRUE /\ r[i - 1].next = o
  <2>1. Told(i - 1)
    BY DEF Misread
  <2>2. r[i - 1].ok = TRUE /\ r[i - 1].next = Begins(starts, buffer, (i - 1) + 1)
    BY <1>1, <1>3, <2>1, ToldRead
  <2> QED
    BY <1>3, <1>6, <2>2, FieldInPlace
<1>8. r[i] = ReadField("STRING", buffer, o)
  <2>1. \A j \in Nat : j < Len(Schemas[kind]) /\ r[j].ok = TRUE =>
          r[j + 1] = ReadField(Guess(Schemas[kind][j + 1].name), buffer, r[j].next)
    BY <1>1, <1>2, LegacySteps
  <2>2. r[i] = ReadField(Guess(Schemas[kind][i].name), buffer, r[i - 1].next)
    BY <1>3, <1>7, <2>1
  <2> QED
    BY <1>5, <1>7, <2>2 DEF Schema
<1>9. r[i].ok = TRUE /\ r[i].next = (o + 2) + Uint(buffer, o, 2)
  BY <1>2, <1>8, TextRead
<1>10. Uint(buffer, o, 2) = Announced(i)
  <2>1. CASE Schema[i].type = "UINT64"
    <3>1. given[i] \in Inputs("UINT64") /\ Holds(buffer, o, Written("UINT64", given[i]))
      BY <1>6, <2>1, FieldInPlace
    <3>2. Uint(buffer, o, 2) = (given[i].int \div Power[6]) % Power[2]
      BY <1>2, <3>1, NumberAnnounces
    <3> QED
      BY <2>1, <3>2 DEF Announced
  <2>2. CASE Schema[i].type = "ADDRESS"
    <3>1. given[i] \in Inputs("ADDRESS") /\ Holds(buffer, o, Written("ADDRESS", given[i]))
      BY <1>6, <2>2, FieldInPlace
    <3>2. Uint(buffer, o, 2) =
            IF given[i] = <<>> THEN 0
            ELSE ByteBase * given[i][1] + (IF Len(given[i]) = 1 THEN 0 ELSE given[i][2])
      BY <1>2, <3>1, AddressAnnounces
    <3> QED
      BY Zenon, <2>2, <3>2 DEF Announced
  <2>3. CASE Schema[i].type = "UINT8"
    <3>1. given[i] \in Inputs("UINT8") /\ Holds(buffer, o, Written("UINT8", given[i]))
      BY <1>6, <2>3, FieldInPlace
    <3>2. i = 4 /\ i + 1 = 5 /\ 5 \in 1..Len(Schema) /\ Schema[5].type = "BOOLEAN"
      <4>1. i = 4 /\ Len(Schema) = 5 /\ Schema[5].type = "BOOLEAN"
        BY Zenon, <1>5, <2>3
      <4>2. 4 + 1 = 5 /\ 5 \in 1..5
        OBVIOUS
      <4> QED
        BY Zenon, <4>1, <4>2
    <3>3. starts[5] = o + 1
      <4>1. /\ Begins(starts, buffer, 4 + 1) = End(4)
            /\ End(4) = starts[4] + Len(Written("UINT8", given[4]))
        BY <2>3, <3>2, FieldInPlace
      <4>2. Begins(starts, buffer, 5) = starts[5]
        BY <3>2, FieldInPlace
      <4>3. Len(Written("UINT8", given[4])) = 1
        BY <3>1, <3>2, NumberWritten, WidthFacts DEF NumberTypes
      <4> QED
        BY <1>6, <3>2, <4>1, <4>2, <4>3
    <3>4. given[5] \in Inputs("BOOLEAN") /\ Holds(buffer, o + 1, Written("BOOLEAN", given[5]))
      BY <3>2, <3>3, FieldInPlace
    <3>5. Uint(buffer, o, 2) = ByteBase * (given[i].int % ByteBase) + (IF given[5] THEN 1 ELSE 0)
      BY <1>2, <3>1, <3>4, AgeAnnounces
    <3> QED
      BY Zenon, <2>3, <3>2, <3>5 DEF Announced
  <2> QED
    BY <1>5, <2>1, <2>2, <2>3
<1>11. (o + 2) + Uint(buffer, o, 2) = starts[i] + 2 + Announced(i)
  BY <1>6, <1>10
<1> QED
  BY <1>1, <1>9, <1>11

\* As long as all is taken for texts there is no error.
LEMMA TextsQuiet ==
  ASSUME NEW k \in Kinds, NEW b \in Seq(Byte), NEW n \in Nat, n <= Len(Schemas[k]),
         \A j \in 1..n : Guess(Schemas[k][j].name) = "STRING"
  PROVE  LET r == LegacyReading(k, b) IN
         \A i \in 0..n : r[i].ok = TRUE /\ r[i].next \in Nat
<1>1. PICK r : r = LegacyReading(k, b)
  OBVIOUS
<1>2. /\ r[0].ok = TRUE /\ r[0].next = 0
      /\ \A i \in Nat : i < Len(Schemas[k]) /\ r[i].ok = TRUE =>
           r[i + 1] = ReadField(Guess(Schemas[k][i + 1].name), b, r[i].next)
  BY <1>1, LegacySteps
<1> DEFINE T == {i \in Nat : r[i].ok = TRUE /\ r[i].next \in Nat}
<1>3. 0 \in T
  BY <1>2
<1>4. ASSUME NEW i \in Nat, i < n, i \in T
      PROVE  i + 1 \in T
  <2>1. i + 1 \in 1..n /\ i < Len(Schemas[k])
    BY <1>4, SchemaFacts
  <2>2. PICK o \in Nat : o = r[i].next
    BY <1>4
  <2>3. r[i + 1] = ReadField("STRING", b, o)
    BY <1>2, <1>4, <2>1, <2>2
  <2>4. r[i + 1].ok = TRUE /\ r[i + 1].next = (o + 2) + Uint(b, o, 2)
    BY <2>3, TextRead
  <2>5. (o + 2) + Uint(b, o, 2) \in Nat
    <3>1. PICK u \in Nat : u = Uint(b, o, 2)
      BY UintNat
    <3> QED
      BY <3>1
  <2> QED
    BY <2>4, <2>5
<1> HIDE DEF T
<1>5. \A i \in 0..n : i \in T
  BY <1>3, <1>4, Climb
<1> QED
  BY <1>1, <1>5 DEF T

\* A profile's age and mark are its last two bytes, and go with the length of
\* the first wrong text; there is none left for the two texts.
LEMMA ProfileLost ==
  ASSUME CodecInv, Complete, AllFit, kind = "USER_PROFILE"
  PROVE  LET r == LegacyReading(kind, buffer) IN r[4].value = <<>> /\ r[5].value = <<>>
<1>1. PICK r : r = LegacyReading(kind, buffer)
  OBVIOUS
<1>2. /\ Len(Schema) = 5 /\ 3 \in 0..5 /\ 4 \in 1..5 /\ 5 \in 1..5
      /\ Guess(Schema[4].name) = "STRING" /\ Guess(Schema[5].name) = "STRING"
      /\ Schema[4].type = "UINT8" /\ Schema[5].type = "BOOLEAN" /\ Told(3)
  BY KnownSchemas DEF Schema, Told
<1>3. kind \in Kinds /\ buffer \in Seq(Byte)
  BY DEF CodecInv, TypeInv
<1>4. PICK o \in Nat : o = starts[4]
  BY <1>2, FieldInPlace
<1>5. Len(buffer) = o + 2
  <2>1. /\ starts[5] = starts[4] + Len(Written("UINT8", given[4]))
        /\ given[4] \in Inputs("UINT8")
    <3>1. /\ Begins(starts, buffer, 4 + 1) = End(4) /\ given[4] \in Inputs("UINT8")
          /\ End(4) = starts[4] + Len(Written("UINT8", given[4]))
      BY <1>2, FieldInPlace
    <3>2. Begins(starts, buffer, 5) = starts[5]
      BY <1>2, FieldInPlace
    <3> QED
      BY <3>1, <3>2
  <2>2. /\ End(5) = starts[5] + Len(Written("BOOLEAN", given[5]))
        /\ given[5] \in Inputs("BOOLEAN")
    BY <1>2, FieldInPlace
  <2>3. End(5) = Len(buffer)
    <3>1. Len(starts) = 5
      BY <1>2, FieldInPlace
    <3> QED
      BY <3>1 DEF End
  <2>4. Len(Written("UINT8", given[4])) = 1
    BY <2>1, NumberWritten, WidthFacts DEF NumberTypes
  <2>5. Len(Written("BOOLEAN", given[5])) = 1
    BY <2>2, BooleanWritten
  <2> QED
    <3>1. PICK q : q = starts[5]
      OBVIOUS
    <3>2. q = o + 1 /\ Len(buffer) = q + 1
      BY Zenon, <1>4, <2>1, <2>2, <2>3, <2>4, <2>5, <3>1
    <3> QED
      BY ONLY <3>2, o \in Nat
<1>6. \A j \in Nat : j < 5 /\ r[j].ok = TRUE =>
        r[j + 1] = ReadField(Guess(Schema[j + 1].name), buffer, r[j].next)
  BY <1>1, <1>2, <1>3, LegacySteps DEF Schema
<1>7. r[3].ok = TRUE /\ r[3].next = o
  <2>1. r[3].ok = TRUE /\ r[3].next = Begins(starts, buffer, 3 + 1)
    BY <1>1, <1>2, ToldRead
  <2>2. Begins(starts, buffer, 4) = starts[4]
    BY <1>2, FieldInPlace
  <2> QED
    BY <1>4, <2>1, <2>2
<1>8. r[4] = ReadField("STRING", buffer, o)
  <2>1. r[3 + 1] = ReadField(Guess(Schema[3 + 1].name), buffer, r[3].next)
    BY <1>6, <1>7
  <2> QED
    BY <1>2, <1>7, <2>1
<1>9. r[4].ok = TRUE /\ r[4].next = (o + 2) + Uint(buffer, o, 2) /\ r[4].value = <<>>
  <2>1. Len(buffer) <= o + 2
    BY <1>5
  <2> QED
    BY <1>3, <1>8, <2>1, TextRead
<1>10. PICK p \in Nat : p = r[4].next /\ Len(buffer) <= p
  <2>1. PICK u \in Nat : u = Uint(buffer, o, 2)
    BY <1>3, UintNat
  <2> QED
    BY <1>5, <1>9, <2>1
<1>11. r[5] = ReadField("STRING", buffer, p)
  <2>1. r[4 + 1] = ReadField(Guess(Schema[4 + 1].name), buffer, r[4].next)
    BY <1>6, <1>9
  <2> QED
    BY <1>2, <1>10, <2>1
<1>12. r[5].value = <<>>
  <2>1. Len(buffer) <= p + 2
    BY <1>3, <1>10
  <2> QED
    BY <1>3, <1>11, <2>1, TextRead
<1> QED
  BY <1>1, <1>9, <1>12

\* The decoder without types, whatever was typed: right as far as names tell
\* types, then moved by what the misread field's own bytes announce, and silent
\* but for the amounts of a swap.
THEOREM LegacyReadsCorrect == CodecSpec => []LegacyReads
<1>1. CodecInv => LegacyReads
  <2> SUFFICES ASSUME CodecInv, Complete, AllFit
               PROVE  LegacyReads
    BY DEF LegacyReads
  <2>1. PICK r : r = LegacyReading(kind, buffer)
    OBVIOUS
  <2>2. kind \in Kinds /\ buffer \in Seq(Byte) /\ Len(Schema) \in Nat \ {0}
    BY SchemaFacts DEF CodecInv, TypeInv, Schema
  <2>3. DOMAIN given = 1..Len(Schema)
    <3>1. 1 \in 1..Len(Schema)
      BY <2>2
    <3> QED
      BY <3>1, FieldInPlace
  <2>4. ASSUME NEW i \in 1..Len(Schema), Told(i)
        PROVE  r[i].ok = TRUE /\ r[i].next = End(i) /\ (Kept(i) => r[i].value = Sent(i))
    <3>1. i \in 0..Len(Schema) /\ i > 0
      BY <2>2
    <3>2. /\ r[i].ok = TRUE /\ r[i].next = Begins(starts, buffer, i + 1)
          /\ Keeps(Schema[i].type, given[i]) => r[i].value = Meant(Schema[i].type, given[i])
      BY <2>1, <2>4, <3>1, ToldRead
    <3>3. Begins(starts, buffer, i + 1) = End(i)
      BY FieldInPlace
    <3>4. Kept(i) => Keeps(Schema[i].type, given[i])
      BY DEF Kept, Keeps
    <3>5. Meant(Schema[i].type, given[i]) = Sent(i)
      BY DEF Meant, Sent
    <3> QED
      BY <3>2, <3>3, <3>4, <3>5
  <2>5. ASSUME NEW i \in 1..Len(Schema), Misread(i)
        PROVE  r[i].ok = TRUE /\ r[i].next = starts[i] + 2 + Announced(i)
    BY <2>1, <2>5, MisreadPasses
  <2>6. ASSUME NEW i \in 1..Len(Schema), ~(kind = "TOKEN_SWAP" /\ i >= 3)
        PROVE  r[i].ok = TRUE
    <3>1. CASE kind = "TRANSFER"
      <4>1. \A j \in 1..i : j \in 1..Len(Schema)
        BY <2>2
      <4>2. Told(i)
        BY <3>1, <4>1, KnownSchemas DEF Told, Schema
      <4> QED
        BY <2>4, <4>2
    <3>2. CASE kind # "TRANSFER"
      <4>1. \A j \in 1..i : j \in 1..Len(Schemas[kind]) /\ ~(kind = "TOKEN_SWAP" /\ j >= 3)
        BY <2>2, <2>6 DEF Schema
      <4>2. \A j \in 1..i : Guess(Schemas[kind][j].name) = "STRING"
        BY <2>2, <3>2, <4>1, TextsFirst
      <4>3. i \in Nat /\ i <= Len(Schemas[kind]) /\ i \in 0..i
        BY <2>2 DEF Schema
      <4> QED
        BY <2>1, <2>2, <4>2, <4>3, TextsQuiet
    <3> QED
      BY <3>1, <3>2
  <2>7. kind = "USER_PROFILE" => r[4].value = <<>> /\ r[5].value = <<>>
    BY <2>1, ProfileLost
  <2>8. \A i \in DOMAIN given :
          /\ Told(i) => r[i].ok /\ r[i].next = End(i) /\ (Kept(i) => r[i].value = Sent(i))
          /\ Misread(i) => r[i].ok /\ r[i].next = starts[i] + 2 + Announced(i)
          /\ r[i].ok \/ (kind = "TOKEN_SWAP" /\ i >= 3)
    <3> TAKE i \in DOMAIN given
    <3>1. i \in 1..Len(Schema)
      BY <2>3
    <3>2. Told(i) => r[i].ok /\ r[i].next = End(i) /\ (Kept(i) => r[i].value = Sent(i))
      BY Zenon, <2>4, <3>1
    <3>3. Misread(i) => r[i].ok /\ r[i].next = starts[i] + 2 + Announced(i)
      BY Zenon, <2>5, <3>1
    <3>4. r[i].ok \/ (kind = "TOKEN_SWAP" /\ i >= 3)
      BY Zenon, <2>6, <3>1
    <3> QED
      BY <3>2, <3>3, <3>4
  <2> QED
    BY Zenon, <2>1, <2>7, <2>8 DEF LegacyReads
<1> QED
  BY <1>1, CodecInvariant, PTL

===============================================================================
