----------------------------- MODULE ExplorerFeed -----------------------------
(***************************************************************************)
(* The explorer's dashboard: the blocks and the account's transactions it  *)
(* shows, the loads that fetch them, the event stream that says when to    *)
(* load, and the polling while the stream is down.  The ledger is the      *)
(* number of blocks that Core's database holds; what is shown is the       *)
(* height it was fetched at, and for the transactions whose they are.      *)
(* Page numbers, expanded rows and the list of contracts are left out.     *)
(***************************************************************************)
EXTENDS Naturals, FiniteSets

CONSTANTS
  Users,        \* accounts
  NoUser,       \* nobody is signed in
  Tries,        \* loads for a transaction just submitted, 20 in the code
  MaxHeight,    \* bound: blocks
  MaxLoads,     \* bound: loads begun
  MaxBreaks,    \* bound: failures of the network
  MaxVisits     \* bound: changes of account, lookups, submissions, page loads

ASSUME Nobody == NoUser \notin Users
ASSUME Bounds == /\ {Tries, MaxBreaks, MaxVisits} \subseteq Nat
                 /\ {MaxHeight, MaxLoads} \subseteq Nat \ {0}

VARIABLES
  height,       \* blocks committed
  user,         \* the account of AuthContext
  shown,        \* height of the blocks, account and height of the transactions
  loads,        \* loadCommittedData calls that have not ended
  begun,        \* how many there have been
  applied,      \* the latest one that has set what is shown
  lookup,       \* a block fetched by its hash: under way or not
  wanted,       \* the submitted transaction looked for: its block, tries left
  sources,      \* the EventSources that are not closed, with their server side
  timers,       \* reconnect timers that run
  streamStatus, \* connecting, connected, disconnected
  breaks, visits,   \* counters for the bounds
  doubt         \* what is shown may be old, and why is known

vars == <<height, user, shown, loads, begun, applied, lookup, wanted, sources,
          timers, streamStatus, breaks, visits, doubt>>

Unserved == MaxHeight + 1
Nothing == [blocks |-> 0, user |-> NoUser, txs |-> 0]
NoWish == [block |-> 0, user |-> NoUser, left |-> 0, load |-> 0]

Visit == visits < MaxVisits /\ visits' = visits + 1
Broken == breaks < MaxBreaks /\ breaks' = breaks + 1

(* --- Loading ------------------------------------------------------------ *)

\* loadCommittedData: two requests at once, or one if nobody is signed in.
Load(u) == [id |-> begun + 1, user |-> u, blocks |-> Unserved,
            txs |-> IF u = NoUser THEN 0 ELSE Unserved]
Begin(old, u) ==
  /\ begun < MaxLoads
  /\ begun' = begun + 1
  /\ loads' = old \cup {Load(u)}
  /\ doubt' = FALSE

ServeBlocks(l) ==
  /\ l.blocks = Unserved
  /\ loads' = (loads \ {l}) \cup {[l EXCEPT !.blocks = height]}
  /\ UNCHANGED <<height, user, shown, begun, applied, lookup, wanted, sources,
                 timers, streamStatus, breaks, visits, doubt>>

ServeTransactions(l) ==
  /\ l.txs = Unserved
  /\ loads' = (loads \ {l}) \cup {[l EXCEPT !.txs = height]}
  /\ UNCHANGED <<height, user, shown, begun, applied, lookup, wanted, sources,
                 timers, streamStatus, breaks, visits, doubt>>

\* The submitted transaction is among those loaded.
Found(l) == l.user = wanted.user /\ l.user # NoUser /\ l.txs >= wanted.block

\* Both answers are here and are shown, whatever has been shown since.
Apply(l) ==
  /\ Unserved \notin {l.blocks, l.txs}
  /\ shown' = [blocks |-> l.blocks, user |-> l.user, txs |-> l.txs]
  /\ loads' = loads \ {l}
  /\ applied' = IF l.id > applied THEN l.id ELSE applied
  /\ doubt' = (doubt \/ l.id < applied)
  /\ wanted' = IF l.id = wanted.load
                 THEN IF Found(l) \/ wanted.left = 0 THEN NoWish
                      ELSE [wanted EXCEPT !.load = 0]
                 ELSE wanted
  /\ UNCHANGED <<height, user, begun, lookup, sources, timers, streamStatus,
                 breaks, visits>>

\* One of the two requests fails and with it the load.
LoadFails(l) ==
  /\ Broken
  /\ loads' = loads \ {l}
  /\ doubt' = (doubt \/ l.id = begun)
  /\ wanted' = IF l.id = wanted.load THEN NoWish ELSE wanted
  /\ UNCHANGED <<height, user, shown, begun, applied, lookup, sources, timers,
                 streamStatus, visits>>

(* --- The ledger and the user --------------------------------------------- *)

\* The peer's mirror writes a block and its transactions in one transaction of
\* the database, so both lists have it from the same step on.
Commit ==
  /\ height < MaxHeight
  /\ height' = height + 1
  /\ UNCHANGED <<user, shown, loads, begun, applied, lookup, wanted, sources,
                 timers, streamStatus, breaks, visits, doubt>>

\* Sign-in or sign-out: the effect that depends on the account loads again.
SetAccount_NoLoad(u) ==
  /\ Visit /\ u # user
  /\ user' = u
  /\ UNCHANGED <<height, shown, loads, begun, applied, lookup, wanted, sources,
                 timers, streamStatus, breaks, doubt>>
SetAccount(u) ==
  /\ Visit /\ u # user
  /\ user' = u
  /\ Begin(loads, u)
  /\ UNCHANGED <<height, shown, applied, lookup, wanted, sources, timers,
                 streamStatus, breaks>>

\* The block looked up takes the place of the list and of its tip.
HandleFetchBlock ==
  /\ Visit /\ ~lookup
  /\ lookup' = TRUE
  /\ UNCHANGED <<height, user, shown, loads, begun, applied, wanted, sources,
                 timers, streamStatus, breaks, doubt>>

FetchedBlock ==
  /\ lookup
  /\ lookup' = FALSE
  /\ \/ \E h \in 1..height :
          /\ shown' = [blocks |-> h, user |-> NoUser, txs |-> h]
          /\ doubt' = TRUE
     \/ UNCHANGED <<shown, doubt>>
  /\ UNCHANGED <<height, user, loads, begun, applied, wanted, sources, timers,
                 streamStatus, breaks, visits>>

\* A transfer is accepted; it will be in the next block, or in a later one.
Submitted ==
  /\ Visit /\ wanted = NoWish
  /\ \E b \in {height + 1, height + 2} :
       wanted' = [block |-> b, user |-> user, left |-> Tries, load |-> 0]
  /\ UNCHANGED <<height, user, shown, loads, begun, applied, lookup, sources,
                 timers, streamStatus, breaks, doubt>>

\* addNewTransaction: one load after the other, until it is found.
LookForIt ==
  /\ wanted.load = 0 /\ wanted.left > 0
  /\ Begin(loads, user)
  /\ wanted' = [wanted EXCEPT !.left = @ - 1, !.load = begun']
  /\ UNCHANGED <<height, user, shown, applied, lookup, sources, timers,
                 streamStatus, breaks, visits>>

(* --- The stream ---------------------------------------------------------- *)

Source == [ready |-> FALSE, seeded |-> FALSE, tip |-> 0, news |-> 0]
Replace(s, t) == sources' = (sources \ {s}) \cup {t}

Connect_KeepsStatus ==
  /\ timers > 0
  /\ timers' = timers - 1
  /\ sources' = sources \cup {Source}
  /\ UNCHANGED <<height, user, shown, loads, begun, applied, lookup, wanted,
                 streamStatus, breaks, visits, doubt>>
Connect ==
  /\ timers > 0
  /\ timers' = timers - 1
  /\ sources' = sources \cup {Source}
  /\ streamStatus' = "connecting"
  /\ UNCHANGED <<height, user, shown, loads, begun, applied, lookup, wanted,
                 breaks, visits, doubt>>

\* The server says ready before it has looked at the tip.
Ready(s) ==
  /\ ~s.ready
  /\ Replace(s, [s EXCEPT !.ready = TRUE])
  /\ streamStatus' = "connected"
  /\ UNCHANGED <<height, user, shown, loads, begun, applied, lookup, wanted,
                 timers, breaks, visits, doubt>>

\* What the page has, or will have once its latest load has ended.
Latest ==
  {shown.blocks} \cup (IF user = NoUser THEN {} ELSE {shown.txs})
Pending == {l \in loads : l.id = begun}
Covered ==
  IF Pending = {} THEN Latest = {height}
  ELSE \A l \in Pending : /\ l.blocks \in {Unserved, height}
                          /\ user # NoUser => l.txs \in {Unserved, height}

\* HandleExplorerStream seeds the tip silently: what it finds is not announced.
Seed(s) ==
  /\ s.ready /\ ~s.seeded
  /\ Replace(s, [s EXCEPT !.seeded = TRUE, !.tip = height])
  /\ doubt' = (doubt \/ ~Covered)
  /\ UNCHANGED <<height, user, shown, loads, begun, applied, lookup, wanted,
                 timers, streamStatus, breaks, visits>>

Tick(s) ==
  /\ s.seeded /\ s.tip # height
  /\ Replace(s, [s EXCEPT !.tip = height, !.news = @ + 1])
  /\ UNCHANGED <<height, user, shown, loads, begun, applied, lookup, wanted,
                 timers, streamStatus, breaks, visits, doubt>>

\* ledger_update: a full load.
LedgerUpdate(s) ==
  /\ s.news > 0
  /\ Replace(s, [s EXCEPT !.news = @ - 1])
  /\ Begin(loads, user)
  /\ UNCHANGED <<height, user, shown, applied, lookup, wanted, timers,
                 streamStatus, breaks, visits>>

ScheduleReconnect_Unguarded(r) == [r EXCEPT !.timers = @ + 1]
ScheduleReconnect(r) ==
  IF r.scheduled THEN r ELSE [scheduled |-> TRUE, timers |-> r.timers + 1]

\* An error reaches both handlers of the source, the listener and onerror.
Error(s) ==
  /\ Broken
  /\ LET r == ScheduleReconnect([scheduled |-> FALSE, timers |-> timers])
     IN  timers' = ScheduleReconnect(r).timers
  /\ sources' = sources \ {s}
  /\ streamStatus' = "disconnected"
  /\ UNCHANGED <<height, user, shown, loads, begun, applied, lookup, wanted,
                 visits, doubt>>

\* The interval that runs while the stream is down.
Poll ==
  /\ streamStatus = "disconnected"
  /\ Begin(loads, user)
  /\ UNCHANGED <<height, user, shown, applied, lookup, wanted, sources, timers,
                 streamStatus, breaks, visits>>

\* The page is loaded again: the browser closes the source or drops its timer,
\* what is still under way finds no page, and nobody is signed in yet.
Reopen ==
  /\ Visit
  /\ user' = NoUser
  /\ sources' = {Source} /\ timers' = 0
  /\ streamStatus' = "connecting"
  /\ shown' = Nothing /\ lookup' = FALSE /\ wanted' = NoWish
  /\ Begin({}, NoUser)
  /\ UNCHANGED <<height, applied, breaks>>

(* --- The specification --------------------------------------------------- *)

Init ==
  /\ height \in 0..1
  /\ user = NoUser
  /\ shown = Nothing
  /\ begun = 1 /\ applied = 0
  /\ loads = {[id |-> 1, user |-> user, blocks |-> Unserved,
               txs |-> IF user = NoUser THEN 0 ELSE Unserved]}
  /\ lookup = FALSE /\ wanted = NoWish
  /\ sources = {Source} /\ timers = 0
  /\ streamStatus = "connecting"
  /\ breaks = 0 /\ visits = 0
  /\ doubt = FALSE

Next ==
  \/ Commit
  \/ \E l \in loads : ServeBlocks(l) \/ ServeTransactions(l) \/ Apply(l) \/ LoadFails(l)
  \/ \E u \in Users \cup {NoUser} : SetAccount(u)
  \/ HandleFetchBlock \/ FetchedBlock \/ Submitted \/ LookForIt \/ Poll \/ Connect
  \/ \E s \in sources : Ready(s) \/ Seed(s) \/ Tick(s) \/ LedgerUpdate(s) \/ Error(s)
  \/ Reopen

Spec == Init /\ [][Next]_vars

(* --- Properties ---------------------------------------------------------- *)

\* Every variable has its type; a status of disconnected means that no source
\* is open, one of connected that the open source has been ready.
TypeOK ==
  /\ height \in 0..MaxHeight
  /\ user \in Users \cup {NoUser}
  /\ shown \in [blocks : 0..MaxHeight, user : Users \cup {NoUser}, txs : 0..MaxHeight]
  /\ loads \subseteq [id : 1..begun, user : Users \cup {NoUser},
                      blocks : 0..Unserved, txs : 0..Unserved]
  /\ begun \in 0..MaxLoads /\ applied \in 0..begun
  /\ \A s \in sources : s.tip <= height /\ s.news \in Nat /\ (s.seeded => s.ready)
  /\ doubt \in BOOLEAN
  /\ streamStatus = "disconnected" => sources = {}
  /\ streamStatus = "connected" => \E s \in sources : s.ready

\* There is one source or one timer that will make one, never two of them, though
\* every error is handled twice and the page may be loaded again at any time.
OneStream == Cardinality(sources) + timers = 1

\* Nothing is under way, and the stream has announced all that it will.
Quiet ==
  /\ loads = {} /\ ~lookup
  /\ \E s \in sources : s.seeded /\ s.tip = height /\ s.news = 0

\* What is shown is the ledger's tip and the signed-in account's transactions,
\* unless, since the latest load began, it or an older one ended wrongly (failed,
\* or came in after a newer one), a block looked up took their place, or the stream
\* took for its first tip a block that no load had seen.
ShowsTheTip ==
  Quiet /\ ~doubt =>
    /\ shown.blocks = height
    /\ shown.user = user
    /\ user # NoUser => shown.txs = height
===============================================================================
