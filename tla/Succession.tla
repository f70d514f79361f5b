----------------------------- MODULE Succession -----------------------------
(***************************************************************************)
(* What the election of the ordering service promises the log, with no     *)
(* timer, dead mark or membership in sight: a node claims the lead of the  *)
(* next term, others accept the claim and with it the term, the claimer    *)
(* leads once a majority has, and whoever hears of a leader of its term or *)
(* a later one follows it.  LeaderElection implements this specification   *)
(* for one succession; LeaderChange builds on it.                          *)
(***************************************************************************)
EXTENDS Naturals, FiniteSets

CONSTANTS
  Node,      \* the members
  Boot,      \* the member that leads at first
  Priority,  \* their order of succession: the lowest goes first
  None       \* no node

VARIABLES
  state,            \* per node: Follower, ClaimingLeader, Leader or Syncing
  currentTerm,      \* per node
  currentLeaderID,  \* per node: the leader it knows, or None
  claimed,          \* every claim made so far
  votes             \* every YES given so far

vars == <<state, currentTerm, currentLeaderID, claimed, votes>>

Claims == [claimer : Node, term : Nat]

\* The leadership of n in a term has its majority of all members.
Elected(n, term) ==
  \/ n = Boot /\ term = 0
  \/ 2 * Cardinality({n} \cup
       {d \in Node : [voter |-> d, claimer |-> n, term |-> term] \in votes})
     > Cardinality(Node)

Init ==
  /\ state = [n \in Node |-> IF n = Boot THEN "Leader" ELSE "Follower"]
  /\ currentTerm = [n \in Node |-> 0]
  /\ currentLeaderID = [n \in Node |-> Boot]
  /\ claimed = {}
  /\ votes = {}

\* sendIAmNewLeaderAndWaitForAcks.
Claim(n) ==
  /\ state[n] = "Follower"
  /\ state' = [state EXCEPT ![n] = "ClaimingLeader"]
  /\ currentTerm' = [currentTerm EXCEPT ![n] = @ + 1]
  /\ claimed' = claimed \cup {[claimer |-> n, term |-> currentTerm[n] + 1]}
  /\ UNCHANGED <<currentLeaderID, votes>>

\* selectNewLeader on a node that expects another one's claim.
Forget(n) ==
  /\ state[n] = "Follower"
  /\ currentLeaderID' = [currentLeaderID EXCEPT ![n] = None]
  /\ UNCHANGED <<state, currentTerm, claimed, votes>>

\* A YES to claim c, at any time after it was made.  A node is alive to itself,
\* so the claimer goes before it.
Accept(n, c) ==
  /\ state[n] \in {"Follower", "Syncing"}
  /\ Priority[c.claimer] < Priority[n]
  /\ c.term >= currentTerm[n]
  /\ currentTerm' = [currentTerm EXCEPT ![n] = c.term]
  /\ currentLeaderID' = [currentLeaderID EXCEPT ![n] = c.claimer]
  /\ votes' = votes \cup {[voter |-> n, claimer |-> c.claimer, term |-> c.term]}
  /\ UNCHANGED <<state, claimed>>

\* finishClaim, with a majority ...
Win(n) ==
  /\ state[n] = "ClaimingLeader"
  /\ Elected(n, currentTerm[n])
  /\ state' = [state EXCEPT ![n] = "Leader"]
  /\ currentLeaderID' = [currentLeaderID EXCEPT ![n] = n]
  /\ UNCHANGED <<currentTerm, claimed, votes>>

\* ... or without one.
Lose(n) ==
  /\ state[n] = "ClaimingLeader"
  /\ state' = [state EXCEPT ![n] = "Follower"]
  /\ currentTerm' = [currentTerm EXCEPT ![n] = @ - 1]
  /\ currentLeaderID' = [currentLeaderID EXCEPT ![n] = None]
  /\ UNCHANGED <<claimed, votes>>

\* From now on n follows l in a term, as s.
Follow(n, l, term, s) ==
  /\ state' = [state EXCEPT ![n] = s]
  /\ currentTerm' = [currentTerm EXCEPT ![n] = term]
  /\ currentLeaderID' = [currentLeaderID EXCEPT ![n] = l]
  /\ UNCHANGED <<claimed, votes>>

\* A heartbeat of l, or its answer to a request to join, however late.
Hear(n, l, term) ==
  /\ l # n /\ Elected(l, term)
  /\ term >= currentTerm[n]
  /\ Follow(n, l, term, IF state[n] = "Syncing" THEN "Syncing" ELSE "Follower")

\* After a long gap a node syncs as well.
HearAgain(n, l, term) ==
  /\ l # n /\ Elected(l, term)
  /\ term >= currentTerm[n]
  /\ state[n] # "Syncing"
  /\ Follow(n, l, term, "Syncing")

\* handleHeartbeatResponse: the answer to a stale heartbeat, from a node that
\* gave claimer c its vote, or has heard of its lead since.
StepDown(n, c) ==
  /\ state[n] \in {"Leader", "ClaimingLeader"}
  /\ c.term > currentTerm[n] /\ c.claimer # n
  /\ \E v \in votes : v.claimer = c.claimer /\ v.term = c.term
  /\ Follow(n, c.claimer, c.term, "Syncing")

ExitSync(n) ==
  /\ state[n] = "Syncing"
  /\ state' = [state EXCEPT ![n] = "Follower"]
  /\ UNCHANGED <<currentTerm, currentLeaderID, claimed, votes>>

Leaderships == claimed \cup {[claimer |-> Boot, term |-> 0]}

Next == \E n \in Node :
  \/ Claim(n) \/ Forget(n) \/ Win(n) \/ Lose(n) \/ ExitSync(n)
  \/ \E c \in claimed : Accept(n, c) \/ StepDown(n, c)
  \/ \E c \in Leaderships : Hear(n, c.claimer, c.term) \/ HearAgain(n, c.claimer, c.term)

Spec == Init /\ [][Next]_vars
=============================================================================
