--------------------------- MODULE LeaderElection ---------------------------
(***************************************************************************)
(* Leader succession in the ordering service (internal/raft/leader.go,      *)
(* heartbeat.go, membership.go): a node that misses its leader's heartbeats *)
(* marks it dead; the highest-priority node it believes alive claims the    *)
(* lead under the next term, every other node expects that claim, and a     *)
(* majority of YES answers makes the claimer leader.  A deposed leader      *)
(* learns of its successor from a heartbeat or from the answer to a stale   *)
(* heartbeat of its own, joins it again and syncs.                          *)
(*                                                                         *)
(* Boot leads a cluster whose members all know each other; joining for the  *)
(* first time is not modelled.  Each message is on a stream of its own:     *)
(* messages overtake each other, and one that is never received is lost;    *)
(* equal messages in flight are one.  A heartbeat once sent may be received *)
(* at any time and again, which stands for all the equal ones sent after it.*)
(* Clocks are nondeterminism: a timer that is not reset may run out at any  *)
(* step.  With Prompt, messages arrive before any timer runs out and only   *)
(* heartbeats just sent are received: the cluster without the late ones.    *)
(* What a sync copies is in BlockReplication; here it is the state it puts  *)
(* the node in.                                                             *)
(***************************************************************************)
EXTENDS Naturals, Sequences, FiniteSets

CONSTANTS
  Node,         \* the members of the cluster
  Boot,         \* the member that leads at first
  Priority,     \* Priority[n]: n's place in the order of joining, 0 the highest
  None,         \* no node (the empty peer.ID)
  Prompt,       \* messages are faster than timers
  MaxClaims,    \* bound: claims started
  Mortal,       \* bound: the nodes that may stop for good
  MaxFailures   \* bound: sends that fail though the receiver runs

ASSUME BootAssumption == Boot \in Node
ASSUME NodeAssumption == IsFiniteSet(Node)
ASSUME NoneAssumption == None \notin Node
ASSUME PriorityAssumption ==
  /\ Priority \in [Node -> Nat]
  /\ \A m, n \in Node : Priority[m] = Priority[n] => m = n
ASSUME BoundAssumption ==
  /\ Prompt \in BOOLEAN
  /\ MaxClaims \in Nat /\ Mortal \subseteq Node /\ MaxFailures \in Nat

VARIABLES
  up,                \* per node: it runs
  state,             \* per node: Follower, ClaimingLeader, Leader or Syncing
  currentTerm,       \* per node
  currentLeaderID,   \* per node: the leader it knows, or None
  expectedLeaderID,  \* per node: whose claim it expects, or None
  expired,           \* per node: lastHeartbeat is a HeartbeatTimeout ago
  alive,             \* per node: the members its MembershipView marks alive
  beats,             \* heartbeats sent so far
  waiters,           \* per node: its waitForLeaderClaimAcks goroutines
  evals,             \* per node: claims it evaluates after a wait
  syncing,           \* per node: its sync cycle runs
  net,               \* messages in flight
  votes,             \* every YES given so far
  claims,            \* claims made so far
  failures

nodeVars == <<state, currentTerm, currentLeaderID, expectedLeaderID, expired>>
bounds == <<claims, failures>>
vars == <<up, nodeVars, alive, beats, waiters, evals, syncing, net, votes, bounds>>

-----------------------------------------------------------------------------
(* Data *)

Message ==
  [type : {"claim"}, from : Node, to : Node, term : Nat]
    \cup [type : {"ack"}, from : Node, to : Node, term : Nat, accept : BOOLEAN]
    \cup [type : {"response"}, from : Node, to : Node, term : Nat,
          leader : Node \cup {None}, alive : SUBSET Node]
    \cup [type : {"update", "joined"}, from : Node, to : Node, term : Nat,
          alive : SUBSET Node]
    \cup [type : {"join"}, from : Node, to : Node]

Heartbeat == [from : Node, to : Node, term : Nat]

Eval == [claimer : Node, term : Nat]
Vote == [voter : Node, claimer : Node, term : Nat]

\* Of the messages M a node sends none to itself.
Sent(M) == {m \in M : m.from # m.to}

\* GetHighestPriorityAliveNode over the alive members A.
Highest(A) ==
  IF A = {} THEN None
  ELSE CHOOSE n \in A : \A m \in A : Priority[n] <= Priority[m]

\* Of all members, dead ones included (GetTotalCount).
Majority == Cardinality(Node) \div 2 + 1

\* The term of n's next claim.
NextTerm_Same(n) == currentTerm[n]
NextTerm(n) == currentTerm[n] + 1

Updates(n, A) ==
  {[type |-> "update", from |-> n, to |-> d, term |-> currentTerm[n], alive |-> A] : d \in A}

Ack(n, claimer, term, accept) ==
  [type |-> "ack", from |-> n, to |-> claimer, term |-> term, accept |-> accept]

-----------------------------------------------------------------------------
(* Timers *)

\* The node that n follows leads, or is about to, and reaches n: if messages are
\* prompt, it keeps n's timer fresh.
Kept(n) ==
  LET l == currentLeaderID[n]
  IN /\ l # None
     /\ up[l] /\ state[l] \in {"Leader", "ClaimingLeader"} /\ n \in alive[l]

\* No message is in flight to a node that runs.
Quiet == \A m \in net : ~up[m.to]

Expire(n) ==
  /\ up[n] /\ state[n] # "Leader" /\ ~expired[n]
  /\ Prompt => Quiet /\ ~Kept(n)
  /\ expired' = [expired EXCEPT ![n] = TRUE]
  /\ UNCHANGED <<up, state, currentTerm, currentLeaderID, expectedLeaderID, alive,
                 beats, waiters, evals, syncing, net, votes, bounds>>

\* checkHeartbeat on the leader, and a new leader at once: sendHeartbeat.
SendHeartbeat(n) ==
  /\ up[n] /\ state[n] = "Leader"
  /\ beats' = beats \cup Sent({[from |-> n, to |-> d, term |-> currentTerm[n]] : d \in alive[n]})
  /\ UNCHANGED <<up, nodeVars, alive, waiters, evals, syncing, net, votes, bounds>>

\* A send of the leader fails (leaderOnSendFailure).
SendFails(n, d) ==
  /\ up[n] /\ state[n] = "Leader" /\ d \in alive[n] \ {n}
  /\ IF ~up[d]
     THEN UNCHANGED failures
     ELSE failures < MaxFailures /\ failures' = failures + 1
  /\ alive' = [alive EXCEPT ![n] = @ \ {d}]
  /\ net' = net \cup Sent(Updates(n, alive[n] \ {d}))
  /\ UNCHANGED <<up, nodeVars, beats, waiters, evals, syncing, votes, claims>>

\* selectNewLeader, with A the members marked alive and e the expected leader:
\* the known leader is marked dead; the highest of the rest claims, or its
\* claim is expected.
SelectNewLeader(n, A, e) ==
  LET rest == A \ {currentLeaderID[n]}
      hp == Highest(rest)
      term == NextTerm(n)
  IN
  /\ alive' = [alive EXCEPT ![n] = rest]
  /\ IF hp = n
     THEN /\ Len(claims) < MaxClaims
          /\ claims' = Append(claims, [claimer |-> n, term |-> term])
          /\ state' = [state EXCEPT ![n] = "ClaimingLeader"]
          /\ currentTerm' = [currentTerm EXCEPT ![n] = term]
          /\ waiters' = [waiters EXCEPT ![n] = Append(@, [term |-> term, yes |-> 1])]
          /\ net' = net \cup Sent({[type |-> "claim", from |-> n, to |-> d,
                                    term |-> term] : d \in Node})
          /\ expectedLeaderID' = [expectedLeaderID EXCEPT ![n] = e]
          /\ UNCHANGED <<currentLeaderID, expired>>
     ELSE /\ IF hp = None
             THEN /\ expectedLeaderID' = [expectedLeaderID EXCEPT ![n] = e]
                  /\ UNCHANGED <<currentLeaderID, expired>>
             ELSE /\ expectedLeaderID' = [expectedLeaderID EXCEPT ![n] = hp]
                  /\ currentLeaderID' = [currentLeaderID EXCEPT ![n] = None]
                  /\ expired' = [expired EXCEPT ![n] = FALSE]
          /\ UNCHANGED <<state, currentTerm, waiters, net, claims>>

\* The node x is about to claim or to lead.
Coming(x) ==
  /\ up[x]
  /\ \/ currentLeaderID[x] # None \/ expectedLeaderID[x] # None
     \/ state[x] = "ClaimingLeader"

\* checkHeartbeat on another node, of which a claiming one does nothing: the
\* expected leader is overdue ...
CheckExpected(n) ==
  LET x == expectedLeaderID[n] IN
  /\ up[n] /\ state[n] \in {"Follower", "Syncing"} /\ x # None
  /\ Prompt => Quiet /\ ~Coming(x)
  /\ IF state[n] = "Follower"
     THEN SelectNewLeader(n, alive[n] \ {x}, None)
     ELSE /\ alive' = [alive EXCEPT ![n] = @ \ {x}]
          /\ expectedLeaderID' = [expectedLeaderID EXCEPT ![n] = None]
          /\ UNCHANGED <<state, currentTerm, currentLeaderID, expired, waiters, net, claims>>
  /\ UNCHANGED <<up, beats, evals, syncing, votes, failures>>

\* ... or the heartbeats of the known leader are (selectNewLeader does nothing
\* while the node syncs).
CheckTimeout(n) ==
  /\ up[n] /\ state[n] = "Follower"
  /\ expired[n] /\ currentLeaderID[n] # None
  /\ SelectNewLeader(n, alive[n], expectedLeaderID[n])
  /\ UNCHANGED <<up, beats, evals, syncing, votes, failures>>

-----------------------------------------------------------------------------
(* Claims *)

\* Node n says YES to a claim: it follows the claimer, in the claimed term.
Accept_KeepsTerm(n, claimer, term) ==
  /\ currentLeaderID' = [currentLeaderID EXCEPT ![n] = claimer]
  /\ expired' = [expired EXCEPT ![n] = FALSE]
  /\ votes' = votes \cup {[voter |-> n, claimer |-> claimer, term |-> term]}
  /\ UNCHANGED currentTerm

Accept(n, claimer, term) ==
  /\ currentLeaderID' = [currentLeaderID EXCEPT ![n] = claimer]
  /\ currentTerm' = [currentTerm EXCEPT ![n] = term]
  /\ expired' = [expired EXCEPT ![n] = FALSE]
  /\ votes' = votes \cup {[voter |-> n, claimer |-> claimer, term |-> term]}

\* handleIAmNewLeader: whoever expects a leader accepts its claim, of whatever
\* term, and no other.  Without expectation a leader or claimer says NO, and
\* another node evaluates the claim, at once if the claimer is its highest
\* alive member, else after waiting for its leader to time out.
ReceiveClaim(m) ==
  LET n == m.to
      expecting == expectedLeaderID[n] # None
      busy == state[n] \in {"Leader", "ClaimingLeader"}
      first == Highest(alive[n]) = m.from
      yes == IF expecting THEN m.from = expectedLeaderID[n]
             ELSE ~busy /\ first /\ m.term >= currentTerm[n]
      later == ~expecting /\ ~busy /\ ~first /\ alive[n] # {}
  IN
  /\ m.type = "claim" /\ up[n]
  /\ IF yes THEN Accept(n, m.from, m.term)
     ELSE UNCHANGED <<currentLeaderID, currentTerm, expired, votes>>
  /\ expectedLeaderID' = [expectedLeaderID EXCEPT ![n] = IF yes THEN None ELSE @]
  /\ evals' = [evals EXCEPT ![n] =
       IF later THEN @ \cup {[claimer |-> m.from, term |-> m.term]} ELSE @]
  /\ net' = (net \ {m}) \cup
       (IF later THEN {} ELSE Sent({Ack(n, m.from, m.term, yes)}))
  /\ UNCHANGED <<up, state, alive, beats, waiters, syncing, bounds>>

\* The members n believes alive once it has waited: not a leader still silent.
Remaining_All(n) == alive[n]
Remaining(n) ==
  IF expired[n] THEN alive[n] \ {currentLeaderID[n]} ELSE alive[n]

\* evaluateAndAckLeaderClaim after its wait; the state is not looked at again.
\* Without an expired timer a heartbeat has come meanwhile.
Evaluate(n, e) ==
  LET A == Remaining(n)
      yes == Highest(A) = e.claimer /\ e.term >= currentTerm[n]
  IN
  /\ up[n]
  /\ Prompt => expired[n] \/ currentLeaderID[n] = None \/ Kept(n)
  /\ alive' = [alive EXCEPT ![n] = A]
  /\ IF yes THEN Accept(n, e.claimer, e.term)
     ELSE UNCHANGED <<currentLeaderID, currentTerm, expired, votes>>
  /\ evals' = [evals EXCEPT ![n] = @ \ {e}]
  /\ net' = net \cup Sent({Ack(n, e.claimer, e.term, yes)})
  /\ UNCHANGED <<up, state, expectedLeaderID, beats, waiters, syncing, bounds>>

\* What the waiter w of a claim counts.
Counts_AnyAnswer(m, w) == m.term = w.term
Counts(m, w) == m.accept /\ m.term = w.term

\* waitForLeaderClaimAcks: a waiter takes an answer from the channel.
CollectAck(n, i, m) ==
  /\ m.type = "ack" /\ m.to = n /\ up[n]
  /\ waiters' = [waiters EXCEPT ![n][i].yes =
                   IF Counts(m, waiters[n][i]) THEN @ + 1 ELSE @]
  /\ net' = net \ {m}
  /\ UNCHANGED <<up, nodeVars, alive, beats, evals, syncing, votes, bounds>>

Ended(n, i) == SubSeq(waiters[n], 1, i - 1) \o SubSeq(waiters[n], i + 1, Len(waiters[n]))

\* An answer to the claim n made under a term is still to come.
Pending(n, term) ==
  \/ \E m \in net : /\ m.type \in {"claim", "ack"} /\ m.term = term
                    /\ up[m.to] /\ n = IF m.type = "claim" THEN m.from ELSE m.to
  \/ \E d \in Node : up[d] /\ [claimer |-> n, term |-> term] \in evals[d]

\* finishClaim, with a majority at the next tick, without one at the timeout;
\* a node that is no longer claiming, or in another term, ignores it.
FinishClaim(n, i) ==
  LET w == waiters[n][i]
      won == w.yes >= Majority
  IN
  /\ up[n]
  /\ Prompt => won \/ ~Pending(n, w.term)
  /\ waiters' = [waiters EXCEPT ![n] = Ended(n, i)]
  /\ IF state[n] = "ClaimingLeader" /\ currentTerm[n] = w.term
     THEN /\ state' = [state EXCEPT ![n] = IF won THEN "Leader" ELSE "Follower"]
          /\ currentTerm' = [currentTerm EXCEPT ![n] = IF won THEN @ ELSE @ - 1]
          /\ currentLeaderID' = [currentLeaderID EXCEPT ![n] = IF won THEN n ELSE None]
     ELSE UNCHANGED <<state, currentTerm, currentLeaderID>>
  /\ UNCHANGED <<up, expectedLeaderID, expired, alive, beats, evals, syncing, net,
                 votes, bounds>>

-----------------------------------------------------------------------------
(* Heartbeats and membership *)

\* StartSync: a node that leads or syncs already does not.
StartSync(n) ==
  /\ syncing' = [syncing EXCEPT ![n] = TRUE]
  /\ state' = [state EXCEPT ![n] = IF syncing[n] THEN "Follower" ELSE "Syncing"]

\* handleHeartbeat.  A stale one is answered with the own term and leader; any
\* other makes its sender the leader, whatever the receiver is.  After a long
\* gap a follower syncs.
ReceiveHeartbeat(b) ==
  LET n == b.to IN
  /\ up[n]
  /\ Prompt => /\ up[b.from] /\ state[b.from] = "Leader"
               /\ currentTerm[b.from] = b.term /\ n \in alive[b.from]
  /\ IF b.term < currentTerm[n]
     THEN /\ net' = net \cup Sent({[type |-> "response", from |-> n, to |-> b.from,
                term |-> currentTerm[n], leader |-> currentLeaderID[n], alive |-> alive[n]]})
          /\ UNCHANGED <<nodeVars, alive, syncing>>
     ELSE /\ currentTerm' = [currentTerm EXCEPT ![n] = b.term]
          /\ currentLeaderID' = [currentLeaderID EXCEPT ![n] = b.from]
          /\ expectedLeaderID' = [expectedLeaderID EXCEPT ![n] = None]
          /\ expired' = [expired EXCEPT ![n] = FALSE]
          /\ alive' = [alive EXCEPT ![n] = @ \cup {b.from}]
          /\ \/ /\ state' = [state EXCEPT ![n] =
                     IF @ \in {"Leader", "ClaimingLeader"} THEN "Follower" ELSE @]
                /\ UNCHANGED syncing
             \/ (expired[n] \/ state[n] = "Leader") /\ state[n] # "Syncing" /\ StartSync(n)
          /\ UNCHANGED net
  /\ UNCHANGED <<up, beats, waiters, evals, votes, bounds>>

\* handleHeartbeatResponse: a stale leader or claimer steps down, takes over
\* the answer's membership, asks the new leader to join and syncs.
ReceiveResponse(m) ==
  LET n == m.to IN
  /\ m.type = "response" /\ up[n]
  /\ IF /\ state[n] \in {"Leader", "ClaimingLeader"}
        /\ m.term > currentTerm[n]
        /\ m.leader \notin {None, n}
     THEN /\ currentTerm' = [currentTerm EXCEPT ![n] = m.term]
          /\ currentLeaderID' = [currentLeaderID EXCEPT ![n] = m.leader]
          /\ expectedLeaderID' = [expectedLeaderID EXCEPT ![n] = None]
          /\ expired' = [expired EXCEPT ![n] = FALSE]
          /\ alive' = [alive EXCEPT ![n] = m.alive \cup {n}]
          /\ StartSync(n)
          /\ net' = (net \ {m}) \cup Sent({[type |-> "join", from |-> n, to |-> m.leader]})
     ELSE net' = net \ {m} /\ UNCHANGED <<nodeVars, alive, syncing>>
  /\ UNCHANGED <<up, beats, waiters, evals, votes, bounds>>

\* handleMembershipUpdate: a leader's view, unless it is of an older term ...
ReceiveUpdate(m) ==
  LET n == m.to IN
  /\ m.type = "update" /\ up[n]
  /\ alive' = [alive EXCEPT ![n] = IF m.term >= currentTerm[n] THEN m.alive ELSE @]
  /\ net' = net \ {m}
  /\ UNCHANGED <<up, nodeVars, beats, waiters, evals, syncing, votes, bounds>>

\* ... or a request to join, which only a leader answers.
ReceiveJoin(m) ==
  LET n == m.to
      A == alive[n] \cup {m.from}
  IN
  /\ m.type = "join" /\ up[n]
  /\ IF state[n] = "Leader"
     THEN /\ alive' = [alive EXCEPT ![n] = A]
          /\ net' = (net \ {m}) \cup Sent(Updates(n, A)) \cup
               Sent({[type |-> "joined", from |-> n, to |-> m.from,
                      term |-> currentTerm[n], alive |-> A]})
     ELSE net' = net \ {m} /\ UNCHANGED alive
  /\ UNCHANGED <<up, nodeVars, beats, waiters, evals, syncing, votes, bounds>>

\* handleMembershipAck: the sender is the leader and its term the term; a node
\* that leads goes on leading unless the sender has the highest priority.  A
\* node without blocks syncs.
ReceiveJoined(m) ==
  LET n == m.to
      leads == state[n] = "Leader" /\ Highest(m.alive) # m.from
  IN
  /\ m.type = "joined" /\ up[n]
  /\ alive' = [alive EXCEPT ![n] = m.alive]
  /\ currentLeaderID' = [currentLeaderID EXCEPT ![n] = m.from]
  /\ currentTerm' = [currentTerm EXCEPT ![n] = m.term]
  /\ expired' = [expired EXCEPT ![n] = FALSE]
  /\ \/ /\ state' = [state EXCEPT ![n] = IF leads THEN @ ELSE "Follower"]
        /\ UNCHANGED syncing
     \/ ~leads /\ Cardinality(m.alive) >= 2 /\ StartSync(n)
  /\ net' = net \ {m}
  /\ UNCHANGED <<up, expectedLeaderID, beats, waiters, evals, votes, bounds>>

-----------------------------------------------------------------------------
(* Sync and crash *)

ExitSync(n) ==
  /\ up[n] /\ syncing[n]
  /\ syncing' = [syncing EXCEPT ![n] = FALSE]
  /\ state' = [state EXCEPT ![n] = IF @ = "Syncing" THEN "Follower" ELSE @]
  /\ expired' = [expired EXCEPT ![n] = FALSE]
  /\ UNCHANGED <<up, currentTerm, currentLeaderID, expectedLeaderID, alive,
                 beats, waiters, evals, net, votes, bounds>>

\* A node stops for good: restarted, it would be a new member.
Crash(n) ==
  /\ up[n] /\ n \in Mortal
  /\ up' = [up EXCEPT ![n] = FALSE]
  /\ UNCHANGED <<nodeVars, alive, beats, waiters, evals, syncing, net, votes, bounds>>

-----------------------------------------------------------------------------
Init ==
  /\ up = [n \in Node |-> TRUE]
  /\ state = [n \in Node |-> IF n = Boot THEN "Leader" ELSE "Follower"]
  /\ currentTerm = [n \in Node |-> 0]
  /\ currentLeaderID = [n \in Node |-> Boot]
  /\ expectedLeaderID = [n \in Node |-> None]
  /\ expired = [n \in Node |-> FALSE]
  /\ alive = [n \in Node |-> Node]
  /\ beats = {}
  /\ waiters = [n \in Node |-> <<>>]
  /\ evals = [n \in Node |-> {}]
  /\ syncing = [n \in Node |-> FALSE]
  /\ net = {}
  /\ votes = {}
  /\ claims = <<>>
  /\ failures = 0

Timer(n) == Expire(n) \/ SendHeartbeat(n) \/ CheckExpected(n) \/ CheckTimeout(n)

Claim(n) ==
  \/ \E e \in evals[n] : Evaluate(n, e)
  \/ \E i \in DOMAIN waiters[n] : FinishClaim(n, i)
  \/ \E i \in DOMAIN waiters[n], m \in net : CollectAck(n, i, m)

Receive(m) ==
  \/ ReceiveClaim(m) \/ ReceiveResponse(m) \/ ReceiveUpdate(m)
  \/ ReceiveJoin(m) \/ ReceiveJoined(m)

Step(n) == Timer(n) \/ Claim(n) \/ ExitSync(n)

Next ==
  \/ \E n \in Node : Step(n) \/ Crash(n)
  \/ \E n, d \in Node : SendFails(n, d)
  \/ \E m \in net : Receive(m)
  \/ \E b \in beats : ReceiveHeartbeat(b)

Spec == Init /\ [][Next]_vars

\* Every goroutine that can step does, and messages to a node that runs arrive.
Fairness == \A n \in Node :
  /\ WF_vars(Step(n))
  /\ WF_vars(\E m \in net : m.to = n /\ Receive(m))
  /\ WF_vars(\E b \in beats : b.to = n /\ ReceiveHeartbeat(b))

FairSpec == Spec /\ Fairness

-----------------------------------------------------------------------------
(* Properties *)

\* Every variable has its type: in particular a term never falls below 0, though
\* finishClaim decrements it and membership acks overwrite it.
TypeOK ==
  /\ up \in [Node -> BOOLEAN]
  /\ state \in [Node -> {"Follower", "ClaimingLeader", "Leader", "Syncing"}]
  /\ currentTerm \in [Node -> Nat]
  /\ currentLeaderID \in [Node -> Node \cup {None}]
  /\ expectedLeaderID \in [Node -> Node \cup {None}]
  /\ expired \in [Node -> BOOLEAN]
  /\ alive \in [Node -> SUBSET Node]
  /\ beats \subseteq Heartbeat
  /\ waiters \in [Node -> Seq([term : Nat \ {0}, yes : Nat])]
  /\ evals \in [Node -> SUBSET Eval]
  /\ syncing \in [Node -> BOOLEAN]
  /\ net \subseteq Message
  /\ votes \subseteq Vote
  /\ claims \in Seq(Eval) /\ Len(claims) <= MaxClaims
  /\ failures \in 0..MaxFailures

\* For the log the election is what Succession says, with a syncing node as a
\* syncing one whatever its state: in particular whoever becomes leader has the
\* YES of a majority for its term, which waitForLeaderClaimAcks counts by
\* messages, not voters, from a channel that other claims use too, and no node
\* takes a term or a leader over from anywhere else.
S == INSTANCE Succession WITH
       state <- [n \in Node |-> IF syncing[n] THEN "Syncing" ELSE state[n]],
       claimed <- {claims[i] : i \in DOMAIN claims}

Succeeds == S!Spec

\* While a deposed leader has not noticed, a majority is in its successor's
\* term or a later one and has left it for good.
Outvoted == \A m, n \in Node :
  state[m] = "Leader" /\ state[n] = "Leader" /\ currentTerm[m] < currentTerm[n] =>
    Cardinality({d \in Node : currentTerm[d] >= currentTerm[n]}) >= Majority

\* Two nodes that run never lead in the same term, in which each would take the
\* other's heartbeats for its leader's.
OneLeaderPerTerm == \A m, n \in Node :
  /\ up[m] /\ up[n]
  /\ state[m] = "Leader" /\ state[n] = "Leader" /\ currentTerm[m] = currentTerm[n]
  => m = n

\* If a majority runs, one of it leads in the end, for good, and all that run
\* follow it: after a leader has stopped (README.md:359, 367), and after a member
\* could not be reached for a while (TC001_F1_network_isolation.md:260-265).
LeaderReturns == <>[](Cardinality({n \in Node : up[n]}) >= Majority =>
  \E l \in Node : /\ up[l] /\ state[l] = "Leader"
                  /\ \A n \in Node : up[n] => currentLeaderID[n] = l)
=============================================================================
