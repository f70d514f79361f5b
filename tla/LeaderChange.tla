---------------------------- MODULE LeaderChange ----------------------------
(***************************************************************************)
(* Leader changes and the ledger (internal/raft): the replication of        *)
(* BlockReplication among nodes whose role, term and leader come from       *)
(* Succession.  No election compares logs or blocks, and nothing tells the  *)
(* goroutines of a deposed leader: its waiter goes on taking the acks that  *)
(* reach it and commits under whatever term the node is in by then, and its *)
(* loop, if it has just looked at the state, proposes one more block.       *)
(*                                                                         *)
(* A message that would change nothing on arrival counts as lost, and so do *)
(* all messages of a node that has stopped.  A node that forgets its leader *)
(* while it expects a claim is one whose leader's messages are lost.  None  *)
(* is no member.                                                            *)
(***************************************************************************)
EXTENDS BlockReplication

CONSTANTS
  Priority,    \* per node: its place in the order of joining
  None,        \* no node (the empty peer.ID)
  MaxClaims    \* bound: claims that can be told apart

VARIABLES
  claimed,     \* every claim made so far
  votes,       \* every YES given so far
  late         \* deposed leaders whose loop is past its look at the state

electionVars == <<claimed, votes, late>>
allVars == <<vars, electionVars>>

S == INSTANCE Succession

-----------------------------------------------------------------------------
(* Elections *)

Succeed(n) ==
  \/ Cardinality(claimed) < MaxClaims /\ S!Claim(n) /\ UNCHANGED rejoins
  \/ (S!Win(n) \/ S!Lose(n)) /\ UNCHANGED rejoins
  \/ \E c \in claimed : (S!Accept(n, c) \/ S!StepDown(n, c)) /\ UNCHANGED rejoins
  \/ \E c \in S!Leaderships :
       \/ S!Hear(n, c.claimer, c.term) /\ UNCHANGED rejoins
       \/ /\ rejoins < MaxRejoins /\ S!HearAgain(n, c.claimer, c.term)
          /\ rejoins' = rejoins + 1

\* What the loop of a leader keeps when it is deposed: it may have seen a leader
\* and transactions just before.
Deposed(n) == state[n] = "Leader" /\ state'[n] # "Leader"
Keep(n) ==
  \/ UNCHANGED late
  \/ Deposed(n) /\ loop[n] = "ready" /\ TxPool[n] # {} /\ late' = late \cup {n}

Elect(n) ==
  /\ Succeed(n)
  /\ Keep(n)
  /\ UNCHANGED <<leaderVars, ledgerVars, clientVars, proposals, blockAcks, commits,
                 statuses>>

-----------------------------------------------------------------------------
(* Replication *)

\* Without a leader there is nobody to forward to.
Reaches(n) == state[n] = "Leader" \/ currentLeaderID[n] # None

\* The stream handler puts every ack into BlockAckChan, whatever the node is now.
Ledger(n) ==
  \/ \E s \in Submission : Reaches(n) /\ Submit(n, s)
  \/ \E m \in forwards : m.to = n /\ Reaches(n) /\ ReceiveForward(m)
  \/ Propose(n) \/ LoopTimeout(n)
  \/ \E w \in waiters[n] : Commit(n, w) \/ WaiterTimeout(n, w)
  \/ \E w \in waiters[n], m \in blockAcks : Counts(m, w.entry) /\ CollectAck(n, w, m)
  \/ \E m \in proposals : m.to = n /\
       (AcceptProposal(m) \/ (RejectProposal(m) /\ RaftLog'[n] # RaftLog[n]))
  \/ \E m \in commits : m.to = n /\ (ApplyCommit(m) \/ SyncOnCommit(m))
  \/ \E p \in Node : ReportStatus(n, p)
  \/ \E t \in Targets(statuses[n]), p, q \in Node : InstallSync(n, t, p, q)
  \/ AbortSync(n)

\* The loop of a deposed leader goes on where it was.
ProposeLate(n) ==
  /\ n \in late
  /\ ProposeBlock(n)
  /\ late' = late \ {n}
  /\ UNCHANGED <<claimed, votes>>

-----------------------------------------------------------------------------
ChangeInit ==
  /\ Init
  /\ claimed = {}
  /\ votes = {}
  /\ late = {}

ChangeNext == \E n \in Node :
  \/ Elect(n)
  \/ (Ledger(n) /\ UNCHANGED electionVars)
  \/ ProposeLate(n)

ChangeSpec == ChangeInit /\ [][ChangeNext]_allVars

-----------------------------------------------------------------------------
(* Properties *)

Committed == UNION {BlocksOf(n) : n \in Node}

\* The node that leads in the latest term led in.
Leads(n) ==
  /\ state[n] = "Leader"
  /\ \A m \in Node : state[m] = "Leader" => currentTerm[m] <= currentTerm[n]

\* Raft's leader completeness, for a service that calls itself an implementation
\* of Raft: whoever leads has in its log, at least, every block that any node has
\* committed, although HandleIAmNewLeader votes without a look at the logs.
LeadersComplete ==
  \A n \in Node : Leads(n) => \A b \in Committed : n \in Holders(b)

\* No two committed blocks, of whatever nodes, link to the same one: a deposed
\* leader's commits and its successor's make one chain.
NoFork == \A b, c \in Committed : b.prevHash = c.prevHash => b = c
=============================================================================
