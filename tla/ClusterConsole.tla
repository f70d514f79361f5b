---------------------------- MODULE ClusterConsole ----------------------------
(***************************************************************************)
(* The orchestrator's web console: the manager's table of nodes, the       *)
(* events it and the nodes publish, and one browser's picture of them,     *)
(* made of the answers to GET /api/nodes, of the events of its WebSocket   *)
(* and of what its own forms write.  Other browsers operate the cluster,   *)
(* too.  What the nodes do among themselves is LeaderElection's matter:    *)
(* here a node changes its state when it likes.  Terms, heartbeats, logs   *)
(* and the selection of a node are left out.                               *)
(***************************************************************************)
EXTENDS Naturals, Sequences, FiniteSets, Functions

CONSTANTS
  Ports,      \* a node is known by its port
  States,     \* of a node; "Follower" and "Leader" among them
  QueueCap,   \* events that wait for one socket, 256 in the code
  MaxOps,     \* bound: what users start
  MaxMoves,   \* bound: changes of state inside the cluster
  MaxCloses   \* bound: sockets lost

ASSUME KnownStates == {"Follower", "Leader"} \subseteq States /\ "absent" \notin States
ASSUME Bounds == {QueueCap, MaxOps, MaxMoves, MaxCloses} \subseteq Nat

VARIABLES
  nodes,      \* the manager's nodes: port |-> state of the raft node
  joined,     \* ports of the nodes that are members of a cluster
  outside,    \* nodes AddNode goes on with outside of a cluster that had a leader
  ops,        \* what has been asked of the manager and not been answered
  emits,      \* changes of state that have not been published yet
  open,       \* the socket is connected and subscribed
  queue,      \* the events on their way to this browser
  view,       \* the browser's nodes: port |-> state shown
  lists,      \* its GET /api/nodes that have not been answered
  asked, moves, closes,   \* counters for the bounds
  doubt       \* ports that may be shown wrongly, and why is known

vars == <<nodes, joined, outside, ops, emits, open, queue, view, lists,
          asked, moves, closes, doubt>>

Empty == [p \in {} |-> "Follower"]
Put(f, p, s) == [q \in DOMAIN f \cup {p} |-> IF q = p THEN s ELSE f[q]]
Drop(f, p) == Restrict(f, DOMAIN f \ {p})
At(f, p) == IF p \in DOMAIN f THEN f[p] ELSE "absent"

Event(type, p, s) == [type |-> type, port |-> p, to |-> s, now |-> At(nodes', p)]

\* An event that says what was no longer, or not yet, so when it was published.
Outdated(e) == e.now # (IF e.type = "node-removed" THEN "absent" ELSE e.to)

PortsOf(events) == {events[i].port : i \in DOMAIN events}

Missed(ls, ports) ==
  {IF l.at = "asked" THEN l ELSE [l EXCEPT !.missed = @ \cup ports] : l \in ls}

\* Publish: to the browser's channel, unless it is full or nobody listens.
Room_NoLimit == open
Room == open /\ Len(queue) < QueueCap

Publish(e) ==
  /\ queue' = IF Room THEN Append(queue, e) ELSE queue
  /\ lists' = IF Room THEN lists ELSE Missed(lists, {e.port})
  /\ doubt' = IF Room /\ ~Outdated(e) THEN doubt ELSE doubt \cup {e.port}

Silent == UNCHANGED <<queue, lists, doubt>>

(* --- Users -------------------------------------------------------------- *)

Ask(kind, p, mine, seen) ==
  /\ asked < MaxOps
  /\ asked' = asked + 1
  /\ ops' = ops \cup {[id |-> asked', kind |-> kind, port |-> p, mine |-> mine,
                       at |-> "asked", seen |-> seen]}
  /\ UNCHANGED <<nodes, joined, outside, emits, open, view, moves, closes>>
  /\ Silent

\* This browser's buttons: create while it shows no node, add while it shows
\* one, stop and configure a node that it shows.
Create(p) == view = Empty /\ Ask("create", p, TRUE, Empty)
Add(p) == view # Empty /\ Ask("add", p, TRUE, Empty)
Remove(p) == p \in DOMAIN view /\ Ask("remove", p, TRUE, Empty)
Configure(p) == p \in DOMAIN view /\ Ask("config", p, TRUE, view)

Elsewhere(kind, p) == Ask(kind, p, FALSE, Empty)

(* --- The manager -------------------------------------------------------- *)

Advance(o, at) == ops' = (ops \ {o}) \cup {[o EXCEPT !.at = at]}
Answer(o) == ops' = ops \ {o}

\* The port is taken in the table, or still by a node that is being stopped.
Taken(p) == p \in DOMAIN nodes
            \/ \E r \in ops : r.kind = "remove" /\ r.port = p /\ r.at = "deleted"

Refuse(o) ==
  /\ o.at = "asked"
  /\ o.kind \in {"create", "add"} => Taken(o.port)
  /\ o.kind \in {"remove", "config"} => o.port \notin DOMAIN nodes
  /\ Answer(o)
  /\ UNCHANGED <<nodes, joined, outside, emits, open, view, asked, moves, closes>>
  /\ Silent

\* spawnNode: the new node is in the table at once, as a follower of nobody.
Spawn(o) ==
  /\ o.kind \in {"create", "add"} /\ o.at = "asked"
  /\ o.port \notin DOMAIN nodes
  /\ nodes' = Put(nodes, o.port, "Follower")
  /\ Advance(o, "spawned")
  /\ UNCHANGED <<joined, outside, emits, open, view, asked, moves, closes>>
  /\ Silent

\* The port of the node that o has spawned, unless it has been removed meanwhile.
Here(o) == {p \in {o.port} : o.at = "spawned"}

\* BootstrapAsLeader publishes the new state, of a node no browser knows yet.
Bootstrap(o) ==
  /\ o.kind = "create" /\ o.at \in {"spawned", "orphaned"}
  /\ IF o.at = "spawned"
       THEN nodes' = Put(nodes, o.port, "Leader") /\ joined' = joined \cup {o.port}
       ELSE UNCHANGED <<nodes, joined>>
  /\ Advance(o, "ready")
  /\ Publish(Event("state-changed", o.port, "Leader"))
  /\ UNCHANGED <<outside, emits, open, view, asked, moves, closes>>

\* findAnyNodeAddress takes any node of the table, the new one included, which
\* cannot dial itself; nor does JoinCluster succeed by a node that is in no
\* cluster, or when no leader turns up.  Either way AddNode goes on.
Led == \E l \in joined : nodes[l] = "Leader"
Joins(o, via) == via # o.port /\ via \in joined /\ Led

Join(o) ==
  /\ o.kind = "add" /\ o.at \in {"spawned", "orphaned"}
  /\ \E via \in DOMAIN nodes \cup {o.port} :
       /\ joined' = IF Joins(o, via) THEN joined \cup Here(o) ELSE joined
       /\ outside' = IF Joins(o, via) \/ ~Led THEN outside ELSE outside \cup Here(o)
  /\ Advance(o, "ready")
  /\ UNCHANGED <<nodes, emits, open, view, asked, moves, closes>>
  /\ Silent

\* node-added, then the answer, after which the browser asks for the list.
Announce(o) ==
  /\ o.kind \in {"create", "add"} /\ o.at = "ready"
  /\ Advance(o, "announced")
  /\ UNCHANGED nodes
  /\ Publish(Event("node-added", o.port, "Follower"))
  /\ UNCHANGED <<joined, outside, emits, open, view, asked, moves, closes>>

Answered(o) ==
  /\ o.at = "announced"
  /\ Answer(o)
  /\ lists' = IF o.mine THEN lists \cup {[id |-> o.id, at |-> "asked", nodes |-> Empty,
                                          behind |-> 0, missed |-> {}]}
                        ELSE lists
  /\ UNCHANGED <<nodes, joined, outside, emits, open, queue, view, asked, moves,
                 closes, doubt>>

\* RemoveNode takes the node of whoever has just spawned it, too.
Orphaned(x, p) ==
  IF x.port = p /\ x.at = "spawned" THEN [x EXCEPT !.at = "orphaned"] ELSE x

Delete(o) ==
  /\ o.kind = "remove" /\ o.at = "asked" /\ o.port \in DOMAIN nodes
  /\ nodes' = Drop(nodes, o.port)
  /\ joined' = joined \ {o.port}
  /\ outside' = outside \ {o.port}
  /\ ops' = {Orphaned(x, o.port) : x \in ops \ {o}} \cup {[o EXCEPT !.at = "deleted"]}
  /\ UNCHANGED <<emits, open, view, asked, moves, closes>>
  /\ Silent

AnnounceRemoved(o) ==
  /\ o.kind = "remove" /\ o.at = "deleted"
  /\ Answer(o)
  /\ UNCHANGED nodes
  /\ Publish(Event("node-removed", o.port, "absent"))
  /\ UNCHANGED <<joined, outside, emits, open, view, asked, moves, closes>>

UpdateConfig(o) ==
  /\ o.kind = "config" /\ o.at = "asked" /\ o.port \in DOMAIN nodes
  /\ Advance(o, "updated")
  /\ UNCHANGED <<nodes, joined, outside, emits, open, view, asked, moves, closes>>
  /\ Silent

\* GetNodes: one snapshot of the table.
ServeList(l) ==
  /\ l.at = "asked"
  /\ lists' = (lists \ {l}) \cup {[l EXCEPT !.at = "served", !.nodes = nodes,
                                            !.behind = Len(queue)]}
  /\ UNCHANGED <<nodes, joined, outside, ops, emits, open, queue, view, asked,
                 moves, closes, doubt>>

(* --- The cluster -------------------------------------------------------- *)

\* A node changes its state under its lock ...
Move(p, s) ==
  /\ moves < MaxMoves
  /\ moves' = moves + 1
  /\ p \in joined /\ nodes[p] # s
  /\ nodes' = [nodes EXCEPT ![p] = s]
  /\ emits' = emits \cup {[id |-> moves', port |-> p, to |-> s]}
  /\ UNCHANGED <<joined, outside, ops, open, view, asked, closes>>
  /\ Silent

\* ... and says so when the lock is released, often in a goroutine of its own.
Emit(m) ==
  /\ emits' = emits \ {m}
  /\ UNCHANGED nodes
  /\ Publish(Event("state-changed", m.port, m.to))
  /\ UNCHANGED <<joined, outside, ops, open, view, asked, moves, closes>>

(* --- The browser -------------------------------------------------------- *)

Open ==
  /\ ~open
  /\ open' = TRUE
  /\ UNCHANGED <<nodes, joined, outside, ops, emits, view, asked, moves, closes>>
  /\ Silent

\* The socket breaks; what was under way is lost, and nothing is fetched again.
Close ==
  /\ open /\ closes < MaxCloses
  /\ closes' = closes + 1
  /\ open' = FALSE
  /\ queue' = <<>>
  /\ lists' = {IF l.at = "asked" THEN l
               ELSE [l EXCEPT !.behind = 0, !.missed = @ \cup
                       PortsOf(SubSeq(queue, l.behind + 1, Len(queue)))] : l \in lists}
  /\ doubt' = doubt \cup PortsOf(queue)
  /\ UNCHANGED <<nodes, joined, outside, ops, emits, view, asked, moves>>

\* handleEvent; a change of state of a node not shown is ignored.
After_NeverRemoved(e) ==
  CASE e.type = "node-added" -> Put(view, e.port, "Follower")
    [] e.type = "node-removed" -> view
    [] e.type = "state-changed" /\ e.port \in DOMAIN view -> Put(view, e.port, e.to)
    [] OTHER -> view
After(e) ==
  CASE e.type = "node-added" -> Put(view, e.port, "Follower")
    [] e.type = "node-removed" -> Drop(view, e.port)
    [] e.type = "state-changed" /\ e.port \in DOMAIN view -> Put(view, e.port, e.to)
    [] OTHER -> view

HandleEvent ==
  /\ queue # <<>>
  /\ queue' = Tail(queue)
  /\ view' = After(Head(queue))
  /\ lists' = {IF l.at = "asked" THEN l
               ELSE IF l.behind > 0 THEN [l EXCEPT !.behind = @ - 1]
               ELSE [l EXCEPT !.missed = @ \cup {Head(queue).port}] : l \in lists}
  /\ UNCHANGED <<nodes, joined, outside, ops, emits, open, asked, moves, closes, doubt>>

\* setNodeList: the answer replaces what is shown, whatever has been handled since.
NodeList(answer) == answer

SetNodeList(l) ==
  /\ l.at = "served"
  /\ lists' = lists \ {l}
  /\ view' = NodeList(l.nodes)
  /\ doubt' = l.missed \cup (IF l.behind > 0 THEN doubt
                             ELSE {e.port : e \in {f \in Range(queue) : Outdated(f)}})
  /\ UNCHANGED <<nodes, joined, outside, ops, emits, open, queue, asked, moves, closes>>

ListFails(l) ==
  /\ lists' = lists \ {l}
  /\ UNCHANGED <<nodes, joined, outside, ops, emits, open, queue, view, asked,
                 moves, closes, doubt>>

\* ConfigPanel writes back the nodes it showed when its button was clicked.
Configured(o) ==
  /\ o.kind = "config" /\ o.at = "updated"
  /\ Answer(o)
  /\ view' = o.seen
  /\ doubt' = doubt \cup {p \in Ports : At(o.seen, p) # At(view, p)}
  /\ UNCHANGED <<nodes, joined, outside, emits, open, queue, lists, asked, moves, closes>>

(* --- The specification -------------------------------------------------- *)

\* A page just loaded, on an empty manager or on one with a network.
Init ==
  /\ \/ nodes = Empty
     \/ \E p \in Ports : nodes = Put(Empty, p, "Leader")
  /\ joined = DOMAIN nodes /\ outside = {}
  /\ ops = {} /\ emits = {}
  /\ open = FALSE /\ queue = <<>>
  /\ view = Empty
  /\ lists = {[id |-> 0, at |-> "asked", nodes |-> Empty, behind |-> 0, missed |-> {}]}
  /\ asked = 0 /\ moves = 0 /\ closes = 0
  /\ doubt = DOMAIN nodes

Manage(o) ==
  \/ Refuse(o) \/ Spawn(o) \/ Bootstrap(o) \/ Join(o) \/ Announce(o) \/ Answered(o)
  \/ Delete(o) \/ AnnounceRemoved(o) \/ UpdateConfig(o) \/ Configured(o)

Next ==
  \/ \E p \in Ports : \/ Create(p) \/ Add(p) \/ Remove(p) \/ Configure(p)
                      \/ \E kind \in {"create", "add", "remove"} : Elsewhere(kind, p)
                      \/ \E s \in States : Move(p, s)
  \/ \E o \in ops : Manage(o)
  \/ \E m \in emits : Emit(m)
  \/ \E l \in lists : ServeList(l) \/ SetNodeList(l) \/ ListFails(l)
  \/ Open \/ Close \/ HandleEvent

Spec == Init /\ [][Next]_vars

(* --- Properties --------------------------------------------------------- *)

PartialNodes == UNION {[P -> States] : P \in SUBSET Ports}

\* Every variable has its type; the channel holds no more than it can.
TypeOK ==
  /\ nodes \in PartialNodes /\ view \in PartialNodes
  /\ joined \subseteq DOMAIN nodes /\ outside \subseteq DOMAIN nodes \ joined
  /\ Len(queue) <= QueueCap /\ PortsOf(queue) \subseteq Ports
  /\ \A o \in ops : o.id \in 1..asked /\ o.port \in Ports
  /\ \A l \in lists : l.nodes \in PartialNodes /\ l.behind <= Len(queue)
  /\ doubt \subseteq Ports

\* Nothing is under way between the manager, the cluster and the browser.
Settled ==
  /\ queue = <<>> /\ emits = {}
  /\ \A o \in ops : o.at \notin {"spawned", "orphaned", "ready", "deleted"}

\* The browser shows the nodes there are, in the states they are in, except for
\* a port about which, since the last list that came with no older event behind
\* it was made, an event was lost (socket down, channel full), published out of
\* date, handled before a list that did not know it, or undone by the
\* configuration form (setNodeList, handleEvent).
ShowsTheCluster ==
  Settled => \A p \in Ports \ doubt : At(view, p) = At(nodes, p)

\* While there is a cluster with a leader, AddNode goes on only with a node that
\* has joined it ("creates a follower node and joins it to the existing cluster").
AddedNodesJoin == outside = {}
===============================================================================
