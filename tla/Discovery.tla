----------------------------- MODULE Discovery -----------------------------
(***************************************************************************)
(* DiscoveryServer as a concurrent object: threads that call register_node *)
(* and update_relay_status, connection threads that serve POST /announce,  *)
(* the pruning thread, and WebSocket connections that are pushed the       *)
(* topology.  A broadcast takes its snapshot under nodes_mu_, releases it, *)
(* and only then takes ws_mu_ to send: the two are separate steps.         *)
(***************************************************************************)
EXTENDS Registry

CONSTANTS
    Threads,     \* threads that change the registry, each a caller at a time
    Pruner,      \* the pruning thread, one of Threads
    Clients,     \* WebSocket connections
    Regs,        \* calls of register_node: records key, host, status
    Announces,   \* bodies of POST /announce, likewise
    RelayCalls,  \* calls of update_relay_status: key, registered, fqdn
    MaxOps,      \* bound on the number of calls
    MaxJoins,    \* bound on the number of WebSocket upgrades
    NoView       \* a client that has received nothing

ASSUME DiscoveryAssumption ==
    /\ Pruner \in Threads
    /\ Threads \cap Clients = {}
    /\ Regs \subseteq [key : Keys, host : Hosts, status : Status]
    /\ Announces \subseteq [key : Keys, host : Hosts, status : Status]
    /\ RelayCalls \subseteq [key : Keys, registered : BOOLEAN,
                             fqdn : Hosts \cup {NoFqdn}]
    /\ MaxOps \in Nat /\ MaxJoins \in Nat
    /\ NoView \notin Views

VARIABLES
    nodes,       \* nodes_
    running,     \* running_
    todo,        \* broadcasts a thread has still to make
    snap,        \* the JSON a thread or connection has taken and not sent
    ws_clients,  \* ws_clients_
    conn,        \* what each connection's handler thread is doing
    fd,          \* is the connection's descriptor open
    view,        \* the last topology the client received
    overtaken,   \* (history) the topology changed after that JSON was taken
    late,        \* (history) the last JSON a client received was overtaken,
                 \* or a change was made since that is not broadcast
    ops, joins

vars == <<nodes, running, todo, snap, ws_clients, conn, fd, view, overtaken,
          late, ops, joins>>

Actor == Threads \cup Clients

TypeOK ==
    /\ nodes \in Nodes
    /\ running \in BOOLEAN
    /\ todo \in [Threads -> 0..2]
    /\ snap \in [Actor -> Views \cup {NoView}]
    /\ ws_clients \subseteq Clients
    /\ conn \in [Clients -> {"none", "upgrade", "joined", "snapped", "reading",
                             "closing"}]
    /\ fd \in [Clients -> {"open", "closed"}]
    /\ view \in [Clients -> Views \cup {NoView}]
    /\ overtaken \in [Actor -> BOOLEAN]
    /\ late \in [Clients -> BOOLEAN]
    /\ ops \in 0..MaxOps
    /\ joins \in 0..MaxJoins

Init ==
    /\ nodes = [k \in Keys |-> NoNode]
    /\ running = TRUE
    /\ todo = [t \in Threads |-> 0]
    /\ snap = [a \in Actor |-> NoView]
    /\ ws_clients = {}
    /\ conn = [c \in Clients |-> "none"]
    /\ fd = [c \in Clients |-> "closed"]
    /\ view = [c \in Clients |-> NoView]
    /\ overtaken = [a \in Actor |-> FALSE]
    /\ late = [c \in Clients |-> FALSE]
    /\ ops = 0
    /\ joins = 0

-----------------------------------------------------------------------------
(* Changing the registry *)

\* A thread is free when its last call has made all its broadcasts.
Free(t) == todo[t] = 0 /\ snap[t] = NoView

\* The registry becomes new, and the call owes a number of broadcasts.
Change(t, new, broadcasts) ==
    /\ Free(t)
    /\ nodes' = new
    /\ todo' = [todo EXCEPT ![t] = broadcasts]
    /\ overtaken' = [a \in Actor |->
                        \/ overtaken[a]
                        \/ snap[a] # NoView /\ Topology(new) # Topology(nodes)]
    /\ UNCHANGED <<running, snap, ws_clients, conn, fd, view, joins>>

Call(t) ==
    /\ t # Pruner
    /\ ops < MaxOps
    /\ ops' = ops + 1

IfNew(k) == IF Known(nodes, k) THEN 0 ELSE 1

\* register_node: only a node that joins is broadcast.  What an update
\* changes of a known node is not, and clients fall behind.
CallRegister(t, r) ==
    /\ Call(t)
    /\ Change(t, RegisterNode(nodes, r.key, r.host, r.status), IfNew(r.key))
    /\ late' = [c \in Clients |->
                   \/ late[c]
                   \/ Known(nodes, r.key) /\ Topology(nodes') # Topology(nodes)]

\* A bug: the new relay status is not broadcast.
CallRelayQuiet(t, r) ==
    /\ Call(t)
    /\ Change(t, UpdateRelayStatus(nodes, r.key, r.registered, r.fqdn), 0)
    /\ UNCHANGED late

\* update_relay_status: always broadcast.
CallRelay(t, r) ==
    /\ Call(t)
    /\ Change(t, UpdateRelayStatus(nodes, r.key, r.registered, r.fqdn), 1)
    /\ UNCHANGED late

\* handle_announce: register_node, the 200 reply, one more broadcast.
HandleAnnounce(t, r) ==
    /\ Call(t)
    /\ Change(t, RegisterNode(nodes, r.key, r.host, r.status),
              IfNew(r.key) + 1)
    /\ UNCHANGED late

\* One round of prune_loop.
Prune ==
    /\ Change(Pruner, PruneStale(nodes),
              IF \E k \in Keys : Stale(nodes, k) THEN 1 ELSE 0)
    /\ UNCHANGED <<ops, late>>

Tick ==
    /\ nodes' = GrowOlder(nodes)
    /\ nodes' # nodes
    /\ UNCHANGED <<running, todo, snap, ws_clients, conn, fd, view, overtaken,
                   late, ops, joins>>

-----------------------------------------------------------------------------
(* broadcast_topology *)

\* topology_json, under nodes_mu_.
Take(a) ==
    /\ snap' = [snap EXCEPT ![a] = Topology(nodes)]
    /\ UNCHANGED overtaken

\* The JSON held by a is written to the open descriptors among to.
Deliver(a, to) ==
    LET reached == {c \in to : fd[c] = "open"}
    IN  /\ snap' = [snap EXCEPT ![a] = NoView]
        /\ view' = [c \in Clients |-> IF c \in reached THEN snap[a]
                                                       ELSE view[c]]
        /\ late' = [c \in Clients |-> IF c \in reached THEN overtaken[a]
                                                       ELSE late[c]]
        /\ overtaken' = [overtaken EXCEPT ![a] = FALSE]

TakeSnapshot(t) ==
    /\ todo[t] > 0
    /\ snap[t] = NoView
    /\ Take(t)
    /\ UNCHANGED <<nodes, running, todo, ws_clients, conn, fd, view, late, ops,
                   joins>>

\* Every descriptor in ws_clients_ is written, under ws_mu_; the results of
\* the sends are ignored.
SendToAll(t) ==
    /\ snap[t] # NoView
    /\ todo' = [todo EXCEPT ![t] = @ - 1]
    /\ Deliver(t, ws_clients)
    /\ UNCHANGED <<nodes, running, ws_clients, conn, fd, ops, joins>>

-----------------------------------------------------------------------------
(* A WebSocket connection: handle_connection, then handle_ws_upgrade *)

Connection(c, from, to) ==
    /\ conn[c] = from
    /\ conn' = [conn EXCEPT ![c] = to]

Accept(c) ==
    /\ running
    /\ joins < MaxJoins
    /\ Connection(c, "none", "upgrade")
    /\ joins' = joins + 1
    /\ fd' = [fd EXCEPT ![c] = "open"]
    /\ UNCHANGED <<nodes, running, todo, snap, ws_clients, view, overtaken,
                   late, ops>>

\* The 101 reply, and push_back under ws_mu_.
Upgrade(c) ==
    /\ Connection(c, "upgrade", "joined")
    /\ ws_clients' = ws_clients \cup {c}
    /\ UNCHANGED <<nodes, running, todo, snap, fd, view, overtaken, late, ops,
                   joins>>

\* The initial topology: taken under nodes_mu_, sent under no lock.
JoinSnapshot(c) ==
    /\ Connection(c, "joined", "snapped")
    /\ Take(c)
    /\ UNCHANGED <<nodes, running, todo, ws_clients, fd, view, late, ops, joins>>

JoinSend(c) ==
    /\ Connection(c, "snapped", "reading")
    /\ Deliver(c, {c})
    /\ UNCHANGED <<nodes, running, todo, ws_clients, fd, ops, joins>>

\* A bug: the descriptor stays in ws_clients_.
LeaveListed(c) ==
    /\ Connection(c, "reading", "closing")
    /\ UNCHANGED <<nodes, running, todo, snap, ws_clients, fd, view, overtaken,
                   late, ops, joins>>

\* The read loop ends (the 5 second receive timeout, a close frame, the end
\* of the stream, or not running_): the descriptor is removed under ws_mu_ ...
Leave(c) ==
    /\ Connection(c, "reading", "closing")
    /\ ws_clients' = ws_clients \ {c}
    /\ UNCHANGED <<nodes, running, todo, snap, fd, view, overtaken, late, ops,
                   joins>>

\* ... and then closed.
Close(c) ==
    /\ Connection(c, "closing", "none")
    /\ fd' = [fd EXCEPT ![c] = "closed"]
    /\ view' = [view EXCEPT ![c] = NoView]
    /\ late' = [late EXCEPT ![c] = FALSE]
    /\ UNCHANGED <<nodes, running, todo, snap, ws_clients, overtaken, ops,
                   joins>>

\* stop, up to the joins: every listed descriptor is closed and the list
\* cleared under ws_mu_.  Handlers and callers may still be running.
Stop ==
    /\ running
    /\ running' = FALSE
    /\ fd' = [c \in Clients |-> IF c \in ws_clients THEN "closed" ELSE fd[c]]
    /\ ws_clients' = {}
    /\ UNCHANGED <<nodes, todo, snap, conn, view, overtaken, late, ops, joins>>

-----------------------------------------------------------------------------
Next ==
    \/ \E t \in Threads :
         \/ \E r \in Regs : CallRegister(t, r)
         \/ \E r \in RelayCalls : CallRelay(t, r)
         \/ \E r \in Announces : HandleAnnounce(t, r)
         \/ TakeSnapshot(t)
         \/ SendToAll(t)
    \/ Prune
    \/ Tick
    \/ Stop
    \/ \E c \in Clients : \/ Accept(c)
                          \/ Upgrade(c)
                          \/ JoinSnapshot(c)
                          \/ JoinSend(c)
                          \/ Leave(c)
                          \/ Close(c)

Spec == Init /\ [][Next]_vars

-----------------------------------------------------------------------------
(* Properties *)

\* A broadcast never writes to a descriptor that was closed, whose number the
\* system may have given to another connection: handlers take a descriptor
\* off the list before they close it, and stop does both under ws_mu_.
ListedAreOpen == \A c \in ws_clients : fd[c] = "open"

\* No call is between its change of the registry and its last broadcast.
AtRest == \A t \in Threads : Free(t)

Watching(c) == running /\ conn[c] = "reading"

\* Nothing is forgotten in broadcasting joins, relay updates, announcements
\* and prunings, nor in listing clients: when every call has finished, a
\* client sees the registry as it is, unless the last JSON it was sent had
\* been overtaken by a change between topology_json and the send, or a known
\* node has registered with something new since.
StaleOnlyIfOvertaken ==
    AtRest => \A c \in Clients :
                 Watching(c) /\ ~late[c] => view[c] = Topology(nodes)
=============================================================================
