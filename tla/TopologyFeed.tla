---------------------------- MODULE TopologyFeed ----------------------------
(***************************************************************************)
(* How the page follows the topology: the shared WebSocket of ws.ts with   *)
(* its reconnect timer, its two listeners (the terminal, and the drawing   *)
(* of the Join sheet once that was opened), and the discovery server's end *)
(* of the connection.  The server drops a client that sends nothing for 5  *)
(* seconds, and the page sends nothing but the commands typed into the     *)
(* terminal, which the server skips: a connection is a short life with a   *)
(* topology at its beginning.  What Discovery has of threads and locks     *)
(* is here the choice of when a snapshot is taken and sent, and of changes *)
(* that are not broadcast at all.                                          *)
(***************************************************************************)
EXTENDS Naturals, Sequences, FiniteSets

CONSTANTS
    Topologies,   \* what topology_json can show
    Empty,        \* the one without nodes
    Online,       \* for every topology the nodes it lists as online
    Threshold,    \* of topology_json, and of the drawing before it is fed
    MaxChanges,   \* bound on changes of the registry
    MaxBreaks     \* bound on failures of the network

ASSUME FeedAssumption ==
    /\ Empty \in Topologies
    /\ DOMAIN Online = Topologies /\ Online[Empty] = {}
    /\ \A t \in Topologies : IsFiniteSet(Online[t])
    /\ Threshold \in Nat
    /\ {"101", "fin"} \cap Topologies = {}
    /\ MaxChanges \in Nat /\ MaxBreaks \in Nat

VARIABLES
    topo,        \* the topology of the registry
    owed,        \* broadcasts that have not taken their JSON yet
    snaps,       \* JSON taken by broadcasts and not sent yet
    srv,         \* what the server's handler of this client is doing
    initial,     \* the JSON it took for the client
    net,         \* what is on its way to the client
    ready,       \* readyState of ws, "none" for null
    connected,   \* of ws.ts
    timer,       \* is reconnectTimer set
    term,        \* currentNodes of the terminal
    viz,         \* of the drawing: its subscriptions, currentNodes,
                 \* wsConnected, and the scene that was built last
    changes, breaks

vars == <<topo, owed, snaps, srv, initial, net, ready, connected, timer, term,
          viz, changes, breaks>>

server == <<topo, owed, snaps, srv, initial, changes>>
socket == <<ready, connected, timer>>
listeners == <<term, viz>>

Scenes ==
    [nodes : {Online[t] : t \in Topologies}, lit : BOOLEAN,
     status : {"connecting", "more", "quorum"}]

TypeOK ==
    /\ topo \in Topologies /\ initial \in Topologies
    /\ owed \in 0..MaxChanges
    /\ snaps \subseteq Topologies
    /\ srv \in {"none", "replied", "listed", "snapped", "reading"}
    /\ net \in Seq(Topologies \cup {"101", "fin"})
    /\ ready \in {"none", "connecting", "open", "closed"}
    /\ connected \in BOOLEAN /\ timer \in BOOLEAN
    /\ term \in Topologies
    /\ viz \in [subs : 0..1, nodes : Topologies, wsConnected : BOOLEAN,
               drawn : Scenes]
    /\ changes \in 0..MaxChanges
    /\ breaks \in 0..MaxBreaks

\* createStatusText.
Status(isConnected, count) ==
    CASE ~isConnected -> "connecting"
      [] isConnected /\ count >= Threshold -> "quorum"
      [] isConnected /\ count < Threshold -> "more"

\* What rebuildTopology puts into the emptied group: a sphere and a label for
\* every node online, or one dull sphere; lines between the nodes and from
\* them to the mail server that are lit if there is a quorum; the status.
RebuildTopology(nodes, isConnected) ==
    LET count == Cardinality(Online[nodes])
    IN  [nodes |-> Online[nodes],
         lit |-> count > 0 /\ count >= Threshold,
         status |-> Status(isConnected, count)]

\* The page is loaded: ws.ts has called connect on import, and the terminal
\* has subscribed.
Init ==
    /\ topo \in Topologies /\ initial = Empty
    /\ owed = 0 /\ snaps = {}
    /\ srv = "none" /\ net = <<>>
    /\ \/ ready = "connecting" /\ timer = FALSE
       \/ ready = "none" /\ timer = TRUE
    /\ connected = FALSE
    /\ term = Empty
    /\ viz = [subs |-> 0, nodes |-> Empty, wsConnected |-> FALSE,
              drawn |-> RebuildTopology(Empty, FALSE)]
    /\ changes = 0 /\ breaks = 0

-----------------------------------------------------------------------------
(* The discovery server *)

Listed == srv \in {"listed", "snapped", "reading"}

\* A change of the registry; register_node of a known node owes nothing.
Change(t) ==
    /\ changes < MaxChanges
    /\ changes' = changes + 1
    /\ topo' = t
    /\ owed' \in {owed, owed + 1}
    /\ UNCHANGED <<snaps, srv, initial, net, socket, listeners, breaks>>

\* broadcast_topology, first half.
TakeSnapshot ==
    /\ owed > 0
    /\ owed' = owed - 1
    /\ snaps' = snaps \cup {topo}
    /\ UNCHANGED <<topo, srv, initial, changes, net, socket, listeners, breaks>>

\* Second half, in any order.
SendToAll(s) ==
    /\ s \in snaps
    /\ snaps' = snaps \ {s}
    /\ net' = IF Listed THEN Append(net, s) ELSE net
    /\ UNCHANGED <<topo, owed, srv, initial, changes, socket, listeners, breaks>>

Handler(from, to) ==
    /\ srv = from
    /\ srv' = to
    /\ UNCHANGED <<topo, owed, snaps, changes, socket, listeners, breaks>>

\* The upgrade request is answered ...
Reply ==
    /\ ready = "connecting" /\ net = <<>>
    /\ Handler("none", "replied")
    /\ net' = <<"101">>
    /\ UNCHANGED initial

\* ... the client listed, ...
List == Handler("replied", "listed") /\ UNCHANGED <<net, initial>>

\* ... the topology taken for it ...
JoinSnapshot ==
    /\ Handler("listed", "snapped")
    /\ initial' = topo
    /\ UNCHANGED net

\* A bug: the client is sent nothing until the next broadcast.
JoinSendNothing == Handler("snapped", "reading") /\ UNCHANGED <<net, initial>>

\* ... and sent.
JoinSend ==
    /\ Handler("snapped", "reading")
    /\ net' = Append(net, initial)
    /\ UNCHANGED initial

\* The read loop ends, after 5 seconds of silence at the latest.
Leave ==
    /\ Handler("reading", "none")
    /\ net' = Append(net, "fin")
    /\ UNCHANGED initial

\* The node is started again: an empty registry, and its connections end.
Restart ==
    /\ changes < MaxChanges
    /\ changes' = changes + 1
    /\ topo' = Empty /\ owed' = 0 /\ snaps' = {}
    /\ srv' = "none"
    /\ net' = IF srv = "none" THEN net ELSE Append(net, "fin")
    /\ UNCHANGED <<initial, socket, listeners, breaks>>

-----------------------------------------------------------------------------
(* ws.ts *)

\* scheduleReconnect: one timer at a time.
ScheduleReconnect == timer' = TRUE

\* The socket is gone: onerror closes, onclose schedules.
Down ==
    /\ ready' = "closed"
    /\ connected' = FALSE
    /\ ScheduleReconnect

\* A bug: the exception is swallowed without a new attempt.
ConnectQuietly(throws) ==
    /\ timer' = FALSE
    /\ ready' = IF throws THEN ready ELSE "connecting"
    /\ UNCHANGED connected

\* connect, called with no live socket: the constructor may throw.
Connect(throws) ==
    /\ IF throws THEN ready' = ready /\ ScheduleReconnect
                 ELSE ready' = "connecting" /\ timer' = FALSE
    /\ UNCHANGED connected

\* The 3 seconds are over; connect returns at once if the socket is live.
TimerFires ==
    /\ timer
    /\ \E throws \in BOOLEAN :
         /\ throws => breaks < MaxBreaks
         /\ breaks' = IF throws THEN breaks + 1 ELSE breaks
         /\ IF ready \in {"connecting", "open"}
              THEN timer' = FALSE /\ UNCHANGED <<ready, connected>>
              ELSE Connect(throws)
    /\ UNCHANGED <<server, net, listeners>>

Arrives(msgs) ==
    /\ net # <<>>
    /\ Head(net) \in msgs
    /\ net' = Tail(net)
    /\ UNCHANGED <<server, breaks>>

OnOpen ==
    /\ Arrives({"101"})
    /\ ready' = "open"
    /\ connected' = TRUE
    /\ UNCHANGED <<timer, listeners>>

\* A bug: the scene is rebuilt before the nodes are taken over.
VizListenerEarly(t) ==
    [viz EXCEPT !.nodes = t, !.wsConnected = TRUE,
                !.drawn = RebuildTopology(viz.nodes, TRUE)]

\* The drawing's listener.
VizListener(t) ==
    [viz EXCEPT !.nodes = t, !.wsConnected = TRUE,
                !.drawn = RebuildTopology(t, TRUE)]

\* The terminal's listener: rebuildVizNodes draws the nodes of currentNodes
\* that are online.
TermListener(t) == t
TermDraws == Online[term]

\* Has the drawing called onTopology.
Subscribed == viz.subs > 0

\* onmessage: every listener that has subscribed is called.
OnMessage ==
    /\ Arrives(Topologies)
    /\ term' = TermListener(Head(net))
    /\ viz' = IF Subscribed THEN VizListener(Head(net)) ELSE viz
    /\ UNCHANGED socket

OnClose ==
    /\ Arrives({"fin"})
    /\ Down
    /\ UNCHANGED listeners

\* The connection fails while it is set up or later: onerror, then onclose.
Break ==
    /\ breaks < MaxBreaks
    /\ breaks' = breaks + 1
    /\ ready \in {"connecting", "open"}
    /\ Down
    /\ srv' = "none"
    /\ net' = <<>>
    /\ UNCHANGED <<topo, owed, snaps, initial, changes, listeners>>

-----------------------------------------------------------------------------
(* The Join sheet *)

\* initNetworkViz returns if the container has its canvas already.
FirstOpening == viz.subs = 0

\* Nothing is drawn of what the socket received before, nor that there is a
\* connection: wsConnected is read after the scene was built.
InitNetworkViz ==
    /\ FirstOpening
    /\ viz' = [viz EXCEPT !.subs = @ + 1, !.wsConnected = connected,
                          !.drawn = RebuildTopology(Empty, FALSE)]
    /\ UNCHANGED <<server, net, socket, term, breaks>>

-----------------------------------------------------------------------------
Next ==
    \/ \E t \in Topologies : Change(t) \/ SendToAll(t)
    \/ TakeSnapshot
    \/ Reply \/ List \/ JoinSnapshot \/ JoinSend \/ Leave
    \/ Restart
    \/ TimerFires
    \/ OnOpen \/ OnMessage \/ OnClose
    \/ Break
    \/ InitNetworkViz

\* Threads run, the browser's timer and events happen, and the server's
\* receive timeout ends every connection: nobody types a command every 5
\* seconds for ever.  Nobody has to open the sheet.
Fairness ==
    /\ WF_vars(TakeSnapshot) /\ WF_vars(\E t \in Topologies : SendToAll(t))
    /\ WF_vars(Reply \/ List \/ JoinSnapshot \/ JoinSend \/ Leave)
    /\ WF_vars(TimerFires)
    /\ WF_vars(OnOpen \/ OnMessage \/ OnClose)

Spec == Init /\ [][Next]_vars /\ Fairness

-----------------------------------------------------------------------------
(* Properties *)

\* The page is never left without a socket and without a timer, nor does a
\* timer run beside a live socket, whichever of constructor, error and close
\* comes first.
ReconnectArmed == ready \in {"none", "closed"} <=> timer

\* The drawing and the terminal show the same nodes from the first topology
\* that reaches both, whenever the sheet was opened.
ViewsAgree ==
    Subscribed /\ viz.drawn.status # "connecting" => viz.drawn.nodes = TermDraws

\* The page comes to show the registry, with its quorum, and keeps showing it,
\* although changes may go unannounced, broadcasts overtake each other, and
\* the drawing starts from nothing: the next connection brings the topology.
Converges ==
    <>[](/\ TermDraws = Online[topo]
         /\ Subscribed => viz.drawn = RebuildTopology(topo, TRUE))
=============================================================================
