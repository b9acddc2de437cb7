------------------------- MODULE TopologyFeedProofs -------------------------
(***************************************************************************)
(* Proofs about TopologyFeed, for any topologies, threshold and bounds.    *)
(***************************************************************************)
EXTENDS TopologyFeed, TLAPS, FiniteSetTheorems

(* Types and the two views *)

\* A scene for every topology.
LEMMA RebuildType ==
    ASSUME NEW t \in Topologies, NEW isConnected \in BOOLEAN
    PROVE  RebuildTopology(t, isConnected) \in Scenes
<1>1. Cardinality(Online[t]) \in Nat /\ Threshold \in Nat
  BY FeedAssumption, FS_CardinalityType
<1>2. Status(isConnected, Cardinality(Online[t])) \in
        {"connecting", "more", "quorum"}
  BY <1>1 DEF Status
<1> QED
  BY <1>2 DEF RebuildTopology, Scenes

\* Of the drawing.
Viz == [subs : 0..1, nodes : Topologies, wsConnected : BOOLEAN, drawn : Scenes]

\* No more broadcasts are owed than there were changes.
FeedInv == TypeOK /\ owed <= changes

\* The page is loaded with everything in its range.
LEMMA InitFeedInv == Init => FeedInv
<1> SUFFICES ASSUME Init PROVE FeedInv
  OBVIOUS
<1>1. RebuildTopology(Empty, FALSE) \in Scenes
  BY RebuildType, FeedAssumption
<1>2. ASSUME NEW d \in Scenes
      PROVE  [subs |-> 0, nodes |-> Empty, wsConnected |-> FALSE,
              drawn |-> d] \in Viz
  BY FeedAssumption DEF Viz
<1>3. viz \in Viz
  BY <1>1, <1>2 DEF Init
<1>4. connected \in BOOLEAN /\ timer \in BOOLEAN
  BY DEF Init
<1>5. net \in Seq(Topologies \cup {"101", "fin"})
  BY DEF Init
<1>6. /\ owed \in 0..MaxChanges /\ changes \in 0..MaxChanges
      /\ breaks \in 0..MaxBreaks /\ owed <= changes
  BY FeedAssumption DEF Init
<1>7. ready \in {"none", "connecting", "open", "closed"}
  BY DEF Init
<1>8. /\ topo \in Topologies /\ initial \in Topologies /\ term \in Topologies
      /\ snaps \subseteq Topologies /\ srv = "none"
  BY FeedAssumption DEF Init
<1> QED
  BY <1>3, <1>4, <1>5, <1>6, <1>7, <1>8 DEF FeedInv, TypeOK, Viz

\* Every step keeps the types.
LEMMA StepFeedInv == FeedInv /\ [Next]_vars => FeedInv'
<1> SUFFICES ASSUME FeedInv, [Next]_vars PROVE FeedInv'
  OBVIOUS
<1> USE FeedAssumption DEF FeedInv, TypeOK
<1>1. CASE UNCHANGED vars
  BY <1>1 DEF vars
<1>2. ASSUME NEW t \in Topologies, Change(t) PROVE FeedInv'
  BY <1>2 DEF Change, socket, listeners
<1>3. CASE TakeSnapshot
  BY <1>3 DEF TakeSnapshot, socket, listeners
<1>4. ASSUME NEW t \in Topologies, SendToAll(t) PROVE FeedInv'
  BY <1>4 DEF SendToAll, socket, listeners
<1>5. CASE Reply
  BY <1>5 DEF Reply, Handler, socket, listeners
<1>6. CASE List
  BY <1>6 DEF List, Handler, socket, listeners
<1>7. CASE JoinSnapshot
  BY <1>7 DEF JoinSnapshot, Handler, socket, listeners
<1>8. CASE JoinSend
  BY <1>8 DEF JoinSend, Handler, socket, listeners
<1>9. CASE Leave
  BY <1>9 DEF Leave, Handler, socket, listeners
<1>10. CASE Restart
  BY <1>10 DEF Restart, socket, listeners
<1>11. CASE TimerFires
  <2>1. timer' \in BOOLEAN /\ connected' \in BOOLEAN
    BY <1>11 DEF TimerFires, Connect, ScheduleReconnect
  <2>2. ready' \in {"none", "connecting", "open", "closed"}
    BY <1>11 DEF TimerFires, Connect
  <2>3. breaks' \in 0..MaxBreaks
    BY <1>11 DEF TimerFires
  <2> QED
    BY <1>11, <2>1, <2>2, <2>3 DEF TimerFires, server, listeners
<1>12. CASE OnOpen
  BY <1>12 DEF OnOpen, Arrives, server, listeners
<1>13. CASE OnMessage
  <2>1. Head(net) \in Topologies
    BY <1>13 DEF OnMessage, Arrives
  <2>2. RebuildTopology(Head(net), TRUE) \in Scenes
    BY <2>1, RebuildType
  <2>3. viz' \in Viz
    <3>1. ASSUME NEW v \in Viz, NEW t \in Topologies, NEW d \in Scenes
          PROVE  [v EXCEPT !.nodes = t, !.wsConnected = TRUE, !.drawn = d]
                   \in Viz
      BY DEF Viz
    <3>2. viz \in Viz
      BY DEF Viz
    <3> QED
      BY <1>13, <2>1, <2>2, <3>1, <3>2 DEF OnMessage, VizListener
  <2>4. /\ net' \in Seq(Topologies \cup {"101", "fin"})
        /\ term' \in Topologies
    BY <1>13, <2>1 DEF OnMessage, Arrives, TermListener
  <2> QED
    BY <1>13, <2>3, <2>4 DEF OnMessage, Arrives, server, socket, Viz
<1>14. CASE OnClose
  <2>1. timer' \in BOOLEAN /\ connected' \in BOOLEAN
    BY <1>14 DEF OnClose, Down, ScheduleReconnect
  <2>2. net' \in Seq(Topologies \cup {"101", "fin"})
    BY <1>14 DEF OnClose, Arrives
  <2> QED
    BY <1>14, <2>1, <2>2 DEF OnClose, Arrives, Down, server, listeners
<1>15. CASE Break
  <2>1. timer' \in BOOLEAN /\ connected' \in BOOLEAN
    BY <1>15 DEF Break, Down, ScheduleReconnect
  <2>2. /\ breaks' \in 0..MaxBreaks
        /\ net' \in Seq(Topologies \cup {"101", "fin"})
    BY <1>15 DEF Break
  <2> QED
    BY <1>15, <2>1, <2>2 DEF Break, Down, listeners
<1>16. CASE InitNetworkViz
  <2>1. RebuildTopology(Empty, FALSE) \in Scenes
    BY RebuildType
  <2>2. ASSUME NEW v \in Viz, NEW n \in 0..1, NEW c \in BOOLEAN,
               NEW d \in Scenes
        PROVE  [v EXCEPT !.subs = n, !.wsConnected = c, !.drawn = d] \in Viz
    BY DEF Viz
  <2>3. viz \in Viz /\ connected \in BOOLEAN
    BY DEF Viz
  <2>4. viz' \in Viz
    <3>1. viz.subs + 1 \in 0..1
      BY <1>16 DEF InitNetworkViz, FirstOpening
    <3> QED
      BY <1>16, <2>1, <2>2, <2>3, <3>1 DEF InitNetworkViz
  <2> QED
    BY <1>16, <2>4 DEF InitNetworkViz, server, socket, Viz
<1> QED
  BY <1>1, <1>2, <1>3, <1>4, <1>5, <1>6, <1>7, <1>8, <1>9, <1>10, <1>11,
     <1>12, <1>13, <1>14, <1>15, <1>16 DEF Next

\* Every variable stays in its range: messages, scenes and the number of
\* broadcasts owed.
THEOREM TypeCorrect == Spec => []TypeOK
<1>1. FeedInv => TypeOK
  BY DEF FeedInv
<1> QED
  BY InitFeedInv, StepFeedInv, <1>1, PTL DEF Spec

\* From the first topology that reaches both, drawing and terminal show the
\* same nodes.
THEOREM ViewsStayTogether == Spec => []ViewsAgree
<1> USE DEF ViewsAgree
<1>1. Init => ViewsAgree
  BY DEF Init, Subscribed
<1>2. FeedInv /\ ViewsAgree /\ [Next]_vars => ViewsAgree'
  <2> SUFFICES ASSUME FeedInv, ViewsAgree, [Next]_vars PROVE ViewsAgree'
    OBVIOUS
  <2>0. viz \in Viz
    BY DEF FeedInv, TypeOK, Viz
  <2>1. ASSUME UNCHANGED listeners PROVE ViewsAgree'
    BY <2>1 DEF listeners, Subscribed, TermDraws
  <2>2. CASE OnMessage
    BY <2>0, <2>2
    DEF OnMessage, VizListener, TermListener, RebuildTopology, Subscribed,
        TermDraws, Viz
  <2>3. CASE InitNetworkViz
    BY <2>0, <2>3 DEF InitNetworkViz, RebuildTopology, Status, Viz
  <2> QED
    BY <2>1, <2>2, <2>3
    DEF Next, vars, listeners, Change, SendToAll, TakeSnapshot, Reply, List,
        JoinSnapshot, JoinSend, Leave, Handler, Restart, TimerFires, OnOpen,
        OnClose, Break
<1> QED
  BY InitFeedInv, StepFeedInv, <1>1, <1>2, PTL DEF Spec
-----------------------------------------------------------------------------
(* The socket *)

Messages == Topologies \cup {"101", "fin"}

\* The socket and what is on its way to it.
SocketTypeOK ==
    /\ ready \in {"none", "connecting", "open", "closed"}
    /\ timer \in BOOLEAN
    /\ srv \in {"none", "replied", "listed", "snapped", "reading"}
    /\ net \in Seq(Messages)
    /\ initial \in Topologies /\ topo \in Topologies
    /\ snaps \subseteq Topologies

\* The answer to the upgrade comes first, to a socket that is connecting.
AnswerFirst ==
    \A i \in DOMAIN net : net[i] = "101" => i = 1 /\ ready = "connecting"

\* The end of the connection comes last, after its handler has returned.
EndLast == \A i \in DOMAIN net : net[i] = "fin" => i = Len(net) /\ srv = "none"

\* A socket that is connecting hears nothing before the answer.
ConnectingHears ==
    ready = "connecting" =>
        \/ net = <<>> /\ srv = "none"
        \/ net # <<>> /\ net[1] = "101"

\* A socket that is gone has no handler, and nothing is on its way to it.
GoneIsSilent == ready \in {"none", "closed"} => net = <<>> /\ srv = "none"

\* ReconnectArmed alone is not inductive: a late answer would open a socket
\* that is closed, a late end would close one that is connecting anew.
SocketInv ==
    /\ SocketTypeOK
    /\ AnswerFirst /\ EndLast /\ ConnectingHears /\ GoneIsSilent
    /\ ReconnectArmed

USE DEF SocketInv, SocketTypeOK, AnswerFirst, EndLast, ConnectingHears,
        GoneIsSilent, ReconnectArmed, Messages

\* A page that was just loaded is connecting or waits to.
LEMMA InitSocketInv == Init => SocketInv
<1> SUFFICES ASSUME Init PROVE SocketInv
  OBVIOUS
<1>1. net = <<>> /\ net \in Seq(Messages) /\ DOMAIN net = {}
  BY DEF Init
<1>2. SocketTypeOK
  BY <1>1, FeedAssumption DEF Init
<1> QED
  BY <1>1, <1>2 DEF Init

\* A message of the server's handler is sent on a connection that is answered
\* and not ended.
LEMMA SendKeeps ==
    ASSUME SocketInv, srv # "none", NEW m \in Topologies,
           net' = Append(net, m), UNCHANGED ready
    PROVE  /\ net' \in Seq(Messages) /\ AnswerFirst'
           /\ \A i \in DOMAIN net' : net'[i] # "fin"
           /\ ConnectingHears' /\ GoneIsSilent'
<1>1. \A i \in DOMAIN net : net[i] # "fin"
  OBVIOUS
<1>2. m # "fin" /\ m # "101"
  BY FeedAssumption
<1>3. net' \in Seq(Messages) /\ DOMAIN net' = 1..(Len(net) + 1)
  OBVIOUS
<1>4. \A i \in DOMAIN net' : net'[i] = IF i <= Len(net) THEN net[i] ELSE m
  OBVIOUS
<1> QED
  BY <1>1, <1>2, <1>3, <1>4

\* The handler ends the connection.
LEMMA EndKeeps ==
    ASSUME SocketInv, srv # "none", srv' = "none",
           net' = Append(net, "fin"), UNCHANGED ready
    PROVE  /\ net' \in Seq(Messages) /\ AnswerFirst' /\ EndLast'
           /\ ConnectingHears' /\ GoneIsSilent'
<1>1. \A i \in DOMAIN net : net[i] # "fin"
  OBVIOUS
<1>2. net' \in Seq(Messages) /\ DOMAIN net' = 1..(Len(net) + 1)
      /\ Len(net') = Len(net) + 1
  OBVIOUS
<1>3. \A i \in DOMAIN net' : net'[i] = IF i <= Len(net) THEN net[i] ELSE "fin"
  OBVIOUS
<1> QED
  BY <1>1, <1>2, <1>3

\* A message is taken off an open connection.
LEMMA TakeKeeps ==
    ASSUME SocketInv, net # <<>>, net' = Tail(net), UNCHANGED srv
    PROVE  /\ net' \in Seq(Messages)
           /\ \A i \in DOMAIN net' : net'[i] # "101"
           /\ EndLast'
           /\ Head(net) = "fin" => net' = <<>> /\ srv = "none"
           /\ Head(net) = net[1]
<1>1. /\ net' \in Seq(Messages) /\ DOMAIN net' = 1..(Len(net) - 1)
      /\ Len(net') = Len(net) - 1
      /\ \A i \in DOMAIN net' : net'[i] = net[i + 1] /\ i + 1 \in DOMAIN net
  OBVIOUS
<1>2. Head(net) = net[1] /\ 1 \in DOMAIN net
  OBVIOUS
<1> QED
  BY <1>1, <1>2

\* Every step of the server, the network and the page keeps the socket's
\* invariant.
LEMMA StepSocketInv == SocketInv /\ [Next]_vars => SocketInv'
<1> SUFFICES ASSUME SocketInv, [Next]_vars PROVE SocketInv'
  OBVIOUS
<1>1. CASE UNCHANGED vars
  BY <1>1 DEF vars
<1>2. ASSUME NEW t \in Topologies, Change(t) PROVE SocketInv'
  BY <1>2 DEF Change, socket
<1>3. CASE TakeSnapshot
  BY <1>3 DEF TakeSnapshot, socket
<1>4. ASSUME NEW t \in Topologies, SendToAll(t) PROVE SocketInv'
  <2>1. CASE Listed
    BY <1>4, <2>1, SendKeeps DEF SendToAll, Listed, socket
  <2>2. CASE ~Listed
    BY <1>4, <2>2 DEF SendToAll, socket
  <2> QED
    BY <2>1, <2>2
<1>5. CASE Reply
  BY <1>5 DEF Reply, Handler, socket
<1>6. CASE List
  BY <1>6 DEF List, Handler, socket
<1>7. CASE JoinSnapshot
  BY <1>7 DEF JoinSnapshot, Handler, socket
<1>8. CASE JoinSend
  BY <1>8, SendKeeps DEF JoinSend, Handler, socket
<1>9. CASE Leave
  BY <1>9, EndKeeps DEF Leave, Handler, socket
<1>10. CASE Restart
  <2>1. CASE srv = "none"
    BY <1>10, <2>1, FeedAssumption DEF Restart, socket
  <2>2. CASE srv # "none"
    BY <1>10, <2>2, EndKeeps, FeedAssumption DEF Restart, socket
  <2> QED
    BY <2>1, <2>2
<1>11. CASE TimerFires
  BY <1>11 DEF TimerFires, Connect, ScheduleReconnect, server
<1>12. CASE OnOpen
  <2>1. /\ net # <<>> /\ net' = Tail(net) /\ Head(net) = "101"
        /\ UNCHANGED <<srv, initial, topo, snaps, timer>> /\ ready' = "open"
    BY <1>12 DEF OnOpen, Arrives, server
  <2>2. ready = "connecting"
    BY <2>1, TakeKeeps
  <2> QED
    BY <2>1, <2>2, TakeKeeps
<1>13. CASE OnMessage
  <2>1. /\ net # <<>> /\ net' = Tail(net) /\ Head(net) \in Topologies
        /\ UNCHANGED <<srv, initial, topo, snaps, timer, ready>>
    BY <1>13 DEF OnMessage, Arrives, server, socket
  <2>2. ready = "open"
    BY <2>1, TakeKeeps, FeedAssumption
  <2> QED
    BY <2>1, <2>2, TakeKeeps
<1>14. CASE OnClose
  <2>1. /\ net # <<>> /\ net' = Tail(net) /\ Head(net) = "fin"
        /\ UNCHANGED <<srv, initial, topo, snaps>>
        /\ ready' = "closed" /\ timer' = TRUE
    BY <1>14 DEF OnClose, Arrives, Down, ScheduleReconnect, server
  <2> QED
    BY <2>1, TakeKeeps
<1>15. CASE Break
  BY <1>15 DEF Break, Down, ScheduleReconnect
<1>16. CASE InitNetworkViz
  BY <1>16 DEF InitNetworkViz, server, socket
<1> QED
  BY <1>1, <1>2, <1>3, <1>4, <1>5, <1>6, <1>7, <1>8, <1>9, <1>10, <1>11,
     <1>12, <1>13, <1>14, <1>15, <1>16 DEF Next

\* The page always has exactly one of a live socket and a reconnect timer,
\* through any order of answers, ends, failures and restarts.
THEOREM AlwaysArmed == Spec => []ReconnectArmed
<1>1. SocketInv => ReconnectArmed
  OBVIOUS
<1> QED
  BY InitSocketInv, StepSocketInv, <1>1, PTL DEF Spec
=============================================================================
