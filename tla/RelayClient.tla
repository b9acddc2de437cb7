----------------------------- MODULE RelayClient -----------------------------
(***************************************************************************)
(* One service of RelayClient: the engine thread that registers a port     *)
(* with the relay over UDP and keeps the registration alive, and the relay *)
(* it talks to.  The relay is not part of the repository: it is modelled   *)
(* from the messages the client sends and expects.                         *)
(*                                                                         *)
(* Time passes in ticks.  A datagram arrives, or is lost, within a tick;   *)
(* elapsed and lease are not counted beyond the last value a test tells    *)
(* apart.                                                                  *)
(***************************************************************************)
EXTENDS Naturals

CONSTANTS
    RecvTimeout,  \* SO_RCVTIMEO of the socket
    Reregister,   \* age of an unanswered registration
    HbEvery,      \* interval of the heartbeats
    Ttl,          \* time the relay keeps a port without hearing from it
    Lossy,        \* types of the messages the network may lose
    Subdomains,   \* names the relay can assign
    NoSub,        \* the empty subdomain
    MaxRestarts   \* bound on restarts of the relay

ASSUME RelayAssumption ==
    /\ RecvTimeout \in Nat \ {0} /\ Reregister \in Nat
    /\ HbEvery \in Nat \ {0} /\ Ttl \in Nat /\ MaxRestarts \in Nat
    /\ Reregister <= HbEvery
    /\ NoSub \notin Subdomains

VARIABLES
    engine,      \* where the engine thread is
    registered, cookie, subdomain,  \* ServiceState
    elapsed,     \* ticks since last_heartbeat
    waited,      \* ticks spent in recvfrom
    net,         \* datagrams under way
    incarnation, \* which life of the relay; a cookie belongs to one
    bound,       \* the relay has the port registered
    lease,       \* ticks since it last heard from the service
    lostRow      \* (history) heartbeats lost in a row, at most 2

clientVars == <<registered, cookie, subdomain>>
relayVars == <<incarnation, bound, lease>>
serviceVars == <<engine, clientVars, elapsed, waited, net, relayVars, lostRow>>

NoCookie == 0
Cookies == 1..(MaxRestarts + 1)

\* The zero cookie of a Register is left out; nothing else is sent with it.
Messages ==
    [type : {"Register"}]
      \cup [type : {"Challenge", "Confirm", "Heartbeat"}, cookie : Cookies]
      \cup [type : {"Neighbors"}, sub : Subdomains \cup {NoSub}]

Types == {"Register", "Challenge", "Confirm", "Heartbeat", "Neighbors"}

ToClient(m) == m.type \in {"Challenge", "Neighbors"}

\* No datagram.
Silence == [type |-> "none"]

ServiceTypeOK ==
    /\ engine \in {"starting", "running", "stopping", "exited"}
    /\ registered \in BOOLEAN
    /\ cookie \in Cookies \cup {NoCookie}
    /\ subdomain \in Subdomains \cup {NoSub}
    /\ elapsed \in 0..HbEvery
    /\ waited \in 0..RecvTimeout
    /\ net \subseteq Messages
    /\ incarnation \in Cookies
    /\ bound \in BOOLEAN
    /\ lease \in 0..(Ttl + 1)
    /\ lostRow \in 0..2

ServiceInit ==
    /\ engine = "starting"
    /\ registered = FALSE /\ cookie = NoCookie /\ subdomain = NoSub
    /\ elapsed = 0 /\ waited = 0
    /\ net = {}
    /\ incarnation = 1 /\ bound = FALSE /\ lease = 0
    /\ lostRow = 0

-----------------------------------------------------------------------------
(* The engine thread *)

\* The address is resolved and the socket bound; the first Register is sent.
Start ==
    /\ engine = "starting"
    /\ engine' = "running"
    /\ net' = net \cup {[type |-> "Register"]}
    /\ elapsed' = 0 /\ waited' = 0
    /\ UNCHANGED <<clientVars, relayVars, lostRow>>

\* Resolving, socket() or bind() fails: the thread ends and is not restarted.
StartFails ==
    /\ engine = "starting"
    /\ engine' = "exited"
    /\ UNCHANGED <<clientVars, elapsed, waited, net, relayVars, lostRow>>

\* handle_relay_packet: what a datagram makes of the service's state.
HandleRelayPacket(m) ==
    /\ registered' = (registered \/ ToClient(m))
    /\ cookie' = IF m.type = "Challenge" THEN m.cookie ELSE cookie
    /\ subdomain' = IF m.type = "Neighbors" /\ m.sub # NoSub THEN m.sub
                                                             ELSE subdomain

\* send_confirm is the answer to a Challenge.
Answer(m) ==
    IF m.type = "Challenge" THEN {[type |-> "Confirm", cookie |-> m.cookie]}
                            ELSE {}

HeartbeatDue == registered' /\ elapsed >= HbEvery

\* A bug: a service that has no answer does not register again.
RegisterNotRepeated == FALSE

RegisterDue == ~registered' /\ elapsed >= Reregister

\* A bug: last_heartbeat moves in every round.
LastHeartbeatMoves == elapsed' = 0

LastHeartbeat == elapsed' = IF HeartbeatDue THEN 0 ELSE elapsed

\* The rest of the round after recvfrom returned m, or Silence.  Once stop()
\* has closed the descriptor every send fails, and the round is the last.
Round(m) ==
    /\ engine \in {"running", "stopping"}
    /\ HandleRelayPacket(m)
    /\ LastHeartbeat
    /\ waited' = 0
    /\ LET out == Answer(m)
             \cup (IF HeartbeatDue
                     THEN {[type |-> "Heartbeat", cookie |-> cookie']} ELSE {})
             \cup (IF RegisterDue THEN {[type |-> "Register"]} ELSE {})
       IN  net' = (net \ {m}) \cup (IF engine = "running" THEN out ELSE {})
    /\ engine' = IF engine = "running" THEN "running" ELSE "exited"
    /\ UNCHANGED <<relayVars, lostRow>>

Receive(m) == ToClient(m) /\ Round(m)

ReceiveTimeout ==
    /\ engine = "stopping" \/ waited = RecvTimeout
    /\ Round(Silence)

\* stop(), up to the join.
Stop ==
    /\ engine = "running"
    /\ engine' = "stopping"
    /\ UNCHANGED <<clientVars, elapsed, waited, net, relayVars, lostRow>>

-----------------------------------------------------------------------------
(* The relay *)

Reply(m, r) ==
    /\ net' = (net \ {m}) \cup {r}
    /\ UNCHANGED <<engine, clientVars, elapsed, waited, incarnation>>

RelayRegister(m) ==
    /\ m.type = "Register"
    /\ Reply(m, [type |-> "Challenge", cookie |-> incarnation])
    /\ UNCHANGED <<bound, lease, lostRow>>

\* A Confirm or, for a port it has, a Heartbeat with its own cookie renews the
\* lease and is answered with the assigned name, or none so far.
RelayRenew(m, sub) ==
    /\ m.type \in {"Confirm", "Heartbeat"}
    /\ m.cookie = incarnation
    /\ m.type = "Heartbeat" => bound
    /\ Reply(m, [type |-> "Neighbors", sub |-> sub])
    /\ bound' = TRUE
    /\ lease' = 0
    /\ lostRow' = 0

\* Any other Confirm or Heartbeat is dropped.
RelayIgnore(m) ==
    /\ m.type \in {"Confirm", "Heartbeat"}
    /\ m.cookie # incarnation \/ (m.type = "Heartbeat" /\ ~bound)
    /\ net' = net \ {m}
    /\ UNCHANGED <<engine, clientVars, elapsed, waited, relayVars, lostRow>>

\* The relay forgets everything.
RelayRestart ==
    /\ incarnation <= MaxRestarts
    /\ incarnation' = incarnation + 1
    /\ bound' = FALSE
    /\ lease' = 0
    /\ UNCHANGED <<engine, clientVars, elapsed, waited, net, lostRow>>

\* A datagram with nobody to read it is lost as well.
Lose(m) ==
    /\ \/ m.type \in Lossy
       \/ ToClient(m) /\ engine = "exited"
    /\ net' = net \ {m}
    /\ lostRow' = IF m.type = "Heartbeat" /\ lostRow < 2 THEN lostRow + 1
                                                         ELSE lostRow
    /\ UNCHANGED <<engine, clientVars, elapsed, waited, relayVars>>

\* A tick passes when nothing is under way and nothing is overdue; the relay
\* drops a port whose lease has run out.
Tick ==
    /\ engine \in {"running", "exited"}
    /\ net = {}
    /\ engine = "running" => waited < RecvTimeout
    /\ waited' = IF engine = "running" THEN waited + 1 ELSE waited
    /\ elapsed' = IF elapsed < HbEvery THEN elapsed + 1 ELSE elapsed
    /\ lease' = IF bound THEN lease + 1 ELSE 0
    /\ bound' = (bound /\ lease' <= Ttl)
    /\ UNCHANGED <<engine, clientVars, net, incarnation, lostRow>>

-----------------------------------------------------------------------------
Relay(m) ==
    \/ RelayRegister(m)
    \/ \E sub \in Subdomains \cup {NoSub} : RelayRenew(m, sub)
    \/ RelayIgnore(m)

ServiceNext ==
    \/ Start
    \/ StartFails
    \/ \E m \in net : Receive(m) \/ Relay(m) \/ Lose(m)
    \/ ReceiveTimeout
    \/ Stop
    \/ RelayRestart
    \/ Tick

ServiceSpec == ServiceInit /\ [][ServiceNext]_serviceVars

\* The thread runs, time passes, and of the messages of a type that are sent
\* again and again one arrives at last.
Fairness ==
    /\ WF_serviceVars(Start \/ StartFails)
    /\ WF_serviceVars(ReceiveTimeout)
    /\ WF_serviceVars(Tick)
    /\ \A t \in Types :
           SF_serviceVars(
               \E m \in net : m.type = t /\ (Receive(m) \/ Relay(m)))

ServiceFairSpec == ServiceSpec /\ Fairness

-----------------------------------------------------------------------------
(* Properties *)

\* "Heartbeat every 90s (TTL 270s)": the relay does not let the port of a
\* running service expire unless two heartbeats in a row were lost.  The
\* rounds of the engine are up to 5 seconds apart and a registration does not
\* move last_heartbeat, so the margin is not the three intervals it seems.
LeaseHeld ==
    [][engine = "running" /\ bound /\ ~bound' /\ incarnation' = incarnation
         => lostRow = 2]_serviceVars

\* "Re-register if not yet registered": a service that is not registered has
\* its port at the relay at last, whatever datagrams are lost on the way,
\* unless it is stopped or the relay restarts.
ComesBound ==
    engine = "running" /\ ~registered
      ~> bound \/ engine # "running" \/ incarnation > 1
=============================================================================
