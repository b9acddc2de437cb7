---------------------------- MODULE NodeLifecycle ----------------------------
(***************************************************************************)
(* One mpcauth_server process around its signing session: main, the        *)
(* heartbeat thread, the relay engine thread of the "mpc-node" service     *)
(* with its two callbacks, the discovery server's pruning thread and the   *)
(* listen threads of the forwarder and the discovery server.  All but the  *)
(* last work on the entry the node keeps of itself in its registry.        *)
(*                                                                         *)
(* Time passes in ticks.  Every sleep is a lower bound; a thread that is   *)
(* due is at most Slack ticks late.                                        *)
(***************************************************************************)
EXTENDS Registry

CONSTANTS
    self,        \* the node's own key
    RemoteHost,  \* --remote-host, the first value of public_hostname
    Subdomains,  \* names the relay can assign
    Torn,        \* what a read of public_hostname during its write returns
    HbEvery,     \* the heartbeat thread's sleep
    PruneEvery,  \* prune_interval
    Slack,       \* how late a thread may be
    UseForwarder,  \* FALSE with --no-forwarder
    MaxSubs      \* bound on the number of subdomain assignments

ASSUME LifecycleAssumption ==
    /\ self \in Keys
    /\ RemoteHost \in Hosts /\ Subdomains \subseteq Hosts /\ Torn \in Hosts
    /\ Torn \notin Subdomains \cup {RemoteHost}
    /\ UseForwarder \in BOOLEAN
    /\ HbEvery \in Nat \ {0} /\ PruneEvery \in Nat \ {0}
    /\ Slack \in Nat /\ MaxSubs \in Nat
    /\ HbEvery + Slack <= NodeTtl

VARIABLES
    nodes,            \* nodes_ of the embedded discovery server
    public_hostname,  \* shared by main, heartbeat and relay threads
    g_shutdown,
    main, hb, relay, listen, prune,  \* where each thread is
    hbWait, pruneWait,               \* ticks since the thread went to sleep
    running,          \* running_ of the forwarder and of the discovery server
    assigned,         \* the subdomain the relay client holds
    subs,
    late              \* (history) a thread was about to register the node as
                      \* online when main announced it offline, or later

vars == <<nodes, public_hostname, g_shutdown, main, hb, relay, listen, prune,
          hbWait, pruneWait, running, assigned, subs, late>>

Servers == {"forwarder", "discovery"}

TypeOK ==
    /\ nodes \in Nodes
    /\ public_hostname \in Hosts
    /\ g_shutdown \in BOOLEAN
    /\ main \in {"boot", "up", "flagged", "offline", "joined", "unrelayed",
                 "stopForwarder", "stopDiscovery", "exited"}
    /\ hb \in {"none", "test", "sleep", "register", "exited"}
    /\ relay \in {"idle", "writing", "register", "update", "stopped"}
    /\ listen \in [Servers -> {"top", "accept", "exited"}]
    /\ prune \in {"sleep", "exited"}
    /\ hbWait \in 0..(HbEvery + Slack)
    /\ pruneWait \in 0..(PruneEvery + Slack)
    /\ running \in [Servers -> BOOLEAN]
    /\ assigned \in Subdomains \cup {NoFqdn}
    /\ subs \in 0..MaxSubs
    /\ late \in BOOLEAN

\* discovery.start() and relay->start() have returned.
Init ==
    /\ nodes = [k \in Keys |-> NoNode]
    /\ public_hostname = RemoteHost
    /\ g_shutdown = FALSE
    /\ main = "boot"
    /\ hb = "none"
    /\ relay = "idle"
    /\ listen = [x \in Servers |-> IF x = "discovery" \/ UseForwarder
                                   THEN "top" ELSE "exited"]
    /\ prune = "sleep"
    /\ hbWait = 0
    /\ pruneWait = 0
    /\ running = [x \in Servers |-> listen[x] = "top"]
    /\ assigned = NoFqdn
    /\ subs = 0
    /\ late = FALSE

AnnouncedOffline == main \notin {"boot", "up", "flagged"}

Announce(status) ==
    nodes' = RegisterNode(nodes, self, public_hostname, status)

-----------------------------------------------------------------------------
(* main *)

\* Self-announce, then start the heartbeat thread.
MainRegister ==
    /\ main = "boot"
    /\ Announce("online")
    /\ main' = "up"
    /\ hb' = "test"
    /\ UNCHANGED <<public_hostname, g_shutdown, relay, listen, prune, hbWait,
                   pruneWait, running, assigned, subs, late>>

\* The session is over; the shutdown sequence begins.
MainFlag ==
    /\ main = "up"
    /\ main' = "flagged"
    /\ g_shutdown' = TRUE
    /\ UNCHANGED <<nodes, public_hostname, hb, relay, listen, prune, hbWait,
                   pruneWait, running, assigned, subs, late>>

MainOffline ==
    /\ main = "flagged"
    /\ Announce("offline")
    /\ main' = "offline"
    /\ late' = (hb = "register" \/ relay \in {"writing", "register"})
    /\ UNCHANGED <<public_hostname, g_shutdown, hb, relay, listen, prune,
                   hbWait, pruneWait, running, assigned, subs>>

MainJoinHeartbeat ==
    /\ main = "offline"
    /\ hb = "exited"
    /\ main' = "joined"
    /\ UNCHANGED <<nodes, public_hostname, g_shutdown, hb, relay, listen,
                   prune, hbWait, pruneWait, running, assigned, subs, late>>

\* relay->stop() returns when the engine thread has left its callbacks.
MainStopRelay ==
    /\ main = "joined"
    /\ relay = "idle"
    /\ relay' = "stopped"
    /\ main' = "unrelayed"
    /\ UNCHANGED <<nodes, public_hostname, g_shutdown, hb, listen, prune,
                   hbWait, pruneWait, running, assigned, subs, late>>

\* forwarder->stop(), up to the join of its listen thread.
MainStopForwarder ==
    /\ main = "unrelayed"
    /\ main' = "stopForwarder"
    /\ running' = [running EXCEPT !["forwarder"] = FALSE]
    /\ UNCHANGED <<nodes, public_hostname, g_shutdown, hb, relay, listen,
                   prune, hbWait, pruneWait, assigned, subs, late>>

\* That join, and discovery.stop() up to its joins.
MainStopDiscovery ==
    /\ main = "stopForwarder"
    /\ listen["forwarder"] = "exited"
    /\ main' = "stopDiscovery"
    /\ running' = [running EXCEPT !["discovery"] = FALSE]
    /\ UNCHANGED <<nodes, public_hostname, g_shutdown, hb, relay, listen,
                   prune, hbWait, pruneWait, assigned, subs, late>>

\* discovery.stop() has joined its listen and its pruning thread.
MainExit ==
    /\ main = "stopDiscovery"
    /\ listen["discovery"] = "exited"
    /\ prune = "exited"
    /\ main' = "exited"
    /\ UNCHANGED <<nodes, public_hostname, g_shutdown, hb, relay, listen,
                   prune, hbWait, pruneWait, running, assigned, subs, late>>

\* SIGINT or SIGTERM only raises the flag; main goes on with its session.
Signal ==
    /\ main \in {"boot", "up"}
    /\ ~g_shutdown
    /\ g_shutdown' = TRUE
    /\ UNCHANGED <<nodes, public_hostname, main, hb, relay, listen, prune,
                   hbWait, pruneWait, running, assigned, subs, late>>

-----------------------------------------------------------------------------
(* The heartbeat thread *)

HbTest ==
    /\ hb = "test"
    /\ hb' = IF g_shutdown THEN "exited" ELSE "sleep"
    /\ hbWait' = 0
    /\ UNCHANGED <<nodes, public_hostname, g_shutdown, main, relay, listen,
                   prune, pruneWait, running, assigned, subs, late>>

\* A bug: a thread that finds the flag raised goes back to sleep.
HbWakeAlways ==
    /\ hb = "sleep"
    /\ hbWait >= HbEvery
    /\ hb' = IF g_shutdown THEN "sleep" ELSE "register"
    /\ UNCHANGED <<nodes, public_hostname, g_shutdown, main, relay, listen,
                   prune, hbWait, pruneWait, running, assigned, subs, late>>

\* A bug: the flag is not looked at between the sleep and the registration.
HbWakeUnchecked ==
    /\ hb = "sleep"
    /\ hbWait >= HbEvery
    /\ hb' = "register"
    /\ UNCHANGED <<nodes, public_hostname, g_shutdown, main, relay, listen,
                   prune, hbWait, pruneWait, running, assigned, subs, late>>

HbWake ==
    /\ hb = "sleep"
    /\ hbWait >= HbEvery
    /\ hb' = IF g_shutdown THEN "exited" ELSE "register"
    /\ UNCHANGED <<nodes, public_hostname, g_shutdown, main, relay, listen,
                   prune, hbWait, pruneWait, running, assigned, subs, late>>

HbRegister ==
    /\ hb = "register"
    /\ Announce("online")
    /\ hb' = "test"
    /\ UNCHANGED <<public_hostname, g_shutdown, main, relay, listen, prune,
                   hbWait, pruneWait, running, assigned, subs, late>>

-----------------------------------------------------------------------------
(* The relay engine thread and its callbacks *)

\* on_registered: a Confirm was sent.
OnRegistered ==
    /\ relay = "idle"
    /\ nodes' = UpdateRelayStatus(nodes, self, TRUE, NoFqdn)
    /\ nodes' # nodes
    /\ UNCHANGED <<public_hostname, g_shutdown, main, hb, relay, listen, prune,
                   hbWait, pruneWait, running, assigned, subs, late>>

\* A Neighbors message changes the subdomain: on_subdomain begins to write
\* public_hostname, which the other threads read without a lock.
OnSubdomain(s) ==
    /\ relay = "idle"
    /\ subs < MaxSubs
    /\ s # assigned
    /\ relay' = "writing"
    /\ assigned' = s
    /\ public_hostname' = Torn
    /\ subs' = subs + 1
    /\ late' = (late \/ AnnouncedOffline)
    /\ UNCHANGED <<nodes, g_shutdown, main, hb, listen, prune, hbWait,
                   pruneWait, running>>

OnSubdomainWritten ==
    /\ relay = "writing"
    /\ relay' = "register"
    /\ public_hostname' = assigned
    /\ UNCHANGED <<nodes, g_shutdown, main, hb, listen, prune, hbWait,
                   pruneWait, running, assigned, subs, late>>

OnSubdomainRegister ==
    /\ relay = "register"
    /\ relay' = "update"
    /\ nodes' = RegisterNode(nodes, self, assigned, "online")
    /\ UNCHANGED <<public_hostname, g_shutdown, main, hb, listen, prune,
                   hbWait, pruneWait, running, assigned, subs, late>>

OnSubdomainUpdate ==
    /\ relay = "update"
    /\ relay' = "idle"
    /\ nodes' = UpdateRelayStatus(nodes, self, TRUE, assigned)
    /\ UNCHANGED <<public_hostname, g_shutdown, main, hb, listen, prune,
                   hbWait, pruneWait, running, assigned, subs, late>>

-----------------------------------------------------------------------------
(* The listen threads and the pruning thread *)

\* accept_loop between two calls of accept().
ListenTop(x) ==
    /\ listen[x] = "top"
    /\ listen' = [listen EXCEPT ![x] = IF running[x] THEN "accept"
                                                    ELSE "exited"]
    /\ UNCHANGED <<nodes, public_hostname, g_shutdown, main, hb, relay, prune,
                   hbWait, pruneWait, running, assigned, subs, late>>

\* accept() returns when a client connects.  Closing the listening descriptor
\* in another thread does not make it return.
Incoming(x) ==
    /\ listen[x] = "accept"
    /\ listen' = [listen EXCEPT ![x] = "top"]
    /\ UNCHANGED <<nodes, public_hostname, g_shutdown, main, hb, relay, prune,
                   hbWait, pruneWait, running, assigned, subs, late>>

\* A round of prune_loop: running_ is tested after the pruning.
PruneWake ==
    /\ prune = "sleep"
    /\ pruneWait >= PruneEvery
    /\ nodes' = PruneStale(nodes)
    /\ prune' = IF running["discovery"] THEN "sleep" ELSE "exited"
    /\ pruneWait' = 0
    /\ UNCHANGED <<public_hostname, g_shutdown, main, hb, relay, listen,
                   hbWait, running, assigned, subs, late>>

HbCounts == hb \in {"sleep", "register"}
PruneCounts == prune = "sleep"

\* A tick passes unless it would make a thread later than Slack; between
\* relay->start() and the announcement, and between the body of the heartbeat
\* loop and its test, nothing waits for as long as a tick.
Tick ==
    /\ main \notin {"boot", "exited"}
    /\ HbCounts => hbWait < HbEvery + Slack
    /\ PruneCounts => pruneWait < PruneEvery + Slack
    /\ hb # "test"
    /\ hbWait' = IF HbCounts THEN hbWait + 1 ELSE hbWait
    /\ pruneWait' = IF PruneCounts THEN pruneWait + 1 ELSE pruneWait
    /\ nodes' = GrowOlder(nodes)
    /\ UNCHANGED <<public_hostname, g_shutdown, main, hb, relay, listen, prune,
                   running, assigned, subs, late>>

-----------------------------------------------------------------------------
Main ==
    \/ MainRegister \/ MainOffline \/ MainJoinHeartbeat
    \/ MainStopRelay \/ MainStopForwarder \/ MainStopDiscovery \/ MainExit
Heartbeat == HbTest \/ HbWake \/ HbRegister
Callbacks == OnSubdomainWritten \/ OnSubdomainRegister \/ OnSubdomainUpdate

Next ==
    \/ Main
    \/ MainFlag
    \/ Signal
    \/ Heartbeat
    \/ OnRegistered
    \/ \E s \in Subdomains : OnSubdomain(s)
    \/ Callbacks
    \/ \E x \in Servers : ListenTop(x) \/ Incoming(x)
    \/ PruneWake
    \/ Tick

Spec == Init /\ [][Next]_vars

\* Threads run and time passes; no client has to connect, the relay has to
\* answer nothing, and the session may take as long as it likes.
Fairness ==
    /\ WF_vars(Main) /\ WF_vars(Heartbeat) /\ WF_vars(Callbacks)
    /\ \A x \in Servers : WF_vars(ListenTop(x))
    /\ WF_vars(PruneWake) /\ WF_vars(Tick)

FairSpec == Spec /\ Fairness

-----------------------------------------------------------------------------
(* Properties *)

\* The heartbeat is often enough: the node's own entry is not pruned between
\* the announcement in main and the shutdown, however the heartbeat, the
\* pruning thread and the relay callbacks interleave.
SelfStaysListed == main = "up" /\ ~g_shutdown => Known(nodes, self)

\* Once on_subdomain has run, the registry shows the subdomain as hostname
\* and relay name: neither a heartbeat nor the announcement in main puts the
\* old name back or clears the relay fields, and a name read while it was
\* being written does not stay.
SubdomainIsShown ==
    /\ main = "up"
    /\ ~g_shutdown
    /\ relay = "idle"
    /\ assigned # NoFqdn
    => /\ nodes[self].host = assigned
       /\ nodes[self].relay_registered
       /\ nodes[self].relay_fqdn = assigned

\* The announcement of the shutdown is the last word: after it the registry
\* does not show the node as online, unless the heartbeat thread had already
\* looked at the flag, or the relay was just assigning a subdomain, or did so
\* later; the relay client is stopped only afterwards.
OfflineLast ==
    AnnouncedOffline /\ ~late /\ Known(nodes, self)
        => nodes[self].status = "offline"

\* The shutdown sequence gets past joining the heartbeat thread and the relay
\* engine: neither can miss the flag.
ShutdownReachesStop == main = "flagged" ~> main = "stopForwarder"
=============================================================================
