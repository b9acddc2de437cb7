------------------------- MODULE NodeLifecycleProofs -------------------------
(***************************************************************************)
(* Proofs about NodeLifecycle, for any sleeps and delays with              *)
(* HbEvery + Slack <= NodeTtl, any hosts and any number of subdomains.     *)
(***************************************************************************)
EXTENDS NodeLifecycle, TLAPS

(* The operations of the registry *)

\* Every operation returns a registry.
LEMMA RegisterType ==
    ASSUME NEW n \in Nodes, NEW k \in Keys, NEW h \in Hosts, NEW s \in Status
    PROVE  RegisterNode(n, k, h, s) \in Nodes
<1>1. NewNode(h, s) \in NodeInfo
  BY RegistryAssumption DEF NewNode, NodeInfo, MaxAge
<1>2. ASSUME NEW v \in NodeInfo
      PROVE  [v EXCEPT !.host = h, !.status = s, !.age = 0] \in NodeInfo
  <2>1. 0 \in 0..MaxAge
    BY RegistryAssumption DEF MaxAge
  <2> QED
    BY <2>1 DEF NodeInfo
<1>3. Known(n, k) => n[k] \in NodeInfo
  BY DEF Known, Nodes
<1>4. (IF Known(n, k)
         THEN [n[k] EXCEPT !.host = h, !.status = s, !.age = 0]
         ELSE NewNode(h, s)) \in NodeInfo
  BY <1>1, <1>2, <1>3
<1> QED
  BY <1>4 DEF RegisterNode, Nodes

\* Likewise for update_relay_status ...
LEMMA RelayType ==
    ASSUME NEW n \in Nodes, NEW k \in Keys, NEW b \in BOOLEAN,
           NEW f \in Hosts \cup {NoFqdn}
    PROVE  UpdateRelayStatus(n, k, b, f) \in Nodes
<1> DEFINE g == IF f = NoFqdn THEN n[k].relay_fqdn ELSE f
<1>1. ASSUME NEW v \in NodeInfo, NEW h \in Hosts \cup {NoFqdn}
      PROVE  [v EXCEPT !.relay_registered = b, !.relay_fqdn = h] \in NodeInfo
  BY <1>1 DEF NodeInfo
<1>2. ASSUME Known(n, k)
      PROVE  [n[k] EXCEPT !.relay_registered = b, !.relay_fqdn = g] \in NodeInfo
  <2>1. n[k] \in NodeInfo
    BY <1>2 DEF Known, Nodes
  <2>2. g \in Hosts \cup {NoFqdn}
    BY <2>1 DEF NodeInfo
  <2> QED
    BY <1>1, <2>1, <2>2
<1> QED
  BY <1>2 DEF UpdateRelayStatus, Nodes

\* ... for prune_stale ...
LEMMA PruneType == ASSUME NEW n \in Nodes PROVE PruneStale(n) \in Nodes
  BY DEF PruneStale, Nodes

\* ... and for the clock.
LEMMA GrowType == ASSUME NEW n \in Nodes PROVE GrowOlder(n) \in Nodes
<1>1. ASSUME NEW v \in NodeInfo, v.age < MaxAge
      PROVE  [v EXCEPT !.age = @ + 1] \in NodeInfo
  BY <1>1, RegistryAssumption DEF NodeInfo, MaxAge
<1> QED
  BY <1>1 DEF GrowOlder, Nodes, Known

-----------------------------------------------------------------------------
(* What the operations do to the node's own entry *)

\* After register_node the entry is as announced and young, and one that was
\* there before keeps its relay fields.
LEMMA RegisterEntry ==
    ASSUME NEW n \in Nodes, NEW h \in Hosts, NEW s \in Status
    PROVE  LET m == RegisterNode(n, self, h, s)
           IN  /\ Known(m, self) /\ m[self].host = h /\ m[self].status = s
               /\ m[self].age = 0
               /\ Known(n, self) =>
                    /\ m[self].relay_registered = n[self].relay_registered
                    /\ m[self].relay_fqdn = n[self].relay_fqdn
<1> DEFINE m == RegisterNode(n, self, h, s)
<1>1. self \in Keys /\ m \in Nodes
  BY LifecycleAssumption, RegisterType
<1>2. CASE Known(n, self)
  <2>1. n[self] \in NodeInfo
    BY <1>1, <1>2 DEF Nodes, Known
  <2>2. m[self] = [n[self] EXCEPT !.host = h, !.status = s, !.age = 0]
    BY <1>1, <1>2 DEF RegisterNode, Nodes
  <2>3. /\ m[self].host = h /\ m[self].status = s /\ m[self].age = 0
        /\ m[self].relay_registered = n[self].relay_registered
        /\ m[self].relay_fqdn = n[self].relay_fqdn
    BY <2>1, <2>2 DEF NodeInfo
  <2>4. m[self] \in NodeInfo
    <3>1. 0 \in 0..MaxAge
      BY RegistryAssumption DEF MaxAge
    <3> QED
      BY <2>1, <2>2, <3>1 DEF NodeInfo
  <2> QED
    BY <2>3, <2>4, NoNodeAssumption DEF Known
<1>3. CASE ~Known(n, self)
  <2>1. m[self] = NewNode(h, s)
    BY <1>1, <1>3 DEF RegisterNode, Nodes
  <2>2. NewNode(h, s) \in NodeInfo
    BY RegistryAssumption DEF NewNode, NodeInfo, MaxAge
  <2>3. /\ m[self] \in NodeInfo /\ m[self].host = h /\ m[self].status = s
        /\ m[self].age = 0
    <3> HIDE DEF m
    <3> QED
      BY <2>1, <2>2 DEF NewNode
  <2> QED
    BY <2>3, <1>3, NoNodeAssumption DEF Known
<1> QED
  BY <1>2, <1>3

\* update_relay_status adds no entry and keeps all but the relay fields.
LEMMA RelayEntry ==
    ASSUME NEW n \in Nodes, NEW f \in Hosts \cup {NoFqdn}
    PROVE  LET m == UpdateRelayStatus(n, self, TRUE, f)
           IN  /\ Known(m, self) <=> Known(n, self)
               /\ Known(n, self) =>
                    /\ m[self].host = n[self].host
                    /\ m[self].status = n[self].status
                    /\ m[self].age = n[self].age
                    /\ m[self].relay_registered
                    /\ m[self].relay_fqdn = IF f = NoFqdn
                                              THEN n[self].relay_fqdn ELSE f
<1> DEFINE m == UpdateRelayStatus(n, self, TRUE, f)
           g == IF f = NoFqdn THEN n[self].relay_fqdn ELSE f
<1>1. self \in Keys /\ m \in Nodes
  BY LifecycleAssumption, RelayType
<1>2. CASE Known(n, self)
  <2>1. n[self] \in NodeInfo
    BY <1>1, <1>2 DEF Nodes, Known
  <2>2. m[self] = [n[self] EXCEPT !.relay_registered = TRUE, !.relay_fqdn = g]
    BY <1>1, <1>2 DEF UpdateRelayStatus, Nodes
  <2>3. g \in Hosts \cup {NoFqdn}
    BY <2>1 DEF NodeInfo
  <2> DEFINE v == n[self]
             w == m[self]
  <2>4. v \in NodeInfo
    BY <2>1
  <2>5. w = [v EXCEPT !.relay_registered = TRUE, !.relay_fqdn = g]
    BY <2>2
  <2> HIDE DEF v, w, g
  <2>6. w.relay_registered
    BY <2>4, <2>5 DEF NodeInfo
  <2>7. /\ w \in NodeInfo /\ w.host = v.host /\ w.status = v.status
        /\ w.age = v.age /\ w.relay_fqdn = g
    BY <2>3, <2>4, <2>5 DEF NodeInfo
  <2> USE DEF v, w, g
  <2> QED
    BY <2>6, <2>7, <1>2, NoNodeAssumption DEF Known
<1>3. CASE ~Known(n, self)
  BY <1>1, <1>3 DEF UpdateRelayStatus, Known, Nodes
<1> QED
  BY <1>2, <1>3

\* Pruning removes a stale entry and changes no other.
LEMMA PruneEntry ==
    ASSUME NEW n \in Nodes
    PROVE  PruneStale(n)[self] = IF Stale(n, self) THEN NoNode ELSE n[self]
  BY LifecycleAssumption DEF PruneStale

\* A tick makes the entry at most one tick older.
LEMMA GrowEntry ==
    ASSUME NEW n \in Nodes
    PROVE  LET m == GrowOlder(n)
           IN  /\ Known(m, self) <=> Known(n, self)
               /\ Known(n, self) =>
                    /\ m[self].host = n[self].host
                    /\ m[self].status = n[self].status
                    /\ m[self].age \in Nat /\ m[self].age <= n[self].age + 1
                    /\ m[self].relay_registered = n[self].relay_registered
                    /\ m[self].relay_fqdn = n[self].relay_fqdn
<1> DEFINE m == GrowOlder(n)
<1>1. self \in Keys
  BY LifecycleAssumption
<1>2. CASE Known(n, self) /\ n[self].age < MaxAge
  <2>1. n[self] \in NodeInfo
    BY <1>1, <1>2 DEF Nodes, Known
  <2>2. m[self] = [n[self] EXCEPT !.age = @ + 1]
    BY <1>1, <1>2 DEF GrowOlder
  <2>3. m[self] \in NodeInfo
    BY <2>1, <2>2, <1>2, RegistryAssumption DEF NodeInfo, MaxAge
  <2> QED
    BY <2>1, <2>2, <2>3, <1>2, RegistryAssumption, NoNodeAssumption
    DEF Known, NodeInfo, MaxAge
<1>3. CASE ~(Known(n, self) /\ n[self].age < MaxAge)
  <2>1. m[self] = n[self]
    BY <1>1, <1>3 DEF GrowOlder
  <2>2. Known(n, self) => n[self].age \in Nat
    BY <1>1, RegistryAssumption DEF Known, Nodes, NodeInfo, MaxAge
  <2> QED
    BY <2>1, <2>2 DEF Known
<1> QED
  BY <1>2, <1>3

-----------------------------------------------------------------------------
(* The inductive invariant *)

\* The heartbeat thread exists from main's announcement on, and it and main
\* only leave their loops when the flag is raised; no time has passed before
\* the announcement.
Flags ==
    /\ main = "boot" => hb = "none" /\ pruneWait = 0
    /\ main # "boot" => hb # "none"
    /\ main \notin {"boot", "up"} => g_shutdown
    /\ hb = "exited" => g_shutdown

\* Outside the write, public_hostname is the name the relay assigned.
Naming ==
    /\ relay \in {"writing", "register", "update"} => assigned \in Subdomains
    /\ assigned # NoFqdn /\ relay # "writing" => public_hostname = assigned

\* The entry is no older than the heartbeat thread has slept.
Young ==
    main = "up" /\ ~g_shutdown =>
        /\ Known(nodes, self)
        /\ hb = "test" => nodes[self].age = 0
        /\ HbCounts => nodes[self].age <= hbWait

\* What the entry shows once on_subdomain has registered the name, and once
\* it has updated the relay fields.
Shows ==
    main \in {"boot", "up"} /\ ~g_shutdown /\ assigned # NoFqdn =>
        /\ relay \in {"idle", "update"} =>
              Known(nodes, self) /\ nodes[self].host = assigned
        /\ relay = "idle" => /\ nodes[self].relay_registered
                             /\ nodes[self].relay_fqdn = assigned

\* Nobody is left who would register the node as online.
NoRegistration ==
    AnnouncedOffline /\ ~late =>
        hb # "register" /\ relay \notin {"writing", "register"}

NodeInv ==
    /\ TypeOK /\ Flags /\ Naming /\ Young /\ Shows
    /\ NoRegistration /\ OfflineLast

\* The node before its announcement.
LEMMA InitNode == Init => NodeInv
<1> SUFFICES ASSUME Init PROVE NodeInv
  OBVIOUS
<1>1. g_shutdown \in BOOLEAN /\ late \in BOOLEAN
  BY DEF Init
<1>2. running \in [Servers -> BOOLEAN]
  BY DEF Init
<1>3. listen \in [Servers -> {"top", "accept", "exited"}]
  BY DEF Init
<1>4. nodes \in Nodes
  BY DEF Init, Nodes
<1>5. TypeOK
  BY <1>1, <1>2, <1>3, <1>4, LifecycleAssumption DEF Init, TypeOK
<1> QED
  BY <1>5 DEF Init, NodeInv, Flags, Naming, Young, Shows, NoRegistration,
              OfflineLast, AnnouncedOffline

\* The numbers of the model.
LEMMA Numbers ==
    /\ HbEvery \in Nat /\ PruneEvery \in Nat /\ Slack \in Nat /\ MaxSubs \in Nat
    /\ NodeTtl \in Nat /\ HbEvery + Slack <= NodeTtl /\ PruneEvery > 0
    /\ self \in Keys /\ Torn \in Hosts /\ Subdomains \subseteq Hosts
    /\ NoFqdn \notin Hosts
  BY LifecycleAssumption, RegistryAssumption

\* Steps that leave the registry alone.
LEMMA QuietStep ==
    ASSUME NodeInv, UNCHANGED nodes,
           \/ UNCHANGED vars
           \/ MainFlag \/ MainJoinHeartbeat \/ MainStopRelay
           \/ MainStopForwarder \/ MainStopDiscovery \/ MainExit \/ Signal
           \/ HbTest \/ HbWake \/ OnSubdomainWritten
           \/ \E s \in Subdomains : OnSubdomain(s)
           \/ \E x \in Servers : ListenTop(x) \/ Incoming(x)
    PROVE  NodeInv'
<1>a. TypeOK /\ Flags /\ Naming /\ Young /\ Shows /\ NoRegistration
      /\ OfflineLast
  BY DEF NodeInv
<1> USE Numbers
<1>1. CASE UNCHANGED vars
  BY <1>1, <1>a
  DEF vars, NodeInv, TypeOK, Flags, Naming, Young, Shows, NoRegistration,
      OfflineLast, AnnouncedOffline, HbCounts
<1>2. CASE MainFlag \/ Signal
  <2>1. g_shutdown' \in BOOLEAN /\ g_shutdown'
    BY <1>2 DEF MainFlag, Signal
  <2>2. TypeOK'
    BY <1>2, <1>a, <2>1 DEF MainFlag, Signal, TypeOK
  <2> QED
    BY <1>2, <1>a, <2>1, <2>2
    DEF MainFlag, Signal, NodeInv, Flags, Naming, Young, Shows,
        NoRegistration, OfflineLast, AnnouncedOffline
<1>3. CASE MainJoinHeartbeat \/ MainStopRelay \/ MainExit
  <2>1. TypeOK'
    BY <1>3, <1>a DEF MainJoinHeartbeat, MainStopRelay, MainExit, TypeOK
  <2> QED
    BY <1>3, <1>a, <2>1
    DEF MainJoinHeartbeat, MainStopRelay, MainExit, NodeInv, Flags, Naming,
        Young, Shows, NoRegistration, OfflineLast, AnnouncedOffline
<1>4. CASE MainStopForwarder \/ MainStopDiscovery
  <2>1. running' \in [Servers -> BOOLEAN]
    <3>1. ASSUME NEW r \in [Servers -> BOOLEAN], NEW x \in Servers
          PROVE  [r EXCEPT ![x] = FALSE] \in [Servers -> BOOLEAN]
      OBVIOUS
    <3>2. running \in [Servers -> BOOLEAN]
      BY <1>a DEF TypeOK
    <3> QED
      BY <3>1, <3>2, <1>4 DEF MainStopForwarder, MainStopDiscovery, Servers
  <2>2. TypeOK'
    BY <1>4, <1>a, <2>1 DEF MainStopForwarder, MainStopDiscovery, TypeOK
  <2> QED
    BY <1>4, <1>a, <2>2
    DEF MainStopForwarder, MainStopDiscovery, NodeInv, Flags, Naming,
        Young, Shows, NoRegistration, OfflineLast, AnnouncedOffline
<1>5. CASE HbTest
  <2>1. TypeOK'
    BY <1>5, <1>a DEF HbTest, TypeOK
  <2> QED
    BY <1>5, <1>a, <2>1
    DEF HbTest, NodeInv, TypeOK, Flags, Naming, Young, Shows, NoRegistration,
        OfflineLast, AnnouncedOffline, HbCounts
<1>6. CASE HbWake
  <2>1. TypeOK'
    BY <1>6, <1>a DEF HbWake, TypeOK
  <2> QED
    BY <1>6, <1>a, <2>1
    DEF HbWake, NodeInv, TypeOK, Flags, Naming, Young, Shows, NoRegistration,
        OfflineLast, AnnouncedOffline, HbCounts
<1>7. CASE OnSubdomainWritten
  <2>1. TypeOK'
    BY <1>7, <1>a DEF OnSubdomainWritten, TypeOK, Naming
  <2> QED
    BY <1>7, <1>a, <2>1
    DEF OnSubdomainWritten, NodeInv, Flags, Naming, Young, Shows,
        NoRegistration, OfflineLast, AnnouncedOffline, HbCounts
<1>8. ASSUME NEW s \in Subdomains, OnSubdomain(s) PROVE NodeInv'
  <2>1. late' \in BOOLEAN
    BY <1>8, <1>a DEF OnSubdomain, TypeOK
  <2>2. TypeOK'
    BY <1>8, <1>a, <2>1 DEF OnSubdomain, TypeOK
  <2>3. late' <=> (late \/ AnnouncedOffline)
    BY <1>8 DEF OnSubdomain
  <2> QED
    BY <1>8, <1>a, <2>2, <2>3
    DEF OnSubdomain, NodeInv, Flags, Naming, Young, Shows,
        NoRegistration, OfflineLast, AnnouncedOffline, HbCounts
<1>9. ASSUME NEW x \in Servers, ListenTop(x) \/ Incoming(x) PROVE NodeInv'
  <2>1. listen' \in [Servers -> {"top", "accept", "exited"}]
    BY <1>9, <1>a DEF ListenTop, Incoming, TypeOK
  <2>2. TypeOK'
    BY <1>9, <1>a, <2>1 DEF ListenTop, Incoming, TypeOK
  <2> QED
    BY <1>9, <1>a, <2>2
    DEF ListenTop, Incoming, NodeInv, Flags, Naming, Young, Shows,
        NoRegistration, OfflineLast, AnnouncedOffline, HbCounts
<1> QED
  BY <1>1, <1>2, <1>3, <1>4, <1>5, <1>6, <1>7, <1>8, <1>9

\* Steps in which a thread registers the node: main before and after the
\* session, the heartbeat, and on_subdomain.
LEMMA RegisterStep ==
    ASSUME NodeInv,
           MainRegister \/ MainOffline \/ HbRegister \/ OnSubdomainRegister
    PROVE  NodeInv'
<1>a. TypeOK /\ Flags /\ Naming /\ Young /\ Shows /\ NoRegistration
      /\ OfflineLast
  BY DEF NodeInv
<1>b. nodes \in Nodes /\ public_hostname \in Hosts
  BY <1>a DEF TypeOK
<1> USE Numbers
<1>1. CASE MainRegister
  <2>1. nodes' = RegisterNode(nodes, self, public_hostname, "online")
    BY <1>1 DEF MainRegister, Announce
  <2>2. nodes' \in Nodes
    BY <2>1, <1>b, RegisterType DEF Status
  <2>3. /\ Known(nodes', self) /\ nodes'[self].host = public_hostname
        /\ nodes'[self].age = 0
        /\ Known(nodes, self) =>
             /\ nodes'[self].relay_registered = nodes[self].relay_registered
             /\ nodes'[self].relay_fqdn = nodes[self].relay_fqdn
    BY <2>1, <1>b, RegisterEntry DEF Status
  <2>4. TypeOK'
    BY <1>1, <1>a, <2>2 DEF MainRegister, TypeOK
  <2> QED
    BY <1>1, <1>a, <2>3, <2>4
    DEF MainRegister, NodeInv, Flags, Naming, Young, Shows, NoRegistration,
        OfflineLast, AnnouncedOffline, HbCounts
<1>2. CASE MainOffline
  <2>1. nodes' = RegisterNode(nodes, self, public_hostname, "offline")
    BY <1>2 DEF MainOffline, Announce
  <2>2. nodes' \in Nodes
    BY <2>1, <1>b, RegisterType DEF Status
  <2>3. nodes'[self].status = "offline"
    BY <2>1, <1>b, RegisterEntry DEF Status
  <2>4. late' \in BOOLEAN
    BY <1>2 DEF MainOffline
  <2>5. late' <=> (hb = "register" \/ relay \in {"writing", "register"})
    BY <1>2 DEF MainOffline
  <2>6. TypeOK'
    BY <1>2, <1>a, <2>2, <2>4 DEF MainOffline, TypeOK
  <2> QED
    BY <1>2, <1>a, <2>3, <2>5, <2>6
    DEF MainOffline, NodeInv, Flags, Naming, Young, Shows, NoRegistration,
        OfflineLast, AnnouncedOffline, HbCounts
<1>3. CASE HbRegister
  <2>1. nodes' = RegisterNode(nodes, self, public_hostname, "online")
    BY <1>3 DEF HbRegister, Announce
  <2>2. nodes' \in Nodes
    BY <2>1, <1>b, RegisterType DEF Status
  <2>3. /\ Known(nodes', self) /\ nodes'[self].host = public_hostname
        /\ nodes'[self].age = 0
        /\ Known(nodes, self) =>
             /\ nodes'[self].relay_registered = nodes[self].relay_registered
             /\ nodes'[self].relay_fqdn = nodes[self].relay_fqdn
    BY <2>1, <1>b, RegisterEntry DEF Status
  <2>4. TypeOK'
    BY <1>3, <1>a, <2>2 DEF HbRegister, TypeOK
  <2> QED
    BY <1>3, <1>a, <2>3, <2>4
    DEF HbRegister, NodeInv, Flags, Naming, Young, Shows, NoRegistration,
        OfflineLast, AnnouncedOffline, HbCounts
<1>4. CASE OnSubdomainRegister
  <2>1. assigned \in Hosts
    BY <1>4, <1>a DEF OnSubdomainRegister, Naming
  <2>2. nodes' = RegisterNode(nodes, self, assigned, "online")
    BY <1>4 DEF OnSubdomainRegister
  <2>3. nodes' \in Nodes
    BY <2>1, <2>2, <1>b, RegisterType DEF Status
  <2>4. /\ Known(nodes', self) /\ nodes'[self].host = assigned
        /\ nodes'[self].age = 0
    BY <2>1, <2>2, <1>b, RegisterEntry DEF Status
  <2>5. TypeOK'
    BY <1>4, <1>a, <2>3 DEF OnSubdomainRegister, TypeOK
  <2> QED
    BY <1>4, <1>a, <2>4, <2>5
    DEF OnSubdomainRegister, NodeInv, TypeOK, Flags, Naming, Young, Shows,
        NoRegistration, OfflineLast, AnnouncedOffline, HbCounts
<1> QED
  BY <1>1, <1>2, <1>3, <1>4

\* Steps in which the relay engine updates the relay fields.
LEMMA RelayStep ==
    ASSUME NodeInv, OnRegistered \/ OnSubdomainUpdate
    PROVE  NodeInv'
<1>a. TypeOK /\ Flags /\ Naming /\ Young /\ Shows /\ NoRegistration
      /\ OfflineLast
  BY DEF NodeInv
<1>b. nodes \in Nodes /\ assigned \in Hosts \cup {NoFqdn}
  BY <1>a, Numbers DEF TypeOK
<1> USE Numbers
<1>1. CASE OnRegistered
  <2>1. nodes' = UpdateRelayStatus(nodes, self, TRUE, NoFqdn)
    BY <1>1 DEF OnRegistered
  <2>2. nodes' \in Nodes
    BY <2>1, <1>b, RelayType
  <2>3. /\ Known(nodes', self) <=> Known(nodes, self)
        /\ Known(nodes, self) =>
             /\ nodes'[self].host = nodes[self].host
             /\ nodes'[self].status = nodes[self].status
             /\ nodes'[self].age = nodes[self].age
             /\ nodes'[self].relay_registered
             /\ nodes'[self].relay_fqdn = nodes[self].relay_fqdn
    BY <2>1, <1>b, RelayEntry
  <2>4. TypeOK'
    BY <1>1, <1>a, <2>2 DEF OnRegistered, TypeOK
  <2> QED
    BY <1>1, <1>a, <2>3, <2>4
    DEF OnRegistered, NodeInv, Flags, Naming, Young, Shows, NoRegistration,
        OfflineLast, AnnouncedOffline, HbCounts
<1>2. CASE OnSubdomainUpdate
  <2>1. nodes' = UpdateRelayStatus(nodes, self, TRUE, assigned)
    BY <1>2 DEF OnSubdomainUpdate
  <2>2. nodes' \in Nodes
    BY <2>1, <1>b, RelayType
  <2>3. assigned # NoFqdn
    BY <1>2, <1>a DEF OnSubdomainUpdate, Naming
  <2>4. /\ Known(nodes', self) <=> Known(nodes, self)
        /\ Known(nodes, self) =>
             /\ nodes'[self].host = nodes[self].host
             /\ nodes'[self].status = nodes[self].status
             /\ nodes'[self].age = nodes[self].age
             /\ nodes'[self].relay_registered
             /\ nodes'[self].relay_fqdn = assigned
    BY <2>1, <2>3, <1>b, RelayEntry
  <2>5. TypeOK'
    BY <1>2, <1>a, <2>2 DEF OnSubdomainUpdate, TypeOK
  <2> QED
    BY <1>2, <1>a, <2>4, <2>5
    DEF OnSubdomainUpdate, NodeInv, Flags, Naming, Young, Shows,
        NoRegistration, OfflineLast, AnnouncedOffline, HbCounts
<1> QED
  BY <1>1, <1>2

\* Pruning: an entry no older than the heartbeat's sleep is not stale.
LEMMA PruneStep == NodeInv /\ PruneWake => NodeInv'
<1> SUFFICES ASSUME NodeInv, PruneWake PROVE NodeInv'
  OBVIOUS
<1>a. TypeOK /\ Flags /\ Naming /\ Young /\ Shows /\ NoRegistration
      /\ OfflineLast
  BY DEF NodeInv
<1> USE Numbers
<1>1. nodes \in Nodes /\ nodes' = PruneStale(nodes) /\ nodes' \in Nodes
  BY <1>a, PruneType DEF PruneWake, TypeOK
<1>2. nodes'[self] = IF Stale(nodes, self) THEN NoNode ELSE nodes[self]
  BY <1>1, PruneEntry
<1>3. TypeOK'
  BY <1>a, <1>1 DEF PruneWake, TypeOK
<1>4. main # "boot"
  BY <1>a DEF PruneWake, Flags
<1>5. ASSUME main = "up", ~g_shutdown PROVE nodes'[self] = nodes[self]
  <2>1. hb \in {"test", "sleep", "register"}
    BY <1>5, <1>a DEF Flags, TypeOK
  <2>2. nodes[self] \in NodeInfo
    BY <1>5, <1>a, <1>1 DEF Young, Known, Nodes
  <2>3. nodes[self].age \in Nat
    BY <2>2 DEF NodeInfo, MaxAge
  <2>4. nodes[self].age <= NodeTtl
    BY <1>5, <1>a, <2>1, <2>3 DEF Young, HbCounts, TypeOK
  <2> QED
    BY <1>2, <2>3, <2>4 DEF Stale
<1> QED
  BY <1>a, <1>2, <1>3, <1>4, <1>5
  DEF PruneWake, NodeInv, Flags, Naming, Young, Shows, NoRegistration,
      OfflineLast, AnnouncedOffline, HbCounts, Known

\* The clock: while the heartbeat sleeps it counts as fast as the entry ages.
LEMMA TickStep == NodeInv /\ Tick => NodeInv'
<1> SUFFICES ASSUME NodeInv, Tick PROVE NodeInv'
  OBVIOUS
<1>a. TypeOK /\ Flags /\ Naming /\ Young /\ Shows /\ NoRegistration
      /\ OfflineLast
  BY DEF NodeInv
<1> USE Numbers
<1>1. nodes \in Nodes /\ nodes' = GrowOlder(nodes) /\ nodes' \in Nodes
  BY <1>a, GrowType DEF Tick, TypeOK
<1>2. /\ Known(nodes', self) <=> Known(nodes, self)
      /\ Known(nodes, self) =>
           /\ nodes'[self].host = nodes[self].host
           /\ nodes'[self].status = nodes[self].status
           /\ nodes'[self].age \in Nat
           /\ nodes'[self].age <= nodes[self].age + 1
           /\ nodes'[self].relay_registered = nodes[self].relay_registered
           /\ nodes'[self].relay_fqdn = nodes[self].relay_fqdn
  BY <1>1, GrowEntry
<1>3. TypeOK'
  BY <1>a, <1>1 DEF Tick, TypeOK, HbCounts, PruneCounts
<1>4. Young'
  <2> SUFFICES ASSUME main = "up", ~g_shutdown
               PROVE  Young'
    BY DEF Young, Tick
  <2>1. Known(nodes, self) /\ hb \in {"sleep", "register"}
    BY <1>a DEF Young, Flags, Tick, TypeOK
  <2>2. nodes[self] \in NodeInfo
    BY <2>1, <1>1 DEF Known, Nodes
  <2>3. nodes[self].age \in Nat
    BY <2>2 DEF NodeInfo, MaxAge
  <2> QED
    BY <1>a, <1>2, <2>1, <2>3 DEF Young, Tick, HbCounts, TypeOK
<1> QED
  BY <1>a, <1>2, <1>3, <1>4
  DEF Tick, NodeInv, Flags, Naming, Shows, NoRegistration, OfflineLast,
      AnnouncedOffline

\* Every step keeps the invariant.
LEMMA StepNode == NodeInv /\ [Next]_vars => NodeInv'
<1> SUFFICES ASSUME NodeInv, [Next]_vars PROVE NodeInv'
  OBVIOUS
<1>1. CASE \/ UNCHANGED vars
           \/ MainFlag \/ MainJoinHeartbeat \/ MainStopRelay
           \/ MainStopForwarder \/ MainStopDiscovery \/ MainExit \/ Signal
           \/ HbTest \/ HbWake \/ OnSubdomainWritten
           \/ \E s \in Subdomains : OnSubdomain(s)
           \/ \E x \in Servers : ListenTop(x) \/ Incoming(x)
  <2>1. UNCHANGED nodes
    BY <1>1 DEF vars, MainFlag, MainJoinHeartbeat, MainStopRelay,
                MainStopForwarder, MainStopDiscovery, MainExit, Signal,
                HbTest, HbWake, OnSubdomainWritten, OnSubdomain, ListenTop,
                Incoming
  <2> QED
    BY <1>1, <2>1, QuietStep
<1>2. CASE MainRegister \/ MainOffline \/ HbRegister \/ OnSubdomainRegister
  BY <1>2, RegisterStep
<1>3. CASE OnRegistered \/ OnSubdomainUpdate
  BY <1>3, RelayStep
<1>4. CASE PruneWake
  BY <1>4, PruneStep
<1>5. CASE Tick
  BY <1>5, TickStep
<1> QED
  BY <1>1, <1>2, <1>3, <1>4, <1>5 DEF Next, Main, Heartbeat, Callbacks

-----------------------------------------------------------------------------
(* Theorems *)

\* Every thread stays at one of its places, and no sleep is longer than its
\* interval and the slack.
THEOREM NodeTypes == Spec => []TypeOK
<1>1. NodeInv => TypeOK
  BY DEF NodeInv
<1> QED
  BY InitNode, StepNode, <1>1, PTL DEF Spec

\* For every heartbeat interval and delay that together stay within node_ttl,
\* the pruning thread never removes the node's own entry while it is up.
THEOREM HeartbeatKeepsListed == Spec => []SelfStaysListed
<1>1. NodeInv => SelfStaysListed
  BY DEF NodeInv, Young, SelfStaysListed
<1> QED
  BY InitNode, StepNode, <1>1, PTL DEF Spec

\* For any sequence of assignments: when on_subdomain has returned, the entry
\* shows the name that was assigned last, in both of its fields.
THEOREM SubdomainShown == Spec => []SubdomainIsShown
<1>1. NodeInv => SubdomainIsShown
  BY DEF NodeInv, Shows, SubdomainIsShown
<1> QED
  BY InitNode, StepNode, <1>1, PTL DEF Spec

\* After main has announced the node offline the entry says so, unless a
\* thread was already past its look at the flag, or a subdomain was assigned.
THEOREM OfflineIsLast == Spec => []OfflineLast
<1>1. NodeInv => OfflineLast
  BY DEF NodeInv
<1> QED
  BY InitNode, StepNode, <1>1, PTL DEF Spec
=============================================================================
