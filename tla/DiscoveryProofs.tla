--------------------------- MODULE DiscoveryProofs ---------------------------
(***************************************************************************)
(* Proofs about Discovery, for any keys and hosts, any number of threads   *)
(* and WebSocket connections, any calls and any bounds on them.            *)
(***************************************************************************)
EXTENDS Discovery, TLAPS

(* The operations of the registry *)

\* Every operation returns a registry.
LEMMA RegisterType ==
    ASSUME NEW n \in Nodes, NEW k \in Keys, NEW h \in Hosts, NEW s \in Status
    PROVE  RegisterNode(n, k, h, s) \in Nodes
<1>1. NewNode(h, s) \in NodeInfo
  BY RegistryAssumption DEF NewNode, NodeInfo, MaxAge
<1>2. ASSUME NEW v \in NodeInfo
      PROVE  [v EXCEPT !.host = h, !.status = s, !.age = 0] \in NodeInfo
  <2>1. 0 \in 0..MaxAge
    BY RegistryAssumption DEF MaxAge
  <2> QED
    BY <2>1 DEF NodeInfo
<1>3. Known(n, k) => n[k] \in NodeInfo
  BY DEF Known, Nodes
<1>4. (IF Known(n, k)
         THEN [n[k] EXCEPT !.host = h, !.status = s, !.age = 0]
         ELSE NewNode(h, s)) \in NodeInfo
  BY <1>1, <1>2, <1>3
<1> QED
  BY <1>4 DEF RegisterNode, Nodes

\* Likewise for update_relay_status ...
LEMMA RelayType ==
    ASSUME NEW n \in Nodes, NEW k \in Keys, NEW b \in BOOLEAN,
           NEW f \in Hosts \cup {NoFqdn}
    PROVE  UpdateRelayStatus(n, k, b, f) \in Nodes
<1> DEFINE g == IF f = NoFqdn THEN n[k].relay_fqdn ELSE f
<1>1. ASSUME NEW v \in NodeInfo, NEW h \in Hosts \cup {NoFqdn}
      PROVE  [v EXCEPT !.relay_registered = b, !.relay_fqdn = h] \in NodeInfo
  BY <1>1 DEF NodeInfo
<1>2. ASSUME Known(n, k)
      PROVE  [n[k] EXCEPT !.relay_registered = b, !.relay_fqdn = g] \in NodeInfo
  <2>1. n[k] \in NodeInfo
    BY <1>2 DEF Known, Nodes
  <2>2. g \in Hosts \cup {NoFqdn}
    BY <2>1 DEF NodeInfo
  <2> QED
    BY <1>1, <2>1, <2>2
<1> QED
  BY <1>2 DEF UpdateRelayStatus, Nodes

\* ... for prune_stale ...
LEMMA PruneType == ASSUME NEW n \in Nodes PROVE PruneStale(n) \in Nodes
  BY DEF PruneStale, Nodes

\* ... and for the clock.
LEMMA GrowType == ASSUME NEW n \in Nodes PROVE GrowOlder(n) \in Nodes
<1>1. ASSUME NEW v \in NodeInfo, v.age < MaxAge
      PROVE  [v EXCEPT !.age = @ + 1] \in NodeInfo
  BY <1>1, RegistryAssumption DEF NodeInfo, MaxAge
<1> QED
  BY <1>1 DEF GrowOlder, Nodes, Known

\* topology_json of a registry is a view.
LEMMA TopologyType == ASSUME NEW n \in Nodes PROVE Topology(n) \in Views
<1> DEFINE S == {j \in Keys : Known(n, j)}
<1>1. ASSUME NEW v \in NodeInfo
      PROVE  Shown(v) \in [host : Hosts, status : Status,
                           relay_registered : BOOLEAN,
                           relay_fqdn : Hosts \cup {NoFqdn}]
  BY DEF Shown, NodeInfo
<1>2. \A k \in S : n[k] \in NodeInfo
  BY DEF Nodes, Known
<1>3. Topology(n) \in [S -> [host : Hosts, status : Status,
                             relay_registered : BOOLEAN,
                             relay_fqdn : Hosts \cup {NoFqdn}]]
  BY <1>1, <1>2 DEF Topology
<1> QED
  BY <1>3 DEF Views

\* prune_stale without a stale node changes nothing.
LEMMA PruneQuiet ==
    ASSUME NEW n \in Nodes, ~\E k \in Keys : Stale(n, k)
    PROVE  PruneStale(n) = n
  BY DEF PruneStale, Nodes

\* Time shows in no topology.
LEMMA GrowQuiet ==
    ASSUME NEW n \in Nodes PROVE Topology(GrowOlder(n)) = Topology(n)
<1> DEFINE m == GrowOlder(n)
<1>1. \A k \in Keys : n[k] \in NodeInfo \cup {NoNode}
  BY DEF Nodes
<1>2. ASSUME NEW k \in Keys
      PROVE  /\ Known(m, k) <=> Known(n, k)
             /\ Known(n, k) => Shown(m[k]) = Shown(n[k])
  <2>1. CASE Known(n, k) /\ n[k].age < MaxAge
    <3>1. n[k] \in NodeInfo
      BY <1>1, <2>1 DEF Known
    <3>2. m[k] = [n[k] EXCEPT !.age = @ + 1]
      BY <2>1 DEF GrowOlder
    <3>3. m[k] \in NodeInfo
      BY <3>1, <3>2, <2>1, RegistryAssumption DEF NodeInfo, MaxAge
    <3> QED
      BY <3>1, <3>2, <3>3, <2>1, NoNodeAssumption DEF Known, Shown, NodeInfo
  <2>2. CASE ~(Known(n, k) /\ n[k].age < MaxAge)
    BY <2>2 DEF GrowOlder, Known
  <2> QED
    BY <2>1, <2>2
<1> QED
  BY <1>2 DEF Topology

-----------------------------------------------------------------------------
(* The inductive invariant *)

\* A JSON is held by a thread only while it owes a broadcast, by a handler
\* while it is about to send its first one, and it is the topology as it is
\* unless it was overtaken.
Held ==
    /\ \A t \in Threads : snap[t] # NoView => todo[t] > 0
    /\ \A c \in Clients : conn[c] = "snapped" => snap[c] # NoView
    /\ \A a \in Actor :
          snap[a] # NoView /\ ~overtaken[a] => snap[a] = Topology(nodes)

Serving == {"joined", "snapped", "reading"}

\* Listed connections are served and open; a served one is listed until stop.
Listed ==
    /\ \A c \in ws_clients : conn[c] \in Serving
    /\ \A c \in Clients : conn[c] = "upgrade" => fd[c] = "open"
    /\ \A c \in Clients : running /\ conn[c] \in Serving => c \in ws_clients

DiscoveryInv ==
    TypeOK /\ Held /\ Listed /\ ListedAreOpen /\ StaleOnlyIfOvertaken

\* A server that has just started.
LEMMA InitDiscovery == Init => DiscoveryInv
<1> SUFFICES ASSUME Init PROVE DiscoveryInv
  OBVIOUS
<1>1. running \in BOOLEAN /\ overtaken \in [Actor -> BOOLEAN]
      /\ late \in [Clients -> BOOLEAN]
  BY DEF Init
<1>2. /\ nodes \in Nodes /\ todo \in [Threads -> 0..2]
      /\ snap \in [Actor -> Views \cup {NoView}]
      /\ view \in [Clients -> Views \cup {NoView}]
  BY DEF Init, Nodes
<1>3. /\ conn \in [Clients -> {"none", "upgrade", "joined", "snapped",
                               "reading", "closing"}]
      /\ fd \in [Clients -> {"open", "closed"}]
      /\ ws_clients \subseteq Clients
      /\ ops \in 0..MaxOps /\ joins \in 0..MaxJoins
  BY DiscoveryAssumption DEF Init
<1>4. Held /\ Listed /\ ListedAreOpen /\ StaleOnlyIfOvertaken
  BY DEF Init, Held, Listed, Serving, ListedAreOpen, StaleOnlyIfOvertaken,
         Watching, Actor
<1> QED
  BY <1>1, <1>2, <1>3, <1>4 DEF DiscoveryInv, TypeOK

\* Every call of the registry leaves the variables of connections alone and
\* gives the registry its new value; a change that owes no broadcast either
\* shows in no topology or marks every client as late.
Changes(t) ==
    /\ Free(t)
    /\ nodes' \in Nodes
    /\ todo' \in [Threads -> 0..2]
    /\ \A u \in Threads : u # t => todo'[u] = todo[u]
    /\ overtaken' = [a \in Actor |->
                       \/ overtaken[a]
                       \/ snap[a] # NoView /\ Topology(nodes') # Topology(nodes)]
    /\ late' \in [Clients -> BOOLEAN]
    /\ \A c \in Clients : late[c] => late'[c]
    /\ \/ todo'[t] > 0
       \/ Topology(nodes') = Topology(nodes)
       \/ \A c \in Clients : late'[c]
    /\ ops' \in 0..MaxOps
    /\ UNCHANGED <<running, snap, ws_clients, conn, fd, view, joins>>

\* What the calls have in common.
LEMMA ChangeTypes ==
    ASSUME TypeOK, NEW t \in Threads, NEW new \in Nodes, NEW b \in 0..2,
           Change(t, new, b)
    PROVE  /\ Free(t) /\ nodes' = new /\ nodes' \in Nodes
           /\ todo' \in [Threads -> 0..2] /\ todo'[t] = b
           /\ \A u \in Threads : u # t => todo'[u] = todo[u]
           /\ overtaken' = [a \in Actor |->
                 \/ overtaken[a]
                 \/ snap[a] # NoView /\ Topology(nodes') # Topology(nodes)]
           /\ UNCHANGED <<running, snap, ws_clients, conn, fd, view, joins>>
  BY DEF TypeOK, Change

\* register_node, update_relay_status, handle_announce and a round of
\* prune_loop are such changes.
LEMMA CallsChange ==
    ASSUME TypeOK, NEW t \in Threads,
           \/ \E r \in Regs : CallRegister(t, r)
           \/ \E r \in RelayCalls : CallRelay(t, r)
           \/ \E r \in Announces : HandleAnnounce(t, r)
           \/ t = Pruner /\ Prune
    PROVE  Changes(t)
<1>a. /\ nodes \in Nodes /\ late \in [Clients -> BOOLEAN] /\ ops \in 0..MaxOps
      /\ MaxOps \in Nat
  BY DiscoveryAssumption DEF TypeOK
<1>b. Call(t) => ops' \in 0..MaxOps
  BY <1>a DEF Call
<1>1. ASSUME NEW r \in Regs, CallRegister(t, r) PROVE Changes(t)
  <2>1. r.key \in Keys /\ r.host \in Hosts /\ r.status \in Status
    BY DiscoveryAssumption
  <2>2. RegisterNode(nodes, r.key, r.host, r.status) \in Nodes
    BY <1>a, <2>1, RegisterType
  <2>3. IfNew(r.key) \in 0..2 /\ (~Known(nodes, r.key) => IfNew(r.key) = 1)
    BY DEF IfNew
  <2>4. Change(t, RegisterNode(nodes, r.key, r.host, r.status), IfNew(r.key))
    BY <1>1 DEF CallRegister
  <2>5. ops' \in 0..MaxOps
    BY <1>1, <1>b DEF CallRegister
  <2>6. late' \in [Clients -> BOOLEAN]
    BY <1>1 DEF CallRegister
  <2>7. \A c \in Clients : late'[c] <=>
          \/ late[c]
          \/ Known(nodes, r.key) /\ Topology(nodes') # Topology(nodes)
    BY <1>1 DEF CallRegister
  <2>8. /\ Free(t) /\ nodes' \in Nodes
        /\ todo' \in [Threads -> 0..2] /\ todo'[t] = IfNew(r.key)
        /\ \A u \in Threads : u # t => todo'[u] = todo[u]
        /\ overtaken' = [a \in Actor |->
              \/ overtaken[a]
              \/ snap[a] # NoView /\ Topology(nodes') # Topology(nodes)]
        /\ UNCHANGED <<running, snap, ws_clients, conn, fd, view, joins>>
    BY <2>2, <2>3, <2>4, ChangeTypes
  <2>9. CASE Known(nodes, r.key)
    BY <2>5, <2>6, <2>7, <2>8, <2>9 DEF Changes
  <2>10. CASE ~Known(nodes, r.key)
    <3>1. todo'[t] > 0
      BY <2>3, <2>8, <2>10
    <3> QED
      BY <2>5, <2>6, <2>7, <2>8, <3>1 DEF Changes
  <2> QED
    BY <2>9, <2>10
<1>2. ASSUME NEW r \in RelayCalls, CallRelay(t, r) PROVE Changes(t)
  <2>1. r.key \in Keys /\ r.registered \in BOOLEAN
        /\ r.fqdn \in Hosts \cup {NoFqdn}
    BY DiscoveryAssumption
  <2>2. UpdateRelayStatus(nodes, r.key, r.registered, r.fqdn) \in Nodes
    BY <1>a, <2>1, RelayType
  <2>3. Change(t, UpdateRelayStatus(nodes, r.key, r.registered, r.fqdn), 1)
        /\ late' = late /\ ops' \in 0..MaxOps
    BY <1>2, <1>b DEF CallRelay
  <2>4. /\ Free(t) /\ nodes' \in Nodes
        /\ todo' \in [Threads -> 0..2] /\ todo'[t] = 1
        /\ \A u \in Threads : u # t => todo'[u] = todo[u]
        /\ overtaken' = [a \in Actor |->
              \/ overtaken[a]
              \/ snap[a] # NoView /\ Topology(nodes') # Topology(nodes)]
        /\ UNCHANGED <<running, snap, ws_clients, conn, fd, view, joins>>
    BY <2>2, <2>3, ChangeTypes
  <2> QED
    BY <1>a, <2>3, <2>4 DEF Changes
<1>3. ASSUME NEW r \in Announces, HandleAnnounce(t, r) PROVE Changes(t)
  <2>1. r.key \in Keys /\ r.host \in Hosts /\ r.status \in Status
    BY DiscoveryAssumption
  <2>2. RegisterNode(nodes, r.key, r.host, r.status) \in Nodes
    BY <1>a, <2>1, RegisterType
  <2>3. IfNew(r.key) + 1 \in 0..2 /\ IfNew(r.key) + 1 > 0
    BY DEF IfNew
  <2>4. Change(t, RegisterNode(nodes, r.key, r.host, r.status),
               IfNew(r.key) + 1)
        /\ late' = late /\ ops' \in 0..MaxOps
    BY <1>3, <1>b DEF HandleAnnounce
  <2>5. /\ Free(t) /\ nodes' \in Nodes
        /\ todo' \in [Threads -> 0..2] /\ todo'[t] = IfNew(r.key) + 1
        /\ \A u \in Threads : u # t => todo'[u] = todo[u]
        /\ overtaken' = [a \in Actor |->
              \/ overtaken[a]
              \/ snap[a] # NoView /\ Topology(nodes') # Topology(nodes)]
        /\ UNCHANGED <<running, snap, ws_clients, conn, fd, view, joins>>
    BY <2>2, <2>3, <2>4, ChangeTypes
  <2> QED
    BY <1>a, <2>3, <2>4, <2>5 DEF Changes
<1>4. ASSUME t = Pruner, Prune PROVE Changes(t)
  <2> DEFINE b == IF \E k \in Keys : Stale(nodes, k) THEN 1 ELSE 0
  <2>1. PruneStale(nodes) \in Nodes /\ b \in 0..2
    BY <1>a, PruneType
  <2>2. Change(t, PruneStale(nodes), b) /\ late' = late /\ ops' = ops
    BY <1>4 DEF Prune
  <2> HIDE DEF b
  <2>3. /\ Free(t) /\ nodes' = PruneStale(nodes) /\ nodes' \in Nodes
        /\ todo' \in [Threads -> 0..2] /\ todo'[t] = b
        /\ \A u \in Threads : u # t => todo'[u] = todo[u]
        /\ overtaken' = [a \in Actor |->
              \/ overtaken[a]
              \/ snap[a] # NoView /\ Topology(nodes') # Topology(nodes)]
        /\ UNCHANGED <<running, snap, ws_clients, conn, fd, view, joins>>
    BY <2>1, <2>2, ChangeTypes
  <2>4. b = 0 => PruneStale(nodes) = nodes
    BY <1>a, PruneQuiet DEF b
  <2>5. b > 0 \/ Topology(nodes') = Topology(nodes)
    BY <2>1, <2>3, <2>4
  <2> QED
    BY <1>a, <2>2, <2>3, <2>5 DEF Changes
<1> QED
  BY <1>1, <1>2, <1>3, <1>4

-----------------------------------------------------------------------------
(* Every step keeps the invariant *)

\* A change of the registry.
LEMMA ChangeStep ==
    ASSUME DiscoveryInv, NEW t \in Threads, Changes(t)
    PROVE  DiscoveryInv'
<1> USE DEF Changes
<1>a. TypeOK
  BY DEF DiscoveryInv
<1>1. overtaken' \in [Actor -> BOOLEAN]
  OBVIOUS
<1>2. TypeOK'
  BY <1>a, <1>1 DEF TypeOK
<1>3. Held'
  <2>1. ASSUME NEW u \in Threads, snap'[u] # NoView PROVE todo'[u] > 0
    BY <2>1, <1>a DEF DiscoveryInv, Held, Free
  <2>2. ASSUME NEW a \in Actor, snap'[a] # NoView, ~overtaken'[a]
        PROVE  snap'[a] = Topology(nodes)'
    BY <2>2 DEF DiscoveryInv, Held
  <2> QED
    BY <2>1, <2>2 DEF DiscoveryInv, Held
<1>4. Listed' /\ ListedAreOpen'
  BY DEF DiscoveryInv, Listed, ListedAreOpen
<1>5. StaleOnlyIfOvertaken'
  <2> SUFFICES ASSUME AtRest', NEW c \in Clients, Watching(c)', ~late'[c]
               PROVE  view'[c] = Topology(nodes)'
    BY DEF StaleOnlyIfOvertaken
  <2>1. ~(todo'[t] > 0)
    BY DEF AtRest, Free
  <2>2. Topology(nodes') = Topology(nodes)
    BY <2>1
  <2>3. AtRest
    BY DEF AtRest, Free
  <2> QED
    BY <2>2, <2>3 DEF DiscoveryInv, StaleOnlyIfOvertaken, Watching
<1> QED
  BY <1>2, <1>3, <1>4, <1>5 DEF DiscoveryInv

\* What a Deliver leaves behind: the JSON is gone, the clients it reached see
\* the registry as it is or are late, and no other client is disturbed.
LEMMA DeliverFacts ==
    ASSUME DiscoveryInv, NEW a \in Actor, NEW to \in SUBSET Clients,
           snap[a] # NoView, Deliver(a, to), UNCHANGED nodes
    PROVE  /\ snap' \in [Actor -> Views \cup {NoView}]
           /\ view' \in [Clients -> Views \cup {NoView}]
           /\ overtaken' \in [Actor -> BOOLEAN]
           /\ late' \in [Clients -> BOOLEAN]
           /\ snap'[a] = NoView
           /\ \A b \in Actor : b # a => /\ snap'[b] = snap[b]
                                        /\ overtaken'[b] = overtaken[b]
           /\ \A c \in to : fd[c] = "open" =>
                 late'[c] \/ view'[c] = Topology(nodes)
           /\ \A c \in Clients : ~(c \in to /\ fd[c] = "open") =>
                 view'[c] = view[c] /\ late'[c] = late[c]
<1>a. /\ snap \in [Actor -> Views \cup {NoView}]
      /\ view \in [Clients -> Views \cup {NoView}]
      /\ overtaken \in [Actor -> BOOLEAN] /\ late \in [Clients -> BOOLEAN]
  BY DEF DiscoveryInv, TypeOK
<1>1. /\ snap' = [snap EXCEPT ![a] = NoView]
      /\ view' = [c \in Clients |-> IF c \in to /\ fd[c] = "open"
                                      THEN snap[a] ELSE view[c]]
  BY DEF Deliver
<1>2. late' = [c \in Clients |-> IF c \in to /\ fd[c] = "open"
                                   THEN overtaken[a] ELSE late[c]]
  BY DEF Deliver
<1>3. overtaken' = [overtaken EXCEPT ![a] = FALSE]
  BY DEF Deliver
<1>4. late' \in [Clients -> BOOLEAN]
  BY <1>a, <1>2
<1>5. overtaken' \in [Actor -> BOOLEAN]
  BY <1>a, <1>3
<1>6. /\ snap' \in [Actor -> Views \cup {NoView}]
      /\ view' \in [Clients -> Views \cup {NoView}]
      /\ snap'[a] = NoView
  BY <1>a, <1>1
<1>7. \A b \in Actor : b # a => /\ snap'[b] = snap[b]
                                /\ overtaken'[b] = overtaken[b]
  BY <1>a, <1>1, <1>3
<1>8. ~overtaken[a] => snap[a] = Topology(nodes)
  BY DEF DiscoveryInv, Held
<1>9. \A c \in to : fd[c] = "open" => late'[c] \/ view'[c] = Topology(nodes)
  BY <1>1, <1>2, <1>8
<1>10. \A c \in Clients : ~(c \in to /\ fd[c] = "open") =>
          view'[c] = view[c] /\ late'[c] = late[c]
  BY <1>1, <1>2
<1> QED
  BY <1>4, <1>5, <1>6, <1>7, <1>9, <1>10

\* The second half of a broadcast.
LEMMA SendStep ==
    ASSUME DiscoveryInv, NEW t \in Threads, SendToAll(t)
    PROVE  DiscoveryInv'
<1>a. TypeOK /\ t \in Actor /\ ws_clients \in SUBSET Clients
  BY DEF DiscoveryInv, TypeOK, Actor
<1>b. /\ snap[t] # NoView /\ Deliver(t, ws_clients)
      /\ todo' = [todo EXCEPT ![t] = @ - 1]
      /\ UNCHANGED <<nodes, running, ws_clients, conn, fd, ops, joins>>
  BY DEF SendToAll
<1>c. todo[t] > 0
  BY <1>b DEF DiscoveryInv, Held
<1>1. /\ snap' \in [Actor -> Views \cup {NoView}]
      /\ view' \in [Clients -> Views \cup {NoView}]
      /\ overtaken' \in [Actor -> BOOLEAN]
      /\ late' \in [Clients -> BOOLEAN]
      /\ snap'[t] = NoView
      /\ \A b \in Actor : b # t => /\ snap'[b] = snap[b]
                                   /\ overtaken'[b] = overtaken[b]
      /\ \A c \in ws_clients : fd[c] = "open" =>
            late'[c] \/ view'[c] = Topology(nodes)
  BY <1>a, <1>b, DeliverFacts
<1>2. /\ todo' \in [Threads -> 0..2]
      /\ \A u \in Threads : u # t => todo'[u] = todo[u]
  BY <1>a, <1>b, <1>c DEF TypeOK
<1>3. TypeOK'
  BY <1>a, <1>b, <1>1, <1>2 DEF TypeOK
<1>4. Held'
  <2>1. ASSUME NEW u \in Threads, snap'[u] # NoView PROVE todo'[u] > 0
    BY <2>1, <1>1, <1>2 DEF DiscoveryInv, Held, Actor
  <2>2. ASSUME NEW c \in Clients, conn'[c] = "snapped" PROVE snap'[c] # NoView
    <3>1. c # t /\ c \in Actor
      BY DiscoveryAssumption DEF Actor
    <3> QED
      BY <2>2, <3>1, <1>1, <1>b DEF DiscoveryInv, Held
  <2>3. ASSUME NEW a \in Actor, snap'[a] # NoView, ~overtaken'[a]
        PROVE  snap'[a] = Topology(nodes)'
    BY <2>3, <1>1, <1>b DEF DiscoveryInv, Held
  <2> QED
    BY <2>1, <2>2, <2>3 DEF Held
<1>5. Listed' /\ ListedAreOpen'
  BY <1>b DEF DiscoveryInv, Listed, ListedAreOpen
<1>6. StaleOnlyIfOvertaken'
  <2> SUFFICES ASSUME NEW c \in Clients, Watching(c)', ~late'[c]
               PROVE  view'[c] = Topology(nodes)'
    BY DEF StaleOnlyIfOvertaken
  <2>1. c \in ws_clients /\ fd[c] = "open"
    BY <1>b DEF Watching, DiscoveryInv, Listed, Serving, ListedAreOpen
  <2> QED
    BY <2>1, <1>1, <1>b
<1> QED
  BY <1>3, <1>4, <1>5, <1>6 DEF DiscoveryInv

\* The first half of a broadcast, and of the first message of a connection.
LEMMA TakeFacts ==
    ASSUME TypeOK, NEW a \in Actor, Take(a)
    PROVE  /\ snap' \in [Actor -> Views \cup {NoView}]
           /\ snap'[a] = Topology(nodes) /\ snap'[a] # NoView
           /\ \A b \in Actor : b # a => snap'[b] = snap[b]
           /\ overtaken' = overtaken
<1>1. Topology(nodes) \in Views /\ Topology(nodes) # NoView
  BY TopologyType, DiscoveryAssumption DEF TypeOK
<1> QED
  BY <1>1 DEF Take, TypeOK

\* Taking the JSON of a broadcast.
LEMMA TakeStep ==
    ASSUME DiscoveryInv, NEW t \in Threads, TakeSnapshot(t)
    PROVE  DiscoveryInv'
<1>a. TypeOK /\ t \in Actor /\ Take(t) /\ todo[t] > 0
      /\ UNCHANGED <<nodes, running, todo, ws_clients, conn, fd, view, late,
                     ops, joins>>
  BY DEF DiscoveryInv, Actor, TakeSnapshot
<1>1. /\ snap' \in [Actor -> Views \cup {NoView}]
      /\ snap'[t] = Topology(nodes) /\ snap'[t] # NoView
      /\ \A b \in Actor : b # t => snap'[b] = snap[b]
      /\ overtaken' = overtaken
  BY <1>a, TakeFacts
<1>2. TypeOK'
  BY <1>a, <1>1 DEF TypeOK
<1>3. Held'
  <2>1. ASSUME NEW u \in Threads, snap'[u] # NoView PROVE todo'[u] > 0
    BY <2>1, <1>1, <1>a DEF DiscoveryInv, Held, Actor
  <2>2. ASSUME NEW c \in Clients, conn'[c] = "snapped" PROVE snap'[c] # NoView
    BY <2>2, <1>1, <1>a DEF DiscoveryInv, Held, Actor
  <2>3. ASSUME NEW a \in Actor, snap'[a] # NoView, ~overtaken'[a]
        PROVE  snap'[a] = Topology(nodes)'
    BY <2>3, <1>1, <1>a DEF DiscoveryInv, Held
  <2> QED
    BY <2>1, <2>2, <2>3 DEF Held
<1>4. Listed' /\ ListedAreOpen'
  BY <1>a DEF DiscoveryInv, Listed, ListedAreOpen
<1>5. ~AtRest'
  BY <1>1 DEF AtRest, Free
<1> QED
  BY <1>2, <1>3, <1>4, <1>5 DEF DiscoveryInv, StaleOnlyIfOvertaken

\* A step of a connection's handler changes its own state of connection only.
LEMMA ConnectionFacts ==
    ASSUME TypeOK, NEW c \in Clients, NEW from,
           NEW to \in {"none", "upgrade", "joined", "snapped", "reading",
                       "closing"},
           Connection(c, from, to)
    PROVE  /\ conn[c] = from /\ conn'[c] = to
           /\ \A d \in Clients : d # c => conn'[d] = conn[d]
           /\ conn' \in [Clients -> {"none", "upgrade", "joined", "snapped",
                                     "reading", "closing"}]
  BY DEF TypeOK, Connection

\* The steps of a connection's handler.
LEMMA ConnectionStep ==
    ASSUME DiscoveryInv, NEW c \in Clients,
           \/ Accept(c) \/ Upgrade(c) \/ JoinSnapshot(c) \/ JoinSend(c)
           \/ Leave(c) \/ Close(c)
    PROVE  DiscoveryInv'
<1> DEFINE Conns == {"none", "upgrade", "joined", "snapped", "reading",
                     "closing"}
<1>a. TypeOK /\ c \in Actor /\ c \notin Threads
  BY DiscoveryAssumption DEF DiscoveryInv, Actor
<1>1. CASE Accept(c)
  <2>1. /\ conn[c] = "none" /\ conn'[c] = "upgrade"
        /\ \A d \in Clients : d # c => conn'[d] = conn[d]
        /\ conn' \in [Clients -> Conns]
    BY <1>1, <1>a, ConnectionFacts DEF Accept
  <2>2. /\ joins' \in 0..MaxJoins
        /\ fd' \in [Clients -> {"open", "closed"}] /\ fd'[c] = "open"
        /\ \A d \in Clients : d # c => fd'[d] = fd[d]
        /\ UNCHANGED <<nodes, running, todo, snap, ws_clients, view, overtaken,
                       late, ops>>
    BY <1>1, <1>a, DiscoveryAssumption DEF Accept, TypeOK
  <2>3. TypeOK'
    BY <1>a, <2>1, <2>2 DEF TypeOK
  <2>4. Held'
    BY <2>1, <2>2 DEF DiscoveryInv, Held
  <2>5. Listed' /\ ListedAreOpen'
    BY <1>a, <2>1, <2>2
    DEF DiscoveryInv, Listed, ListedAreOpen, Serving, TypeOK
  <2>6. StaleOnlyIfOvertaken'
    BY <2>1, <2>2
    DEF DiscoveryInv, StaleOnlyIfOvertaken, Watching, AtRest, Free
  <2> QED
    BY <2>3, <2>4, <2>5, <2>6 DEF DiscoveryInv
<1>2. CASE Upgrade(c)
  <2>1. /\ conn[c] = "upgrade" /\ conn'[c] = "joined"
        /\ \A d \in Clients : d # c => conn'[d] = conn[d]
        /\ conn' \in [Clients -> Conns]
    BY <1>2, <1>a, ConnectionFacts DEF Upgrade
  <2>2. /\ ws_clients' = ws_clients \cup {c}
        /\ UNCHANGED <<nodes, running, todo, snap, fd, view, overtaken, late,
                       ops, joins>>
    BY <1>2 DEF Upgrade
  <2>3. TypeOK'
    BY <1>a, <2>1, <2>2 DEF TypeOK
  <2>4. Held'
    BY <2>1, <2>2 DEF DiscoveryInv, Held
  <2>5. Listed' /\ ListedAreOpen'
    BY <1>a, <2>1, <2>2
    DEF DiscoveryInv, Listed, ListedAreOpen, Serving, TypeOK
  <2>6. StaleOnlyIfOvertaken'
    BY <2>1, <2>2
    DEF DiscoveryInv, StaleOnlyIfOvertaken, Watching, AtRest, Free
  <2> QED
    BY <2>3, <2>4, <2>5, <2>6 DEF DiscoveryInv
<1>3. CASE JoinSnapshot(c)
  <2>1. /\ conn[c] = "joined" /\ conn'[c] = "snapped"
        /\ \A d \in Clients : d # c => conn'[d] = conn[d]
        /\ conn' \in [Clients -> Conns]
    BY <1>3, <1>a, ConnectionFacts DEF JoinSnapshot
  <2>2. /\ snap' \in [Actor -> Views \cup {NoView}]
        /\ snap'[c] = Topology(nodes) /\ snap'[c] # NoView
        /\ \A b \in Actor : b # c => snap'[b] = snap[b]
        /\ overtaken' = overtaken
        /\ UNCHANGED <<nodes, running, todo, ws_clients, fd, view, late, ops,
                       joins>>
    BY <1>3, <1>a, TakeFacts DEF JoinSnapshot
  <2>3. TypeOK'
    BY <1>a, <2>1, <2>2 DEF TypeOK
  <2>4. Held'
    <3>1. ASSUME NEW u \in Threads, snap'[u] # NoView PROVE todo'[u] > 0
      BY <3>1, <1>a, <2>2 DEF DiscoveryInv, Held, Actor
    <3>2. ASSUME NEW d \in Clients, conn'[d] = "snapped"
          PROVE  snap'[d] # NoView
      BY <3>2, <2>1, <2>2 DEF DiscoveryInv, Held, Actor
    <3>3. ASSUME NEW a \in Actor, snap'[a] # NoView, ~overtaken'[a]
          PROVE  snap'[a] = Topology(nodes)'
      BY <3>3, <2>2 DEF DiscoveryInv, Held
    <3> QED
      BY <3>1, <3>2, <3>3 DEF Held
  <2>5. Listed' /\ ListedAreOpen'
    BY <1>a, <2>1, <2>2
    DEF DiscoveryInv, Listed, ListedAreOpen, Serving, TypeOK
  <2>6. StaleOnlyIfOvertaken'
    <3>1. \A t \in Threads : snap'[t] = snap[t] /\ todo'[t] = todo[t]
      BY <1>a, <2>2 DEF Actor
    <3>2. AtRest' => AtRest
      BY <3>1 DEF AtRest, Free
    <3> QED
      BY <3>2, <2>1, <2>2 DEF DiscoveryInv, StaleOnlyIfOvertaken, Watching
  <2> QED
    BY <2>3, <2>4, <2>5, <2>6 DEF DiscoveryInv
<1>4. CASE JoinSend(c)
  <2>1. /\ conn[c] = "snapped" /\ conn'[c] = "reading"
        /\ \A d \in Clients : d # c => conn'[d] = conn[d]
        /\ conn' \in [Clients -> Conns]
    BY <1>4, <1>a, ConnectionFacts DEF JoinSend
  <2>2. snap[c] # NoView /\ {c} \in SUBSET Clients /\ Deliver(c, {c})
        /\ UNCHANGED <<nodes, running, todo, ws_clients, fd, ops, joins>>
    BY <1>4, <2>1 DEF JoinSend, DiscoveryInv, Held
  <2>3. /\ snap' \in [Actor -> Views \cup {NoView}]
        /\ view' \in [Clients -> Views \cup {NoView}]
        /\ overtaken' \in [Actor -> BOOLEAN]
        /\ late' \in [Clients -> BOOLEAN]
        /\ snap'[c] = NoView
        /\ \A b \in Actor : b # c => /\ snap'[b] = snap[b]
                                     /\ overtaken'[b] = overtaken[b]
        /\ fd[c] = "open" => late'[c] \/ view'[c] = Topology(nodes)
        /\ \A d \in Clients : d # c => view'[d] = view[d] /\ late'[d] = late[d]
    BY <1>a, <2>2, DeliverFacts
  <2>4. TypeOK'
    BY <1>a, <2>1, <2>2, <2>3 DEF TypeOK
  <2>5. Held'
    <3>1. ASSUME NEW u \in Threads, snap'[u] # NoView PROVE todo'[u] > 0
      BY <3>1, <1>a, <2>2, <2>3 DEF DiscoveryInv, Held, Actor
    <3>2. ASSUME NEW d \in Clients, conn'[d] = "snapped"
          PROVE  snap'[d] # NoView
      BY <3>2, <2>1, <2>3 DEF DiscoveryInv, Held, Actor
    <3>3. ASSUME NEW a \in Actor, snap'[a] # NoView, ~overtaken'[a]
          PROVE  snap'[a] = Topology(nodes)'
      BY <3>3, <2>2, <2>3 DEF DiscoveryInv, Held
    <3> QED
      BY <3>1, <3>2, <3>3 DEF Held
  <2>6. Listed' /\ ListedAreOpen'
    BY <1>a, <2>1, <2>2
    DEF DiscoveryInv, Listed, ListedAreOpen, Serving, TypeOK
  <2>7. StaleOnlyIfOvertaken'
    <3>1. \A t \in Threads : snap'[t] = snap[t] /\ todo'[t] = todo[t]
      BY <1>a, <2>2, <2>3 DEF Actor
    <3>2. AtRest' => AtRest
      BY <3>1 DEF AtRest, Free
    <3>3. running => fd[c] = "open"
      BY <2>1 DEF DiscoveryInv, Listed, ListedAreOpen, Serving
    <3> QED
      BY <3>2, <3>3, <2>1, <2>2, <2>3
      DEF DiscoveryInv, StaleOnlyIfOvertaken, Watching
  <2> QED
    BY <2>4, <2>5, <2>6, <2>7 DEF DiscoveryInv
<1>5. CASE Leave(c)
  <2>1. /\ conn[c] = "reading" /\ conn'[c] = "closing"
        /\ \A d \in Clients : d # c => conn'[d] = conn[d]
        /\ conn' \in [Clients -> Conns]
    BY <1>5, <1>a, ConnectionFacts DEF Leave
  <2>2. /\ ws_clients' = ws_clients \ {c}
        /\ UNCHANGED <<nodes, running, todo, snap, fd, view, overtaken, late,
                       ops, joins>>
    BY <1>5 DEF Leave
  <2>3. TypeOK'
    BY <1>a, <2>1, <2>2 DEF TypeOK
  <2>4. Held'
    BY <2>1, <2>2 DEF DiscoveryInv, Held
  <2>5. Listed' /\ ListedAreOpen'
    BY <1>a, <2>1, <2>2
    DEF DiscoveryInv, Listed, ListedAreOpen, Serving, TypeOK
  <2>6. StaleOnlyIfOvertaken'
    BY <2>1, <2>2
    DEF DiscoveryInv, StaleOnlyIfOvertaken, Watching, AtRest, Free
  <2> QED
    BY <2>3, <2>4, <2>5, <2>6 DEF DiscoveryInv
<1>6. CASE Close(c)
  <2>1. /\ conn[c] = "closing" /\ conn'[c] = "none"
        /\ \A d \in Clients : d # c => conn'[d] = conn[d]
        /\ conn' \in [Clients -> Conns]
    BY <1>6, <1>a, ConnectionFacts DEF Close
  <2>2. /\ fd' = [fd EXCEPT ![c] = "closed"]
        /\ view' = [view EXCEPT ![c] = NoView]
        /\ UNCHANGED <<nodes, running, todo, snap, ws_clients, overtaken, ops,
                       joins>>
    BY <1>6 DEF Close
  <2>3. late' = [late EXCEPT ![c] = FALSE]
    BY <1>6 DEF Close
  <2>4. late' \in [Clients -> BOOLEAN]
    BY <2>3, <1>a DEF TypeOK
  <2>5. \A d \in Clients : d # c => late'[d] = late[d]
    BY <2>3, <1>a DEF TypeOK
  <2>6. /\ view' \in [Clients -> Views \cup {NoView}]
        /\ fd' \in [Clients -> {"open", "closed"}]
        /\ \A d \in Clients : d # c => view'[d] = view[d] /\ fd'[d] = fd[d]
    BY <2>2, <1>a DEF TypeOK
  <2>7. TypeOK'
    BY <1>a, <2>1, <2>2, <2>4, <2>6 DEF TypeOK
  <2>8. Held'
    BY <2>1, <2>2 DEF DiscoveryInv, Held
  <2>9. Listed' /\ ListedAreOpen'
    BY <1>a, <2>1, <2>2, <2>6
    DEF DiscoveryInv, Listed, ListedAreOpen, Serving, TypeOK
  <2>10. StaleOnlyIfOvertaken'
    <3>1. AtRest' => AtRest
      BY <2>2 DEF AtRest, Free
    <3> QED
      BY <3>1, <2>1, <2>2, <2>5, <2>6
      DEF DiscoveryInv, StaleOnlyIfOvertaken, Watching
  <2> QED
    BY <2>7, <2>8, <2>9, <2>10 DEF DiscoveryInv
<1> QED
  BY <1>1, <1>2, <1>3, <1>4, <1>5, <1>6

\* Every step.
LEMMA StepDiscovery == DiscoveryInv /\ [Next]_vars => DiscoveryInv'
<1> SUFFICES ASSUME DiscoveryInv, [Next]_vars PROVE DiscoveryInv'
  OBVIOUS
<1>a. TypeOK /\ Pruner \in Threads
  BY DiscoveryAssumption DEF DiscoveryInv
<1>1. CASE UNCHANGED vars
  BY <1>1 DEF vars, DiscoveryInv, TypeOK, Held, Listed, ListedAreOpen,
              StaleOnlyIfOvertaken, AtRest, Free, Watching
<1>2. ASSUME NEW t \in Threads,
             \/ \E r \in Regs : CallRegister(t, r)
             \/ \E r \in RelayCalls : CallRelay(t, r)
             \/ \E r \in Announces : HandleAnnounce(t, r)
      PROVE  DiscoveryInv'
  BY <1>2, <1>a, CallsChange, ChangeStep
<1>3. CASE Prune
  BY <1>3, <1>a, CallsChange, ChangeStep
<1>4. ASSUME NEW t \in Threads, TakeSnapshot(t) PROVE DiscoveryInv'
  BY <1>4, TakeStep
<1>5. ASSUME NEW t \in Threads, SendToAll(t) PROVE DiscoveryInv'
  BY <1>5, SendStep
<1>6. CASE Tick
  <2>1. /\ nodes' \in Nodes /\ Topology(nodes') = Topology(nodes)
        /\ UNCHANGED <<running, todo, snap, ws_clients, conn, fd, view,
                       overtaken, late, ops, joins>>
    BY <1>6, <1>a, GrowType, GrowQuiet DEF Tick, TypeOK
  <2>2. TypeOK'
    BY <1>a, <2>1 DEF TypeOK
  <2> QED
    BY <2>1, <2>2 DEF DiscoveryInv, Held, Listed, ListedAreOpen,
                      StaleOnlyIfOvertaken, AtRest, Free, Watching
<1>7. CASE Stop
  <2>1. running' \in BOOLEAN /\ ~running'
    BY <1>7 DEF Stop
  <2>2. /\ fd' = [c \in Clients |-> IF c \in ws_clients THEN "closed"
                                                        ELSE fd[c]]
        /\ ws_clients' = {}
        /\ UNCHANGED <<nodes, todo, snap, conn, view, overtaken, late, ops,
                       joins>>
    BY <1>7 DEF Stop
  <2>3. TypeOK'
    BY <1>a, <2>1, <2>2 DEF TypeOK
  <2>4. Held'
    BY <2>2 DEF DiscoveryInv, Held
  <2>5. Listed' /\ ListedAreOpen'
    BY <1>a, <2>1, <2>2
    DEF DiscoveryInv, Listed, ListedAreOpen, Serving, TypeOK
  <2>6. StaleOnlyIfOvertaken'
    BY <2>1 DEF StaleOnlyIfOvertaken, Watching
  <2> QED
    BY <2>3, <2>4, <2>5, <2>6 DEF DiscoveryInv
<1>8. ASSUME NEW c \in Clients,
             \/ Accept(c) \/ Upgrade(c) \/ JoinSnapshot(c) \/ JoinSend(c)
             \/ Leave(c) \/ Close(c)
      PROVE  DiscoveryInv'
  BY <1>8, ConnectionStep
<1> QED
  BY <1>1, <1>2, <1>3, <1>4, <1>5, <1>6, <1>7, <1>8 DEF Next

-----------------------------------------------------------------------------
(* Theorems *)

\* Each JSON that is held or received is a topology of the registry's nodes,
\* no thread owes more than two broadcasts, and nobody unlists a stranger.
THEOREM DiscoveryTypes == Spec => []TypeOK
<1>1. DiscoveryInv => TypeOK
  BY DEF DiscoveryInv
<1> QED
  BY InitDiscovery, StepDiscovery, <1>1, PTL DEF Spec

\* Whatever the order of upgrades, closes, broadcasts and stop, a descriptor
\* in ws_clients_ is open: a broadcast writes to no number that was closed.
THEOREM BroadcastsToOpenOnly == Spec => []ListedAreOpen
<1>1. DiscoveryInv => ListedAreOpen
  BY DEF DiscoveryInv
<1> QED
  BY InitDiscovery, StepDiscovery, <1>1, PTL DEF Spec

\* With any number of calling threads and connections: when no broadcast is
\* owed, a client whose last JSON was not overtaken sees the registry.
THEOREM ViewsCurrentAtRest == Spec => []StaleOnlyIfOvertaken
<1>1. DiscoveryInv => StaleOnlyIfOvertaken
  BY DEF DiscoveryInv
<1> QED
  BY InitDiscovery, StepDiscovery, <1>1, PTL DEF Spec

\* A JSON that a broadcast holds between topology_json and the sends is the
\* registry's, unless a change that shows was made in that window.
THEOREM SnapshotsCurrent ==
    Spec => [](\A a \in Actor : snap[a] # NoView /\ ~overtaken[a]
                                  => snap[a] = Topology(nodes))
<1>1. DiscoveryInv => (\A a \in Actor : snap[a] # NoView /\ ~overtaken[a]
                                          => snap[a] = Topology(nodes))
  BY DEF DiscoveryInv, Held
<1> QED
  BY InitDiscovery, StepDiscovery, <1>1, PTL DEF Spec
=============================================================================
