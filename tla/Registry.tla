------------------------------ MODULE Registry ------------------------------
(***************************************************************************)
(* The node registry of DiscoveryServer: nodes_ and what each operation    *)
(* does to it while it holds nodes_mu_.  Operators take the registry and   *)
(* return the new one; the modules that have threads call them.            *)
(* A key stands for "party_id:port"; last_seen is kept as an age in ticks. *)
(***************************************************************************)
EXTENDS Naturals

CONSTANTS
    Keys,     \* node keys
    Hosts,    \* hostnames
    NoNode,   \* the key is not in nodes_
    NoFqdn,   \* the empty relay_fqdn
    NodeTtl   \* node_ttl, in ticks

ASSUME RegistryAssumption ==
    /\ NodeTtl \in Nat
    /\ NoFqdn \notin Hosts

Status == {"online", "offline"}

\* Ages above NodeTtl + 1 are not told apart.
MaxAge == NodeTtl + 1

NodeInfo == [host : Hosts, status : Status, age : 0..MaxAge,
             relay_registered : BOOLEAN, relay_fqdn : Hosts \cup {NoFqdn}]

ASSUME NoNodeAssumption == NoNode \notin NodeInfo

Nodes == [Keys -> NodeInfo \cup {NoNode}]

Known(nodes, k) == nodes[k] # NoNode

NewNode(host, status) ==
    [host |-> host, status |-> status, age |-> 0,
     relay_registered |-> FALSE, relay_fqdn |-> NoFqdn]

\* A bug: an update builds the entry anew and forgets the relay fields.
RegisterNodeAnew(nodes, k, host, status) ==
    [nodes EXCEPT ![k] = NewNode(host, status)]

\* A bug: an update does not refresh last_seen.
RegisterNodeUnseen(nodes, k, host, status) ==
    [nodes EXCEPT
        ![k] = IF Known(nodes, k)
                 THEN [@ EXCEPT !.host = host, !.status = status]
                 ELSE NewNode(host, status)]

\* register_node under nodes_mu_: an update keeps the relay fields.
RegisterNode(nodes, k, host, status) ==
    [nodes EXCEPT
        ![k] = IF Known(nodes, k)
                 THEN [@ EXCEPT !.host = host, !.status = status, !.age = 0]
                 ELSE NewNode(host, status)]

\* update_relay_status under nodes_mu_: an unknown node is only logged, an
\* empty fqdn leaves the old one.
UpdateRelayStatus(nodes, k, registered, fqdn) ==
    [nodes EXCEPT
        ![k] = IF Known(nodes, k)
                 THEN [@ EXCEPT !.relay_registered = registered,
                                !.relay_fqdn = IF fqdn = NoFqdn
                                                 THEN nodes[k].relay_fqdn
                                                 ELSE fqdn]
                 ELSE NoNode]

Stale(nodes, k) == Known(nodes, k) /\ nodes[k].age > NodeTtl

\* prune_stale under nodes_mu_.
PruneStale(nodes) ==
    [k \in Keys |-> IF Stale(nodes, k) THEN NoNode ELSE nodes[k]]

\* What topology_json shows of the registry: everything but last_seen.
Shown(node) == [host |-> node.host, status |-> node.status,
                relay_registered |-> node.relay_registered,
                relay_fqdn |-> node.relay_fqdn]

\* The topologies there can be: every listed key shows its fields.
Views == UNION {[S -> [host : Hosts, status : Status,
                       relay_registered : BOOLEAN,
                       relay_fqdn : Hosts \cup {NoFqdn}]] :
                S \in SUBSET Keys}

Topology(nodes) ==
    [k \in {j \in Keys : Known(nodes, j)} |-> Shown(nodes[k])]

\* One tick of the clock.
GrowOlder(nodes) ==
    [k \in Keys |->
        IF Known(nodes, k) /\ nodes[k].age < MaxAge
          THEN [nodes[k] EXCEPT !.age = @ + 1]
          ELSE nodes[k]]
=============================================================================
