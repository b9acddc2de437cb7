--------------------------- MODULE MCTopologyFeed ---------------------------
(* A small instance of TopologyFeed: the empty registry, a node that is    *)
(* alone, and a quorum of two.                                             *)
EXTENDS TopologyFeed

MCOnline ==
    [t \in Topologies |-> CASE t = "empty" -> {}
                            [] t = "one" -> {1}
                            [] t = "two" -> {1, 2}]
=============================================================================
