---------------------------- MODULE MCDiscovery ----------------------------
(***************************************************************************)
(* Instances of Discovery for TLC: the node itself (self), kept in the     *)
(* registry by its own main and heartbeat threads, and a peer that         *)
(* announces itself over HTTP.                                             *)
(***************************************************************************)
EXTENDS Discovery

CONSTANTS self, peer, local, sub

Entry(k, h, st) == [key |-> k, host |-> h, status |-> st]

\* The node registers itself, repeats it, and announces that it goes offline.
OwnCalls == {Entry(self, local, "online"), Entry(self, local, "offline")}
PeerMoves == {Entry(peer, local, "online"), Entry(peer, sub, "online")}
RelayUpdates == {[key |-> self, registered |-> TRUE, fqdn |-> NoFqdn],
                 [key |-> self, registered |-> TRUE, fqdn |-> sub]}
=============================================================================
