---------------------------- MODULE MCRelayClient ----------------------------
(***************************************************************************)
(* Instances of RelayClient for TLC.  A tick is 2.5 seconds: a receive     *)
(* timeout of 5, a registration repeated after 10, heartbeats every 90 and *)
(* a TTL of 270.                                                           *)
(***************************************************************************)
EXTENDS RelayClient

=============================================================================
