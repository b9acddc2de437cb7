-------------------------- MODULE MCNodeLifecycle --------------------------
(***************************************************************************)
(* Instances of NodeLifecycle for TLC.  A tick is 5 seconds: heartbeats    *)
(* every 15, pruning every 10, a TTL of 30.                                *)
(***************************************************************************)
EXTENDS NodeLifecycle

CONSTANTS local, sub1, sub2
=============================================================================
