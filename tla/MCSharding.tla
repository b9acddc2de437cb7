----------------------------- MODULE MCSharding -----------------------------
(***************************************************************************)
(* An instance of Sharding for TLC, which also evaluates the hypothesis of *)
(* the theorem about it for the instance's prime and threshold.            *)
(***************************************************************************)
EXTENDS Sharding

ASSUME InterpolatesHere == Interpolates
=============================================================================
