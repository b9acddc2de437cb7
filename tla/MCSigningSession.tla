-------------------------- MODULE MCSigningSession --------------------------
(***************************************************************************)
(* Instances of SigningSession for TLC.                                    *)
(***************************************************************************)
EXTENDS SigningSession, TLC

CONSTANTS s1, s2, idA, idB, nA, nB, d1, d2

\* The circuit is deterministic and, for the shards of the model, injective.
MCSha == idA :> nA @@ idB :> nB
MCShaOne == idA :> nA
OneDirectory == ALICE :> d1 @@ BOB :> d1
TwoDirectories == ALICE :> d1 @@ BOB :> d2
=============================================================================
