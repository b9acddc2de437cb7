--------------------------- MODULE NullifierLedger ---------------------------
(***************************************************************************)
(* What the nullifier database promises the petition: a nullifier is       *)
(* committed once and for good, and a signature is attested (its           *)
(* verification e-mail accepted) at most once, after it was committed.     *)
(***************************************************************************)
EXTENDS Naturals

CONSTANT Nullifiers

VARIABLES committed,  \* nullifiers on record
          attested    \* how many times each was attested

ledger == <<committed, attested>>

LedgerInit ==
    /\ committed = {}
    /\ attested = [n \in Nullifiers |-> 0]

Commit(n) ==
    /\ n \notin committed
    /\ committed' = committed \cup {n}
    /\ UNCHANGED attested

Attest(n) ==
    /\ n \in committed
    /\ attested[n] = 0
    /\ attested' = [attested EXCEPT ![n] = 1]
    /\ UNCHANGED committed

LedgerNext == \E n \in Nullifiers : Commit(n) \/ Attest(n)

LedgerSpec == LedgerInit /\ [][LedgerNext]_ledger
=============================================================================
