----------------------------- MODULE MCForwarder -----------------------------
(***************************************************************************)
(* Instances of Forwarder for TLC.  Full is 3 units, so that a ciphertext  *)
(* can be shorter than, equal to and longer than the 4096 bytes.           *)
(***************************************************************************)
EXTENDS Forwarder

\* Every way a request can be wrong, with ciphertexts of every length.
AnyRequest ==
    [len : 0..5, signed : {2, 3, 5}, waits : BOOLEAN, delimiter : BOOLEAN,
     circuit : BOOLEAN, signature : {"missing", "good", "bad"},
     commitments : {"missing", "good", "bad"}]
=============================================================================
