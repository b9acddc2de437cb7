---------------------------- MODULE MCSmtpClient ----------------------------
(***************************************************************************)
(* Instances of SmtpClient for TLC.                                        *)
(***************************************************************************)
EXTENDS SmtpClient

AnyConfig == Config
=============================================================================
