----------------------------- MODULE MCAttempts -----------------------------
(* Small instances of Attempts for TLC. *)
EXTENDS Attempts

=============================================================================
