------------------------------- MODULE MCRadio -------------------------------
(* Small instances of Radio for TLC. *)
EXTENDS Radio
=============================================================================
