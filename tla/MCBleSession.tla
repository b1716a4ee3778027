---------------------------- MODULE MCBleSession ----------------------------
(* Small instances of BleSession for TLC. *)
EXTENDS BleSession

=============================================================================
