----------------------------- MODULE MCLinkFacts -----------------------------
(***************************************************************************)
(* What an integration reads of a link, Gatt's figures and Radio's radios,  *)
(* for TLC.  The two share no variable, so an invariant of either holds of   *)
(* both together if it holds of it alone: a behaviour here is one of Gatt or *)
(* one of Radio, with the other at rest.                                    *)
(***************************************************************************)
EXTENDS Gatt, Radio

VARIABLE subject  \* whose behaviour this is

FactsInit ==
    /\ Init /\ RadioInit
    /\ \/ subject = "gatt"
       \/ subject = "radio" /\ exposes = "nothing" /\ ~discovered /\ charSize = 0

GattStep == subject = "gatt" /\ Next /\ UNCHANGED <<radioVars, subject>>
RadioStep == subject = "radio" /\ RadioNext /\ UNCHANGED <<vars, subject>>

FactsSpec == FactsInit /\ [][GattStep \/ RadioStep]_<<vars, radioVars, subject>>
=============================================================================
