----------------------------- MODULE SessionLife -----------------------------
(***************************************************************************)
(* What an attempt sees of its ble_session(), and nothing of links: a       *)
(* session begins, its block or what leads to it ends, and a close may      *)
(* follow.  How the session ends is settled before the close, and only a    *)
(* cancellation changes it then; a close ends by itself.                    *)
(***************************************************************************)
VARIABLES
    life,  \* "idle", "running" up to the end of the block, "closing"
    how    \* how the session is ending, or ended

vars == <<life, how>>

TypeOK == /\ life \in {"idle", "running", "closing"}
          /\ how \in {"none", "error", "cancelled"}

Begin == /\ life = "idle"
         /\ life' = "running"
         /\ how' = "none"

\* A session that never got a client, or whose link is kept, needs no close.
EndsIn(outcomes) == /\ life = "running"
                    /\ life' \in {"idle", "closing"}
                    /\ how' \in outcomes

End == EndsIn({"none", "error"})

CloseEnds == /\ life = "closing"
             /\ life' = "idle"
             /\ UNCHANGED how

Cancel == \/ EndsIn({"cancelled"})
          \/ life = "closing" /\ life' = "idle" /\ how' = "cancelled"

Init == life = "idle" /\ how = "none"

Next == Begin \/ End \/ CloseEnds \/ Cancel

Spec == Init /\ [][Next]_vars

\* What WF_vars(CloseEnds) comes to: no close goes on for ever.
ClosesEnd == (life = "closing") ~> (life # "closing")

=============================================================================
