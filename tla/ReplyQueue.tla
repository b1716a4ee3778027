----------------------------- MODULE ReplyQueue -----------------------------
(***************************************************************************)
(* What Notifications promises about a device's replies: every frame that  *)
(* lands is kept until it is read or deliberately discarded, frames are    *)
(* read in the order they landed, and a wait is answered with the drop of  *)
(* the link only when everything that landed before it has been read.      *)
(***************************************************************************)
EXTENDS Naturals, Sequences

CONSTANT Never  \* no drop so far

VARIABLES
    landed,     \* frames landed so far; they are named by their number
    held,       \* those not read and not discarded, in order
    droppedAt,  \* how many had landed when the drop became known
    answer,     \* what the reader's current or last call has come to
    given       \* the frame it was given last

vars == <<landed, held, droppedAt, answer, given>>

Open == {"pending", "partial", "requesting"}
Answers == {"reply", "timeout", "dropped", "failed"}

Init == /\ landed = 0
        /\ held = <<>>
        /\ droppedAt = Never
        /\ answer = "none"
        /\ given = 0

Land == /\ landed' = landed + 1
        /\ held' = Append(held, landed')
        /\ UNCHANGED <<droppedAt, answer, given>>

Drop == /\ droppedAt = Never
        /\ droppedAt' = landed
        /\ UNCHANGED <<landed, held, answer, given>>

Ask == /\ answer \notin Open
       /\ answer' \in {"pending", "requesting"}
       /\ UNCHANGED <<landed, held, droppedAt, given>>

\* A frame is the answer, or the first of a burst, or not what is waited for.
Read == /\ answer \in {"pending", "partial"}
        /\ held # <<>>
        /\ given' = Head(held)
        /\ held' = Tail(held)
        /\ answer' \in (IF answer = "pending" THEN {"pending", "partial", "reply", "failed"}
                                              ELSE {"partial"})
        /\ UNCHANGED <<landed, droppedAt>>

\* A burst takes all there is, and may end with it.
ReadAll == /\ answer = "partial"
           /\ given' = IF held = <<>> THEN given ELSE held[Len(held)]
           /\ held' = <<>>
           /\ answer' \in {"partial", "reply"}
           /\ UNCHANGED <<landed, droppedAt>>

\* Frames that answer something earlier are dropped, on the reader's word.
Discard == /\ answer \notin {"pending", "partial"}
           /\ held' = <<>>
           /\ UNCHANGED <<landed, droppedAt, answer, given>>

\* The request is written: what lands from here on may be its reply.
Written == /\ answer = "requesting"
           /\ answer' \in {"pending", "failed"}
           /\ UNCHANGED <<landed, held, droppedAt, given>>

\* A burst that has begun ends in a reply, whatever ended it.
GiveUp == /\ answer \in {"pending", "partial"}
          /\ answer' = IF answer = "partial" THEN "reply" ELSE "timeout"
          /\ UNCHANGED <<landed, held, droppedAt, given>>

\* The drop is the answer: to a wait, only once nothing older is left to read.
SayDropped == /\ droppedAt # Never
              /\ \/ answer = "requesting"
                 \/ answer = "pending" /\ \A i \in DOMAIN held : held[i] > droppedAt
              /\ answer' = "dropped"
              /\ UNCHANGED <<landed, held, droppedAt, given>>

Next == \/ Land \/ Drop \/ Ask \/ Read \/ ReadAll \/ Discard
        \/ Written \/ GiveUp \/ SayDropped

Spec == Init /\ [][Next]_vars

=============================================================================
