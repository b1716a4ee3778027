----------------------------- MODULE SessionTrace -----------------------------
(***************************************************************************)
(* SessionTrace of trace.py: an attempt runs stages inside stages, failures *)
(* leave them, are swallowed, or wait while a cleanup (an `except` or a     *)
(* `finally` with stages of its own) runs.  The trace must come out of that *)
(* naming the stage the failure of the attempt first left.                  *)
(*                                                                         *)
(* The caller does what the docstrings ask of it: it forgives what it       *)
(* swallows, a cleanup by the name that failed, a retry loop whatever it    *)
(* was; and a cleanup's stages are not named like the failure it cleans up  *)
(* after, which forgive(name) could not tell apart.                         *)
(***************************************************************************)
EXTENDS Naturals, Sequences, SequencesExt

CONSTANTS
    Names,     \* stages timed: the library's own and the device's
    StageMap,  \* device stage name -> primary stage
    MaxDepth   \* bound: stages and cleanups open at once

ASSUME DepthAssumption == MaxDepth \in Nat \ {0}
ASSUME NamesAssumption == Names \cap {"none", "unplaced"} = {}

\* primary_of() asks the map only about the name of a stage.
ASSUME StageMapAssumption == DOMAIN StageMap \cap {"none", "unplaced"} = {}

VARIABLES
    frames,      \* what is open: stages, and cleanups with the failure each holds
    flight,      \* the failure in flight, by the stage it first left
    failedStage  \* SessionTrace.failed_stage

trace == <<frames, flight, failedStage>>

Failures == Names \cup {"unplaced"}  \* "unplaced": it has left no stage yet
Frames == {"stage", "cleanup"} \X Failures

TraceTypeOK ==
    /\ frames \in Seq(Frames) /\ Len(frames) <= MaxDepth
    /\ flight \in Failures \cup {"none"}
    /\ failedStage \in Names \cup {"none"}

TraceInit == frames = <<>> /\ flight = "none" /\ failedStage = "none"

Inside(kind) == frames # <<>> /\ Last(frames)[1] = kind
Open(kind, name) == Len(frames) < MaxDepth /\ frames' = Append(frames, <<kind, name>>)
Close == frames' = Front(frames)

\* The failures that cleanups hold.
Held == {frames[i][2] : i \in {k \in DOMAIN frames : frames[k][1] = "cleanup"}}

-----------------------------------------------------------------------------
\* Mutant: the stage left last is named.
BlameLast(n) == failedStage' = n

\* A failure leaves stage n, or fail(n) says it has.
Blame(n) == failedStage' = IF failedStage = "none" THEN n ELSE failedStage

\* Mutant: forgive(name) clears whatever stage was named.
ForgiveAnything(n) == failedStage' = "none"

Forgive(n) == failedStage' = IF failedStage = n THEN "none" ELSE failedStage

EnterStage(n) ==
    /\ flight = "none"
    /\ n \notin Held
    /\ Open("stage", n)
    /\ UNCHANGED <<flight, failedStage>>

ExitStage ==
    /\ flight = "none" /\ Inside("stage")
    /\ Close
    /\ UNCHANGED <<flight, failedStage>>

\* Any exception, a cancellation included.
Raise ==
    /\ flight = "none"
    /\ flight' = "unplaced"
    /\ UNCHANGED <<frames, failedStage>>

\* A check reports its failure by return value; its caller will raise.
Fail(n) ==
    /\ flight = "none"
    /\ n \notin Held
    /\ Blame(n)
    /\ flight' = n
    /\ UNCHANGED frames

EscapeStage ==
    /\ flight # "none" /\ Inside("stage")
    /\ Blame(Last(frames)[2])
    /\ flight' = IF flight = "unplaced" THEN Last(frames)[2] ELSE flight
    /\ Close

StartCleanup ==
    /\ flight # "none"
    /\ Open("cleanup", flight)
    /\ flight' = "none"
    /\ UNCHANGED failedStage

\* The failure goes on, or another one in its place: that of a cleanup does
\* not take over from the failure it was to clean up after.
EndCleanup ==
    /\ Inside("cleanup")
    /\ flight' = IF Last(frames)[2] = "unplaced" /\ flight # "none"
                   THEN flight ELSE Last(frames)[2]
    /\ Close
    /\ UNCHANGED failedStage

Swallow ==
    /\ flight # "none"
    /\ Forgive(flight)
    /\ flight' = "none"
    /\ UNCHANGED frames

\* forgive() of a retry loop.
SwallowAnything ==
    /\ flight # "none" /\ Held = {}
    /\ failedStage' = "none"
    /\ flight' = "none"
    /\ UNCHANGED frames

TraceNext ==
    \/ \E n \in Names : EnterStage(n) \/ Fail(n)
    \/ ExitStage \/ Raise \/ EscapeStage \/ StartCleanup \/ EndCleanup
    \/ Swallow \/ SwallowAnything

-----------------------------------------------------------------------------
(* What a report asks of the trace *)

Primary == {"unreachable", "connect", "session", "auth", "transfer", "finish", "disconnect"}

PrimaryOf(n) == IF n \notin Primary /\ n \in DOMAIN StageMap THEN StageMap[n] ELSE n

FailedPrimary == PrimaryOf(failedStage)
FailedDetail == IF failedStage = FailedPrimary THEN "none" ELSE failedStage

\* failure(exc): the stage and the detail, the trace's before the error's.
FailedIn(exc) == IF FailedPrimary = "none" THEN exc.stage ELSE FailedPrimary
FailedAt(exc) ==
    IF FailedPrimary = "none" \/ (FailedDetail = "none" /\ exc.stage = FailedPrimary)
      THEN exc.detail ELSE FailedDetail

-----------------------------------------------------------------------------
(* Properties *)

\* The failures nobody has swallowed, the oldest first: those that cleanups
\* hold, then the one in flight.
Unswallowed == Append([i \in DOMAIN frames |->
                          IF frames[i][1] = "cleanup" THEN frames[i][2] ELSE "none"], flight)

\* trace.py:28-30, 57-97: the trace names the stage the oldest failure that was
\* not swallowed first left; what was swallowed is never blamed, and swallowing
\* one failure never clears another.
BlameIsFirst ==
    LET Left(i) == Unswallowed[i] \in Names
    IN  IF failedStage = "none"
          THEN \A i \in DOMAIN Unswallowed : ~Left(i)
          ELSE \E i \in DOMAIN Unswallowed :
                   /\ Unswallowed[i] = failedStage
                   /\ \A k \in 1 .. i - 1 : ~Left(k)

=============================================================================
