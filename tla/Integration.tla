----------------------------- MODULE Integration -----------------------------
(***************************************************************************)
(* What an integration puts together: operations on one device, each a      *)
(* run_attempts() with the device's lock, and in every attempt one          *)
(* ble_session(), the last thing the attempt does (hass.py:30-33):          *)
(*                                                                         *)
(*    async def attempt(a):                                                *)
(*        device = ble_device_or_raise(hass, address)                      *)
(*        async with ble_session(device, trace=a.trace) as client: ...     *)
(*                                                                         *)
(* The operations are those of Attempts.  Of a session an attempt sees      *)
(* SessionLife, which BleSession implements.  What joins the two is the     *)
(* task they run in: the attempt ends in the step its session ends in, and  *)
(* a cancellation, by the bound or from outside, is thrown into whichever   *)
(* await the session is suspended in when its task runs again.              *)
(***************************************************************************)
CONSTANTS Operations, MaxAttempts, NoReport, OwnPolicy

VARIABLES
    phase, number, outcome, expired, locked, queue, future, ahead, recorded,
    last, lastKind, lastFailure, lastRetry, failures, lastOf

attempts == <<phase, number, outcome, expired, locked, queue, future, ahead, recorded,
              last, lastKind, lastFailure, lastRetry, failures, lastOf>>

VARIABLES
    life, how,   \* the session on the device
    user,        \* the operation that began the session
    cancelling,  \* operations whose task is to be thrown a CancelledError
    done         \* history: operations in, or past, an attempt whose block returned

session == <<life, how, user, done>>
vars == <<attempts, session, cancelling>>

A == INSTANCE Attempts
S == INSTANCE SessionLife

ASSUME OperationsAssumption ==
    A!AttemptsAssumption /\ A!NoReportAssumption /\ A!PolicyAssumption

Unended == {"attempt", "unwinding", "abandoning"}

-----------------------------------------------------------------------------
(* An attempt and its session *)

InSession(o) == life # "idle" /\ user = o

\* The attempt is over once its session is, and the way its session is.
Follows(o) ==
    IF life' # "idle" THEN UNCHANGED attempts
    ELSE \/ how' = "none" /\ A!AttemptReturns(o)
         \/ how' = "error" /\ A!AttemptRaises(o)
         \/ how' = "cancelled" /\ A!Unwound(o) /\ outcome'[o] # "ok"
         \/ how' = "cancelled" /\ A!Abandoned(o)

Opens(o) ==
    /\ phase[o] = "attempt"
    /\ ~InSession(o)
    /\ S!Begin
    /\ user' = o
    /\ UNCHANGED <<attempts, cancelling, done>>

\* The block returns or raises, or the session never gets to it.
Ends(o) ==
    /\ InSession(o)
    /\ o \notin cancelling
    /\ S!End
    /\ Follows(o)
    /\ done' = IF how' = "none" THEN done \cup {o} ELSE done
    /\ UNCHANGED <<user, cancelling>>

CloseEnds(o) ==
    /\ InSession(o)
    /\ o \notin cancelling
    /\ S!CloseEnds
    /\ Follows(o)
    /\ UNCHANGED <<user, cancelling, done>>

\* The device is not looked up: the attempt raises before there is a session.
NeverOpens(o) ==
    /\ ~InSession(o)
    /\ o \notin cancelling
    /\ A!AttemptRaises(o)
    /\ UNCHANGED <<session, cancelling>>

\* Mutant: something in the attempt swallows the CancelledError and goes on.
Swallows(o) ==
    /\ o \in cancelling
    /\ cancelling' = cancelling \ {o}
    /\ UNCHANGED <<attempts, session>>

\* The task runs again, with the CancelledError.
Lands(o) ==
    /\ o \in cancelling
    /\ cancelling' = cancelling \ {o}
    /\ IF InSession(o)
         THEN S!Cancel /\ Follows(o) /\ UNCHANGED <<user, done>>
         ELSE (A!Unwound(o) \/ A!Abandoned(o)) /\ UNCHANGED session

-----------------------------------------------------------------------------
(* What Attempts does beside its attempts *)

Bound(o) == A!BoundFires(o) /\ cancelling' = cancelling \cup {o} /\ UNCHANGED session

CancelAttempt(o) == A!CancelAttempt(o) /\ cancelling' = cancelling \cup {o} /\ UNCHANGED session

\* Another attempt has its work still to do.
Scheduled(o) ==
    /\ \/ A!Ask(o) /\ done' = done \ {o}
       \/ (A!Enter(o) \/ A!LeaveQueue(o)) /\ UNCHANGED done
    /\ UNCHANGED <<life, how, user, cancelling>>

GuardAnswers(o) ==
    /\ A!GuardPasses(o) \/ A!GuardDeclines(o) \/ A!GuardRaises(o)
    /\ UNCHANGED <<session, cancelling>>

CancelElsewhere(o) ==
    /\ A!CancelQueued(o) \/ A!CancelGuard(o) \/ A!CancelPause(o)
    /\ UNCHANGED <<session, cancelling>>

-----------------------------------------------------------------------------
Init == A!Init /\ S!Init /\ user \in Operations /\ cancelling = {} /\ done = {}

Next == \E o \in Operations :
            \/ Opens(o) \/ Ends(o) \/ CloseEnds(o) \/ NeverOpens(o) \/ Lands(o)
            \/ Bound(o) \/ CancelAttempt(o)
            \/ Scheduled(o) \/ GuardAnswers(o) \/ CancelElsewhere(o)

Spec == Init /\ [][Next]_vars

\* The event loop runs what is ready and asyncio's timers fire, the close's own
\* among them (SessionLife's ClosesEnd); a guard answers.  That an attempt
\* unwinds when cancelled, which Attempts assumes, is not assumed here.
Fairness ==
    \A o \in Operations :
        /\ WF_vars(Scheduled(o) \/ Bound(o))
        /\ WF_vars(GuardAnswers(o))
        /\ WF_vars(Lands(o))
        /\ WF_vars(CloseEnds(o))

FairSpec == Spec /\ Fairness

-----------------------------------------------------------------------------
(* Properties *)

\* attempts.py:5-10, session.py:143-145: an operation's turn with the device
\* covers its session to the end of the close, however the attempt ended; no
\* other operation is past the lock before.
TurnCoversTheClose ==
    life # "idle" => \A o \in Operations : phase[o] \in A!Holding <=> o = user

\* attempts.py:14-16, docs/design.md:277-286: an attempt whose block has
\* returned, so that the device has what it was to get, is not followed by
\* another: neither a close that fails nor, by the default retry_if, a bound
\* that fires in it makes a retry of it.  Only an integration whose own retry_if
\* retries a timed-out attempt may repeat work that was done, and only after
\* the bound has fired.
WorkIsNotRepeated ==
    \A o \in done :
        \/ phase[o] \in Unended \cup A!Ended
        \/ phase[o] = "pause" /\ o \in OwnPolicy /\ outcome[o] = "timedOut"

\* The operations of an integration whose attempts are ble_sessions are those
\* of Attempts, and meet what Attempts assumes of an attempt that is cancelled.
ImplementsAttempts == A!FairSpec

=============================================================================
