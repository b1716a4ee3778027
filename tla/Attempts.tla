------------------------------ MODULE Attempts ------------------------------
(***************************************************************************)
(* run_attempts() of attempts.py: several operations of one integration,   *)
(* each a run_attempts() call with the same lock, its attempts recorded by *)
(* on_attempt into one SessionReports.                                     *)
(*                                                                         *)
(* One action per stretch of code between two awaits.  The lock is         *)
(* asyncio.Lock, external: a FIFO of waiters, each with a future.  Its     *)
(* release only resolves the first waiter's future; that waiter takes the  *)
(* lock when the event loop resumes it, or is cancelled before.            *)
(*                                                                         *)
(* guard, retry_if and on_attempt are the integration's.  They may raise,  *)
(* which ends run_attempts(); a retry_if of its own retries what it likes.  *)
(***************************************************************************)
EXTENDS SessionReports, SequencesExt

CONSTANT OwnPolicy  \* the operations that bring a retry_if of their own

ASSUME PolicyAssumption == OwnPolicy \subseteq Operations

VARIABLES
    phase,    \* what each operation's run_attempts() is suspended in
    number,   \* its Attempt.number
    outcome,  \* how its current attempt ended
    expired,  \* bound.expired(): the attempt bound has fired
    locked,   \* Lock._locked
    queue,    \* Lock._waiters
    future,   \* the future of each waiter; "doomed": resolved, and then its
              \* task cancelled
    ahead,    \* history: who was already waiting when an operation, about to
              \* retry, let the lock go
    recorded  \* history: operations recorded since the last clear()

lock == <<locked, queue, future>>
vars == <<phase, number, outcome, expired, lock, ahead, recorded, reports>>

Holding == {"guard", "attempt", "unwinding", "abandoning"}
Ended == {"returned", "raised", "cancelled"}
Outcomes == {"none", "ok", "skipped", "retryable", "final", "timedOut"}
Errors == {"retryable", "final", "timedOut"}

TypeOK ==
    /\ ReportsTypeOK
    /\ phase \in [Operations -> {"new", "queued", "pause"} \cup Holding \cup Ended]
    /\ number \in [Operations -> 0 .. MaxAttempts]
    /\ outcome \in [Operations -> Outcomes]
    /\ expired \in [Operations -> BOOLEAN]
    /\ locked \in BOOLEAN
    /\ queue \in Seq(Operations)
    /\ future \in [Operations -> {"none", "waiting", "resolved", "cancelled", "doomed"}]
    /\ ahead \in [Operations -> SUBSET Operations]
    /\ recorded \subseteq Operations

To(o, p) == phase' = [phase EXCEPT ![o] = p]

-----------------------------------------------------------------------------
(* asyncio.Lock *)

\* _wake_up_first(): the first waiter, unless its future is done already.
WakeFirst(q, f) ==
    IF q # <<>> /\ f[Head(q)] = "waiting" THEN [f EXCEPT ![Head(q)] = "resolved"] ELSE f

\* A lock nobody waits for, but waiters already cancelled, is taken at once.
FreeAtOnce == ~locked /\ \A i \in DOMAIN queue : future[queue[i]] = "cancelled"

Release ==
    /\ locked' = FALSE
    /\ future' = WakeFirst(queue, future)
    /\ UNCHANGED queue

\* waiters.remove(fut)
Dequeue(o) == \E i \in DOMAIN queue : queue[i] = o /\ queue' = RemoveAt(queue, i)

\* Who is past the lock is ahead of nobody any more.
Pass(o) == ahead' = [p \in Operations |-> ahead[p] \ {o}]

-----------------------------------------------------------------------------
(* The loop over the attempts *)

\* The next attempt is made, and the lock asked for: a first attempt, or one
\* whose pause is over.
Ask(o) ==
    /\ phase[o] \in {"new", "pause"}
    /\ number' = [number EXCEPT ![o] = @ + 1]
    /\ outcome' = [outcome EXCEPT ![o] = "none"]
    /\ expired' = [expired EXCEPT ![o] = FALSE]
    /\ IF FreeAtOnce
         THEN /\ To(o, "guard")
              /\ locked' = TRUE
              /\ Pass(o)
              /\ UNCHANGED <<queue, future>>
         ELSE /\ To(o, "queued")
              /\ queue' = Append(queue, o)
              /\ future' = [future EXCEPT ![o] = "waiting"]
              /\ UNCHANGED <<locked, ahead>>
    /\ UNCHANGED <<recorded, reports>>

Enter(o) ==
    /\ future[o] = "resolved"
    /\ To(o, "guard")
    /\ locked' = TRUE
    /\ Dequeue(o)
    /\ future' = [future EXCEPT ![o] = "none"]
    /\ Pass(o)
    /\ UNCHANGED <<number, outcome, expired, recorded, reports>>

\* The guard's answer; without one the attempt starts right away.
GuardPasses(o) ==
    /\ phase[o] = "guard"
    /\ To(o, "attempt")
    /\ UNCHANGED <<number, outcome, expired, lock, ahead, recorded, reports>>

\* Mutant: the lock is not released on the way out.
LeaveLocked(o, how) ==
    /\ To(o, how)
    /\ UNCHANGED <<number, outcome, expired, lock, ahead, recorded, reports>>

\* A guard that raises, or a cancellation, leaves run_attempts() through the
\* lock: nothing is recorded.
Leave(o, how) ==
    /\ Release
    /\ To(o, how)
    /\ UNCHANGED <<number, outcome, expired, ahead, recorded, reports>>

GuardRaises(o) == phase[o] = "guard" /\ Leave(o, "raised")

\* retry_if, by default.
DefaultRetryIf(how) == how = "retryable"

\* What retry_if may answer: an integration's own is its policy.
RetryIf(o, how) == IF o \in OwnPolicy THEN BOOLEAN ELSE {DefaultRetryIf(how)}

\* Mutant: one retry more than max_attempts allows.
AskedOnceMore(o, how) == how \in Errors /\ number[o] <= MaxAttempts

\* retry_if is asked about an attempt that failed and was not the last.
Asked(o, how) == how \in Errors /\ number[o] < MaxAttempts

\* What Attempt.retrying may come to.
Retrying(o, how) == IF Asked(o, how) THEN RetryIf(o, how) ELSE {FALSE}

\* report_attempt() of the attempt that ended so, as on_attempt records it.
ReportOf(o, how, retrying) ==
    [operation |-> o, attempt |-> number[o], skipped |-> how = "skipped",
     error |-> how \in Errors, retrying |-> retrying]

OnAttempt(o, how, retrying) ==
    Record(ReportOf(o, how, retrying)) /\ recorded' = recorded \cup {o}

\* on_attempt raises, having recorded the attempt or not, or an own retry_if
\* does, before on_attempt is called; either ends run_attempts().
CallbackRaises(o, how) ==
    /\ To(o, "raised")
    /\ \/ \E retrying \in Retrying(o, how) : OnAttempt(o, how, retrying)
       \/ UNCHANGED <<recorded, reports>>
    /\ UNCHANGED ahead

\* Who waits for the lock and has not been cancelled.
Waiters == {queue[i] : i \in DOMAIN queue} \cap {o \in Operations : future[o] = "waiting"}

\* Mutant: the whole loop is inside `async with lock`, and retries hold it.
FinishHolding(o, how) ==
    \E retrying \in Retrying(o, how) :
        /\ OnAttempt(o, how, retrying)
        /\ IF retrying
             THEN /\ To(o, "guard")
                  /\ number' = [number EXCEPT ![o] = @ + 1]
                  /\ ahead' = [ahead EXCEPT ![o] = Waiters]
                  /\ UNCHANGED <<outcome, lock>>
             ELSE /\ To(o, "returned")
                  /\ outcome' = [outcome EXCEPT ![o] = how]
                  /\ Release
                  /\ UNCHANGED <<number, ahead>>

\* The attempt is over, recorded, and either returned or followed by another.
Concludes(o, how) ==
    \E retrying \in Retrying(o, how) :
        /\ OnAttempt(o, how, retrying)
        /\ IF retrying
             THEN To(o, "pause") /\ ahead' = [ahead EXCEPT ![o] = Waiters]
             ELSE To(o, "returned") /\ UNCHANGED ahead

\* The lock is released before the integration's callbacks are called.
Finish(o, how) ==
    /\ outcome' = [outcome EXCEPT ![o] = how]
    /\ Release
    /\ Concludes(o, how) \/ CallbackRaises(o, how)
    /\ UNCHANGED number

GuardDeclines(o) ==
    /\ phase[o] = "guard"
    /\ Finish(o, "skipped")
    /\ UNCHANGED expired

-----------------------------------------------------------------------------
(* One attempt under its bound *)

AttemptReturns(o) ==
    /\ phase[o] = "attempt"
    /\ Finish(o, "ok")
    /\ UNCHANGED expired

AttemptRaises(o) ==
    /\ phase[o] = "attempt"
    /\ \E how \in {"retryable", "final"} : Finish(o, how)
    /\ UNCHANGED expired

\* Mutant: the lock does not cover the unwinding of a timed-out attempt.
BoundReleases(o) ==
    /\ phase[o] = "attempt"
    /\ To(o, "unwinding")
    /\ expired' = [expired EXCEPT ![o] = TRUE]
    /\ Release
    /\ UNCHANGED <<number, outcome, ahead, recorded, reports>>

\* The bound cancels the attempt, which unwinds with the lock still held: a
\* ble_session in it closes its link.
BoundFires(o) ==
    /\ phase[o] = "attempt"
    /\ To(o, "unwinding")
    /\ expired' = [expired EXCEPT ![o] = TRUE]
    /\ UNCHANGED <<number, outcome, lock, ahead, recorded, reports>>

\* Mutant: what the unwound attempt raised is what counts.
OwnOutcome(o, how) == how

\* What an exception out of the attempt counts as.
Outcome(o, how) == IF expired[o] THEN "timedOut" ELSE how

\* The unwound attempt raises the bound's TimeoutError or an error of its
\* own, either way a timed-out attempt; or it returns a result all the same.
Unwound(o) ==
    /\ phase[o] = "unwinding"
    /\ \E how \in {Outcome(o, "retryable"), "ok"} : Finish(o, how)
    /\ UNCHANGED expired

-----------------------------------------------------------------------------
(* Cancellation of the whole run_attempts() *)

CancelQueued(o) ==
    /\ future[o] \in {"waiting", "resolved"}
    /\ future' = [future EXCEPT ![o] = IF @ = "waiting" THEN "cancelled" ELSE "doomed"]
    /\ Pass(o)
    /\ UNCHANGED <<phase, number, outcome, expired, locked, queue, recorded, reports>>

\* Mutant: a cancelled waiter wakes nobody in its place.
LeaveQueueSilently(o) ==
    /\ future[o] \in {"cancelled", "doomed"}
    /\ To(o, "cancelled")
    /\ Dequeue(o)
    /\ future' = [future EXCEPT ![o] = "none"]
    /\ UNCHANGED <<number, outcome, expired, locked, ahead, recorded, reports>>

\* The cancelled waiter's turn: out of the queue, and if nobody has the lock
\* the next one is woken in its place.
LeaveQueue(o) ==
    /\ future[o] \in {"cancelled", "doomed"}
    /\ To(o, "cancelled")
    /\ Dequeue(o)
    /\ LET f == [future EXCEPT ![o] = "none"]
       IN  future' = IF locked THEN f ELSE WakeFirst(queue', f)
    /\ UNCHANGED <<number, outcome, expired, locked, ahead, recorded, reports>>

CancelGuard(o) == phase[o] = "guard" /\ Leave(o, "cancelled")

\* Also a cancellation that catches the attempt unwinding from its bound.
CancelAttempt(o) ==
    /\ phase[o] \in {"attempt", "unwinding"}
    /\ To(o, "abandoning")
    /\ UNCHANGED <<number, outcome, expired, lock, ahead, recorded, reports>>

Abandoned(o) == phase[o] = "abandoning" /\ Leave(o, "cancelled")

CancelPause(o) ==
    /\ phase[o] = "pause"
    /\ To(o, "cancelled")
    /\ UNCHANGED <<number, outcome, expired, lock, ahead, recorded, reports>>

Cancel(o) == CancelQueued(o) \/ CancelGuard(o) \/ CancelAttempt(o) \/ CancelPause(o)

-----------------------------------------------------------------------------
ClearReports ==
    /\ Clear
    /\ recorded' = {}
    /\ UNCHANGED <<phase, number, outcome, expired, lock, ahead>>

Init ==
    /\ ReportsInit
    /\ phase = [o \in Operations |-> "new"]
    /\ number = [o \in Operations |-> 0]
    /\ outcome = [o \in Operations |-> "none"]
    /\ expired = [o \in Operations |-> FALSE]
    /\ locked = FALSE
    /\ queue = <<>>
    /\ future = [o \in Operations |-> "none"]
    /\ ahead = [o \in Operations |-> {}]
    /\ recorded = {}

\* What the event loop and asyncio's timers run by themselves.
Scheduled(o) == Ask(o) \/ Enter(o) \/ LeaveQueue(o) \/ BoundFires(o)

\* How guards and attempts end.
Answers(o) ==
    \/ GuardPasses(o) \/ GuardDeclines(o) \/ GuardRaises(o)
    \/ AttemptReturns(o) \/ AttemptRaises(o) \/ Unwound(o) \/ Abandoned(o)

Next ==
    \/ \E o \in Operations : Scheduled(o) \/ Answers(o) \/ Cancel(o)
    \/ ClearReports

Spec == Init /\ [][Next]_vars

\* The loop runs what is scheduled and the attempt bound fires; a guard
\* answers, and an attempt unwinds when cancelled, because the integration's
\* own code is bounded there.  Nothing is asked of an attempt that is left
\* alone, and nothing makes a cancellation happen.
Fairness ==
    \A o \in Operations :
        /\ WF_vars(Scheduled(o))
        /\ WF_vars(GuardPasses(o) \/ GuardDeclines(o) \/ GuardRaises(o))
        /\ WF_vars(Unwound(o) \/ Abandoned(o))

FairSpec == Spec /\ Fairness

-----------------------------------------------------------------------------
(* Properties *)

\* Two operations on one lock are never both between guard and the end of
\* their attempt, the unwinding of a timed-out one included, and the lock is
\* held exactly then (attempts.py:128-147).
MutualExclusion ==
    /\ \A o, p \in Operations :
           phase[o] \in Holding /\ phase[p] \in Holding => o = p
    /\ locked <=> \E o \in Operations : phase[o] \in Holding

\* A free lock somebody queues for has its first waiter on the way, whatever
\* waiters were cancelled and when: no wake-up is lost.
NoLostWakeup == ~locked /\ queue # <<>> => future[Head(queue)] # "waiting"

\* "Lock released: other devices go first" (attempts.py:176): an operation
\* retries only after everyone who waited when it let go has had a turn.
OthersGoFirst == \A o \in Operations : phase[o] \in Holding => ahead[o] = {}

\* The operations recorded since a clear() whose last attempt was a failure for
\* good: they returned its error, or on_attempt raised after it had recorded it.
Failed ==
    {o \in recorded :
        /\ outcome[o] \in Errors
        /\ \/ phase[o] = "returned"
           \/ /\ phase[o] = "raised"
              /\ lastOf[o].attempt = number[o] /\ ~lastOf[o].retrying}

\* What run_attempts() did and what its integration publishes tell one story
\* (report.py:438-461, attempts.py:163-173).  An operation's slot holds the
\* latest of its attempts that was recorded, as it ended; if the operation
\* returned or is about to retry, that is its last one, and the report says
\* which.  The failures counted are the operations that failed for good, and
\* last_failure is the attempt one of them ended with; last_retry is an attempt
\* another follows, unless its operation was cancelled or ended by a callback
\* first.
ReportsMatchReturns ==
    /\ \A o \in Operations : lastOf[o] = NoReport <=> o \notin recorded
    /\ \A o \in recorded :
           /\ lastOf[o].attempt = number[o] =>
                  lastOf[o] = ReportOf(o, outcome[o], lastOf[o].retrying)
           /\ phase[o] \in {"pause", "returned"} =>
                  lastOf[o] = ReportOf(o, outcome[o], phase[o] = "pause")
    /\ failures = Cardinality(Failed)
    /\ IF Failed = {}
         THEN lastFailure = NoReport
         ELSE /\ lastFailure.operation \in Failed
              /\ lastFailure.attempt = number[lastFailure.operation]
    /\ lastRetry # NoReport =>
           \/ lastRetry.attempt < number[lastRetry.operation]
           \/ phase[lastRetry.operation] \in {"pause", "cancelled", "raised"}

\* Every operation ends: no attempt, however silent, and no cancellation, in
\* the queue or out of it, leaves another operation waiting for ever.
EveryOperationEnds == \A o \in Operations : <>(phase[o] \in Ended)

=============================================================================
