-------------------------- MODULE IntegrationProofs --------------------------
(***************************************************************************)
(* Theorems about Integration, for any operations and number of attempts.   *)
(* Its steps are steps of Attempts, so that what AttemptsProofs shows of    *)
(* the lock holds here, and carries over to the sessions under the lock.    *)
(***************************************************************************)
EXTENDS Integration, TLAPS

AP == INSTANCE AttemptsProofs

-----------------------------------------------------------------------------
(* Steps of Attempts *)

LEMMA FollowsIsAStep ==
    ASSUME NEW o \in Operations, Follows(o)
    PROVE  A!Next \/ UNCHANGED attempts
BY DEF Follows, A!Next, A!Answers

LEMMA StepIsAStep == [Next]_vars => [A!Next]_(A!vars)
<1> SUFFICES ASSUME [Next]_vars PROVE A!Next \/ UNCHANGED attempts
    BY DEF attempts, A!vars, A!lock, A!reports
<1>1. CASE UNCHANGED vars
  BY <1>1 DEF vars, attempts
<1>2. ASSUME NEW o \in Operations, Opens(o) PROVE UNCHANGED attempts
  BY <1>2 DEF Opens
<1>3. ASSUME NEW o \in Operations, Ends(o) \/ CloseEnds(o) PROVE A!Next \/ UNCHANGED attempts
  BY <1>3, FollowsIsAStep DEF Ends, CloseEnds
<1>4. ASSUME NEW o \in Operations, NeverOpens(o) PROVE A!Next
  BY <1>4 DEF NeverOpens, A!Next, A!Answers
<1>5. ASSUME NEW o \in Operations, Lands(o) PROVE A!Next \/ UNCHANGED attempts
  <2>1. CASE InSession(o)
    BY <1>5, <2>1, FollowsIsAStep DEF Lands
  <2>2. CASE ~InSession(o)
    BY <1>5, <2>2 DEF Lands, A!Next, A!Answers
  <2> QED
    BY <2>1, <2>2
<1>6. ASSUME NEW o \in Operations, Bound(o) \/ CancelAttempt(o) PROVE A!Next
  BY <1>6 DEF Bound, CancelAttempt, A!Next, A!Scheduled, A!Cancel
<1>7. ASSUME NEW o \in Operations, Scheduled(o) PROVE A!Next
  BY <1>7 DEF Scheduled, A!Next, A!Scheduled
<1>8. ASSUME NEW o \in Operations, GuardAnswers(o) PROVE A!Next
  BY <1>8 DEF GuardAnswers, A!Next, A!Answers
<1>9. ASSUME NEW o \in Operations, CancelElsewhere(o) PROVE A!Next
  BY <1>9 DEF CancelElsewhere, A!Next, A!Cancel
<1> QED
  BY <1>1, <1>2, <1>3, <1>4, <1>5, <1>6, <1>7, <1>8, <1>9 DEF Next

\* session.py, attempts.py: whatever the sessions of its attempts do, an
\* integration's operations are those of Attempts.
THEOREM OperationsAreAttempts == Spec => A!Spec
<1>1. Init => A!Init
  BY DEF Init
<1> QED
  BY <1>1, StepIsAStep, PTL DEF Spec, A!Spec

-----------------------------------------------------------------------------
(* Attempts and AttemptsProofs are instances of one specification *)

LEMMA SameInit == A!Init => AP!Init
BY DEF A!Init, AP!Init, A!ReportsInit, AP!ReportsInit

LEMMA SameActions ==
    ASSUME NEW o \in Operations
    PROVE  /\ A!Scheduled(o) = AP!Scheduled(o)
           /\ A!Answers(o) = AP!Answers(o)
           /\ A!Cancel(o) = AP!Cancel(o)
<1> USE DEF A!To, AP!To, A!Pass, AP!Pass, A!lock, AP!lock, A!reports, AP!reports,
            A!Release, AP!Release, A!WakeFirst, AP!WakeFirst
<1>1. A!Scheduled(o) = AP!Scheduled(o)
  BY DEF A!Scheduled, AP!Scheduled, A!Ask, AP!Ask, A!FreeAtOnce, AP!FreeAtOnce,
         A!Enter, AP!Enter, A!LeaveQueue, AP!LeaveQueue, A!BoundFires, AP!BoundFires,
         A!Dequeue, AP!Dequeue, A!RemoveAt, AP!RemoveAt
<1>2. \A e : A!Finish(o, e) = AP!Finish(o, e)
  <2>1. \A e, r : A!OnAttempt(o, e, r) = AP!OnAttempt(o, e, r)
    BY DEF A!OnAttempt, AP!OnAttempt, A!Record, AP!Record, A!Classify, AP!Classify,
           A!ReportOf, AP!ReportOf, A!Errors, AP!Errors
  <2>2. \A e : A!Retrying(o, e) = AP!Retrying(o, e)
    BY DEF A!Retrying, AP!Retrying, A!Asked, AP!Asked, A!RetryIf, AP!RetryIf,
           A!DefaultRetryIf, AP!DefaultRetryIf, A!Errors, AP!Errors
  <2>3. \A e : A!Concludes(o, e) = AP!Concludes(o, e)
    BY <2>1, <2>2 DEF A!Concludes, AP!Concludes, A!Waiters, AP!Waiters
  <2>4. \A e : A!CallbackRaises(o, e) = AP!CallbackRaises(o, e)
    BY <2>1, <2>2 DEF A!CallbackRaises, AP!CallbackRaises
  <2> QED
    BY <2>3, <2>4 DEF A!Finish, AP!Finish
<1>3. A!Answers(o) = AP!Answers(o)
  BY <1>2 DEF A!Answers, AP!Answers, A!GuardPasses, AP!GuardPasses,
              A!GuardDeclines, AP!GuardDeclines, A!GuardRaises, AP!GuardRaises,
              A!AttemptReturns, AP!AttemptReturns, A!AttemptRaises, AP!AttemptRaises,
              A!Unwound, AP!Unwound, A!Outcome, AP!Outcome,
              A!Abandoned, AP!Abandoned, A!Leave, AP!Leave
<1>4. A!Cancel(o) = AP!Cancel(o)
  BY DEF A!Cancel, AP!Cancel, A!CancelQueued, AP!CancelQueued, A!CancelGuard, AP!CancelGuard,
         A!CancelAttempt, AP!CancelAttempt, A!CancelPause, AP!CancelPause, A!Leave, AP!Leave
<1> QED
  BY <1>1, <1>3, <1>4

LEMMA SameNext == [A!Next]_(A!vars) => [AP!Next]_(AP!vars)
<1>1. A!Next => AP!Next
  BY SameActions DEF A!Next, AP!Next, A!ClearReports, AP!ClearReports, A!Clear, AP!Clear,
                     A!lock, AP!lock
<1> QED
  BY <1>1 DEF A!vars, AP!vars, A!lock, AP!lock, A!reports, AP!reports

LEMMA Assumptions == AP!AttemptsAssumption /\ AP!NoReportAssumption /\ AP!PolicyAssumption
BY OperationsAssumption DEF A!AttemptsAssumption, A!NoReportAssumption, A!PolicyAssumption,
                            AP!AttemptsAssumption, AP!NoReportAssumption, AP!PolicyAssumption

\* What is needed of the lock: its waiters are not attempting, and one holds it.
LockFacts ==
    /\ phase \in [Operations -> {"new", "queued", "pause"} \cup A!Holding \cup A!Ended]
    /\ expired \in [Operations -> BOOLEAN]
    /\ outcome \in [Operations -> A!Outcomes]
    /\ \A o \in Operations : future[o] # "none" => phase[o] = "queued"
    /\ \A o, p \in Operations : phase[o] \in A!Holding /\ phase[p] \in A!Holding => o = p

LEMMA LockIsHeld == Spec => []LockFacts
<1>1. AP!Spec => [](AP!TypeOK /\ AP!LockInv)
  BY AP!Invariance, Assumptions, PTL
<1>2. AP!TypeOK /\ AP!LockInv => LockFacts
  <2> SUFFICES ASSUME AP!TypeOK, AP!LockInv PROVE LockFacts
      OBVIOUS
  <2>1. \A o \in Operations : future[o] # "none" => phase[o] = "queued"
    BY DEF AP!LockInv, AP!QueueIsQueued
  <2>2. \A o, p \in Operations : phase[o] \in A!Holding /\ phase[p] \in A!Holding => o = p
    BY DEF AP!LockInv, AP!MutualExclusion, AP!Holding, A!Holding
  <2>3. /\ phase \in [Operations -> {"new", "queued", "pause"} \cup A!Holding \cup A!Ended]
        /\ expired \in [Operations -> BOOLEAN]
        /\ outcome \in [Operations -> A!Outcomes]
    BY DEF AP!TypeOK, AP!Holding, A!Holding, AP!Ended, A!Ended, AP!Outcomes, A!Outcomes
  <2> QED
    BY <2>1, <2>2, <2>3 DEF LockFacts
<1>3. A!Spec => AP!Spec
  BY SameInit, SameNext, PTL DEF A!Spec, AP!Spec
<1> QED
  BY <1>1, <1>2, <1>3, OperationsAreAttempts, PTL

-----------------------------------------------------------------------------
(* A session and the attempt it is in *)

\* The attempt of the session under way is not over.
SessionInAttempt ==
    /\ user \in Operations
    /\ life # "idle" => phase[user] \in Unended
    /\ \A o \in Operations : phase[o] = "unwinding" => expired[o]

\* Its attempt is over; another follows only if its own retry_if retried a
\* time-out.
Rests(o) == \/ phase[o] \in A!Ended
            \/ phase[o] = "pause" /\ o \in OwnPolicy /\ outcome[o] = "timedOut"

\* An operation that is done has only the close of its session left, or rests.
DoneIsDone ==
    /\ done \subseteq Operations
    /\ \A o \in done : IF InSession(o) THEN life = "closing" /\ how = "none" ELSE Rests(o)

TurnInv == S!TypeOK /\ SessionInAttempt /\ DoneIsDone

\* One operation's phase moves.
Moves(o, p) == phase' = [phase EXCEPT ![o] = p]

\* How an attempt that is over leaves its operation: another follows if retry_if
\* says so, which by default it does of a retryable error only.
LEMMA FinishMoves ==
    ASSUME NEW o \in Operations, LockFacts, NEW e, A!Finish(o, e)
    PROVE  /\ \A q \in Operations : outcome'[q] = IF q = o THEN e ELSE outcome[q]
           /\ \E p \in {"pause", "returned", "raised"} :
                  /\ Moves(o, p)
                  /\ p = "pause" => e \in A!Errors /\ (o \in OwnPolicy \/ e = "retryable")
<1>1. \A q \in Operations : outcome'[q] = IF q = o THEN e ELSE outcome[q]
  BY DEF A!Finish, LockFacts
<1>2. CASE A!CallbackRaises(o, e)
  BY <1>1, <1>2 DEF A!CallbackRaises, A!To, Moves
<1>3. CASE A!Concludes(o, e)
  <2>1. PICK r \in A!Retrying(o, e) : Moves(o, IF r THEN "pause" ELSE "returned")
    BY <1>3 DEF A!Concludes, A!To, Moves
  <2>2. CASE A!Asked(o, e)
    <3>1. e \in A!Errors /\ r \in A!RetryIf(o, e)
      BY <2>2 DEF A!Asked, A!Retrying
    <3>2. r => o \in OwnPolicy \/ e = "retryable"
      BY <3>1 DEF A!RetryIf, A!DefaultRetryIf
    <3> QED
      BY <1>1, <2>1, <3>1, <3>2
  <2>3. CASE ~A!Asked(o, e)
    BY <1>1, <2>1, <2>3 DEF A!Retrying
  <2> QED
    BY <2>2, <2>3
<1> QED
  BY <1>2, <1>3 DEF A!Finish

\* An attempt that ends by itself, or unwound from its bound, or abandoned.
LEMMA AttemptsEnd ==
    ASSUME NEW o \in Operations, LockFacts, SessionInAttempt,
           \/ A!AttemptReturns(o) \/ A!AttemptRaises(o)
           \/ A!Unwound(o) /\ outcome'[o] # "ok"
           \/ A!Abandoned(o)
    PROVE  /\ phase[o] \in Unended
           /\ expired' = expired
           /\ \A q \in Operations \ {o} : outcome'[q] = outcome[q]
           /\ \E p \in {"pause", "returned", "raised", "cancelled"} : Moves(o, p)
           /\ \/ A!AttemptReturns(o)
              \/ A!Unwound(o) /\ outcome'[o] # "ok"
              \/ A!Abandoned(o)
              => Rests(o)'
<1> USE DEF Unended, A!Ended, Rests
<1>1. ASSUME NEW e, A!Finish(o, e)
      PROVE  /\ \A q \in Operations : outcome'[q] = IF q = o THEN e ELSE outcome[q]
             /\ \E p \in {"pause", "returned", "raised", "cancelled"} : Moves(o, p)
             /\ e \in {"ok", "timedOut"} => Rests(o)'
  <2>1. /\ \A q \in Operations : outcome'[q] = IF q = o THEN e ELSE outcome[q]
        /\ \E p \in {"pause", "returned", "raised"} :
               /\ Moves(o, p)
               /\ p = "pause" => e \in A!Errors /\ (o \in OwnPolicy \/ e = "retryable")
    BY <1>1, FinishMoves
  <2>2. PICK p \in {"pause", "returned", "raised"} :
               /\ Moves(o, p)
               /\ p = "pause" => e \in A!Errors /\ (o \in OwnPolicy \/ e = "retryable")
    BY <2>1
  <2>3. phase'[o] = p
    BY <2>2 DEF Moves, LockFacts
  <2>4. e \in {"ok", "timedOut"} => Rests(o)'
    BY <2>1, <2>2, <2>3 DEF A!Errors
  <2> QED
    BY <2>1, <2>2, <2>4
<1>2. CASE A!AttemptReturns(o)
  <2>1. A!Finish(o, "ok")
    BY <1>2 DEF A!AttemptReturns
  <2> QED
    BY <1>1, <1>2, <2>1 DEF A!AttemptReturns
<1>3. CASE A!AttemptRaises(o)
  <2>1. PICK e \in {"retryable", "final"} : A!Finish(o, e)
    BY <1>3 DEF A!AttemptRaises
  <2>2. outcome'[o] = e
    BY <1>1, <2>1
  <2>3. ~A!AttemptReturns(o)
    <3>1. A!AttemptReturns(o) => A!Finish(o, "ok")
      BY DEF A!AttemptReturns
    <3> QED
      BY <1>1, <2>2, <3>1
  <2>4. ~A!Unwound(o) /\ ~A!Abandoned(o)
    BY <1>3 DEF A!AttemptRaises, A!Unwound, A!Abandoned
  <2> QED
    BY <1>1, <1>3, <2>1, <2>3, <2>4 DEF A!AttemptRaises
<1>4. CASE A!Unwound(o) /\ outcome'[o] # "ok"
  <2>1. PICK e \in {A!Outcome(o, "retryable"), "ok"} : A!Finish(o, e)
    BY <1>4 DEF A!Unwound
  <2>2. outcome'[o] = e
    BY <1>1, <2>1
  <2>3. A!Outcome(o, "retryable") = "timedOut"
    BY <1>4 DEF A!Unwound, A!Outcome, SessionInAttempt
  <2>4. e = "timedOut"
    BY <1>4, <2>1, <2>2, <2>3
  <2> QED
    BY <1>1, <1>4, <2>1, <2>4 DEF A!Unwound
<1>5. CASE A!Abandoned(o)
  <2>1. Moves(o, "cancelled") /\ outcome' = outcome /\ expired' = expired
    BY <1>5 DEF A!Abandoned, A!Leave, A!To, Moves
  <2>2. phase'[o] = "cancelled"
    BY <2>1 DEF Moves, LockFacts
  <2> QED
    BY <1>5, <2>1, <2>2 DEF A!Abandoned
<1> QED
  BY <1>2, <1>3, <1>4, <1>5

\* Beside its attempts an operation has no session; it rests, and what it rests
\* from is forgotten, or it is cancelled, when it goes on.
LEMMA Elsewhere ==
    ASSUME NEW o \in Operations, LockFacts,
           Scheduled(o) \/ GuardAnswers(o) \/ CancelElsewhere(o)
    PROVE  /\ UNCHANGED <<life, how, user>>
           /\ phase[o] \notin Unended \cup A!Ended
           /\ \A p \in Operations \ {o} : /\ phase'[p] = phase[p] /\ expired'[p] = expired[p]
                                          /\ outcome'[p] = outcome[p]
           /\ phase'[o] # "unwinding"
           /\ \/ done' = done \ {o}
              \/ done' = done /\ (phase[o] = "pause" => phase'[o] = "cancelled")
<1> USE DEF LockFacts, Unended, A!Ended, A!To
<1>1. CASE Scheduled(o)
  BY <1>1 DEF Scheduled, A!Ask, A!Enter, A!LeaveQueue
<1>2. CASE GuardAnswers(o)
  <2>1. done' = done /\ life' = life /\ how' = how /\ user' = user /\ phase[o] = "guard"
    BY <1>2 DEF GuardAnswers, session, A!GuardPasses, A!GuardDeclines, A!GuardRaises
  <2>2. CASE A!GuardDeclines(o)
    <3>1. A!Finish(o, "skipped") /\ expired' = expired
      BY <2>2 DEF A!GuardDeclines
    <3>2. /\ \A q \in Operations \ {o} : outcome'[q] = outcome[q]
          /\ \E p \in {"pause", "returned", "raised"} : Moves(o, p)
      BY <3>1, FinishMoves
    <3> QED
      BY <2>1, <3>1, <3>2 DEF Moves
  <2>3. CASE A!GuardPasses(o) \/ A!GuardRaises(o)
    BY <2>1, <2>3 DEF A!GuardPasses, A!GuardRaises, A!Leave
  <2> QED
    BY <1>2, <2>2, <2>3 DEF GuardAnswers
<1>3. CASE CancelElsewhere(o)
  BY <1>3 DEF CancelElsewhere, session, A!CancelQueued, A!CancelGuard, A!CancelPause, A!Leave
<1> QED
  BY <1>1, <1>2, <1>3

\* The step in which a session ends, or goes into its close.
LEMMA FollowsStep ==
    ASSUME NEW o \in Operations, LockFacts, TurnInv, S!TypeOK',
           InSession(o), user' = user, Follows(o), life' \in {"idle", "closing"},
           done' \in {done, done \cup {o}},
           o \in done' => how' # "error",
           o \in done' /\ life' = "closing" => how' = "none"
    PROVE  TurnInv'
<1> USE DEF TurnInv, SessionInAttempt, DoneIsDone, InSession
<1>1. CASE life' = "closing"
  <2>1. UNCHANGED attempts
    BY <1>1 DEF Follows
  <2>2. phase' = phase /\ expired' = expired /\ outcome' = outcome
    BY <2>1 DEF attempts
  <2> QED
    BY <1>1, <2>2 DEF Rests
<1>2. CASE life' = "idle"
  <2>1. \/ how' = "none" /\ A!AttemptReturns(o)
        \/ how' = "error" /\ A!AttemptRaises(o)
        \/ how' = "cancelled" /\ A!Unwound(o) /\ outcome'[o] # "ok"
        \/ how' = "cancelled" /\ A!Abandoned(o)
    BY <1>2 DEF Follows
  <2>2. /\ expired' = expired
        /\ \A q \in Operations \ {o} : outcome'[q] = outcome[q]
        /\ \E p \in {"pause", "returned", "raised", "cancelled"} : Moves(o, p)
        /\ how' # "error" => Rests(o)'
    BY <2>1, AttemptsEnd
  <2>3. phase'[o] # "unwinding" /\ \A p \in Operations \ {o} : phase'[p] = phase[p]
    BY <2>2 DEF Moves, LockFacts
  <2>4. SessionInAttempt'
    BY <1>2, <2>2, <2>3
  <2>5. ASSUME NEW p \in done', p # o PROVE Rests(p)'
    <3>1. p \in done /\ p \in Operations /\ ~InSession(p)
      BY <2>5
    <3>2. Rests(p)
      BY <3>1
    <3>3. phase'[p] = phase[p] /\ outcome'[p] = outcome[p]
      BY <2>2, <2>3, <2>5, <3>1
    <3> QED
      BY <3>2, <3>3 DEF Rests
  <2>6. \A p \in done' : Rests(p)'
    BY <2>2, <2>5
  <2> QED
    BY <1>2, <2>4, <2>6
<1> QED
  BY <1>1, <1>2

LEMMA TurnInit == Init => TurnInv
BY DEF Init, A!Init, S!Init, S!TypeOK, TurnInv, SessionInAttempt, DoneIsDone

LEMMA TurnNext == LockFacts /\ TurnInv /\ [Next]_vars => TurnInv'
<1> SUFFICES ASSUME LockFacts, TurnInv, [Next]_vars PROVE TurnInv'
    OBVIOUS
<1> USE DEF TurnInv, SessionInAttempt, DoneIsDone, InSession
<1>1. CASE UNCHANGED vars
  BY <1>1 DEF vars, attempts, session, S!TypeOK, Rests
<1>2. ASSUME NEW o \in Operations, Opens(o) PROVE TurnInv'
  <2>1. /\ phase[o] = "attempt" /\ phase' = phase /\ expired' = expired /\ outcome' = outcome
        /\ done' = done
    BY <1>2 DEF Opens, attempts
  <2>2. life = "idle" /\ life' = "running" /\ how' = "none" /\ user' = o
    BY <1>2 DEF Opens, S!Begin
  <2>3. \A p \in done : Rests(p)
    BY <2>2
  <2>4. \A p \in done : p # o
    BY <2>1, <2>3 DEF A!Ended, Rests
  <2> QED
    BY <2>1, <2>2, <2>3, <2>4 DEF S!TypeOK, Unended, Rests
<1>3. ASSUME NEW o \in Operations, Ends(o) PROVE TurnInv'
  <2>1. /\ InSession(o) /\ user' = user /\ Follows(o) /\ life = "running"
        /\ life' \in {"idle", "closing"} /\ how' \in {"none", "error"}
        /\ done' = IF how' = "none" THEN done \cup {o} ELSE done
    BY <1>3 DEF Ends, S!End, S!EndsIn
  <2>2. o \notin done
    BY <2>1
  <2>3. done' \in {done, done \cup {o}} /\ (o \in done' => how' = "none")
    BY <2>1, <2>2
  <2>4. S!TypeOK'
    BY <2>1 DEF S!TypeOK
  <2> QED
    BY <2>1, <2>3, <2>4, FollowsStep
<1>4. ASSUME NEW o \in Operations, CloseEnds(o) PROVE TurnInv'
  <2>1. /\ InSession(o) /\ user' = user /\ Follows(o)
        /\ life' = "idle" /\ how' = how /\ done' = done
    BY <1>4 DEF CloseEnds, S!CloseEnds
  <2>2. o \in done' => how' # "error"
    BY <2>1
  <2>3. S!TypeOK'
    BY <2>1 DEF S!TypeOK
  <2> QED
    BY <2>1, <2>2, <2>3, FollowsStep
<1>5. ASSUME NEW o \in Operations, ~InSession(o), UNCHANGED session,
             \/ A!AttemptRaises(o)
             \/ A!Unwound(o) \/ A!Abandoned(o)
      PROVE  TurnInv'
  <2>1. /\ phase[o] \in Unended /\ expired' = expired
        /\ phase'[o] # "unwinding"
        /\ \A p \in Operations \ {o} : phase'[p] = phase[p] /\ outcome'[p] = outcome[p]
    <3>1. CASE A!Abandoned(o)
      BY <1>5, <3>1 DEF A!Abandoned, A!Leave, A!To, LockFacts, Unended
    <3>2. CASE A!AttemptRaises(o) \/ A!Unwound(o)
      <4>1. phase[o] \in Unended /\ expired' = expired /\ \E e : A!Finish(o, e)
        BY <3>2 DEF A!AttemptRaises, A!Unwound, Unended
      <4>2. /\ \A q \in Operations \ {o} : outcome'[q] = outcome[q]
            /\ \E p \in {"pause", "returned", "raised"} : Moves(o, p)
        BY <4>1, FinishMoves
      <4> QED
        BY <4>1, <4>2 DEF Moves, LockFacts
    <3> QED
      BY <1>5, <3>1, <3>2
  <2>2. life' = life /\ how' = how /\ user' = user /\ done' = done
    BY <1>5 DEF session
  <2>3. o \notin done
    BY <1>5, <2>1 DEF Unended, A!Ended, Rests
  <2> QED
    BY <1>5, <2>1, <2>2, <2>3 DEF S!TypeOK, Rests
<1>6. ASSUME NEW o \in Operations, NeverOpens(o) PROVE TurnInv'
  BY <1>5, <1>6 DEF NeverOpens
<1>7. ASSUME NEW o \in Operations, Lands(o) PROVE TurnInv'
  <2>1. CASE ~InSession(o)
    BY <1>5, <1>7, <2>1 DEF Lands
  <2>2. CASE InSession(o)
    <3>1. /\ S!Cancel /\ Follows(o) /\ user' = user /\ done' = done
      BY <1>7, <2>2 DEF Lands
    <3>2. /\ life' \in {"idle", "closing"} /\ how' = "cancelled"
          /\ life = "closing" => life' = "idle"
      BY <3>1 DEF S!Cancel, S!EndsIn
    <3>3. o \in done /\ life' = "closing" => how' = "none"
      BY <2>2, <3>2
    <3>4. S!TypeOK'
      BY <3>2 DEF S!TypeOK
    <3> QED
      BY <2>2, <3>1, <3>2, <3>3, <3>4, FollowsStep
  <2> QED
    BY <2>1, <2>2
<1>8. ASSUME NEW o \in Operations, Bound(o) \/ CancelAttempt(o) PROVE TurnInv'
  <2>1. /\ phase[o] \in Unended /\ phase'[o] \in Unended
        /\ phase'[o] = "unwinding" => expired'[o]
        /\ \A p \in Operations \ {o} : phase'[p] = phase[p] /\ expired'[p] = expired[p]
        /\ outcome' = outcome
    BY <1>8 DEF Bound, CancelAttempt, A!BoundFires, A!CancelAttempt, A!To, LockFacts, Unended
  <2>2. life' = life /\ how' = how /\ user' = user /\ done' = done
    BY <1>8 DEF Bound, CancelAttempt, session
  <2>3. o \in done => InSession(o)
    BY <2>1 DEF Unended, A!Ended, Rests
  <2> QED
    BY <2>1, <2>2, <2>3 DEF S!TypeOK, Rests
<1>9. ASSUME NEW o \in Operations, Scheduled(o) \/ GuardAnswers(o) \/ CancelElsewhere(o)
      PROVE  TurnInv'
  <2>1. /\ phase[o] \notin Unended \cup A!Ended /\ phase'[o] # "unwinding"
        /\ \A p \in Operations \ {o} : /\ phase'[p] = phase[p] /\ expired'[p] = expired[p]
                                       /\ outcome'[p] = outcome[p]
        /\ life' = life /\ how' = how /\ user' = user
        /\ \/ done' = done \ {o}
           \/ done' = done /\ (phase[o] = "pause" => phase'[o] = "cancelled")
    BY <1>9, Elsewhere
  <2>2. ~InSession(o)
    BY <2>1
  <2>3. SessionInAttempt'
    BY <2>1, <2>2
  <2>4. ASSUME NEW p \in done', p # o
        PROVE  IF InSession(p)' THEN life' = "closing" /\ how' = "none" ELSE Rests(p)'
    BY <2>1, <2>4 DEF Rests
  <2>5. o \in done' => Rests(o)'
    <3>1. o \in done => phase[o] = "pause"
      BY <2>1, <2>2 DEF Rests
    <3> QED
      BY <2>1, <3>1 DEF Rests, A!Ended
  <2>6. done' \subseteq Operations /\ ~InSession(o)'
    BY <2>1, <2>2
  <2> QED
    BY <2>1, <2>3, <2>4, <2>5, <2>6 DEF S!TypeOK
<1> QED
  BY <1>1, <1>2, <1>3, <1>4, <1>6, <1>7, <1>8, <1>9 DEF Next

LEMMA TurnHolds == Spec => []TurnInv
BY TurnInit, TurnNext, LockIsHeld, PTL DEF Spec

\* attempts.py:5-10, session.py:143-145: the lock is an operation's until the
\* session of its attempt has closed, timed out, cancelled or not.
THEOREM TurnIsKept == Spec => []TurnCoversTheClose
<1>1. LockFacts /\ TurnInv => TurnCoversTheClose
  BY DEF LockFacts, TurnInv, SessionInAttempt, TurnCoversTheClose, Unended, A!Holding
<1> QED
  BY <1>1, LockIsHeld, TurnHolds, PTL

\* attempts.py:14-16, 82-88: what a block has done is not done again, unless an
\* integration's own retry_if retries a bound that fired in the close (see
\* WorkIsNotRepeated).
THEOREM WorkIsDoneOnce == Spec => []WorkIsNotRepeated
<1>1. TurnInv => WorkIsNotRepeated
  BY DEF TurnInv, SessionInAttempt, DoneIsDone, InSession, WorkIsNotRepeated, Rests
<1> QED
  BY <1>1, TurnHolds, PTL

-----------------------------------------------------------------------------
(* What Attempts' theorems come to for sessions *)

LEMMA Inherited == Spec => [](/\ AP!MutualExclusion /\ AP!NoLostWakeup
                              /\ AP!OthersGoFirst /\ AP!ReportsMatchReturns)
<1>1. AP!Spec => []AP!MutualExclusion
  BY AP!OneAtATime, Assumptions
<1>2. AP!Spec => []AP!NoLostWakeup
  BY AP!WakeupsSurvive, Assumptions
<1>3. AP!Spec => []AP!OthersGoFirst
  BY AP!RetriesYield, Assumptions
<1>4. AP!Spec => []AP!ReportsMatchReturns
  BY AP!ReportsTrue, Assumptions
<1>5. A!Spec => AP!Spec
  BY SameInit, SameNext, PTL DEF A!Spec, AP!Spec
<1> QED
  BY <1>1, <1>2, <1>3, <1>4, <1>5, OperationsAreAttempts, PTL

\* attempts.py:128-178, report.py:438-461: an integration whose attempts are
\* sessions is promised all that Attempts promises: one operation past the lock
\* at a time, no wake-up lost, everyone who waited first before a retry, and
\* reports that tell what the operations returned, whatever the sessions do.
THEOREM PromisesCarryOver == Spec => [](/\ A!MutualExclusion /\ A!NoLostWakeup
                                        /\ A!OthersGoFirst /\ A!ReportsMatchReturns)
<1>1. AP!MutualExclusion => A!MutualExclusion
  BY DEF AP!MutualExclusion, A!MutualExclusion, AP!Holding, A!Holding
<1>2. AP!NoLostWakeup => A!NoLostWakeup
  BY DEF AP!NoLostWakeup, A!NoLostWakeup
<1>3. AP!OthersGoFirst => A!OthersGoFirst
  BY DEF AP!OthersGoFirst, A!OthersGoFirst, AP!Holding, A!Holding
<1>4. AP!ReportsMatchReturns => A!ReportsMatchReturns
  <2>1. AP!Failed = A!Failed /\ \A o, e, r : AP!ReportOf(o, e, r) = A!ReportOf(o, e, r)
    BY DEF AP!Failed, A!Failed, AP!ReportOf, A!ReportOf, AP!Errors, A!Errors
  <2>2. \A s : AP!Cardinality(s) = A!Cardinality(s)
    BY DEF AP!Cardinality, A!Cardinality, AP!IsFiniteSet, A!IsFiniteSet
  <2> QED
    BY <2>1, <2>2 DEF AP!ReportsMatchReturns, A!ReportsMatchReturns
<1> QED
  BY <1>1, <1>2, <1>3, <1>4, Inherited, PTL

-----------------------------------------------------------------------------
(* What an operation whose work is done comes back with *)

\* The bound of an attempt fires in it, and not before.
NotYetExpired == \A o \in Operations :
                     phase[o] \in {"new", "queued", "guard", "attempt"} => ~expired[o]

LEMMA NotYetExpiredStep == LockFacts /\ NotYetExpired /\ [Next]_vars => NotYetExpired'
<1> SUFFICES ASSUME LockFacts, NotYetExpired, A!Next PROVE NotYetExpired'
  BY StepIsAStep DEF NotYetExpired, A!vars
<1> USE DEF LockFacts, NotYetExpired, A!To, A!Ended
<1>1. CASE A!ClearReports
  BY <1>1 DEF A!ClearReports
<1>2. ASSUME NEW o \in Operations, NEW e, A!Finish(o, e), expired' = expired
      PROVE  NotYetExpired'
  <2>1. \E p \in {"pause", "returned", "raised"} : Moves(o, p)
    BY <1>2, FinishMoves
  <2> QED
    BY <1>2, <2>1 DEF Moves
<1>3. ASSUME NEW o \in Operations, A!Answers(o) PROVE NotYetExpired'
  BY <1>2, <1>3 DEF A!Answers, A!GuardPasses, A!GuardDeclines, A!GuardRaises, A!AttemptReturns,
                    A!AttemptRaises, A!Unwound, A!Abandoned, A!Leave
<1>4. ASSUME NEW o \in Operations, A!Scheduled(o) PROVE NotYetExpired'
  BY <1>4 DEF A!Scheduled, A!Ask, A!Enter, A!LeaveQueue, A!BoundFires
<1>5. ASSUME NEW o \in Operations, A!Cancel(o) PROVE NotYetExpired'
  BY <1>5 DEF A!Cancel, A!CancelQueued, A!CancelGuard, A!CancelAttempt, A!CancelPause, A!Leave
<1> QED
  BY <1>1, <1>3, <1>4, <1>5 DEF A!Next

\* It was cancelled, or its attempt ended timed out if the bound fired and well
\* if not, whether on_attempt then raised or another attempt is to follow.
EndedWell(o) == \/ phase[o] = "cancelled"
                \/ /\ phase[o] \in {"returned", "raised", "pause"}
                   /\ outcome[o] = IF expired[o] THEN "timedOut" ELSE "ok"

WorkIsOwnedUp == \A o \in done : phase[o] \in Unended \/ EndedWell(o)

LEMMA SessionEndsWell ==
    ASSUME NEW o \in Operations, LockFacts, SessionInAttempt, NotYetExpired,
           Follows(o), life' = "idle", how' # "error"
    PROVE  EndedWell(o)'
<1> USE DEF LockFacts, EndedWell, A!To
<1>1. ASSUME NEW e, A!Finish(o, e), expired' = expired,
             e = IF expired[o] THEN "timedOut" ELSE "ok"
      PROVE  EndedWell(o)'
  <2>1. outcome'[o] = e /\ \E p \in {"pause", "returned", "raised"} : Moves(o, p)
    BY <1>1, FinishMoves
  <2>2. phase'[o] \in {"returned", "raised", "pause"}
    BY <2>1 DEF Moves
  <2> QED
    BY <1>1, <2>1, <2>2
<1>2. CASE A!AttemptReturns(o)
  <2>1. A!Finish(o, "ok") /\ phase[o] = "attempt" /\ expired' = expired
    BY <1>2 DEF A!AttemptReturns
  <2> QED
    BY <1>1, <2>1 DEF NotYetExpired
<1>3. CASE A!Unwound(o) /\ outcome'[o] # "ok"
  <2>1. /\ A!Finish(o, "timedOut") \/ A!Finish(o, "ok")
        /\ expired[o] /\ expired' = expired
    BY <1>3 DEF A!Unwound, A!Outcome, SessionInAttempt
  <2>2. ~A!Finish(o, "ok")
    BY <1>3 DEF A!Finish
  <2> QED
    BY <1>1, <2>1, <2>2
<1>4. CASE A!Abandoned(o)
  BY <1>4 DEF A!Abandoned, A!Leave
<1> QED
  BY <1>2, <1>3, <1>4 DEF Follows

\* A step of one operation leaves the others' attempts as they are.
LEMMA OthersStay ==
    ASSUME NEW o \in Operations, NEW p \in Operations, p # o, LockFacts,
           \/ UNCHANGED attempts
           \/ A!Scheduled(p) \/ A!Answers(p) \/ A!Cancel(p)
    PROVE  phase'[o] = phase[o] /\ outcome'[o] = outcome[o] /\ expired'[o] = expired[o]
<1> USE DEF LockFacts, A!To
<1>1. CASE UNCHANGED attempts
  BY <1>1 DEF attempts
<1>2. CASE A!Scheduled(p)
  BY <1>2 DEF A!Scheduled, A!Ask, A!Enter, A!LeaveQueue, A!BoundFires
<1>3. CASE A!Cancel(p)
  BY <1>3 DEF A!Cancel, A!CancelQueued, A!CancelGuard, A!CancelAttempt, A!CancelPause, A!Leave
<1>4. ASSUME NEW e, A!Finish(p, e)
      PROVE  phase'[o] = phase[o] /\ outcome'[o] = outcome[o]
  <2>1. outcome'[o] = outcome[o] /\ \E q \in {"pause", "returned", "raised"} : Moves(p, q)
    BY <1>4, FinishMoves
  <2> QED
    BY <2>1 DEF Moves
<1>5. CASE A!Answers(p)
  BY <1>4, <1>5 DEF A!Answers, A!GuardPasses, A!GuardDeclines, A!GuardRaises, A!AttemptReturns,
                    A!AttemptRaises, A!Unwound, A!Abandoned, A!Leave
<1> QED
  BY <1>1, <1>2, <1>3, <1>5

LEMMA OwnedUpStep ==
    ASSUME LockFacts, TurnInv, TurnInv', NotYetExpired, WorkIsOwnedUp, [Next]_vars
    PROVE  WorkIsOwnedUp'
<1> SUFFICES ASSUME NEW o \in done' PROVE (phase[o] \in Unended \/ EndedWell(o))'
  BY DEF WorkIsOwnedUp
<1> o \in Operations
  BY DEF TurnInv, DoneIsDone
<1>1. CASE UNCHANGED vars
  BY <1>1 DEF vars, attempts, session, WorkIsOwnedUp, EndedWell
<1>2. CASE \E p \in Operations \ {o} :
              \/ Opens(p) \/ Ends(p) \/ CloseEnds(p) \/ NeverOpens(p) \/ Lands(p)
              \/ Bound(p) \/ CancelAttempt(p)
              \/ Scheduled(p) \/ GuardAnswers(p) \/ CancelElsewhere(p)
  <2>1. PICK p \in Operations \ {o} :
              \/ Opens(p) \/ Ends(p) \/ CloseEnds(p) \/ NeverOpens(p) \/ Lands(p)
              \/ Bound(p) \/ CancelAttempt(p)
              \/ Scheduled(p) \/ GuardAnswers(p) \/ CancelElsewhere(p)
    BY <1>2
  <2>2. o \in done
    BY <2>1 DEF Opens, Ends, CloseEnds, NeverOpens, Lands, Bound, CancelAttempt,
                Scheduled, GuardAnswers, CancelElsewhere, session
  <2>3. Follows(p) => UNCHANGED attempts \/ A!Answers(p)
    BY DEF Follows, A!Answers
  <2>4. UNCHANGED attempts \/ A!Scheduled(p) \/ A!Answers(p) \/ A!Cancel(p)
    BY <2>1, <2>3 DEF Opens, Ends, CloseEnds, NeverOpens, Lands, Bound, CancelAttempt,
                      Scheduled, GuardAnswers, CancelElsewhere,
                      A!Answers, A!Scheduled, A!Cancel
  <2>5. phase'[o] = phase[o] /\ outcome'[o] = outcome[o] /\ expired'[o] = expired[o]
    BY <2>4, OthersStay
  <2> QED
    BY <2>2, <2>5 DEF WorkIsOwnedUp, EndedWell
<1>3. CASE Ends(o) \/ CloseEnds(o) \/ (Lands(o) /\ InSession(o))
  <2>1. InSession(o) /\ user' = user /\ Follows(o)
    BY <1>3 DEF Ends, CloseEnds, Lands
  <2>2. CASE life' # "idle"
    BY <2>1, <2>2 DEF TurnInv, SessionInAttempt, InSession
  <2>3. how' # "error"
    <3>1. CASE Ends(o)
      <4>1. o \notin done
        BY <3>1 DEF Ends, S!End, S!EndsIn, TurnInv, DoneIsDone
      <4> QED
        BY <3>1, <4>1 DEF Ends
    <3>2. CASE CloseEnds(o)
      BY <2>1, <3>2 DEF CloseEnds, S!CloseEnds, TurnInv, DoneIsDone
    <3>3. CASE Lands(o) /\ InSession(o)
      BY <3>3 DEF Lands, S!Cancel, S!EndsIn
    <3> QED
      BY <1>3, <3>1, <3>2, <3>3
  <2>4. CASE life' = "idle"
    BY <2>1, <2>3, <2>4, SessionEndsWell DEF TurnInv
  <2> QED
    BY <2>2, <2>4
<1>4. CASE Opens(o)
  BY <1>4 DEF Opens, attempts, WorkIsOwnedUp, EndedWell
<1>5. CASE NeverOpens(o) \/ (Lands(o) /\ ~InSession(o))
  <2>1. /\ ~InSession(o) /\ done' = done /\ phase[o] \in Unended
    BY <1>5 DEF NeverOpens, Lands, session, A!AttemptRaises, A!Unwound, A!Abandoned, Unended
  <2> QED
    BY <2>1 DEF TurnInv, DoneIsDone, Rests, A!Ended, Unended
<1>6. CASE Bound(o) \/ CancelAttempt(o)
  BY <1>6 DEF Bound, CancelAttempt, A!BoundFires, A!CancelAttempt, A!To, LockFacts, Unended
<1>7. CASE Scheduled(o) \/ GuardAnswers(o) \/ CancelElsewhere(o)
  <2>1. /\ phase[o] \notin Unended \cup A!Ended
        /\ \/ done' = done \ {o}
           \/ done' = done /\ (phase[o] = "pause" => phase'[o] = "cancelled")
    BY <1>7, Elsewhere
  <2>2. o \in done /\ (phase[o] = "pause" => phase'[o] = "cancelled")
    BY <2>1
  <2>3. phase[o] = "pause"
    BY <2>1, <2>2 DEF WorkIsOwnedUp, EndedWell, A!Ended
  <2> QED
    BY <2>2, <2>3 DEF EndedWell
<1> QED
  BY <1>1, <1>2, <1>3, <1>4, <1>5, <1>6, <1>7 DEF Next

\* attempts.py:128-178, session.py:206-250: an attempt whose block returned ends
\* well, or as timed out if the bound fired in its close, or is cancelled: no
\* close, however it fails, makes an error of work that is done, and no bound
\* that fired is passed over.  That holds whatever retry_if then decides, and
\* whether or not on_attempt raises.
THEOREM WorkIsNeverDenied == Spec => []WorkIsOwnedUp
<1>1. Init => NotYetExpired /\ WorkIsOwnedUp
  BY DEF Init, A!Init, NotYetExpired, WorkIsOwnedUp
<1>2. /\ LockFacts /\ TurnInv /\ TurnInv' /\ NotYetExpired /\ WorkIsOwnedUp /\ [Next]_vars
      => (NotYetExpired /\ WorkIsOwnedUp)'
  BY NotYetExpiredStep, OwnedUpStep
<1> QED
  BY <1>1, <1>2, LockIsHeld, TurnHolds, PTL DEF Spec

=============================================================================
