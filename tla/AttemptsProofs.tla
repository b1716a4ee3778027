--------------------------- MODULE AttemptsProofs ---------------------------
(***************************************************************************)
(* Theorems about Attempts, for any operations and number of attempts.     *)
(*                                                                         *)
(* The inductive invariant is about the lock's queue: who is in it, that   *)
(* only its first waiter is ever woken, and that an operation about to     *)
(* retry joins it behind those it has to let go first.                     *)
(***************************************************************************)
EXTENDS Attempts, SequenceTheorems, FiniteSetTheorems, TLAPS

USE AttemptsAssumption, NoReportAssumption, PolicyAssumption

\* Attempt numbers: another attempt is made only while one is left.
Counted ==
    \A o \in Operations :
        /\ phase[o] = "new" => number[o] = 0 /\ ahead[o] = {}
        /\ phase[o] = "pause" => number[o] < MaxAttempts
        /\ phase[o] \in Holding \cup {"queued"} => number[o] >= 1

\* The queue holds the queued operations, each once, each with a future.
QueueIsQueued ==
    /\ \A o \in Operations : future[o] # "none" <=> phase[o] = "queued"
    /\ \A o \in Operations : phase[o] = "queued" => \E i \in DOMAIN queue : queue[i] = o
    /\ \A i \in DOMAIN queue : phase[queue[i]] = "queued"
    /\ \A i, k \in DOMAIN queue : queue[i] = queue[k] => i = k

\* Only the first waiter of a free lock is woken.
OnlyFirstIsWoken ==
    \A o \in Operations : future[o] \in {"resolved", "doomed"} =>
        ~locked /\ queue # <<>> /\ queue[1] = o

\* Whom an operation lets go first is queued, and queued before it.
AheadIsBefore ==
    \A o, p \in Operations : p \in ahead[o] =>
        /\ phase[o] \in {"pause", "queued"} => future[p] \in {"waiting", "resolved"}
        /\ phase[o] = "queued" =>
              \A i, k \in DOMAIN queue : queue[i] = p /\ queue[k] = o => i < k

-----------------------------------------------------------------------------
(* Sequences *)

\* What is left of a sequence without its i-th element.
LEMMA RemoveAtProperties ==
    ASSUME NEW S, NEW q \in Seq(S), NEW i \in DOMAIN q
    PROVE /\ RemoveAt(q, i) \in Seq(S)
          /\ Len(RemoveAt(q, i)) = Len(q) - 1
          /\ \A k \in 1 .. Len(q) - 1 :
                 RemoveAt(q, i)[k] = IF k < i THEN q[k] ELSE q[k + 1]
<1> DEFINE a == SubSeq(q, 1, i - 1)
           b == SubSeq(q, i + 1, Len(q))
<1>1. i \in 1 .. Len(q) /\ Len(q) \in Nat /\ \A k \in 1 .. Len(q) : q[k] \in S
  OBVIOUS
<1>2. a \in Seq(S) /\ Len(a) = i - 1 /\ \A k \in 1 .. i - 1 : a[k] = q[k]
  BY <1>1, SubSeqProperties
<1>3. b \in Seq(S) /\ Len(b) = Len(q) - i /\ \A k \in 1 .. Len(q) - i : b[k] = q[i + k]
  <2>1. \A k \in i + 1 .. Len(q) : q[k] \in S
    BY <1>1
  <2> HIDE DEF b
  <2>2. /\ SubSeq(q, i + 1, Len(q)) \in Seq(S)
        /\ Len(SubSeq(q, i + 1, Len(q))) = IF i + 1 <= Len(q) THEN Len(q) - (i + 1) + 1 ELSE 0
        /\ \A k \in 1 .. Len(q) - (i + 1) + 1 : SubSeq(q, i + 1, Len(q))[k] = q[i + 1 + k - 1]
    BY <1>1, <2>1, SubSeqProperties
  <2>3. QED
    BY <1>1, <2>2 DEF b
<1>4. RemoveAt(q, i) = a \o b
  BY DEF RemoveAt
<1> HIDE DEF a, b
<1>5. /\ a \o b \in Seq(S)
      /\ Len(a \o b) = Len(a) + Len(b)
      /\ \A k \in 1 .. Len(a) + Len(b) :
             (a \o b)[k] = IF k <= Len(a) THEN a[k] ELSE b[k - Len(a)]
  <2>1. a \in Seq(S) /\ b \in Seq(S)
    BY <1>2, <1>3
  <2>2. QED
    BY <2>1, ConcatProperties
<1>6. Len(a \o b) = Len(q) - 1
  BY <1>1, <1>2, <1>3, <1>5
<1>7. ASSUME NEW k \in 1 .. Len(q) - 1
      PROVE (a \o b)[k] = IF k < i THEN q[k] ELSE q[k + 1]
  <2>1. (a \o b)[k] = IF k <= Len(a) THEN a[k] ELSE b[k - Len(a)]
    <3>1. Len(a) + Len(b) = Len(q) - 1
      BY <1>5, <1>6
    <3>2. k \in 1 .. Len(a) + Len(b)
      BY <3>1
    <3>3. QED
      BY <3>2, <1>5
  <2>2. CASE k < i
    BY <2>1, <2>2, <1>1, <1>2
  <2>3. CASE ~(k < i)
    <3>1. k - (i - 1) \in 1 .. Len(q) - i
      BY <2>3, <1>1
    <3>2. b[k - (i - 1)] = q[i + (k - (i - 1))]
      BY <3>1, <1>3
    <3>3. i + (k - (i - 1)) = k + 1
      BY <1>1
    <3>4. QED
      BY <2>1, <2>3, <3>2, <3>3, <1>1, <1>2
  <2>4. QED
    BY <2>2, <2>3
<1>8. QED
  BY <1>4, <1>5, <1>6, <1>7

-----------------------------------------------------------------------------
(* The lock's operations *)

\* A waiter's future is resolved if it is the first one and still waits.
LEMMA WakeFirstProperties ==
    ASSUME NEW q \in Seq(Operations),
           NEW f \in [Operations -> {"none", "waiting", "resolved", "cancelled", "doomed"}]
    PROVE /\ WakeFirst(q, f) \in
                [Operations -> {"none", "waiting", "resolved", "cancelled", "doomed"}]
          /\ \A o \in Operations : WakeFirst(q, f)[o] =
                IF q # <<>> /\ o = q[1] /\ f[o] = "waiting" THEN "resolved" ELSE f[o]
BY DEF WakeFirst

\* A waiter that leaves the queue moves those behind it up by one.
LEMMA DequeueProperties ==
    ASSUME queue \in Seq(Operations), NEW o, Dequeue(o)
    PROVE /\ Len(queue) \in Nat /\ DOMAIN queue = 1 .. Len(queue)
          /\ \A i \in 1 .. Len(queue) : queue[i] \in Operations
          /\ queue' \in Seq(Operations)
          /\ DOMAIN queue' = 1 .. Len(queue) - 1
          /\ \E j \in 1 .. Len(queue) :
                /\ queue[j] = o
                /\ \A k \in 1 .. Len(queue) - 1 : k < j => queue'[k] = queue[k]
                /\ \A k \in 1 .. Len(queue) - 1 : k >= j => queue'[k] = queue[k + 1]
<1>1. /\ Len(queue) \in Nat /\ DOMAIN queue = 1 .. Len(queue)
      /\ \A i \in 1 .. Len(queue) : queue[i] \in Operations
  OBVIOUS
<1>2. PICK j \in DOMAIN queue : queue[j] = o /\ queue' = RemoveAt(queue, j)
  BY DEF Dequeue
<1>3. /\ RemoveAt(queue, j) \in Seq(Operations)
      /\ Len(RemoveAt(queue, j)) = Len(queue) - 1
      /\ \A k \in 1 .. Len(queue) - 1 :
             RemoveAt(queue, j)[k] = IF k < j THEN queue[k] ELSE queue[k + 1]
  BY RemoveAtProperties
<1>4. /\ queue' \in Seq(Operations) /\ Len(queue') = Len(queue) - 1
      /\ DOMAIN queue' = 1 .. Len(queue) - 1
      /\ \A k \in 1 .. Len(queue) - 1 :
             queue'[k] = IF k < j THEN queue[k] ELSE queue[k + 1]
  BY <1>2, <1>3
<1>5. /\ j \in 1 .. Len(queue)
      /\ \A k \in 1 .. Len(queue) - 1 : k < j => queue'[k] = queue[k]
      /\ \A k \in 1 .. Len(queue) - 1 : k >= j => queue'[k] = queue[k + 1]
  BY <1>1, <1>2, <1>4
<1>6. QED
  BY <1>1, <1>2, <1>4, <1>5

\* Recording keeps the report slots in range.
LEMMA RecordType ==
    ASSUME ReportsTypeOK, NEW r \in Report, Record(r)
    PROVE ReportsTypeOK'
<1> USE DEF ReportsTypeOK, MaybeReport
<1>1. Classify(r) \in {"ok", "failure", "retried", "skipped"}
  BY DEF Classify
<1>2. lastOf' \in [Operations -> MaybeReport]
  BY DEF Record, Report
<1>3. QED
  BY <1>1, <1>2 DEF Record

\* What Finish records is a report.
LEMMA ReportOfType ==
    ASSUME TypeOK, NEW o \in Operations, number[o] >= 1, NEW how \in Outcomes,
           NEW retrying \in BOOLEAN
    PROVE ReportOf(o, how, retrying) \in Report
BY DEF ReportOf, Report, TypeOK

\* Another attempt follows only one that failed and was not the last.
LEMMA RetryingFacts ==
    ASSUME NEW o \in Operations, NEW how, NEW retrying \in Retrying(o, how)
    PROVE /\ retrying \in BOOLEAN
          /\ retrying => how \in Errors /\ number[o] < MaxAttempts
<1>1. CASE Asked(o, how)
  <2>1. retrying \in RetryIf(o, how)
    BY <1>1 DEF Retrying
  <2>2. retrying \in BOOLEAN
    BY <2>1 DEF RetryIf, DefaultRetryIf
  <2>3. QED
    BY <1>1, <2>2 DEF Asked
<1>2. CASE ~Asked(o, how)
  BY <1>2 DEF Retrying
<1>3. QED
  BY <1>1, <1>2

\* An attempt that is over leaves its operation pausing, returned or raised;
\* recorded, if not raised, as what follows.
LEMMA FinishMeans ==
    ASSUME NEW o \in Operations, NEW how, Finish(o, how)
    PROVE \E p \in {"pause", "returned", "raised"}, retrying \in BOOLEAN :
              /\ To(o, p)
              /\ ahead' = IF p = "pause" THEN [ahead EXCEPT ![o] = Waiters] ELSE ahead
              /\ p # "raised" => (retrying <=> p = "pause")
              /\ retrying => how \in Errors /\ number[o] < MaxAttempts
              /\ \/ OnAttempt(o, how, retrying)
                 \/ p = "raised" /\ UNCHANGED <<recorded, reports>>
<1> DEFINE Means(p, retrying) ==
              /\ To(o, p)
              /\ ahead' = IF p = "pause" THEN [ahead EXCEPT ![o] = Waiters] ELSE ahead
              /\ p # "raised" => (retrying <=> p = "pause")
              /\ retrying => how \in Errors /\ number[o] < MaxAttempts
              /\ \/ OnAttempt(o, how, retrying)
                 \/ p = "raised" /\ UNCHANGED <<recorded, reports>>
<1>1. CASE Concludes(o, how)
  <2>1. PICK retrying \in Retrying(o, how) :
            /\ OnAttempt(o, how, retrying)
            /\ IF retrying THEN To(o, "pause") /\ ahead' = [ahead EXCEPT ![o] = Waiters]
                           ELSE To(o, "returned") /\ UNCHANGED ahead
    BY <1>1 DEF Concludes
  <2>2. retrying \in BOOLEAN /\ (retrying => how \in Errors /\ number[o] < MaxAttempts)
    BY RetryingFacts
  <2>3. Means(IF retrying THEN "pause" ELSE "returned", retrying)
    BY <2>1, <2>2
  <2>4. QED
    BY <2>2, <2>3
<1>2. CASE CallbackRaises(o, how)
  <2>1. CASE UNCHANGED <<recorded, reports>>
    <3>1. Means("raised", FALSE)
      BY <1>2, <2>1 DEF CallbackRaises
    <3>2. QED
      BY <3>1
  <2>2. CASE \E retrying \in Retrying(o, how) : OnAttempt(o, how, retrying)
    <3>1. PICK retrying \in Retrying(o, how) : OnAttempt(o, how, retrying)
      BY <2>2
    <3>2. retrying \in BOOLEAN /\ (retrying => how \in Errors /\ number[o] < MaxAttempts)
      BY RetryingFacts
    <3>3. Means("raised", retrying)
      BY <1>2, <3>1, <3>2 DEF CallbackRaises
    <3>4. QED
      BY <3>2, <3>3
  <2>3. QED
    BY <1>2, <2>1, <2>2 DEF CallbackRaises
<1>3. QED
  BY <1>1, <1>2 DEF Finish

USE DEF vars, lock, reports, To, Holding, Ended, Outcomes, Errors

-----------------------------------------------------------------------------
(* Types *)

LEMMA TypeInit == Init => TypeOK
<1> SUFFICES ASSUME Init PROVE TypeOK
  OBVIOUS
<1>1. ReportsTypeOK
  BY DEF Init, ReportsInit, ReportsTypeOK, MaybeReport
<1>2. number \in [Operations -> 0 .. MaxAttempts]
  BY DEF Init
<1>3. queue \in Seq(Operations)
  BY DEF Init
<1>4. QED
  BY <1>1, <1>2, <1>3 DEF Init, TypeOK

\* Releasing the lock keeps it in range.
LEMMA ReleaseType ==
    ASSUME TypeOK, Release
    PROVE /\ locked' \in BOOLEAN
          /\ queue' \in Seq(Operations)
          /\ future' \in [Operations -> {"none", "waiting", "resolved", "cancelled", "doomed"}]
BY WakeFirstProperties DEF Release, TypeOK

LEMMA FinishType ==
    ASSUME TypeOK, NEW o \in Operations, number[o] >= 1, NEW how \in Outcomes \ {"none"},
           Finish(o, how), UNCHANGED expired
    PROVE TypeOK'
<1>1. PICK p \in {"pause", "returned", "raised"}, retrying \in BOOLEAN :
          /\ To(o, p)
          /\ ahead' = IF p = "pause" THEN [ahead EXCEPT ![o] = Waiters] ELSE ahead
          /\ \/ OnAttempt(o, how, retrying)
             \/ UNCHANGED <<recorded, reports>>
  BY FinishMeans
<1>2. ReportsTypeOK' /\ recorded' \subseteq Operations
  <2>1. CASE OnAttempt(o, how, retrying)
    BY <2>1, ReportOfType, RecordType DEF TypeOK, OnAttempt
  <2>2. CASE UNCHANGED <<recorded, reports>>
    BY <2>2 DEF TypeOK, ReportsTypeOK
  <2>3. QED
    BY <1>1, <2>1, <2>2
<1>3. /\ locked' \in BOOLEAN
      /\ queue' \in Seq(Operations)
      /\ future' \in [Operations -> {"none", "waiting", "resolved", "cancelled", "doomed"}]
  BY ReleaseType DEF Finish
<1>4. ahead' \in [Operations -> SUBSET Operations]
  <2>1. Waiters \in SUBSET Operations
    BY DEF Waiters
  <2>2. QED
    BY <1>1, <2>1 DEF TypeOK
<1>5. phase' \in [Operations -> {"new", "queued", "pause"} \cup Holding \cup Ended]
  BY <1>1 DEF TypeOK
<1>6. QED
  BY <1>2, <1>3, <1>4, <1>5 DEF TypeOK, Finish

LEMMA TypeStep == TypeOK /\ Counted /\ [Next]_vars => TypeOK'
<1> SUFFICES ASSUME TypeOK, Counted, [Next]_vars PROVE TypeOK'
  OBVIOUS
<1> USE DEF Counted
<1>1. ASSUME NEW o \in Operations, Ask(o) PROVE TypeOK'
  <2> USE <1>1 DEF Ask, Pass
  <2>1. queue' \in Seq(Operations)
    <3>1. queue' = queue \/ queue' = Append(queue, o)
      OBVIOUS
    <3>2. queue \in Seq(Operations)
      BY DEF TypeOK
    <3>3. Append(queue, o) \in Seq(Operations)
      BY <3>2, AppendProperties
    <3>4. QED
      BY <3>1, <3>2, <3>3
  <2>2. number' \in [Operations -> 0 .. MaxAttempts]
    <3>1. number[o] \in Nat /\ number[o] < MaxAttempts
      BY DEF TypeOK
    <3>2. number[o] + 1 \in 0 .. MaxAttempts
      BY <3>1
    <3>3. QED
      BY <3>2 DEF TypeOK
  <2>3. ahead' \in [Operations -> SUBSET Operations]
    <3>1. \/ ahead' = ahead
          \/ ahead' = [p \in Operations |-> ahead[p] \ {o}]
      OBVIOUS
    <3>2. QED
      BY <3>1 DEF TypeOK
  <2>4. QED
    BY <2>1, <2>2, <2>3 DEF TypeOK, ReportsTypeOK
<1>2. ASSUME NEW o \in Operations, Enter(o) PROVE TypeOK'
  <2> USE <1>2 DEF Enter, Pass
  <2>1. queue' \in Seq(Operations)
    BY DequeueProperties DEF TypeOK
  <2>2. ahead' \in [Operations -> SUBSET Operations]
    BY DEF TypeOK
  <2>3. QED
    BY <2>1, <2>2 DEF TypeOK, ReportsTypeOK
<1>3. ASSUME NEW o \in Operations, GuardPasses(o) \/ BoundFires(o) \/ CancelAttempt(o)
                 \/ CancelPause(o) PROVE TypeOK'
  BY <1>3 DEF GuardPasses, BoundFires, CancelAttempt, CancelPause, TypeOK, ReportsTypeOK
<1>4. ASSUME NEW o \in Operations, NEW how \in Ended, Leave(o, how) PROVE TypeOK'
  BY <1>4, ReleaseType DEF Leave, TypeOK, ReportsTypeOK
<1>5. ASSUME NEW o \in Operations, GuardDeclines(o) PROVE TypeOK'
  BY <1>5, FinishType DEF GuardDeclines
<1>6. ASSUME NEW o \in Operations, AttemptReturns(o) PROVE TypeOK'
  BY <1>6, FinishType DEF AttemptReturns
<1>7. ASSUME NEW o \in Operations, AttemptRaises(o) PROVE TypeOK'
  BY <1>7, FinishType DEF AttemptRaises
<1>8. ASSUME NEW o \in Operations, Unwound(o) PROVE TypeOK'
  BY <1>8, FinishType DEF Unwound, Outcome
<1>9. ASSUME NEW o \in Operations, CancelQueued(o) PROVE TypeOK'
  <2> USE <1>9 DEF CancelQueued, Pass
  <2>1. ahead' \in [Operations -> SUBSET Operations]
    BY DEF TypeOK
  <2>2. QED
    BY <2>1 DEF TypeOK, ReportsTypeOK
<1>10. ASSUME NEW o \in Operations, LeaveQueue(o) PROVE TypeOK'
  <2> USE <1>10 DEF LeaveQueue
  <2>1. queue' \in Seq(Operations)
    BY DequeueProperties DEF TypeOK
  <2>2. future' \in [Operations -> {"none", "waiting", "resolved", "cancelled", "doomed"}]
    BY <2>1, WakeFirstProperties DEF TypeOK
  <2>3. QED
    BY <2>1, <2>2 DEF TypeOK, ReportsTypeOK
<1>11. ASSUME ClearReports PROVE TypeOK'
  BY <1>11 DEF ClearReports, Clear, TypeOK, ReportsTypeOK, MaybeReport
<1>12. ASSUME UNCHANGED vars PROVE TypeOK'
  BY <1>12 DEF TypeOK, ReportsTypeOK
<1>13. QED
  BY <1>1, <1>2, <1>3, <1>4, <1>5, <1>6, <1>7, <1>8, <1>9, <1>10, <1>11, <1>12
     DEF Next, Scheduled, Answers, Cancel, GuardRaises, CancelGuard, Abandoned

-----------------------------------------------------------------------------
(* The inductive invariant *)

LockInv == /\ Counted
           /\ QueueIsQueued /\ OnlyFirstIsWoken /\ AheadIsBefore
           /\ MutualExclusion /\ NoLostWakeup /\ OthersGoFirst

LEMMA LockInvInit == Init => LockInv
BY DEF Init, LockInv, Counted, QueueIsQueued, OnlyFirstIsWoken, AheadIsBefore,
   MutualExclusion, NoLostWakeup, OthersGoFirst

\* The lock let go, at the end of an attempt or by an exception.
LEMMA ReleaseStep ==
    ASSUME TypeOK, LockInv, NEW o \in Operations, phase[o] \in Holding,
           NEW p \in {"pause"} \cup Ended, To(o, p), Release, UNCHANGED number,
           IF p = "pause" THEN /\ number[o] < MaxAttempts
                               /\ ahead' = [ahead EXCEPT ![o] = Waiters]
                          ELSE ahead' = ahead
    PROVE LockInv'
<1> USE DEF TypeOK
<1>1. /\ Counted /\ QueueIsQueued /\ OnlyFirstIsWoken /\ AheadIsBefore
      /\ MutualExclusion /\ OthersGoFirst
  BY DEF LockInv
<1>2. queue' = queue /\ ~locked' /\ locked
  BY <1>1 DEF Release, MutualExclusion
<1>3. \A c \in Operations : phase'[c] = IF c = o THEN p ELSE phase[c]
  OBVIOUS
<1>4. \A c \in Operations : future'[c] =
          IF queue # <<>> /\ c = queue[1] /\ future[c] = "waiting" THEN "resolved" ELSE future[c]
  BY WakeFirstProperties DEF Release
<1>5. Counted'
  BY <1>1, <1>3 DEF Counted
<1>6. QueueIsQueued'
  BY <1>1, <1>2, <1>3, <1>4 DEF QueueIsQueued
<1>7. OnlyFirstIsWoken'
  BY <1>1, <1>2, <1>4 DEF OnlyFirstIsWoken
<1>8. AheadIsBefore'
  BY <1>1, <1>2, <1>3, <1>4 DEF AheadIsBefore, Waiters
<1>9. MutualExclusion'
  BY <1>1, <1>2, <1>3 DEF MutualExclusion
<1>10. NoLostWakeup'
  <2>1. queue # <<>> => Head(queue) = queue[1] /\ queue[1] \in Operations
    OBVIOUS
  <2>2. QED
    BY <1>2, <1>4, <2>1 DEF NoLostWakeup
<1>11. OthersGoFirst'
  BY <1>1, <1>3 DEF OthersGoFirst, MutualExclusion
<1>12. QED
  BY <1>5, <1>6, <1>7, <1>8, <1>9, <1>10, <1>11 DEF LockInv

LEMMA FinishStep ==
    ASSUME TypeOK, LockInv, NEW o \in Operations, phase[o] \in Holding,
           NEW how \in Outcomes, Finish(o, how)
    PROVE LockInv'
<1>1. PICK p \in {"pause", "returned", "raised"}, retrying \in BOOLEAN :
          /\ To(o, p)
          /\ ahead' = IF p = "pause" THEN [ahead EXCEPT ![o] = Waiters] ELSE ahead
          /\ p = "pause" => number[o] < MaxAttempts
  BY FinishMeans
<1>2. Release /\ UNCHANGED number
  BY DEF Finish
<1>3. QED
  BY <1>1, <1>2, ReleaseStep

\* A step that does not touch the lock, by whoever holds it.
LEMMA HoldingStep ==
    ASSUME TypeOK, LockInv, NEW o \in Operations, phase[o] \in Holding,
           NEW p \in Holding, To(o, p), UNCHANGED <<number, lock, ahead>>
    PROVE LockInv'
<1> USE DEF TypeOK, LockInv
<1>1. \A c \in Operations : phase'[c] = IF c = o THEN p ELSE phase[c]
  OBVIOUS
<1>2. Counted' /\ OthersGoFirst'
  BY <1>1 DEF Counted, OthersGoFirst
<1>3. QueueIsQueued' /\ OnlyFirstIsWoken' /\ NoLostWakeup'
  BY <1>1 DEF QueueIsQueued, OnlyFirstIsWoken, NoLostWakeup
<1>4. AheadIsBefore'
  BY <1>1 DEF AheadIsBefore
<1>5. MutualExclusion'
  BY <1>1 DEF MutualExclusion
<1>6. QED
  BY <1>2, <1>3, <1>4, <1>5

\* The lock is asked for, and taken at once.
LEMMA AskFreeStep ==
    ASSUME TypeOK, LockInv, NEW o \in Operations, Ask(o), FreeAtOnce
    PROVE LockInv'
<1> USE DEF TypeOK
<1>1. /\ Counted /\ QueueIsQueued /\ OnlyFirstIsWoken /\ AheadIsBefore
      /\ MutualExclusion /\ OthersGoFirst
  BY DEF LockInv
<1>2. /\ queue' = queue /\ future' = future /\ locked' /\ ~locked
      /\ phase[o] \in {"new", "pause"}
      /\ \A c \in Operations : phase'[c] = IF c = o THEN "guard" ELSE phase[c]
      /\ \A c \in Operations : number'[c] = IF c = o THEN number[o] + 1 ELSE number[c]
      /\ \A c \in Operations : ahead'[c] = ahead[c] \ {o}
  BY DEF Ask, FreeAtOnce, Pass
<1>3. \A c \in Operations : future[c] \in {"none", "cancelled"}
  BY <1>1 DEF FreeAtOnce, QueueIsQueued
<1>4. ahead[o] = {}
  BY <1>1, <1>2, <1>3 DEF AheadIsBefore, Counted
<1>5. Counted'
  BY <1>1, <1>2 DEF Counted
<1>6. QueueIsQueued'
  <2>1. \A i \in DOMAIN queue : queue[i] \in Operations /\ queue[i] # o
    BY <1>1, <1>2 DEF QueueIsQueued
  <2>2. QED
    BY <1>1, <1>2, <2>1 DEF QueueIsQueued
<1>7. OnlyFirstIsWoken' /\ NoLostWakeup'
  BY <1>2, <1>3 DEF OnlyFirstIsWoken, NoLostWakeup
<1>8. AheadIsBefore'
  BY <1>1, <1>2 DEF AheadIsBefore
<1>9. MutualExclusion'
  BY <1>1, <1>2 DEF MutualExclusion
<1>10. OthersGoFirst'
  BY <1>1, <1>2, <1>4 DEF OthersGoFirst
<1>11. QED
  BY <1>5, <1>6, <1>7, <1>8, <1>9, <1>10 DEF LockInv

\* The lock is asked for, and queued for.
LEMMA AskQueueStep ==
    ASSUME TypeOK, LockInv, NEW o \in Operations, Ask(o), ~FreeAtOnce
    PROVE LockInv'
<1> USE DEF TypeOK
<1>1. /\ Counted /\ QueueIsQueued /\ OnlyFirstIsWoken /\ AheadIsBefore
      /\ MutualExclusion /\ NoLostWakeup /\ OthersGoFirst
  BY DEF LockInv
<1>2. /\ queue' = Append(queue, o) /\ locked' = locked /\ ahead' = ahead
      /\ phase[o] \in {"new", "pause"}
      /\ \A c \in Operations : phase'[c] = IF c = o THEN "queued" ELSE phase[c]
      /\ \A c \in Operations : future'[c] = IF c = o THEN "waiting" ELSE future[c]
      /\ \A c \in Operations : number'[c] = IF c = o THEN number[o] + 1 ELSE number[c]
  BY DEF Ask
<1>3. /\ Len(queue') = Len(queue) + 1
      /\ \A i \in DOMAIN queue : queue'[i] = queue[i] /\ queue[i] # o
      /\ queue'[Len(queue) + 1] = o
      /\ DOMAIN queue' = DOMAIN queue \cup {Len(queue) + 1}
      /\ DOMAIN queue = 1 .. Len(queue) /\ Len(queue) \in Nat
  BY <1>1, <1>2, AppendProperties DEF QueueIsQueued
<1>4. Counted'
  BY <1>1, <1>2 DEF Counted
<1>5. QueueIsQueued'
  <2>1. \A i \in DOMAIN queue : queue[i] \in Operations
    OBVIOUS
  <2>2. \A c \in Operations : future'[c] # "none" <=> phase'[c] = "queued"
    BY <1>1, <1>2 DEF QueueIsQueued
  <2>3. ASSUME NEW c \in Operations, phase'[c] = "queued"
        PROVE \E i \in DOMAIN queue' : queue'[i] = c
    <3>1. CASE c = o
      BY <1>3, <3>1
    <3>2. CASE c # o
      BY <1>1, <1>2, <1>3, <2>3, <3>2 DEF QueueIsQueued
    <3>3. QED
      BY <3>1, <3>2
  <2>4. ASSUME NEW i \in DOMAIN queue' PROVE phase'[queue'[i]] = "queued"
    BY <1>1, <1>2, <1>3, <2>1 DEF QueueIsQueued
  <2>5. ASSUME NEW i \in DOMAIN queue', NEW k \in DOMAIN queue', queue'[i] = queue'[k]
        PROVE i = k
    BY <1>1, <1>3, <2>5 DEF QueueIsQueued
  <2>6. QED
    BY <2>2, <2>3, <2>4, <2>5 DEF QueueIsQueued
<1>6. OnlyFirstIsWoken'
  BY <1>1, <1>2, <1>3 DEF OnlyFirstIsWoken
<1>7. AheadIsBefore'
  <2> SUFFICES ASSUME NEW c \in Operations, NEW d \in Operations, d \in ahead[c]
               PROVE /\ phase'[c] \in {"pause", "queued"}
                          => future'[d] \in {"waiting", "resolved"}
                     /\ phase'[c] = "queued" =>
                           \A i, k \in DOMAIN queue' :
                              queue'[i] = d /\ queue'[k] = c => i < k
    BY <1>2 DEF AheadIsBefore
  <2>1. CASE c = o
    <3>1. future[d] \in {"waiting", "resolved"} /\ d # o
      BY <1>1, <1>2, <2>1 DEF AheadIsBefore, Counted, QueueIsQueued
    <3>2. QED
      BY <1>2, <1>3, <2>1, <3>1
  <2>2. CASE c # o
    <3>1. phase[c] \in {"pause", "queued"} => d # o /\ future[d] \in {"waiting", "resolved"}
      BY <1>1, <1>2 DEF AheadIsBefore, QueueIsQueued
    <3>2. phase[c] = "queued" =>
             \A i, k \in DOMAIN queue : queue[i] = d /\ queue[k] = c => i < k
      BY <1>1 DEF AheadIsBefore
    <3>3. QED
      BY <1>2, <1>3, <2>2, <3>1, <3>2
  <2>3. QED
    BY <2>1, <2>2
<1>8. MutualExclusion'
  BY <1>1, <1>2 DEF MutualExclusion
<1>9. NoLostWakeup'
  BY <1>1, <1>2, <1>3 DEF NoLostWakeup, FreeAtOnce
<1>10. OthersGoFirst'
  BY <1>1, <1>2 DEF OthersGoFirst
<1>11. QED
  BY <1>4, <1>5, <1>6, <1>7, <1>8, <1>9, <1>10 DEF LockInv

\* A queue without one of its waiters is a queue of the others.
LEMMA DequeueKeepsQueue ==
    ASSUME queue \in Seq(Operations), QueueIsQueued, NEW o \in Operations, Dequeue(o),
           phase[o] = "queued",
           \A c \in Operations : phase'[c] = "queued" <=> phase[c] = "queued" /\ c # o,
           \A c \in Operations : future'[c] = "none" <=> future[c] = "none" \/ c = o
    PROVE QueueIsQueued'
<1> DEFINE L == Len(queue)
<1>1. /\ L \in Nat /\ DOMAIN queue = 1 .. L /\ DOMAIN queue' = 1 .. L - 1
      /\ \A i \in 1 .. L : queue[i] \in Operations
  BY DequeueProperties
<1>2. PICK j \in 1 .. L :
           /\ queue[j] = o
           /\ \A k \in 1 .. L - 1 : k < j => queue'[k] = queue[k]
           /\ \A k \in 1 .. L - 1 : k >= j => queue'[k] = queue[k + 1]
  BY DequeueProperties
<1>3. /\ \A i, k \in 1 .. L : queue[i] = queue[k] => i = k
      /\ \A i \in 1 .. L : phase[queue[i]] = "queued"
      /\ \A c \in Operations : phase[c] = "queued" => \E i \in 1 .. L : queue[i] = c
      /\ \A c \in Operations : future[c] # "none" <=> phase[c] = "queued"
  BY <1>1 DEF QueueIsQueued
<1> HIDE DEF L
<1>4. ASSUME NEW k \in 1 .. L - 1
      PROVE \E i \in 1 .. L : i # j /\ queue'[k] = queue[i] /\ i = IF k < j THEN k ELSE k + 1
  <2>1. CASE k < j
    BY <1>1, <1>2, <2>1
  <2>2. CASE k >= j
    BY <1>1, <1>2, <2>2
  <2>3. QED
    BY <1>1, <1>2, <2>1, <2>2
<1>5. ASSUME NEW k \in 1 .. L - 1 PROVE phase'[queue'[k]] = "queued"
  <2>1. PICK i \in 1 .. L : i # j /\ queue'[k] = queue[i]
    BY <1>4
  <2>2. queue[i] \in Operations /\ queue[i] # o /\ phase[queue[i]] = "queued"
    BY <1>1, <1>2, <1>3, <2>1
  <2>3. QED
    BY <2>1, <2>2
<1>6. ASSUME NEW c \in Operations, phase'[c] = "queued"
      PROVE \E k \in 1 .. L - 1 : queue'[k] = c
  <2>1. PICK i \in 1 .. L : queue[i] = c
    BY <1>3, <1>6
  <2>2. i # j
    BY <1>2, <1>6, <2>1
  <2>3. CASE i < j
    <3>1. i \in 1 .. L - 1
      BY <1>1, <2>3
    <3>2. QED
      BY <1>2, <2>1, <2>3, <3>1
  <2>4. CASE i > j
    <3>1. i - 1 \in 1 .. L - 1 /\ i - 1 >= j /\ (i - 1) + 1 = i
      BY <1>1, <2>4
    <3>2. queue'[i - 1] = queue[(i - 1) + 1]
      BY <1>2, <3>1
    <3>3. QED
      BY <2>1, <3>1, <3>2
  <2>5. QED
    BY <1>1, <2>2, <2>3, <2>4
<1>7. ASSUME NEW k \in 1 .. L - 1, NEW l \in 1 .. L - 1, queue'[k] = queue'[l]
      PROVE k = l
  <2>1. PICK i \in 1 .. L : queue'[k] = queue[i] /\ i = IF k < j THEN k ELSE k + 1
    BY <1>4
  <2>2. PICK m \in 1 .. L : queue'[l] = queue[m] /\ m = IF l < j THEN l ELSE l + 1
    BY <1>4
  <2>3. queue[i] = queue[m]
    BY <1>7, <2>1, <2>2
  <2>4. i = m
    BY <1>3, <2>3
  <2>5. QED
    BY <1>1, <2>1, <2>2, <2>4
<1>8. \A c \in Operations : future'[c] # "none" <=> phase'[c] = "queued"
  BY <1>3
<1>9. QED
  BY <1>1, <1>5, <1>6, <1>7, <1>8 DEF QueueIsQueued

\* In the queue, those ahead of a waiting operation stand before it.
LEMMA AheadOrder ==
    ASSUME AheadIsBefore, NEW c \in Operations, NEW d \in Operations,
           d \in ahead[c], phase[c] = "queued",
           NEW a \in DOMAIN queue, NEW b \in DOMAIN queue,
           queue[a] = d, queue[b] = c
    PROVE a < b
BY DEF AheadIsBefore

\* The woken waiter, first in the queue, takes the lock.
LEMMA EnterStep ==
    ASSUME TypeOK, LockInv, NEW o \in Operations, Enter(o)
    PROVE LockInv'
<1> USE DEF TypeOK
<1>1. /\ Counted /\ QueueIsQueued /\ OnlyFirstIsWoken /\ AheadIsBefore
      /\ MutualExclusion /\ OthersGoFirst
  BY DEF LockInv
<1>2. /\ locked' /\ ~locked /\ phase[o] = "queued" /\ queue[1] = o /\ queue # <<>>
      /\ \A c \in Operations : phase'[c] = IF c = o THEN "guard" ELSE phase[c]
      /\ \A c \in Operations : future'[c] = IF c = o THEN "none" ELSE future[c]
      /\ \A c \in Operations : ahead'[c] = ahead[c] \ {o}
      /\ number' = number
  BY <1>1 DEF Enter, Pass, OnlyFirstIsWoken, QueueIsQueued
<1>3. /\ Len(queue) \in Nat /\ Len(queue) >= 1 /\ DOMAIN queue = 1 .. Len(queue)
      /\ \A i \in 1 .. Len(queue) : queue[i] \in Operations
      /\ \A i, k \in 1 .. Len(queue) : queue[i] = queue[k] => i = k
  BY <1>1, <1>2 DEF QueueIsQueued
<1>4. /\ DOMAIN queue' = 1 .. Len(queue) - 1
      /\ \A k \in 1 .. Len(queue) - 1 : queue'[k] = queue[k + 1]
  <2>1. /\ DOMAIN queue' = 1 .. Len(queue) - 1
        /\ \E j \in 1 .. Len(queue) :
                /\ queue[j] = o
                /\ \A k \in 1 .. Len(queue) - 1 : k >= j => queue'[k] = queue[k + 1]
    BY DequeueProperties DEF Enter
  <2>2. PICK j \in 1 .. Len(queue) :
                /\ queue[j] = o
                /\ \A k \in 1 .. Len(queue) - 1 : k >= j => queue'[k] = queue[k + 1]
    BY <2>1
  <2>3. j = 1
    <3>1. 1 \in 1 .. Len(queue)
      BY <1>3
    <3>2. QED
      BY <1>2, <1>3, <2>2, <3>1
  <2>4. \A k \in 1 .. Len(queue) - 1 : k >= j
    BY <1>3, <2>3
  <2>5. QED
    BY <2>1, <2>2, <2>4
<1>5. ahead[o] = {}
  <2> SUFFICES ASSUME NEW p \in ahead[o] PROVE FALSE
    OBVIOUS
  <2>1. p \in Operations /\ future[p] \in {"waiting", "resolved"}
    BY <1>1, <1>2 DEF AheadIsBefore
  <2>2. PICK i \in 1 .. Len(queue) : queue[i] = p
    BY <1>1, <1>3, <2>1 DEF QueueIsQueued
  <2>3. \A a, b \in DOMAIN queue : queue[a] = p /\ queue[b] = o => a < b
    BY <1>1, <1>2, <2>1 DEF AheadIsBefore
  <2>4. 1 \in 1 .. Len(queue)
    BY <1>3
  <2>5. i < 1
    BY <1>2, <1>3, <2>2, <2>3, <2>4
  <2>6. QED
    BY <1>3, <2>5
<1>6. Counted'
  BY <1>1, <1>2 DEF Counted
<1>7. QueueIsQueued'
  BY <1>1, <1>2, DequeueKeepsQueue DEF Enter
<1>8. OnlyFirstIsWoken'
  BY <1>1, <1>2 DEF OnlyFirstIsWoken
<1>9. AheadIsBefore'
  <2> SUFFICES ASSUME NEW c \in Operations, NEW d \in Operations, d \in ahead[c], d # o
               PROVE /\ phase'[c] \in {"pause", "queued"}
                          => future'[d] \in {"waiting", "resolved"}
                     /\ phase'[c] = "queued" =>
                           \A i, k \in DOMAIN queue' :
                              queue'[i] = d /\ queue'[k] = c => i < k
    BY <1>2 DEF AheadIsBefore
  <2>1. phase'[c] \in {"pause", "queued"} => future'[d] \in {"waiting", "resolved"}
    BY <1>1, <1>2 DEF AheadIsBefore
  <2>2. ASSUME phase'[c] = "queued", NEW i \in 1 .. Len(queue) - 1,
               NEW k \in 1 .. Len(queue) - 1, queue'[i] = d, queue'[k] = c
        PROVE i < k
    <3>1. i + 1 \in 1 .. Len(queue) /\ k + 1 \in 1 .. Len(queue)
      BY <1>3
    <3>2. queue[i + 1] = d /\ queue[k + 1] = c
      BY <1>4, <2>2
    <3>3. phase[c] = "queued"
      BY <1>2, <2>2
    <3>4. i + 1 \in DOMAIN queue /\ k + 1 \in DOMAIN queue
      BY <1>3, <3>1
    <3>5. i + 1 < k + 1
      BY <1>1, <3>2, <3>3, <3>4, AheadOrder
    <3>6. QED
      BY <3>5
  <2>3. QED
    BY <1>4, <2>1, <2>2
<1>10. MutualExclusion'
  BY <1>1, <1>2 DEF MutualExclusion
<1>11. NoLostWakeup'
  BY <1>2 DEF NoLostWakeup
<1>12. OthersGoFirst'
  <2>1. ASSUME NEW c \in Operations, phase'[c] \in Holding PROVE ahead'[c] = {}
    <3>1. CASE c = o
      BY <1>2, <1>5, <3>1
    <3>2. CASE c # o
      <4>1. phase[c] \in Holding
        BY <1>2, <2>1, <3>2
      <4>2. ahead[c] = {}
        BY <1>1, <4>1 DEF OthersGoFirst
      <4>3. QED
        BY <1>2, <4>2
    <3>3. QED
      BY <3>1, <3>2
  <2>2. QED
    BY <2>1 DEF OthersGoFirst
<1>13. QED
  BY <1>6, <1>7, <1>8, <1>9, <1>10, <1>11, <1>12 DEF LockInv

\* A waiter is cancelled.
LEMMA CancelQueuedStep ==
    ASSUME TypeOK, LockInv, NEW o \in Operations, CancelQueued(o)
    PROVE LockInv'
<1> USE DEF TypeOK
<1>1. /\ Counted /\ QueueIsQueued /\ OnlyFirstIsWoken /\ AheadIsBefore
      /\ MutualExclusion /\ NoLostWakeup /\ OthersGoFirst
  BY DEF LockInv
<1>2. /\ queue' = queue /\ locked' = locked /\ phase' = phase /\ number' = number
      /\ future[o] \in {"waiting", "resolved"}
      /\ \A c \in Operations : future'[c] =
            IF c = o THEN (IF future[o] = "waiting" THEN "cancelled" ELSE "doomed")
            ELSE future[c]
      /\ \A c \in Operations : ahead'[c] = ahead[c] \ {o}
  BY DEF CancelQueued, Pass
<1>3. Counted' /\ MutualExclusion' /\ OthersGoFirst'
  BY <1>1, <1>2 DEF Counted, MutualExclusion, OthersGoFirst
<1>4. QueueIsQueued'
  BY <1>1, <1>2 DEF QueueIsQueued
<1>5. OnlyFirstIsWoken'
  BY <1>1, <1>2 DEF OnlyFirstIsWoken
<1>6. AheadIsBefore'
  BY <1>1, <1>2 DEF AheadIsBefore
<1>7. NoLostWakeup'
  <2>1. queue # <<>> => Head(queue) \in Operations
    OBVIOUS
  <2>2. QED
    BY <1>1, <1>2, <2>1 DEF NoLostWakeup
<1>8. QED
  BY <1>3, <1>4, <1>5, <1>6, <1>7 DEF LockInv

\* Who was before whom in the queue stays so when another one leaves it.
LEMMA DequeueKeepsOrder ==
    ASSUME queue \in Seq(Operations), NEW o, Dequeue(o), NEW c, NEW d,
           \A a, b \in DOMAIN queue : queue[a] = d /\ queue[b] = c => a < b
    PROVE \A i, k \in DOMAIN queue' : queue'[i] = d /\ queue'[k] = c => i < k
<1> DEFINE L == Len(queue)
<1>1. L \in Nat /\ DOMAIN queue = 1 .. L /\ DOMAIN queue' = 1 .. L - 1
  BY DequeueProperties
<1>2. PICK j \in 1 .. L :
           /\ \A k \in 1 .. L - 1 : k < j => queue'[k] = queue[k]
           /\ \A k \in 1 .. L - 1 : k >= j => queue'[k] = queue[k + 1]
  BY DequeueProperties
<1>3. \A a, b \in 1 .. L : queue[a] = d /\ queue[b] = c => a < b
  BY <1>1
<1> HIDE DEF L
<1>4. ASSUME NEW k \in 1 .. L - 1
      PROVE \E i \in 1 .. L : queue'[k] = queue[i] /\ i = IF k < j THEN k ELSE k + 1
  <2>1. CASE k < j
    BY <1>1, <1>2, <2>1
  <2>2. CASE k >= j
    BY <1>1, <1>2, <2>2
  <2>3. QED
    BY <1>1, <1>2, <2>1, <2>2
<1>5. ASSUME NEW i \in 1 .. L - 1, NEW k \in 1 .. L - 1, queue'[i] = d, queue'[k] = c
      PROVE i < k
  <2>1. PICK a \in 1 .. L : queue'[i] = queue[a] /\ a = IF i < j THEN i ELSE i + 1
    BY <1>4
  <2>2. PICK b \in 1 .. L : queue'[k] = queue[b] /\ b = IF k < j THEN k ELSE k + 1
    BY <1>4
  <2>3. queue[a] = d /\ queue[b] = c
    BY <1>5, <2>1, <2>2
  <2>4. a < b
    BY <1>3, <2>3
  <2>5. QED
    BY <1>1, <2>1, <2>2, <2>4
<1>6. QED
  BY <1>1, <1>5

\* A cancelled waiter leaves the queue, and wakes the next one if need be.
LEMMA LeaveQueueStep ==
    ASSUME TypeOK, LockInv, NEW o \in Operations, LeaveQueue(o)
    PROVE LockInv'
<1>1. /\ Counted /\ QueueIsQueued /\ OnlyFirstIsWoken /\ AheadIsBefore
      /\ MutualExclusion /\ OthersGoFirst
  BY DEF LockInv
<1>2. /\ queue \in Seq(Operations) /\ queue' \in Seq(Operations) /\ Dequeue(o)
      /\ locked' = locked /\ ahead' = ahead /\ number' = number
      /\ future[o] \in {"cancelled", "doomed"}
      /\ phase[o] = "queued"
      /\ \A c \in Operations : phase'[c] = IF c = o THEN "cancelled" ELSE phase[c]
  BY <1>1, DequeueProperties DEF LeaveQueue, TypeOK, QueueIsQueued
<1>3. \A c \in Operations : future'[c] =
          IF c = o THEN "none"
          ELSE IF ~locked /\ queue' # <<>> /\ c = queue'[1] /\ future[c] = "waiting"
               THEN "resolved" ELSE future[c]
  <2> DEFINE f == [future EXCEPT ![o] = "none"]
  <2>1. /\ f \in [Operations -> {"none", "waiting", "resolved", "cancelled", "doomed"}]
        /\ \A c \in Operations : f[c] = IF c = o THEN "none" ELSE future[c]
    BY DEF TypeOK
  <2>2. future' = IF locked THEN f ELSE WakeFirst(queue', f)
    BY DEF LeaveQueue
  <2> HIDE DEF f
  <2>3. CASE locked
    BY <2>1, <2>2, <2>3
  <2>4. CASE ~locked
    BY <1>2, <2>1, <2>2, <2>4, WakeFirstProperties
  <2>5. QED
    BY <2>3, <2>4
<1>4. Counted' /\ MutualExclusion' /\ OthersGoFirst'
  BY <1>1, <1>2 DEF Counted, MutualExclusion, OthersGoFirst
<1>5. QueueIsQueued'
  BY <1>1, <1>2, <1>3, DequeueKeepsQueue
<1>6. OnlyFirstIsWoken'
  <2> SUFFICES ASSUME NEW c \in Operations, future'[c] \in {"resolved", "doomed"}
               PROVE ~locked /\ queue' # <<>> /\ queue'[1] = c
    BY <1>2 DEF OnlyFirstIsWoken
  <2>1. c # o
    BY <1>3
  <2>2. CASE future[c] = "waiting"
    BY <1>3, <2>1, <2>2
  <2>3. CASE future[c] # "waiting"
    <3>1. future[c] \in {"resolved", "doomed"}
      BY <1>3, <2>1, <2>3
    <3>2. ~locked /\ queue[1] = c
      BY <1>1, <3>1 DEF OnlyFirstIsWoken
    <3>3. PICK j \in 1 .. Len(queue) :
             /\ queue[j] = o
             /\ \A k \in 1 .. Len(queue) - 1 : k < j => queue'[k] = queue[k]
      BY <1>2, DequeueProperties
    <3>4. Len(queue) \in Nat /\ DOMAIN queue' = 1 .. Len(queue) - 1
      BY <1>2, DequeueProperties
    <3>5. j # 1
      BY <2>1, <3>2, <3>3
    <3>6. 1 \in 1 .. Len(queue) - 1 /\ 1 < j
      BY <3>3, <3>4, <3>5
    <3>7. queue'[1] = c
      BY <3>2, <3>3, <3>6
    <3>8. queue' # <<>>
      BY <3>4, <3>6
    <3>9. QED
      BY <3>2, <3>7, <3>8
  <2>4. QED
    BY <2>2, <2>3
<1>7. AheadIsBefore'
  <2> SUFFICES ASSUME NEW c \in Operations, NEW d \in Operations, d \in ahead[c]
               PROVE /\ phase'[c] \in {"pause", "queued"}
                          => future'[d] \in {"waiting", "resolved"}
                     /\ phase'[c] = "queued" =>
                           \A i, k \in DOMAIN queue' :
                              queue'[i] = d /\ queue'[k] = c => i < k
    BY <1>2 DEF AheadIsBefore
  <2>1. phase'[c] \in {"pause", "queued"} => future'[d] \in {"waiting", "resolved"}
    BY <1>1, <1>2, <1>3 DEF AheadIsBefore
  <2>2. ASSUME phase'[c] = "queued"
        PROVE \A i, k \in DOMAIN queue' : queue'[i] = d /\ queue'[k] = c => i < k
    <3>1. phase[c] = "queued"
      BY <1>2, <2>2
    <3>2. \A a, b \in DOMAIN queue : queue[a] = d /\ queue[b] = c => a < b
      BY <1>1, <3>1 DEF AheadIsBefore
    <3>3. QED
      BY <1>2, <3>2, DequeueKeepsOrder
  <2>3. QED
    BY <2>1, <2>2
<1>8. NoLostWakeup'
  <2>1. queue' # <<>> => Head(queue') = queue'[1] /\ queue'[1] \in Operations
    BY <1>2
  <2>2. QED
    BY <1>2, <1>3, <2>1 DEF NoLostWakeup
<1>9. QED
  BY <1>4, <1>5, <1>6, <1>7, <1>8 DEF LockInv

LEMMA InvStep == TypeOK /\ LockInv /\ [Next]_vars => LockInv'
<1> SUFFICES ASSUME TypeOK, LockInv, [Next]_vars PROVE LockInv'
  OBVIOUS
<1>1. ASSUME NEW o \in Operations, Ask(o) PROVE LockInv'
  BY <1>1, AskFreeStep, AskQueueStep
<1>2. ASSUME NEW o \in Operations, GuardPasses(o) PROVE LockInv'
  BY <1>2, HoldingStep DEF GuardPasses
<1>3. ASSUME NEW o \in Operations, BoundFires(o) PROVE LockInv'
  BY <1>3, HoldingStep DEF BoundFires
<1>4. ASSUME NEW o \in Operations, CancelAttempt(o) PROVE LockInv'
  BY <1>4, HoldingStep DEF CancelAttempt
<1>5. ASSUME NEW o \in Operations, phase[o] \in Holding, NEW how \in Ended, Leave(o, how)
      PROVE LockInv'
  BY <1>5, ReleaseStep DEF Leave
<1>6. ASSUME NEW o \in Operations, GuardDeclines(o) PROVE LockInv'
  BY <1>6, FinishStep DEF GuardDeclines
<1>7. ASSUME NEW o \in Operations, AttemptReturns(o) PROVE LockInv'
  BY <1>7, FinishStep DEF AttemptReturns
<1>8. ASSUME NEW o \in Operations, AttemptRaises(o) PROVE LockInv'
  BY <1>8, FinishStep DEF AttemptRaises
<1>9. ASSUME NEW o \in Operations, Unwound(o) PROVE LockInv'
  BY <1>9, FinishStep DEF Unwound, Outcome
<1>10. ASSUME NEW o \in Operations, CancelPause(o) PROVE LockInv'
  <2> USE <1>10 DEF CancelPause, LockInv, TypeOK
  <2>1. \A c \in Operations : phase'[c] = IF c = o THEN "cancelled" ELSE phase[c]
    OBVIOUS
  <2>2. Counted' /\ MutualExclusion' /\ OthersGoFirst'
    BY <2>1 DEF Counted, MutualExclusion, OthersGoFirst
  <2>3. QueueIsQueued' /\ OnlyFirstIsWoken' /\ NoLostWakeup'
    BY <2>1 DEF QueueIsQueued, OnlyFirstIsWoken, NoLostWakeup
  <2>4. AheadIsBefore'
    BY <2>1 DEF AheadIsBefore
  <2>5. QED
    BY <2>2, <2>3, <2>4
<1>11. ASSUME UNCHANGED <<phase, number, lock, ahead>> PROVE LockInv'
  BY <1>11 DEF LockInv, Counted, QueueIsQueued, OnlyFirstIsWoken, AheadIsBefore,
     MutualExclusion, NoLostWakeup, OthersGoFirst
<1>12. QED
  BY <1>1, <1>2, <1>3, <1>4, <1>5, <1>6, <1>7, <1>8, <1>9, <1>10, <1>11,
     EnterStep, CancelQueuedStep, LeaveQueueStep
     DEF Next, Scheduled, Answers, Cancel, GuardRaises, CancelGuard, Abandoned, ClearReports

LEMMA Invariance == Spec => [](TypeOK /\ LockInv)
<1>1. TypeOK /\ LockInv /\ [Next]_vars => TypeOK'
  BY TypeStep DEF LockInv
<1>2. QED
  BY TypeInit, LockInvInit, InvStep, <1>1, PTL DEF Spec

-----------------------------------------------------------------------------
\* The variables stay in range; in particular no operation makes more than
\* MaxAttempts attempts.
THEOREM TypeCorrect == Spec => []TypeOK
BY Invariance, PTL

\* One operation at a time is between its guard and the end of its attempt
\* (see MutualExclusion), for any number of operations.
THEOREM OneAtATime == Spec => []MutualExclusion
<1>1. LockInv => MutualExclusion
  BY DEF LockInv
<1>2. QED
  BY Invariance, <1>1, PTL

\* Cancelled waiters never cost a free lock its wake-up (see NoLostWakeup).
THEOREM WakeupsSurvive == Spec => []NoLostWakeup
<1>1. LockInv => NoLostWakeup
  BY DEF LockInv
<1>2. QED
  BY Invariance, <1>1, PTL

\* A retry lets everyone go first who was waiting (see OthersGoFirst).
THEOREM RetriesYield == Spec => []OthersGoFirst
<1>1. LockInv => OthersGoFirst
  BY DEF LockInv
<1>2. QED
  BY Invariance, <1>1, PTL

-----------------------------------------------------------------------------
(* Reports *)

\* Waiting for the lock or holding it: in an attempt that is not over.
Busy == Holding \cup {"queued"}

\* An operation's slot is of no later attempt than it makes, and of an earlier
\* one while it makes one.
SlotIsNotAhead ==
    \A o \in recorded : /\ lastOf[o].attempt <= number[o]
                        /\ phase[o] \in Busy => lastOf[o].attempt < number[o]

RecordInv ==
    /\ ReportsMatchReturns
    /\ IsFiniteSet(recorded)
    /\ SlotIsNotAhead
    /\ lastRetry # NoReport => lastRetry.attempt <= number[lastRetry.operation]

LEMMA RecordInvInit == Init => RecordInv
<1> SUFFICES ASSUME Init PROVE RecordInv
  OBVIOUS
<1>1. Failed = {} /\ recorded = {}
  BY DEF Failed, Init
<1>2. QED
  BY <1>1, FS_EmptySet DEF Init, ReportsInit, RecordInv, ReportsMatchReturns, SlotIsNotAhead

\* The reports in the slots, and the numbers of attempts, have their types.
LEMMA SlotTypes ==
    ASSUME TypeOK, RecordInv
    PROVE /\ recorded \subseteq Operations
          /\ \A o \in Operations : number[o] \in Nat
          /\ \A o \in recorded : lastOf[o] \in Report /\ lastOf[o].attempt \in Nat
          /\ lastRetry # NoReport => /\ lastRetry.operation \in Operations
                                    /\ lastRetry.attempt \in Nat
<1>1. /\ recorded \subseteq Operations
      /\ \A o \in Operations : number[o] \in Nat /\ lastOf[o] \in Report \cup {NoReport}
      /\ lastRetry \in Report \cup {NoReport}
  BY DEF TypeOK, ReportsTypeOK, MaybeReport
<1>2. \A o \in recorded : lastOf[o] # NoReport
  BY <1>1 DEF RecordInv, ReportsMatchReturns
<1>3. \A r \in Report : r.operation \in Operations /\ r.attempt \in Nat
  BY DEF Report
<1>4. QED
  BY <1>1, <1>2, <1>3

\* Steps that record nothing: nobody returns, who raises does so in an attempt
\* that was not recorded, and nobody goes on pausing who has another attempt.
LEMMA NothingRecorded ==
    ASSUME TypeOK, RecordInv, UNCHANGED <<reports, recorded, outcome, number>>,
           \A o \in Operations :
               \/ phase'[o] = phase[o]
               \/ phase[o] \in Busy /\ phase'[o] \in Busy \cup {"raised", "cancelled"}
               \/ phase[o] = "pause" /\ phase'[o] = "cancelled"
    PROVE RecordInv'
<1> USE DEF Busy
<1>1. /\ recorded \subseteq Operations
      /\ \A o \in recorded : number[o] \in Nat /\ lastOf[o].attempt \in Nat
      /\ lastRetry # NoReport => lastRetry.operation \in Operations
  BY SlotTypes
<1>2. SlotIsNotAhead'
  BY <1>1 DEF RecordInv, SlotIsNotAhead
<1>3. \A o \in recorded : o \in Failed' <=> o \in Failed
  <2>1. SUFFICES ASSUME NEW o \in recorded PROVE o \in Failed' <=> o \in Failed
    OBVIOUS
  <2>2. CASE phase'[o] = phase[o]
    BY <2>2 DEF Failed
  <2>3. CASE phase[o] \in Busy /\ phase'[o] \in Busy \cup {"raised", "cancelled"}
    <3>1. lastOf[o].attempt # number[o]
      BY <1>1, <2>3 DEF RecordInv, SlotIsNotAhead
    <3>2. QED
      BY <2>3, <3>1 DEF Failed
  <2>4. CASE phase[o] = "pause" /\ phase'[o] = "cancelled"
    BY <2>4 DEF Failed
  <2>5. QED
    BY <1>1, <2>2, <2>3, <2>4
<1>4. Failed' = Failed
  BY <1>3 DEF Failed
<1>5. /\ \A o \in Operations : lastOf'[o] = NoReport <=> o \notin recorded'
      /\ failures' = Cardinality(Failed')
      /\ IsFiniteSet(recorded')
      /\ IF Failed' = {}
           THEN lastFailure' = NoReport
           ELSE /\ lastFailure'.operation \in Failed'
                /\ lastFailure'.attempt = number'[lastFailure'.operation]
  BY <1>4 DEF RecordInv, ReportsMatchReturns
<1>6. ASSUME NEW o \in recorded'
      PROVE /\ lastOf'[o].attempt = number'[o] =>
                   lastOf'[o] = ReportOf(o, outcome[o], lastOf[o].retrying)'
            /\ phase'[o] \in {"pause", "returned"} =>
                   lastOf'[o] = ReportOf(o, outcome[o], phase[o] = "pause")'
  <2>1. o \in recorded /\ (phase'[o] \in {"pause", "returned"} => phase'[o] = phase[o])
    BY <1>1, <1>6
  <2>2. lastOf[o].attempt = number[o] =>
            lastOf[o] = ReportOf(o, outcome[o], lastOf[o].retrying)
    BY <2>1 DEF RecordInv, ReportsMatchReturns
  <2>3. phase[o] \in {"pause", "returned"} =>
            lastOf[o] = ReportOf(o, outcome[o], phase[o] = "pause")
    BY <2>1 DEF RecordInv, ReportsMatchReturns
  <2>4. lastOf' = lastOf /\ number' = number /\ outcome' = outcome
    BY DEF reports
  <2>5. CASE phase'[o] = phase[o]
    BY <2>2, <2>3, <2>4, <2>5 DEF ReportOf
  <2>6. CASE phase'[o] # phase[o]
    BY <2>1, <2>2, <2>4, <2>6 DEF ReportOf
  <2>7. QED
    BY <2>5, <2>6
<1>7. lastRetry' # NoReport =>
           /\ lastRetry'.attempt <= number'[lastRetry'.operation]
           /\ \/ lastRetry'.attempt < number'[lastRetry'.operation]
              \/ phase'[lastRetry'.operation] \in {"pause", "cancelled", "raised"}
  BY <1>1 DEF RecordInv, ReportsMatchReturns
<1>8. ReportsMatchReturns'
  BY <1>5, <1>6, <1>7 DEF ReportsMatchReturns
<1>9. QED
  BY <1>2, <1>5, <1>7, <1>8 DEF RecordInv

\* Another attempt is made: its operation neither pauses nor has ended.
LEMMA AskRecorded ==
    ASSUME TypeOK, RecordInv, NEW o \in Operations, Ask(o)
    PROVE RecordInv'
<1> USE DEF Busy
<1>1. /\ phase[o] \in {"new", "pause"} /\ phase'[o] \in Busy
      /\ \A p \in Operations : p # o => phase'[p] = phase[p]
  BY DEF Ask, TypeOK
<1>2. /\ \A p \in Operations : number'[p] = IF p = o THEN number[o] + 1 ELSE number[p]
      /\ \A p \in Operations : p # o => outcome'[p] = outcome[p]
      /\ UNCHANGED <<last, lastKind, lastFailure, lastRetry, failures, lastOf, recorded>>
  BY DEF Ask, TypeOK
<1>3. /\ recorded \subseteq Operations
      /\ \A p \in Operations : number[p] \in Nat
      /\ \A p \in recorded : lastOf[p].attempt \in Nat
      /\ lastRetry # NoReport => lastRetry.operation \in Operations /\ lastRetry.attempt \in Nat
  BY SlotTypes
<1>4. SlotIsNotAhead'
  <2>1. SUFFICES ASSUME NEW p \in recorded
                 PROVE /\ lastOf[p].attempt <= number'[p]
                       /\ phase'[p] \in Busy => lastOf[p].attempt < number'[p]
    BY <1>2 DEF SlotIsNotAhead
  <2>2. lastOf[p].attempt <= number[p] /\ (phase[p] \in Busy => lastOf[p].attempt < number[p])
    BY DEF RecordInv, SlotIsNotAhead
  <2>3. CASE p = o
    BY <1>2, <1>3, <2>2, <2>3
  <2>4. CASE p # o
    BY <1>1, <1>2, <1>3, <2>2, <2>4
  <2>5. QED
    BY <2>3, <2>4
<1>5. \A p \in recorded : p \in Failed' <=> p \in Failed
  <2>1. SUFFICES ASSUME NEW p \in recorded PROVE p \in Failed' <=> p \in Failed
    OBVIOUS
  <2>2. CASE p = o
    BY <1>1, <2>2 DEF Failed
  <2>3. CASE p # o
    BY <1>1, <1>2, <1>3, <2>3 DEF Failed
  <2>4. QED
    BY <2>2, <2>3
<1>6. Failed' = Failed /\ o \notin Failed
  BY <1>1, <1>2, <1>5 DEF Failed
<1>7. /\ \A p \in Operations : lastOf'[p] = NoReport <=> p \notin recorded'
      /\ failures' = Cardinality(Failed')
      /\ IsFiniteSet(recorded')
  BY <1>2, <1>6 DEF RecordInv, ReportsMatchReturns
<1>8. IF Failed' = {}
        THEN lastFailure' = NoReport
        ELSE /\ lastFailure'.operation \in Failed'
             /\ lastFailure'.attempt = number'[lastFailure'.operation]
  <2>1. Failed \subseteq Operations
    BY <1>3 DEF Failed
  <2>2. QED
    BY <1>2, <1>6, <2>1 DEF RecordInv, ReportsMatchReturns
<1>9. ASSUME NEW p \in recorded'
      PROVE /\ lastOf'[p].attempt = number'[p] =>
                   lastOf'[p] = ReportOf(p, outcome[p], lastOf[p].retrying)'
            /\ phase'[p] \in {"pause", "returned"} =>
                   lastOf'[p] = ReportOf(p, outcome[p], phase[p] = "pause")'
  <2>1. p \in recorded /\ p \in Operations
    BY <1>2, <1>3
  <2>2. CASE p = o
    <3>1. phase'[p] \notin {"pause", "returned"}
      BY <1>1, <2>2
    <3>2. lastOf[p].attempt <= number[p] /\ number'[p] = number[p] + 1
      BY <1>2, <2>1, <2>2 DEF RecordInv, SlotIsNotAhead
    <3>3. lastOf'[p].attempt # number'[p]
      BY <1>2, <1>3, <2>1, <3>2
    <3>4. QED
      BY <3>1, <3>3
  <2>3. CASE p # o
    <3>1. /\ number'[p] = number[p] /\ phase'[p] = phase[p] /\ outcome'[p] = outcome[p]
          /\ lastOf' = lastOf
      BY <1>1, <1>2, <2>1, <2>3
    <3>2. QED
      BY <2>1, <3>1 DEF RecordInv, ReportsMatchReturns, ReportOf
  <2>4. QED
    BY <2>2, <2>3
<1>10. lastRetry' # NoReport =>
           /\ lastRetry'.attempt <= number'[lastRetry'.operation]
           /\ \/ lastRetry'.attempt < number'[lastRetry'.operation]
              \/ phase'[lastRetry'.operation] \in {"pause", "cancelled", "raised"}
  <2>1. SUFFICES ASSUME lastRetry # NoReport
        PROVE /\ lastRetry.attempt <= number'[lastRetry.operation]
              /\ \/ lastRetry.attempt < number'[lastRetry.operation]
                 \/ phase'[lastRetry.operation] \in {"pause", "cancelled", "raised"}
    BY <1>2
  <2>2. lastRetry.attempt <= number[lastRetry.operation]
    BY <2>1 DEF RecordInv
  <2>3. CASE lastRetry.operation = o
    BY <1>2, <1>3, <2>1, <2>2, <2>3
  <2>4. CASE lastRetry.operation # o
    BY <1>1, <1>2, <1>3, <2>1, <2>2, <2>4 DEF RecordInv, ReportsMatchReturns
  <2>5. QED
    BY <2>3, <2>4
<1>11. ReportsMatchReturns'
  BY <1>7, <1>8, <1>9, <1>10 DEF ReportsMatchReturns
<1>12. QED
  BY <1>4, <1>7, <1>10, <1>11 DEF RecordInv

\* What a callback that raises leaves unrecorded counts for nothing.
LEMMA RaisedUnrecorded ==
    ASSUME TypeOK, RecordInv, NEW o \in Operations, phase[o] \in Holding,
           To(o, "raised"), NEW how, outcome' = [outcome EXCEPT ![o] = how],
           UNCHANGED <<number, recorded, reports>>
    PROVE RecordInv'
<1> USE DEF Busy
<1>1. /\ phase'[o] = "raised"
      /\ \A p \in Operations : p # o => phase'[p] = phase[p] /\ outcome'[p] = outcome[p]
  BY DEF TypeOK
<1>2. /\ recorded \subseteq Operations
      /\ \A p \in Operations : number[p] \in Nat
      /\ \A p \in recorded : lastOf[p].attempt \in Nat
      /\ lastRetry # NoReport => lastRetry.operation \in Operations
  BY SlotTypes
<1>3. o \in recorded => lastOf[o].attempt # number[o]
  BY <1>2 DEF RecordInv, SlotIsNotAhead
<1>4. SlotIsNotAhead'
  <2>1. SUFFICES ASSUME NEW p \in recorded
                 PROVE /\ lastOf[p].attempt <= number[p]
                       /\ phase'[p] \in Busy => lastOf[p].attempt < number[p]
    BY DEF SlotIsNotAhead
  <2>2. phase'[p] \in Busy => phase[p] \in Busy
    BY <1>1, <1>2
  <2>3. QED
    BY <2>2 DEF RecordInv, SlotIsNotAhead
<1>5. \A p \in recorded : p \in Failed' <=> p \in Failed
  <2>1. SUFFICES ASSUME NEW p \in recorded PROVE p \in Failed' <=> p \in Failed
    OBVIOUS
  <2>2. CASE p = o
    BY <1>1, <1>3, <2>2 DEF Failed
  <2>3. CASE p # o
    BY <1>1, <1>2, <2>3 DEF Failed
  <2>4. QED
    BY <2>2, <2>3
<1>6. Failed' = Failed
  BY <1>5 DEF Failed
<1>7. /\ \A p \in Operations : lastOf'[p] = NoReport <=> p \notin recorded'
      /\ failures' = Cardinality(Failed')
      /\ IsFiniteSet(recorded')
      /\ IF Failed' = {}
           THEN lastFailure' = NoReport
           ELSE /\ lastFailure'.operation \in Failed'
                /\ lastFailure'.attempt = number'[lastFailure'.operation]
  BY <1>6 DEF RecordInv, ReportsMatchReturns
<1>8. ASSUME NEW p \in recorded'
      PROVE /\ lastOf'[p].attempt = number'[p] =>
                   lastOf'[p] = ReportOf(p, outcome[p], lastOf[p].retrying)'
            /\ phase'[p] \in {"pause", "returned"} =>
                   lastOf'[p] = ReportOf(p, outcome[p], phase[p] = "pause")'
  <2>1. CASE p = o
    BY <1>1, <1>3, <2>1
  <2>2. CASE p # o
    BY <1>1, <1>2, <2>2 DEF RecordInv, ReportsMatchReturns, ReportOf
  <2>3. QED
    BY <2>1, <2>2
<1>9. lastRetry' # NoReport =>
           /\ lastRetry'.attempt <= number'[lastRetry'.operation]
           /\ \/ lastRetry'.attempt < number'[lastRetry'.operation]
              \/ phase'[lastRetry'.operation] \in {"pause", "cancelled", "raised"}
  BY <1>1, <1>2 DEF RecordInv, ReportsMatchReturns
<1>10. ReportsMatchReturns'
  BY <1>7, <1>8, <1>9 DEF ReportsMatchReturns
<1>11. QED
  BY <1>4, <1>7, <1>9, <1>10 DEF RecordInv

\* The attempt that ends is recorded as it ended and as what follows it, also
\* if on_attempt raises once it has recorded it.
LEMMA EndRecorded ==
    ASSUME TypeOK, Counted, RecordInv, NEW o \in Operations, phase[o] \in Holding,
           NEW how \in Outcomes \ {"none"}, NEW p \in {"pause", "returned", "raised"},
           NEW retrying \in BOOLEAN, To(o, p), OnAttempt(o, how, retrying),
           p # "raised" => (retrying <=> p = "pause"),
           retrying => how \in Errors,
           outcome' = [outcome EXCEPT ![o] = how], UNCHANGED number
    PROVE RecordInv'
<1> USE DEF Busy
<1> DEFINE r == ReportOf(o, how, retrying)
<1>1. /\ r \in Report /\ r # NoReport
      /\ r.operation = o /\ r.attempt = number[o] /\ r.retrying = retrying
      /\ r.skipped = (how = "skipped") /\ r.error = (how \in Errors)
  <2>1. r \in Report
    BY ReportOfType DEF Counted
  <2>2. QED
    BY <2>1 DEF ReportOf, Report
<1>2. Record(r) /\ recorded' = recorded \cup {o}
  BY DEF OnAttempt
<1>3. /\ phase'[o] = p /\ outcome'[o] = how
      /\ \A q \in Operations : q # o => phase'[q] = phase[q] /\ outcome'[q] = outcome[q]
  BY DEF TypeOK
<1>4. ReportOf(o, outcome[o], retrying)' = r
  BY <1>3 DEF ReportOf
<1> HIDE DEF r
<1>5. /\ lastOf'[o] = r /\ \A q \in Operations : q # o => lastOf'[q] = lastOf[q]
      /\ IF Classify(r) = "failure"
           THEN lastFailure' = r /\ failures' = failures + 1
           ELSE lastFailure' = lastFailure /\ failures' = failures
      /\ lastRetry' = IF Classify(r) = "retried" THEN r ELSE lastRetry
  BY <1>1, <1>2 DEF Record, TypeOK, ReportsTypeOK
<1>6. /\ Classify(r) = "failure" <=> how \in Errors /\ ~retrying
      /\ Classify(r) = "retried" <=> retrying
  BY <1>1 DEF Classify
<1>7. /\ recorded \subseteq Operations
      /\ \A q \in Operations : number[q] \in Nat
      /\ \A q \in recorded : lastOf[q].attempt \in Nat
      /\ lastRetry # NoReport => lastRetry.operation \in Operations
  BY SlotTypes
<1>8. SlotIsNotAhead'
  <2>1. SUFFICES ASSUME NEW q \in recorded'
                 PROVE /\ lastOf'[q].attempt <= number[q]
                       /\ phase'[q] \in Busy => lastOf'[q].attempt < number[q]
    BY DEF SlotIsNotAhead
  <2>2. CASE q = o
    BY <1>1, <1>3, <1>5, <1>7, <2>2
  <2>3. CASE q # o
    BY <1>2, <1>3, <1>5, <1>7, <2>3 DEF RecordInv, SlotIsNotAhead
  <2>4. QED
    BY <2>2, <2>3
<1>9. o \notin Failed /\ (o \in Failed' <=> Classify(r) = "failure")
  <2>1. o \notin Failed
    BY DEF Failed
  <2>2. /\ p = "returned" => ~retrying
        /\ p = "pause" => retrying
    OBVIOUS
  <2>3. o \in recorded' /\ lastOf'[o].attempt = number'[o] /\ lastOf'[o].retrying = retrying
    BY <1>1, <1>2, <1>5
  <2>4. o \in Failed' <=> /\ how \in Errors
                          /\ \/ p = "returned"
                             \/ p = "raised" /\ ~retrying
    BY <1>3, <2>3 DEF Failed
  <2>5. QED
    BY <1>6, <2>1, <2>2, <2>4
<1>10. \A q \in recorded : q # o => (q \in Failed' <=> q \in Failed)
  BY <1>2, <1>3, <1>5, <1>7 DEF Failed
<1>11. Failed' = IF Classify(r) = "failure" THEN Failed \cup {o} ELSE Failed
  <2>1. Failed \subseteq recorded /\ Failed' \subseteq recorded \cup {o}
    BY <1>2 DEF Failed
  <2>2. QED
    BY <1>9, <1>10, <2>1
<1>12. IsFiniteSet(Failed) /\ IsFiniteSet(recorded')
  <2>1. Failed \subseteq recorded /\ IsFiniteSet(recorded)
    BY DEF Failed, RecordInv
  <2>2. QED
    BY <1>2, <2>1, FS_Subset, FS_AddElement
<1>13. failures' = Cardinality(Failed')
  <2>1. failures = Cardinality(Failed)
    BY DEF RecordInv, ReportsMatchReturns
  <2>2. Cardinality(Failed \cup {o}) = Cardinality(Failed) + 1
    BY <1>9, <1>12, FS_AddElement
  <2>3. QED
    BY <1>5, <1>11, <2>1, <2>2
<1>14. \A q \in Operations : lastOf'[q] = NoReport <=> q \notin recorded'
  BY <1>1, <1>2, <1>5 DEF RecordInv, ReportsMatchReturns
<1>15. IF Failed' = {}
         THEN lastFailure' = NoReport
         ELSE /\ lastFailure'.operation \in Failed'
              /\ lastFailure'.attempt = number'[lastFailure'.operation]
  <2>1. CASE Classify(r) = "failure"
    BY <1>1, <1>5, <1>11, <2>1
  <2>2. CASE Classify(r) # "failure"
    BY <1>5, <1>11, <2>2 DEF RecordInv, ReportsMatchReturns
  <2>3. QED
    BY <2>1, <2>2
<1>16. ASSUME NEW q \in recorded'
       PROVE /\ lastOf'[q].attempt = number'[q] =>
                    lastOf'[q] = ReportOf(q, outcome[q], lastOf[q].retrying)'
             /\ phase'[q] \in {"pause", "returned"} =>
                    lastOf'[q] = ReportOf(q, outcome[q], phase[q] = "pause")'
  <2>1. CASE q = o
    <3>1. lastOf'[q].retrying = retrying
      BY <1>1, <1>5, <2>1
    <3>2. phase'[q] \in {"pause", "returned"} => (phase'[q] = "pause") = retrying
      BY <1>3, <2>1
    <3>3. QED
      BY <1>4, <1>5, <2>1, <3>1, <3>2
  <2>2. CASE q # o
    <3>1. /\ q \in recorded /\ lastOf'[q] = lastOf[q]
          /\ phase'[q] = phase[q] /\ outcome'[q] = outcome[q]
      BY <1>2, <1>3, <1>5, <1>7, <2>2
    <3>2. QED
      BY <3>1 DEF RecordInv, ReportsMatchReturns, ReportOf
  <2>3. QED
    BY <2>1, <2>2
<1>17. lastRetry' # NoReport =>
           /\ lastRetry'.attempt <= number'[lastRetry'.operation]
           /\ \/ lastRetry'.attempt < number'[lastRetry'.operation]
              \/ phase'[lastRetry'.operation] \in {"pause", "cancelled", "raised"}
  <2>1. CASE retrying
    BY <1>1, <1>3, <1>5, <1>6, <1>7, <2>1
  <2>2. CASE ~retrying
    BY <1>3, <1>5, <1>6, <1>7, <2>2 DEF RecordInv, ReportsMatchReturns
  <2>3. QED
    BY <2>1, <2>2
<1>18. ReportsMatchReturns'
  BY <1>13, <1>14, <1>15, <1>16, <1>17 DEF ReportsMatchReturns
<1>19. QED
  BY <1>8, <1>12, <1>17, <1>18 DEF RecordInv

LEMMA FinishRecorded ==
    ASSUME TypeOK, Counted, RecordInv, NEW o \in Operations, phase[o] \in Holding,
           NEW how \in Outcomes \ {"none"}, Finish(o, how)
    PROVE RecordInv'
<1>1. PICK p \in {"pause", "returned", "raised"}, retrying \in BOOLEAN :
          /\ To(o, p)
          /\ p # "raised" => (retrying <=> p = "pause")
          /\ retrying => how \in Errors
          /\ \/ OnAttempt(o, how, retrying)
             \/ p = "raised" /\ UNCHANGED <<recorded, reports>>
  BY FinishMeans
<1>2. outcome' = [outcome EXCEPT ![o] = how] /\ UNCHANGED number
  BY DEF Finish
<1>3. CASE OnAttempt(o, how, retrying)
  <2>1. /\ To(o, p)
        /\ p # "raised" => (retrying <=> p = "pause")
        /\ retrying => how \in Errors
    BY <1>1
  <2>2. outcome' = [outcome EXCEPT ![o] = how] /\ UNCHANGED number
    BY <1>2
  <2> HIDE DEF To, Errors, Outcomes, Holding
  <2>3. QED
    BY <1>3, <2>1, <2>2, EndRecorded
<1>4. CASE p = "raised" /\ UNCHANGED <<recorded, reports>>
  BY <1>1, <1>2, <1>4, RaisedUnrecorded
<1>5. QED
  BY <1>1, <1>3, <1>4

LEMMA ClearRecorded == TypeOK /\ ClearReports => RecordInv'
<1> SUFFICES ASSUME TypeOK, ClearReports PROVE RecordInv'
  OBVIOUS
<1>1. /\ recorded' = {} /\ Failed' = {} /\ lastFailure' = NoReport /\ lastRetry' = NoReport
      /\ failures' = 0 /\ \A p \in Operations : lastOf'[p] = NoReport
  BY DEF ClearReports, Clear, Failed
<1>2. QED
  BY <1>1, FS_EmptySet DEF RecordInv, ReportsMatchReturns, SlotIsNotAhead

LEMMA RecordStep == TypeOK /\ LockInv /\ RecordInv /\ [Next]_vars => RecordInv'
<1> SUFFICES ASSUME TypeOK, LockInv, RecordInv, [Next]_vars PROVE RecordInv'
  OBVIOUS
<1>1. Counted /\ QueueIsQueued
  BY DEF LockInv
<1>2. ASSUME NEW o \in Operations, GuardPasses(o) \/ BoundFires(o) \/ CancelAttempt(o)
                 \/ CancelPause(o) PROVE RecordInv'
  <2>1. UNCHANGED <<reports, recorded, outcome, number>>
    BY <1>2 DEF GuardPasses, BoundFires, CancelAttempt, CancelPause
  <2>2. \A p \in Operations :
            \/ phase'[p] = phase[p]
            \/ phase[p] \in Busy /\ phase'[p] \in Busy \cup {"raised", "cancelled"}
            \/ phase[p] = "pause" /\ phase'[p] = "cancelled"
    BY <1>2 DEF GuardPasses, BoundFires, CancelAttempt, CancelPause, TypeOK, Busy
  <2>3. QED
    BY <2>1, <2>2, NothingRecorded
<1>3. ASSUME NEW o \in Operations, Enter(o) \/ LeaveQueue(o) \/ CancelQueued(o)
      PROVE RecordInv'
  <2>1. UNCHANGED <<reports, recorded, outcome, number>>
    BY <1>3 DEF Enter, LeaveQueue, CancelQueued
  <2>2. phase[o] = "queued"
    BY <1>1, <1>3 DEF Enter, LeaveQueue, CancelQueued, QueueIsQueued
  <2>3. /\ \A p \in Operations : p # o => phase'[p] = phase[p]
        /\ phase'[o] \in {"guard", "cancelled", "queued"}
    BY <1>3, <2>2 DEF Enter, LeaveQueue, CancelQueued, TypeOK
  <2>4. QED
    BY <2>1, <2>2, <2>3, NothingRecorded DEF Busy
<1>4. ASSUME NEW o \in Operations, GuardRaises(o) \/ CancelGuard(o) \/ Abandoned(o)
      PROVE RecordInv'
  <2>1. UNCHANGED <<reports, recorded, outcome, number>> /\ phase[o] \in Holding
    BY <1>4 DEF GuardRaises, CancelGuard, Abandoned, Leave
  <2>2. /\ \A p \in Operations : p # o => phase'[p] = phase[p]
        /\ phase'[o] \in {"raised", "cancelled"}
    BY <1>4 DEF GuardRaises, CancelGuard, Abandoned, Leave, TypeOK
  <2>3. QED
    BY <2>1, <2>2, NothingRecorded DEF Busy
<1>5. ASSUME NEW o \in Operations, GuardDeclines(o) PROVE RecordInv'
  BY <1>1, <1>5, FinishRecorded DEF GuardDeclines
<1>6. ASSUME NEW o \in Operations, AttemptReturns(o) PROVE RecordInv'
  BY <1>1, <1>6, FinishRecorded DEF AttemptReturns
<1>7. ASSUME NEW o \in Operations, AttemptRaises(o) PROVE RecordInv'
  BY <1>1, <1>7, FinishRecorded DEF AttemptRaises
<1>8. ASSUME NEW o \in Operations, Unwound(o) PROVE RecordInv'
  BY <1>1, <1>8, FinishRecorded DEF Unwound, Outcome
<1>9. ASSUME UNCHANGED vars PROVE RecordInv'
  BY <1>9, NothingRecorded
<1>10. QED
  BY <1>2, <1>3, <1>4, <1>5, <1>6, <1>7, <1>8, <1>9, AskRecorded, ClearRecorded
     DEF Next, Scheduled, Answers, Cancel

\* What was published is what happened (see ReportsMatchReturns): in
\* particular the failures counted are the operations that returned one.
THEOREM ReportsTrue == Spec => []ReportsMatchReturns
<1>1. RecordInv => ReportsMatchReturns
  BY DEF RecordInv
<1>2. QED
  BY Invariance, RecordInvInit, RecordStep, <1>1, PTL DEF Spec

=============================================================================
