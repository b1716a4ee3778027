-------------------------- MODULE SubscriptionProofs --------------------------
(***************************************************************************)
(* Theorems about Subscription, for any number of subscribe attempts and    *)
(* any number of cancellations.                                            *)
(***************************************************************************)
EXTENDS Subscription, TLAPS

-----------------------------------------------------------------------------
(* Types *)

\* The recovery is on the way to another attempt.
AnotherIsLeft == pc \in {"releasing", "refreshing", "backoff"} => attempt < NotifyAttempts

TypeInv == TypeOK /\ AnotherIsLeft

LEMMA TypeInit == Init => TypeInv
<1>1. 1 \in 1 .. NotifyAttempts /\ 0 \in 0 .. MaxCancels
  BY SubscriptionAssumption
<1> QED
  BY <1>1 DEF Init, TypeInv, TypeOK, AnotherIsLeft

LEMMA TypeNext == TypeInv /\ [Next]_vars => TypeInv'
<1> SUFFICES ASSUME TypeInv, [Next]_vars PROVE TypeInv'
    OBVIOUS
<1>0. /\ NotifyAttempts \in Nat /\ MaxCancels \in Nat
      /\ 1 \in 1 .. NotifyAttempts /\ 0 \in 0 .. MaxCancels
  BY SubscriptionAssumption
<1> USE <1>0 DEF TypeInv, TypeOK, AnotherIsLeft, Unsubscribing, args, backend, history
<1>1. CASE Starts
  <2>1. CASE Start
    BY <2>1 DEF Start
  <2>2. CASE StartReturns
    BY <2>2 DEF StartReturns
  <2>3. CASE StartFails
    BY <2>3 DEF StartFails, StartRaises
  <2>4. CASE StartFindsStale
    BY <2>4 DEF StartFindsStale, StartRaises, TriesAgain
  <2>5. CASE StartFindsNoServices
    BY <2>5 DEF StartFindsNoServices, StartRaises, Refresh, TriesAgain
  <2> QED
    BY <1>1, <2>1, <2>2, <2>3, <2>4, <2>5 DEF Starts
<1>2. CASE Recovers
  <2>1. CASE ReleaseReturns \/ ReleaseFails
    BY <2>1 DEF ReleaseReturns, ReleaseFails, Refresh
  <2>2. CASE RefreshReturns
    BY <2>2 DEF RefreshReturns
  <2>4. CASE RefreshFails
    BY <2>4 DEF RefreshFails
  <2>3. CASE BackoffOver
    <3>1. attempt + 1 \in 1 .. NotifyAttempts
      BY <2>3 DEF BackoffOver
    <3> QED
      BY <2>3, <3>1 DEF BackoffOver
  <2> QED
    BY <1>2, <2>1, <2>2, <2>3, <2>4 DEF Recovers
<1>3. CASE SettleOver
  BY <1>3 DEF SettleOver
<1>4. CASE BodyEnds
  BY <1>4 DEF BodyEnds, Unsubscribe
<1>5. CASE Stops
  BY <1>5 DEF Stops, StopReturns, StopFails
<1>6. CASE Cancel
  <2>1. CASE CancelStart
    BY <2>1 DEF CancelStart
  <2>2. CASE CancelSettle \/ CancelBody
    BY <2>2 DEF CancelSettle, CancelBody, SettleUndoes, Unsubscribe
  <2>3. CASE CancelStop
    BY <2>3 DEF CancelStop
  <2> QED
    BY <1>6, <2>1, <2>2, <2>3 DEF Cancel
<1>7. CASE LinkDrops
  <2>1. sub' \in {"none", "stale"}
    BY <1>7 DEF LinkDrops
  <2>2. connected' \in BOOLEAN /\ UNCHANGED <<args, pc, attempt, exc, cancels, discovered, history>>
    BY <1>7 DEF LinkDrops
  <2> QED
    BY <2>1, <2>2
<1>8. CASE BackendCatchesUp
  <2>1. sub' \in {"none", "stale", "ours"} /\ discovered' \in BOOLEAN
    BY <1>8 DEF BackendCatchesUp
  <2>2. UNCHANGED <<args, pc, attempt, exc, cancels, connected, history>>
    BY <1>8 DEF BackendCatchesUp
  <2> QED
    BY <2>1, <2>2
<1>9. CASE Reconnect
  BY <1>9 DEF Reconnect
<1>10. CASE UNCHANGED vars
  BY <1>10 DEF vars
<1> QED
  BY <1>1, <1>2, <1>3, <1>4, <1>5, <1>6, <1>7, <1>8, <1>9, <1>10 DEF Next

\* subscribe.py, notifications.py: the state of a reader and its backend keeps
\* its type; no attempt is counted beyond NOTIFY_ATTEMPTS.
THEOREM TypeCorrect == Spec => []TypeOK
<1>1. TypeInv => TypeOK
  BY DEF TypeInv
<1> QED
  BY <1>1, TypeInit, TypeNext, PTL DEF Spec

-----------------------------------------------------------------------------
(* The subscription *)

\* A link that is down holds none of ours: reconnecting leaves a stale one.
DownHoldsNone == ~connected => sub # "ours"

\* What the subscribe got done, by the await the reader is in.
MadeByPhase == made => pc \in {"settling", "body", "over"} \cup Unsubscribing

\* Our own unsubscribe is the last thing a reader does, and each way it may
\* come out says what the backend may still hold.
StopsByPhase ==
    /\ stops # "none" => pc = "over"
    /\ pc = "over" /\ made => stops # "none"
    /\ stops = "done" => sub # "ours"
    /\ stops = "skipped" => ~connected

UndoneInv == DownHoldsNone /\ MadeByPhase /\ StopsByPhase

LEMMA UndoneInit == Init => UndoneInv
BY DEF Init, UndoneInv, DownHoldsNone, MadeByPhase, StopsByPhase

LEMMA UndoneNext == TypeOK /\ UndoneInv /\ [Next]_vars => UndoneInv'
<1> SUFFICES ASSUME TypeOK, UndoneInv, [Next]_vars PROVE UndoneInv'
    OBVIOUS
<1>0. made \in BOOLEAN /\ connected \in BOOLEAN
  BY DEF TypeOK
<1> USE DEF UndoneInv, DownHoldsNone, MadeByPhase, StopsByPhase, Unsubscribing, history, backend
<1>1. CASE Starts
  <2>1. CASE Start
    BY <1>0, <2>1 DEF Start
  <2>2. CASE StartReturns
    BY <1>0, <2>2 DEF StartReturns
  <2>3. CASE StartFails
    BY <1>0, <2>3 DEF StartFails, StartRaises
  <2>4. CASE StartFindsStale
    BY <1>0, <2>4 DEF StartFindsStale, StartRaises
  <2>5. CASE StartFindsNoServices
    BY <1>0, <2>5 DEF StartFindsNoServices, StartRaises, Refresh
  <2> QED
    BY <1>1, <2>1, <2>2, <2>3, <2>4, <2>5 DEF Starts
<1>2. CASE Recovers
  <2>1. CASE ReleaseReturns
    BY <1>0, <2>1 DEF ReleaseReturns, Refresh
  <2>2. CASE ReleaseFails
    BY <1>0, <2>2 DEF ReleaseFails, Refresh
  <2>3. CASE RefreshReturns
    BY <1>0, <2>3 DEF RefreshReturns
  <2>4. CASE RefreshFails \/ BackoffOver
    BY <1>0, <2>4 DEF RefreshFails, BackoffOver
  <2> QED
    BY <1>2, <2>1, <2>2, <2>3, <2>4 DEF Recovers
<1>3. CASE SettleOver
  BY <1>0, <1>3 DEF SettleOver
<1>4. CASE BodyEnds
  BY <1>0, <1>4 DEF BodyEnds, Unsubscribe
<1>5. CASE Stops
  <2>1. CASE StopReturns
    BY <1>0, <2>1 DEF StopReturns
  <2>2. CASE StopFails
    BY <1>0, <2>2 DEF StopFails
  <2> QED
    BY <1>5, <2>1, <2>2 DEF Stops
<1>6. CASE Cancel
  <2>1. CASE CancelStart
    <3>1. sub' = "ours" => connected \/ sub = "ours"
      BY <2>1 DEF CancelStart
    <3> QED
      BY <1>0, <2>1, <3>1 DEF CancelStart
  <2>2. CASE CancelSettle \/ CancelBody
    BY <1>0, <2>2 DEF CancelSettle, CancelBody, SettleUndoes, Unsubscribe
  <2>3. CASE CancelStop
    BY <1>0, <2>3 DEF CancelStop
  <2> QED
    BY <1>6, <2>1, <2>2, <2>3 DEF Cancel
<1>7. CASE LinkDrops
  <2>1. sub' \in {"none", "stale"} /\ connected' = FALSE
    BY <1>7 DEF LinkDrops
  <2>2. UNCHANGED <<pc, made, stops>>
    BY <1>7 DEF LinkDrops
  <2> QED
    BY <1>0, <2>1, <2>2
<1>8. CASE BackendCatchesUp
  <2>1. sub' \in {"none", sub}
    BY <1>8 DEF BackendCatchesUp
  <2>2. UNCHANGED <<pc, made, stops, connected>>
    BY <1>8 DEF BackendCatchesUp
  <2> QED
    BY <1>0, <2>1, <2>2
<1>9. CASE Reconnect
  <2>1. sub' \in {"none", "stale"}
    BY <1>9 DEF Reconnect
  <2>2. connected' = TRUE /\ made' = FALSE /\ stops' = "none"
    BY <1>9 DEF Reconnect
  <2> QED
    BY <2>1, <2>2
<1>10. CASE UNCHANGED vars
  BY <1>10 DEF vars
<1> QED
  BY <1>1, <1>2, <1>3, <1>4, <1>5, <1>6, <1>7, <1>8, <1>9, <1>10 DEF Next

\* notifications.py:69-84: a subscription that was made is undone before its
\* reader is over, wherever it was cancelled, unless the unsubscribe itself
\* failed or was cut off.
THEOREM Undone == Spec => []SubscriptionUndone
<1>1. TypeOK /\ UndoneInv => SubscriptionUndone
  BY DEF TypeOK, UndoneInv, DownHoldsNone, StopsByPhase, SubscriptionUndone
<1> QED
  BY <1>1, TypeCorrect, UndoneInit, UndoneNext, PTL DEF Spec

\* subscribe.py:110-124: no unsubscribe, answered or not, changes what the
\* session ended in, short of a cancellation.
THEOREM OutcomeStands == Spec => OutcomeKept
<1> DEFINE Kept == pc \in Unsubscribing => exc' \in {exc, "cancelled"}
<1>1. [Next]_vars => [Kept]_vars
  <2> SUFFICES ASSUME Next, pc \in Unsubscribing PROVE Kept
      OBVIOUS
  <2>1. CASE Starts
    BY <2>1 DEF Starts, Start, StartReturns, StartFails, StartFindsStale,
                StartFindsNoServices, Unsubscribing
  <2>2. CASE Recovers
    BY <2>2 DEF Recovers, ReleaseReturns, ReleaseFails, RefreshReturns, RefreshFails, BackoffOver
  <2>3. CASE SettleOver \/ BodyEnds \/ LinkDrops \/ BackendCatchesUp \/ Reconnect
    BY <2>3 DEF SettleOver, BodyEnds, LinkDrops, BackendCatchesUp, Reconnect, Unsubscribing
  <2>4. CASE Stops
    BY <2>4 DEF Stops, StopReturns, StopFails
  <2>5. CASE Cancel
    BY <2>5 DEF Cancel, CancelStart, CancelSettle, CancelBody, CancelStop
  <2> QED
    BY <2>1, <2>2, <2>3, <2>4, <2>5 DEF Next
<1> QED
  BY <1>1, PTL DEF Spec, OutcomeKept

=============================================================================
