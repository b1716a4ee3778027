---------------------------- MODULE Subscription ----------------------------
(***************************************************************************)
(* `async with Notifications(..)` around its body, and the two functions   *)
(* of subscribe.py it calls: start_notify_with_recovery() going in,        *)
(* stop_notify_best_effort() going out.                                    *)
(*                                                                         *)
(* One action per stretch of code between two awaits.  The backend is      *)
(* external: it may still hold the previous connection's subscription, may *)
(* not have discovered the services yet, may drop the link at any time,    *)
(* and may not answer at all.                                              *)
(***************************************************************************)
EXTENDS Naturals

CONSTANTS
    NotifyAttempts,  \* NOTIFY_ATTEMPTS
    MaxCancels       \* bound: cancellations one subscription is dealt

ASSUME SubscriptionAssumption == NotifyAttempts \in Nat \ {0} /\ MaxCancels \in Nat

VARIABLES
    recover,     \* the argument of that name
    settle,      \* there is a pause after the subscribe
    refreshes,   \* the client still has get_services()
    pc,          \* what the reader is suspended in
    attempt,     \* start_notify_with_recovery's loop
    exc,         \* how the `async with` is ending, or ended
    cancels,     \* cancellations dealt so far
    connected,   \* client.is_connected
    discovered,  \* the services have been discovered
    sub,         \* the subscription the backend holds
    made,        \* history: start_notify() has returned
    stops        \* history: what became of our own unsubscribe

history == <<made, stops>>
args    == <<recover, settle, refreshes>>
backend == <<connected, discovered, sub>>
vars    == <<args, pc, attempt, exc, cancels, backend, history>>

Unsubscribing == {"undoing", "stopping"}

TypeOK ==
    /\ recover \in BOOLEAN /\ settle \in BOOLEAN /\ refreshes \in BOOLEAN
    /\ pc \in {"new", "starting", "releasing", "refreshing", "backoff",
               "settling", "body", "over"} \cup Unsubscribing
    /\ attempt \in 1 .. NotifyAttempts
    /\ exc \in {"none", "start", "body", "cancelled"}
    /\ cancels \in 0 .. MaxCancels
    /\ connected \in BOOLEAN /\ discovered \in BOOLEAN
    /\ sub \in {"none", "stale", "ours"}
    /\ made \in BOOLEAN
    /\ stops \in {"none", "done", "skipped", "failed", "cancelled"}

-----------------------------------------------------------------------------
(* Subscribing *)

Start ==
    /\ pc = "new"
    /\ pc' = "starting"
    /\ UNCHANGED <<args, attempt, exc, cancels, backend, history>>

StartReturns ==
    /\ pc = "starting"
    /\ connected /\ discovered /\ sub = "none"
    /\ sub' = "ours"
    /\ made' = TRUE
    /\ pc' = IF settle THEN "settling" ELSE "body"
    /\ UNCHANGED <<args, attempt, exc, cancels, connected, discovered, stops>>

StartRaises ==
    /\ pc' = "over"
    /\ exc' = "start"
    /\ UNCHANGED <<args, attempt, cancels, backend, history>>

\* Mutant: the last attempt recovers, too.
TriesAgainAlways == recover

\* The error is one that the recovery knows, and another attempt is left.
TriesAgain == recover /\ attempt < NotifyAttempts

Refresh == pc' = IF refreshes THEN "refreshing" ELSE "backoff"

\* A stale subscription is released before the services are refreshed.
StartFindsStale ==
    /\ pc = "starting"
    /\ sub = "stale"
    /\ IF TriesAgain
         THEN pc' = "releasing" /\ UNCHANGED <<args, attempt, exc, cancels, backend, history>>
         ELSE StartRaises

StartFindsNoServices ==
    /\ pc = "starting"
    /\ ~discovered
    /\ IF TriesAgain
         THEN Refresh /\ UNCHANGED <<args, attempt, exc, cancels, backend, history>>
         ELSE StartRaises

\* Any other error, the lost link's among them.
StartFails == pc = "starting" /\ StartRaises

ReleaseReturns ==
    /\ pc = "releasing"
    /\ connected
    /\ sub' = "none"
    /\ Refresh
    /\ UNCHANGED <<args, attempt, exc, cancels, connected, discovered, history>>

\* stop_notify() raised, or ran into STOP_NOTIFY_TIMEOUT_S: ignored.
ReleaseFails ==
    /\ pc = "releasing"
    /\ Refresh
    /\ UNCHANGED <<args, attempt, exc, cancels, backend, history>>

RefreshReturns ==
    /\ pc = "refreshing"
    /\ connected
    /\ discovered' = TRUE
    /\ pc' = "backoff"
    /\ UNCHANGED <<args, attempt, exc, cancels, connected, sub, history>>

\* get_services() raised, or ran into STOP_NOTIFY_TIMEOUT_S: ignored.
RefreshFails ==
    /\ pc = "refreshing"
    /\ pc' = "backoff"
    /\ UNCHANGED <<args, attempt, exc, cancels, backend, history>>

BackoffOver ==
    /\ pc = "backoff"
    /\ attempt' = attempt + 1
    /\ pc' = "starting"
    /\ UNCHANGED <<args, exc, cancels, backend, history>>

\* Cancelled before the subscribe has returned: nothing is undone, and what
\* the backend has done so far stays.
CancelStart ==
    /\ pc \in {"new", "starting", "releasing", "refreshing", "backoff"}
    /\ cancels < MaxCancels
    /\ cancels' = cancels + 1
    /\ exc' = "cancelled"
    /\ pc' = "over"
    /\ sub' \in (IF pc = "starting" /\ connected /\ sub = "none" THEN {"none", "ours"} ELSE {sub})
    /\ UNCHANGED <<args, attempt, connected, discovered, history>>

-----------------------------------------------------------------------------
(* stop_notify_best_effort(), from __aenter__'s except and from __aexit__ *)

Unsubscribe(from) ==
    IF connected
      THEN pc' = from /\ UNCHANGED stops
      ELSE pc' = "over" /\ stops' = "skipped"

StopReturns ==
    /\ pc \in Unsubscribing
    /\ connected
    /\ sub' = "none"
    /\ stops' = "done"
    /\ pc' = "over"
    /\ UNCHANGED <<args, attempt, exc, cancels, connected, discovered, made>>

\* Mutant: an unsubscribe that fails is what the session failed of.
StopRaises ==
    /\ pc \in Unsubscribing
    /\ stops' = "failed"
    /\ exc' = "start"
    /\ pc' = "over"
    /\ UNCHANGED <<args, attempt, cancels, backend, made>>

\* Mutant: the unsubscribe has no bound of its own.
StopFailsIfAnswered ==
    /\ pc \in Unsubscribing
    /\ ~connected
    /\ stops' = "failed"
    /\ pc' = "over"
    /\ UNCHANGED <<args, attempt, exc, cancels, backend, made>>

\* stop_notify() raised, or ran into its timeout: logged.
StopFails ==
    /\ pc \in Unsubscribing
    /\ stops' = "failed"
    /\ pc' = "over"
    /\ UNCHANGED <<args, attempt, exc, cancels, backend, made>>

CancelStop ==
    /\ pc \in Unsubscribing
    /\ cancels < MaxCancels
    /\ cancels' = cancels + 1
    /\ exc' = "cancelled"
    /\ stops' = "cancelled"
    /\ pc' = "over"
    /\ UNCHANGED <<args, attempt, backend, made>>

-----------------------------------------------------------------------------
(* The settle and the body *)

SettleOver ==
    /\ pc = "settling"
    /\ pc' = "body"
    /\ UNCHANGED <<args, attempt, exc, cancels, backend, history>>

\* Mutant: left to __aexit__, which does not run for a failed __aenter__.
SettleLeaves == pc' = "over" /\ UNCHANGED stops

SettleUndoes == Unsubscribe("undoing")

CancelSettle ==
    /\ pc = "settling"
    /\ cancels < MaxCancels
    /\ cancels' = cancels + 1
    /\ exc' = "cancelled"
    /\ SettleUndoes
    /\ UNCHANGED <<args, attempt, backend, made>>

BodyEnds ==
    /\ pc = "body"
    /\ exc' \in {"none", "body"}
    /\ Unsubscribe("stopping")
    /\ UNCHANGED <<args, attempt, cancels, backend, made>>

CancelBody ==
    /\ pc = "body"
    /\ cancels < MaxCancels
    /\ cancels' = cancels + 1
    /\ exc' = "cancelled"
    /\ Unsubscribe("stopping")
    /\ UNCHANGED <<args, attempt, backend, made>>

-----------------------------------------------------------------------------
(* The backend *)

LinkDrops ==
    /\ connected
    /\ connected' = FALSE
    /\ sub' \in (IF sub = "none" THEN {"none"} ELSE {"none", "stale"})
    /\ UNCHANGED <<args, pc, attempt, exc, cancels, discovered, history>>

\* What the previous connection left clears up by itself, in time.
BackendCatchesUp ==
    /\ connected
    /\ \/ sub = "stale" /\ sub' = "none" /\ UNCHANGED discovered
       \/ ~discovered /\ discovered' = TRUE /\ UNCHANGED sub
    /\ UNCHANGED <<args, pc, attempt, exc, cancels, connected, history>>

\* Another session's link, with what the last one's has left in the backend.
Reconnect ==
    /\ pc = "over"
    /\ pc' = "new"
    /\ recover' \in BOOLEAN /\ settle' \in BOOLEAN
    /\ attempt' = 1
    /\ exc' = "none"
    /\ cancels' = 0
    /\ connected' = TRUE
    /\ discovered' \in BOOLEAN
    /\ sub' \in (IF sub = "none" THEN {"none"} ELSE {"none", "stale"})
    /\ made' = FALSE
    /\ stops' = "none"
    /\ UNCHANGED refreshes

Init ==
    /\ recover \in BOOLEAN
    /\ settle \in BOOLEAN
    /\ refreshes \in BOOLEAN
    /\ pc = "new"
    /\ attempt = 1
    /\ exc = "none"
    /\ cancels = 0
    /\ connected = TRUE
    /\ discovered \in BOOLEAN
    /\ sub = "none"
    /\ made = FALSE
    /\ stops = "none"

Starts == Start \/ StartReturns \/ StartFindsStale \/ StartFindsNoServices \/ StartFails

Recovers == ReleaseReturns \/ ReleaseFails \/ RefreshReturns \/ RefreshFails \/ BackoffOver

Stops == StopReturns \/ StopFails

Cancel == CancelStart \/ CancelSettle \/ CancelBody \/ CancelStop

Next == \/ Starts \/ Recovers \/ SettleOver \/ BodyEnds \/ Stops
        \/ Cancel \/ LinkDrops \/ BackendCatchesUp \/ Reconnect

Spec == Init /\ [][Next]_vars

\* The attempt bound fires, once; each unsubscribe has its own.  Nothing is
\* asked of start_notify() or of the body.
Fairness == WF_vars(CancelStart \/ CancelSettle \/ CancelBody) /\ WF_vars(StopFails)

FairSpec == Spec /\ Fairness

-----------------------------------------------------------------------------
(* Properties *)

\* A subscription that was made outlives its reader only if the unsubscribe
\* was asked for, and failed or was cut off: also when the settle is cancelled
\* and __aexit__ never runs (notifications.py:69-84).
SubscriptionUndone ==
    pc = "over" /\ made /\ sub = "ours" => stops \in {"failed", "cancelled"}

\* An unsubscribe never changes how a session ends: an error of the body or a
\* cancelled settle comes out as it was, unless the cleanup itself is
\* cancelled (subscribe.py:110-124).
OutcomeKept ==
    [][LET ending == pc \in Unsubscribing
       IN  ending => exc' \in {exc, "cancelled"}]_vars

\* Every reader ends, however silent the backend is, with the attempt bound
\* firing a single time (subscribe.py:29-33).
ReaderEnds == pc # "over" ~> pc = "over"

=============================================================================
