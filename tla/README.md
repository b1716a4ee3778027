# blesession, specified

TLA+ specifications of `blesession` (the Python package under
`src/src/blesession/`): short BLE sessions of Home Assistant integrations.
Everything here is translated from that code; where a definition stands for
something outside it (asyncio, bleak, the device) it says so, and the assumption
is listed below. Line numbers refer to files of `src/src/blesession/`.

    tlc -workers 2 -config <X>.cfg MC<Module>     # a run
    tlapm <Module>Proofs.tla                      # the proofs

## 1. The system

An integration wants to talk to one device for a few seconds. It calls
`run_attempts()`, which takes a lock shared by all devices of an adapter and
runs one bounded *attempt* at a time; an attempt opens a link with
`ble_session()`; the block inside speaks the protocol with `Notifications` and
`write_chunks()`; a `SessionTrace` remembers which stage failed, and
`SessionReports` publishes what became of each attempt.

    run_attempts ── lock, bound, retry ──> on_attempt ──> SessionReports
        └─ ble_session ── link, drop event, trace, close
              └─ Notifications ── subscribe / waits / unsubscribe
              └─ write_chunks ── guarded_write

| component | state it keeps | operations | what is hard about it |
|---|---|---|---|
| `session.py` `ble_session`, `still_up`, `dropped_event` | the client, `turned_down`, `handed_off`, the drop event and its registry `_DROPPED` | reuse or turn down a kept link, close stale connections, connect, settle, yield, close | cancellation at every await; `is_connected` lags; the disconnect callback runs any time later; a close that hangs or fails; one bound that fires once |
| `attempts.py` `run_attempts` | per call: attempt number, outcome; shared: an `asyncio.Lock` | guard, attempt under a bound, `retry_if`, `on_attempt`, retry after a pause | fairness among operations, cancelled waiters, timed-out attempts still unwinding, callbacks that raise |
| `report.py` `SessionReports` | last report per target, last failure, last retry, last success, counters; the listeners | `record`, `clear`, `classify`, `add_listener` | retries are not failures; slots of interleaved operations; listeners that raise, come and go, or record |
| `notifications.py` `Notifications` | a queue of replies, the drop event | `next`, `wait_for`, `next_burst`, `request`, `clear`; subscribe and unsubscribe around them | a reply, the drop and the timeout in one turn of the event loop; a get task that outlives its wait |
| `subscribe.py` | the attempt loop | recovery of a stale subscription, bounded unsubscribe | cleanup during cancellation; a silent backend |
| `transfer.py` | offset and count of a chunked write | `guarded_write`, `write_chunks` | drop against bound against backend error; progress of a failed transfer |
| `trace.py` `SessionTrace` | timings, facts, stages entered, the first failing stage | `timed`, `note`, `fail`, `forgive`, `failure` | nested stages, swallowed failures, stages run while a failure is cleaned up after |
| `report.py` `build_report`, `fallback_report`; `causes.py`, `stages.py`, `errors.py` | none | error + trace -> report; the cause key | a long decision table whose sources may disagree |
| `gatt.py` | none of its own; reads the backend's, which changes | characteristic lookup, `write_limit` | placeholders, figures that arrive late, an error that is final and should not be |
| `hass.py`, `link.py` | what the trace keeps of a link | route lookup, `probe_link`, `radio_facts` | radios that go, and register again, between the link and its report |
| `testing.py`, `__init__.py`, `const.py` | a fake client for tests; re-exports | | |

What makes each of them correct, as the specifications state it:

* **Session.** A link is always somebody's to close, and one that is lost shows
  on the report. At most one link is in hand. The stage a session is blamed on
  fits what it got done. The close never hides how the work ended. A session ends.
* **Attempts.** Operations exclude each other, the unwinding of a timed-out
  attempt included. A wake-up is never lost. A retry lets the others go first.
  Reports and what the operations did tell one story, whatever `retry_if` answers and
  whichever callback raises. Every operation ends.
* **Notifications.** A frame that landed is kept until it is read or
  deliberately dropped, in order; a drop of the link is the answer only when
  what landed before it is read; and it ends a wait at once.
* **Subscribing.** A subscription that was made is undone, or the undoing failed
  visibly; undoing never changes the outcome; a reader ends.
* **Transfer.** The data goes out whole and in order; the progress told is true;
  a known drop ends the transfer, as a drop.
* **Trace and report.** The stage blamed is the one the oldest unswallowed failure
  first left. A report is counted as what its attempt was, also when building it
  failed. The cause it gives is true of the attempt. Every listener hears of it.
* **GATT.** A mismatch called final could not have been cleared by trying again; a
  write limit taken from the backend's figures never exceeds the link (the caller's own
  `default`, given when there are none, is the caller's).
* **Radios.** A report names the radio the link took, or says that it is not sure.
* **Together.** A turn with the device lasts to the end of the close; work that was
  done is not done again, unless the integration's own `retry_if` retries an attempt
  whose bound fired.

## 2. The modules

| module | of | role |
|---|---|---|
| `LinkOwnership` | what `ble_session()` promises about links | abstract: who owns each client handle, which links are held |
| `SessionLife` | what an attempt sees of `ble_session()` | abstract: running, closing, over; how it ends |
| `BleSession` | `session.py`, with `trace.py`'s `timed`/`note` as it uses them | sessions one after another on one device, and the caller's `keep=True` protocol; implements both |
| `SessionReports` | `report.py` `SessionReports`, `classify` | the published slots; no `Next` of its own |
| `Attempts` | `attempts.py` | several `run_attempts()` on one lock, recording into `SessionReports` (which it extends) |
| `Integration` | the two together, as `hass.py`'s docstring puts them | `Attempts` whose attempts are `SessionLife`s; implements `Attempts` with its fairness |
| `ReplyQueue` | what `Notifications` promises | abstract: frames landed, held, read; the drop; the answer of a call |
| `Notifications` | `notifications.py` 89-241, `transfer.py` `guarded_write` in `request()` | the waits on an event loop; implements `ReplyQueue` |
| `Subscription` | `notifications.py` 64-87, `subscribe.py` | `async with Notifications(...)` around its body |
| `Transfer` | `transfer.py` | one `write_chunks()` |
| `SessionTrace` | `trace.py`, `stages.py` | stages, failures and cleanups nested in one another |
| `Listeners` | `report.py` `add_listener`, `_notify` | who is told of a report |
| `Report` | `report.py` `build_report`, `fallback_report`, `classify`; `causes.py`; `errors.py` | extends the last two: an attempt's trace, the report filed of it, the listeners told |
| `Gatt` | `gatt.py` | lookups and limits against a backend that learns about its link |
| `Radio` | `hass.py`, `link.py` | which radio a session is reported to have gone through |
| `MC*` | | instances for TLC; `MCLinkFacts` runs `Gatt` and `Radio`, which share nothing, in one run: a behaviour is of one of them, with the other at rest |
| `*Proofs` | | theorems and proofs |

How they compose: `BleSession` implements `SessionLife`; `Integration` runs
`SessionLife` under `Attempts` and implements `Attempts`. So what is shown of
`Attempts` holds of operations made of real sessions, and what `Attempts` assumes
of an attempt (that it unwinds when cancelled) is what `BleSession` shows (a close
ends). `Report` and `BleSession` meet in the trace: `BleSession` has the stages of
one session, `SessionTrace` those of any code.

**Granularity.** One action is one stretch of code between two awaits: nothing
else of the program runs within it, because asyncio is single-threaded and
cooperative. What other parties do (a link dropping, a callback, a cancellation)
may happen between any two actions. `Notifications` is finer: there the *order*
in which an event loop runs the handles that are ready decides the outcome, so
the loop's FIFO (`ready`) is part of the state, and an action is one handle.

**BleSession.** `pc` names the await `ble_session()` is suspended in.
`Begin`/`Reuse`/`Open` are the stretch up to the first await, split by whether
the kept client is `still_up`; `CloseStale*`, `Connect*`, `Resume`, `Settle*`,
`Block*`, `Close*` end one await each, and `Cancel*` end it with a cancellation.
`Target`, `MustClose`, `AfterClose` and `CloseFact` carry the `finally`. The
trace is `failedStage`, `timings` and the keys of `facts`. `link`, `connected`
and `owed` are the backend: a link is `up`, `gone`, or `held` (the device left
but the proxy keeps the slot until asked); `is_connected` and the callback follow
later. Between `ConnectUp` and `Resume` the callback of the new link may run:
`establish_connection()` returns a turn of the loop after the link came up.

**Attempts.** `phase` names the await of each operation. The lock is
`asyncio.Lock` as it is: `locked`, a queue of waiters, a future each; `release()`
only resolves the first future, and the waiter takes the lock when it is resumed,
or is cancelled before (`doomed`). `BoundFires` starts the unwinding of an attempt,
`Unwound` ends it: the lock is held throughout. `Finish` is everything after
`async with lock`: it lets the lock go, and then either `Concludes`, that is decides
(`Retrying`), records (`OnAttempt`) and pauses or returns, or a callback raises
(`CallbackRaises`): `retry_if`, so that nothing is recorded, or `on_attempt`, before or
after it has recorded. `retry_if` is a parameter of `run_attempts()`, and so is its
policy: operations in `OwnPolicy` bring one of their own, of which nothing is assumed
(`RetryIf` is both answers), the others have `default_retry_if`.

**Notifications.** A wait makes two tasks, `get` and `drop`, and is suspended
until one is done or its timeout cancels it; `ready` holds the callbacks, task
steps, timer and the reader's own resumption in the order they became ready.
A handle that was cancelled stays in its place as an empty one until the loop comes to it
(`Cancelled`, `PassOver`), as asyncio's do, so that no action has to filter `ready`.
`Taken \o queue` in the refinement is why a reply that a get task has taken and
not handed over still counts as held. `MaxTasks` is 2 because no wait leaves more
than one stale task behind; were a third needed, TLC would report a deadlock.

**Subscription, Transfer.** `pc` is the await again. In `Subscription` the backend
may still hold the previous connection's subscription (`stale`) or not have
discovered the services. In `Transfer` the payload is the sequence of its byte
positions, so that a byte skipped or repeated is visible; `wire` is what was handed
to the backend and `got` how much of it the device has.

**Integration.** Its variables are those of `Attempts` and `SessionLife`, taken with
`INSTANCE`, and its actions conjoin theirs. The step in which a session is over is
the step in which its attempt is (`Follows`), because nothing awaits in between. A
bound or a cancellation marks the operation (`cancelling`); the `CancelledError`
arrives when its task runs again (`Lands`), before which the close may not go on.
`done` remembers whose block returned, until that operation makes another attempt.

**SessionTrace.** `frames` is the stack of what is open: a stage, or a *cleanup*, the
`except` or `finally` of somebody who runs further stages while a failure waits to go
on. `flight` is the failure in flight, named by the stage it first left
("unplaced": none yet). `EscapeStage` is `timed()`'s `except`, `Fail`, `Swallow` and
`SwallowAnything` are `fail()`, `forgive(name)` and `forgive()`.

**Listeners.** `notifying` is a stack of running `_notify` loops: a listener may itself
record, which starts an inner loop before the outer one goes on. `told` is history.

**Report.** The trace runs, then the attempt is filed (`FileSkipped`, `FileResult`,
`FileFailure`: every error class with the stage, detail and text it may carry, retried
or not, every behaviour of the integration's `cause` callback), then recorded. A report is a
function on the keys it has. `cause_key()` is the list of its rules in order, `Rules`,
of which the first that applies gives the key (`CauseKey`). Sentences and texts are reduced to who
wrote them and to the markers `causes.py` looks for.

**Gatt.** One action for each thing a backend comes to know (`Discover`, `Exchange`,
`MtuReported`, `SizeReported`), in any order and at any time; one each for
`characteristic_or_raise()` and `write_limit()`; `Reconnect` for the next attempt's
link. A figure of 0 stands for a backend that raises when asked: `write_limit()` catches
it, `characteristic_or_raise()` lets it out (`"raised"`).
`answers` is the history of lookups over all links to the device.

**Radio.** A scanner object is its radio and a generation: a proxy that reconnects
registers a new object under the same source. `probe_link()` keeps what the client
offered: an object, a source id, a D-Bus path or nothing. `RadioFacts` is the function
of that and of the radios *now*, as the code evaluates it, when the report is built.

## 3. The runs

| cfg | instance | distinct states | shows |
|---|---|---|---|
| `BleSession` | 2 clients, 2 cancellations a session, `FairSpec` | 545,997 | no silent leak, one link, right stage, close never masks; implements `LinkOwnership` and `SessionLife`; every session ends |
| `BleSessionEarlyDrop` | 2 clients, 1 cancellation | | **violated**: finding 1 |
| `BleSessionLateBound` | 2 clients, 1 cancellation | | **violated**: finding 2 |
| `Attempts` | 3 operations, 2 attempts each, one with its own `retry_if`, `FairSpec` | 1,712,169 | exclusion, wake-ups, order, reports; every operation ends |
| `Integration` | 2 operations, 3 attempts each, one with its own `retry_if`, `FairSpec` | 101,283 | a turn covers the close; work is not repeated but where the own `retry_if` asks for it; implements `Attempts`, fairness included |
| `Notifications` | 4 frames, `FairSpec` | 1,095,167 | implements `ReplyQueue`; a reply's wake-up reaches the reader; a wait ends when the link drops |
| `Subscription` | 3 subscribe attempts (the code's), 2 cancellations, `FairSpec` | 1,312 | undone, outcome kept, ends |
| `Transfer` | payloads 0..5, chunks 0..3, `FairSpec` | 25,834 | whole, progress true, a known drop ends it, ends |
| `Report` | 7 stage names, 3 open at once, 2 listeners, 2 loops inside one another, 1 note | 283,386 | blame, kind, cause, everyone is told |
| `ReportOwnFirst` | the same | | **violated**: finding 4 |
| `LinkFacts` | MTUs 23, 50, 247; sizes 20, 21, 100; default 20; 2 proxies, 1 adapter, 2 scanner objects each | 127,590 | final stays final, limits are sound; via is the radio, or unconfirmed |
| `RadioRestart` | the same radios | | **violated**: finding 3 |

**Why the bounds suffice.** Two clients: a session touches at most two handles at
once, the one it turned down and the one it opens. Two cancellations: the attempt
bound fires once, and someone may cancel the task besides; a third would meet the
same handlers. The number of sessions is unbounded (the state is finite without
it). Three operations: one holds the lock, one waits, one comes back for a retry;
two attempts show one that is retried and a last one, and a callback raises after
either. One operation's `retry_if` is its own, two have the default. In `Integration` two
operations are enough for one to be kept out while the other's session closes, and its
three attempts add one in the middle; the queue's own cases are those of `Attempts`.
Four frames: one a stale task took, one the reader has,
two queued, so that order can go wrong. Payloads up to 5 in chunks up to 3 include
empty, exact multiple, remainder, one chunk and a chunk longer than the payload; size
0 is the `ValueError`. The stage names are the library's `connect`, `session` and
`disconnect`, one device stage mapped to each of `auth`, `transfer` and `finish`, and
one that is mapped to nothing; three frames hold a stage in a cleanup in a stage. Two
listeners: one that acts and one it acts on. The MTUs are the plain one, which is where
the placeholder and the truth coincide, one above and the usual one; the sizes needed
are the floor, just above it, and out of reach of a plain link. Two scanner objects per
radio: before and after a restart.

Two runs are checked without deadlock detection because their systems really stop: a
transfer is over (`Transfer`), all operations have ended (`Integration`). `Attempts`
itself goes on because reports can be cleared at any time.

### Fairness

Only what the code itself arranges is fair. Devices, links and backends owe nothing.

* **BleSession**: the attempt bound fires, once (`WF(cancels = 0 /\ Cancel)`), and the
  close's own timeout fires (`WF(CloseFails)`). `ble_session()` has no bound of its own
  for the work: `session.py` 19-33 says the caller's attempt bound is that.
* **Attempts**: a resumed task runs; the guard is answered; a timed-out attempt
  unwinds. The bound of the attempt is set (with `timeout=None` nothing ends a
  silent attempt).
* **Integration**: a resumed task runs and the bound fires; the guard is answered; a
  cancelled task is thrown its error (`Lands`); a close ends (`CloseEnds`), which is
  `SessionLife`'s `ClosesEnd` and shown of `BleSession`. The unwinding `Attempts` assumes
  is *not* assumed here: `ImplementsAttempts` derives it.
* **Notifications**: the loop runs its ready handles, and a write returns. The
  wait's timeout is *not* fair: a dropped link must end the wait without it.
* **Subscription**: the bound fires, each unsubscribe's timeout fires. No fairness
  for `start_notify()` or the body, nor for the recovery's own waits.
* **Transfer**: the transfer's first step, its gap, its write bound and the
  cancelled write's unwinding. No fairness for the write or the device.
* `Report`, `Gatt` and `Radio` promise nothing that must eventually happen.

### What is assumed of code outside the repository

* `establish_connection()` that raises or is cancelled leaves no link behind.
* `disconnect()` that returns has freed the link; one that raises or times out may
  or may not have.
* asyncio is single-threaded; its loop runs ready handles first in, first out; its
  `Lock`, `Queue`, `Event`, `wait()` and `timeout()` do what CPython's do. A
  cancelled await raises where it is suspended (a backend that swallows a
  cancellation is not modelled). Bleak callbacks come as handles of the loop.
* The link layer keeps writes in order and loses none while the link is up.
* An integration's `ble_session()` is the last thing its attempt does, one per attempt,
  as in `hass.py` 30-33; what it does before it (looking the device up) may raise.
* Callers of the trace do what its docstrings ask: what they swallow they forgive, a
  cleanup by the name that failed; and a cleanup's stages are not named like the
  failure it cleans up after, which `forgive(name)` could not tell apart.
* No stage has the names "none" and "unplaced", which stand for no stage at all
  (`NamesAssumption`, `StageMapAssumption`). A device stage may be mapped to any
  primary stage, the close's included.
* Notes have names of their own: `note()` under a key of the report would replace it
  (`NotesAssumption`). A listener function is registered at most once at a time.
* A backend reports an MTU or a write size that is its link's, a placeholder of at most
  20 bytes, or nothing; it does not report more than was agreed.
* Of the integration's callbacks, `guard` may pass, decline or raise, `retry_if` may
  answer anything or raise for the operations in `OwnPolicy` and is `default_retry_if` for
  the others, and `on_attempt` records the attempt into one `SessionReports`, or raises
  before or after that. A callback does nothing else to the reports or the lock.
* Home Assistant's radios hear, lose and register as they please; a radio's source id is
  its name, and a new scanner object replaces the old one.

## 4. Findings

1. **A drop just after the connect is cleared away** (`early_drop`,
   `session.py:197`). `dropped.clear()` undoes what the retry connector's own failed
   tries set. The comment above it says nothing awaits in between. But the coroutine
   resumes a turn of the loop after the link came up, and a callback run in that turn
   is cleared with the rest: the waits of the block then run out their full timeouts.
2. **A bound in the close of a failed session names the work, not the close**
   (`late_bound`, `session.py:223`). The module's docstring says a bound that fires
   during the close is reported as `disconnect.timed_out`. The first failing stage
   wins in `trace.py`, so after a block that failed by itself the report is an attempt
   time-out in the session stage.
3. **The radio of the link is reported as another one** (`radio_restart`,
   `hass.py:137`). `radio_facts()` compares scanner *objects*. What the trace keeps of a
   link may be the object from when the link came up; that of the route is looked up
   when the report is built. If the proxy registered again in between, the same radio is
   in `via` and in `advertised_via`, which `hass.py:88` says is there "only when it is not
   the radio the link took".

4. **The integration's sentence does not come first for an attempt time-out**
   (`own_first`, `report.py:249`). `causes.py:5-8` and `docs/contract.md:251` say, without
   an exception, that the integration's `cause` callback is consulted first and the
   library's sentences fill in; so do `docs/adopting.md` and `docs/design.md`. For an
   `AttemptTimedOut` the callback is not asked at all: the comment there and a test say
   that the bound's sentence wins, and `CauseIsTrue` states that as the code has it.

Two more things the models made plain, neither of them contradicted by a doc: an
attempt recorded as retrying whose operation is then declined by the guard is never
counted as a failure, and one cancelled in the pause, or recorded by an `on_attempt` that
then raised, stays `last_retry`. That is why `ReportsMatchReturns` counts the operations
whose *last* recorded attempt was a failure not to be retried: those that returned its
error, and those whose `on_attempt` raised when it had recorded it. A transfer
whose link goes in the last gap returns normally: everything was written.

## 5. The proofs

TLAPS proves for every set of clients, every number of operations, attempts,
cancellations, stages, listeners and frames, every payload and chunk size, what the runs show
of small ones. The proofs assume of the constants only what the modules state as
`ASSUME`, which TLC evaluates on each run.

**`BleSessionProofs`.** `TypeCorrect`, `LeaksAreReported`, `AttributionHolds`,
`CloseMasksNothing`, `SessionImplementsOwnership`, `AtMostOneLink`, `OnlyACloseLetsGo`,
`SessionIsALife`, `CloseKeepsTheOutcome`. Assumptions:
`NoClient` is not a client, `MaxCancels` is positive. `LeakIsReported` and
`Attribution` speak of finished sessions and are not inductive; `IInv` adds what
holds on the way: `PendingIsFresh` (the connector's client is nobody else's),
`BeforeHandOver`, `InBlock`, `InClose` (what trace and ownership look like in each
phase), `StaysDown` (a link turned down does not come back) and `StaleIsReported`.
The refinement maps each action to a step of `LinkOwnership` or a stutter: by
`OwnersByPhase` the owner of every client follows from the phase, so an action moves
the owner of one client (`OneMoves`) or none (`NoneMoves`). `AtMostOneLink` follows
from the owners alone. `OnlyACloseLetsGo` reads the promise off the steps of
`LinkOwnership`: out of somebody's hands goes a handle only at the end of a close, or from
a connector together with its link. `SessionIsALife` is the safety part of `ImplementsSessionLife`
and needs no invariant: every action by itself is a step of `SessionLife` or none.
`CloseKeepsTheOutcome` follows from those steps: `CloseMasksNothing` says of the stage
what it says of the outcome.

**`AttemptsProofs`.** `TypeCorrect`, `OneAtATime`, `WakeupsSurvive`, `RetriesYield`,
`ReportsTrue`. `LockInv` adds to the three lock properties: `Counted` (attempt
numbers by phase), `QueueIsQueued` (the lock's queue holds the queued operations,
once each), `OnlyFirstIsWoken` (only the first live waiter's future may be resolved;
without it a second waiter could overtake) and `AheadIsBefore` (who is ahead of an
operation stands before it in the queue, or is not queued any more: this is why FIFO
gives `OthersGoFirst`). The reports come in a second layer, `RecordInv`, over types
and `LockInv`: the counter is the cardinality of a set, so it needs that
`recorded` is finite; and `SlotIsNotAhead`, that no slot tells of an attempt that is not
over, so that a slot of the same number is of the same attempt. What a step records is
compared by `NothingRecorded`, `AskRecorded`, `FinishRecorded` and `ClearRecorded`. The end
of an attempt has three ways (`FinishMeans`): recorded and gone on or returned, recorded
and raised (both `EndRecorded`), raised without a record (`RaisedUnrecorded`).
`PolicyAssumption` says no more of a `retry_if` than whose it is: what is proved holds for
any. What
`RemoveAt` and the wake-up do to a queue is stated once
(`RemoveAtProperties`, `WakeFirstProperties`, `DequeueProperties`).

**`IntegrationProofs`.** `OperationsAreAttempts` (`Spec => A!Spec`): every action is a
step of `Attempts` or leaves it alone. `AttemptsProofs` is therefore instantiated here
and its `LockInv` taken over (`LockFacts`); `SameInit`, `SameActions` and `SameNext` say
that the two instances of `Attempts` are one. `TurnInv` adds that a session running is
that of an operation in an attempt (`SessionInAttempt`) and that an operation whose block
returned has only the close of its session left, or is at rest (`DoneIsDone`, `Rests`):
has ended, or pauses because its own `retry_if` retries an attempt that timed out. From it
follow `TurnIsKept` and `WorkIsDoneOnce`, which has that exception in its statement.
`FinishMoves` says what the end of an attempt may do to its operation. `PromisesCarryOver` hands down what else `AttemptsProofs`
shows, the reports included. `WorkIsNeverDenied` says how an attempt whose block returned counts, whatever `retry_if`
makes of it and whether or not a callback raises: as no error but the attempt bound's, and
as that one exactly if the bound fired in the close. It is inductive with `NotYetExpired` (no attempt starts with a bound that has
fired), `SessionEndsWell` (the step in which such a session ends) and `OthersStay`.

**`SubscriptionProofs`.** `TypeCorrect`, `Undone`, `OutcomeStands`. The types need
`AnotherIsLeft`: a recovery under way has an attempt left. `UndoneInv` says what holds
before a reader is over: a link that is down holds no subscription (`DownHoldsNone`),
where a subscription can have been made (`MadeByPhase`) and what became of its
unsubscribe (`StopsByPhase`).

**`TransferProofs`.** `TypeCorrect`, `NothingIsLost`, `ProgressHolds`, `DropEndsIt`, for
data and chunks of any size. The invariant says that what was handed over is a prefix of
the data (`WireIsData`) as long as the phase and the count of chunks make it
(`Counted`, `WireByPhase`), and how much of it the device has (`GotByPhase`). The number
of chunks is a quotient, so the arithmetic of `Writes` is done once in lemmas.

**`ReportProofs`.** `BlameHolds`, `ListenersHear`, `KindHolds`, `CausesAreTrue`,
`TypeCorrect`, for stages nested to any depth, any map of them, any listeners and any
notes. `BlameIsFirst` speaks of a sequence made from the stack; `Blames` says it of the
stack itself: nothing is named and nothing placed is unswallowed, or the lowest cleanup
that holds a placed failure is the one named, or the failure in flight is. It is inductive
only with `Apart`: no name is open, in flight or held inside a cleanup after a failure of
that name, or forgiving the inner would forgive the outer. `PushStep`, `PopStep` and
`SameFramesStep` are the three things an action does to the stack. `TellInv`: each
listener has been called, or the innermost loop will call it; that is why an inner loop
may tell for the outer one. `Reported`: a report waiting to be recorded is that of a
consistent attempt, made by the function the attempt calls for, with nothing of the trace
open; `ReportKeys` then gives the keys `classify()` looks for. `CausesAreTrue` puts three
facts together: the first rule that applies exists and decides (`FirstRule`,
`CauseKeyFacts`), the report carries its key unless the integration has a sentence
(`KeyOfReport`), and the trace names the close just when the failure in flight is of it
(`ClosingIsNamed`, from `Blames` with an empty stack). The property says "the close" of
any stage that counts as one: of a device stage mapped to `disconnect`, too.

**`NotificationsProofs`.** `TypeCorrect`, `RepliesAreNotMissed`, `RepliesAreKept`,
`ReadInOrder`, `NothingIsSkipped`, `EndedWaitLosesNothing`, `NextIsTheOldest`,
`DropIsSaidLast`, for any number of frames, drops and waits. The two safety properties turn
on the order of the loop's handles, and so does the invariant `IInv`: which handles there
are, each once and for its reason (`Scheduled`), the frames on their way in the order
they were sent (`Numbered`), where a wait's tasks are (`Suspended`), that a drop is known
only if it happened (`Dropped`), and `Ordered`, the heart of it: as long as a frame is
queued that landed before the drop (`Late`), the get task of the wait stands before its
drop task, so that the wait cannot end in the drop first. Sequences of handles are
reasoned about by three relations only, `Holds`, `Before` and `Once`; what taking the first,
appending and cancelling do to them is stated in `TailHandles`, `AppendHandles` and
`CancelHandles`, and what a step of the loop does in `PopHandle` and `PopPush`, so that no
proof of an action speaks of positions. `RepliesAreKept` is the refinement: each action is
one of `ReplyQueue`'s or a stutter (`StepRefines`), with `Taken \o queue` for what is held.
That the drop is answered only after what landed before it was read is where `IInv` is
needed. The other five are drawn from the promise alone, by two invariants of it:
`InOrder` (each frame handed out is later than those before it) and `Gapless` (what is held
is the last of what landed, with nothing missing). They say of the code's own state what
the refinement says of an abstract queue: `EndedWaitLosesNothing` is the reason for
`_requeue_first()`, and `DropIsSaidLast` that for looking at the queue before the event.

**`LinkFactsProofs`**, of `Gatt` and of `Radio`. `TypeCorrect`, `FinalIsFinal`,
`LimitHolds`: `AnswersTell`, what was answered so far tells what the device exposes;
`FiguresLag`, a figure is never ahead of the link. `RadioTypeCorrect`, `ViaHolds`:
`LinkIsTaken`, what the trace has of a link is of the radio it took, however the client
names it; `FactsStand` is the property from the report on, while the radios go on
changing. The two modules have nothing in common but the subject, which is why `Radio`'s
definitions are named apart (`RadioTypeOK`, `RadioSpec`).

**Only model-checked.** Every liveness property (`SessionEnds`, `EveryOperationEnds`,
`DroppedWaitEnds`, `ReaderEnds`, `TransferEnds`) and the fairness in `ImplementsAttempts`
and `ImplementsSessionLife`: fairness and `ENABLED` are beyond the prover. Every invariant
and every action property of the passing runs is proved. The four findings are
counterexamples, for TLC to show.

## 6. What is not modelled

Wording, logging, timestamps and durations; the payloads of frames and results; the
caller's own `disconnected_callback`; a cancellation from outside in the middle of a
`Notifications` wait (`Attempts` and `Subscription` have cancellation around it);
`wrap()`'s framing; more than one reader per `Notifications`; a copy of a `SessionReports`
that a caller holds on to.

Of `build_report()`: the callback shapes of before 0.7 (it inspects Python signatures),
`failed_stage=` and `failed_detail=`, which override the trace, and the counts, radio
facts and timings it passes through. Of `radio_facts()`: rssi, paths and the proxy flag,
read once from objects of Home Assistant. `testing.py` is a test double, `__init__.py` and
`const.py` have re-exports and constants.

## 7. Plan

What is left, in order of weight.

1. A cancellation from outside in the middle of a `Notifications` wait, and a request
   composed with `Transfer` under one bound.
2. `failed_stage=` and `failed_detail=` in `Report`: whether an override can make the key
   and the stage of one report disagree.
3. `BleSession` under `Integration` with its links: that `LinkOwnership` holds of several
   operations on one device, each with sessions of its own.
