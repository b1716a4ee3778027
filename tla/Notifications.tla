---------------------------- MODULE Notifications ----------------------------
(***************************************************************************)
(* Notifications of notifications.py: one reader's waits for the frames of *)
(* one characteristic, on an event loop that runs callbacks, task steps    *)
(* and timers in the order they became ready.                              *)
(*                                                                         *)
(* A wait starts two tasks, get (Queue.get) and drop (Event.wait), and is  *)
(* suspended until one is done or its timeout cancels it.  One action per  *)
(* callback or task step.  asyncio is external: its Queue, Event, wait()   *)
(* and timeout() are what `ready`, `getters` and the steps below model.    *)
(***************************************************************************)
EXTENDS Naturals, Sequences, SequencesExt

CONSTANTS
    Never,      \* no drop so far
    MaxFrames,  \* bound: frames the device sends
    MaxTasks    \* bound: get tasks alive at once, stale ones included

ASSUME NotificationsAssumption ==
    /\ MaxFrames \in Nat /\ MaxTasks \in Nat \ {0}
    /\ Never \notin Nat

VARIABLES
    watched,    \* the link's drops are known: _dropped is an Event
    dropped,    \* that event is set
    landed,     \* frames _on_notify has queued; they are named by number
    droppedAt,  \* history: landed when the event was set
    queue,      \* _queue: received and not read
    getters,    \* the queue's pending getters: a task, or 0 for the reader
    ready,      \* the event loop's handles, <<what, task or frame>>
    get,        \* the get task of each wait
    got,        \* the frame a get task has taken off the queue
    drop,       \* the drop task of the current wait
    slot,       \* the current wait's tasks
    waiter,     \* the future the reader is suspended on
    doomed,     \* its task is to be cancelled when it resumes
    bound,      \* the asyncio.timeout around the wait
    pc,         \* where the reader is
    op,         \* the call it makes
    answer,     \* what that call has come to
    given       \* history: the last frame the reader was given

link  == <<watched, dropped, landed, droppedAt>>
tasks == <<get, got, drop, slot>>
calls == <<pc, op, answer, given>>
vars  == <<link, queue, getters, ready, tasks, waiter, doomed, bound, calls>>

Tasks == 1 .. MaxTasks
Frames == 1 .. MaxFrames
Stoppable == {"new", "waiting", "woken"}
Handles == ({"frame"} \X Frames) \cup ({"get", "getDone", "drop", "dropDone"} \X Tasks)
           \cup ({"gone", "timer", "reader", "cancelled"} \X {0})

TypeOK ==
    /\ watched \in BOOLEAN
    /\ dropped \in BOOLEAN
    /\ landed \in 0 .. MaxFrames
    /\ droppedAt \in 0 .. MaxFrames \cup {Never}
    /\ queue \in Seq(Frames)
    /\ getters \in Seq(Tasks \cup {0})
    /\ ready \in Seq(Handles)
    /\ get \in [Tasks -> {"none", "done", "stopped", "stoppedWoken"} \cup Stoppable]
    /\ got \in [Tasks -> 0 .. MaxFrames]
    /\ drop \in {"none", "new", "waiting", "woken", "done"}
    /\ slot \in Tasks \cup {0}
    /\ waiter \in {"none", "pending", "done", "cancelled"}
    /\ doomed \in BOOLEAN
    /\ bound \in {"none", "armed", "due", "expired"}
    /\ pc \in {"idle", "calling", "gathering", "request", "writing", "waiting"}
    /\ op \in {"next", "wait_for", "next_burst", "gap"}
    /\ answer \in {"none", "pending", "partial", "requesting",
                   "reply", "timeout", "dropped", "failed"}
    /\ given \in 0 .. MaxFrames

-----------------------------------------------------------------------------
(* The event loop *)

\* Between two steps of the reader that no await separates, nothing runs.
Running == pc \in {"calling", "gathering", "request"}

Runs(what, x) == /\ ~Running
                 /\ ready # <<>>
                 /\ Head(ready) = <<what, x>>

Soon(handles) == ready' = Tail(ready) \o handles

\* A handle that is cancelled keeps its place, and the loop passes over it.
Cancelled(handles, dead) ==
    [i \in DOMAIN handles |-> IF handles[i] \in dead THEN <<"cancelled", 0>> ELSE handles[i]]

PassOver == /\ Runs("cancelled", 0)
            /\ Soon(<<>>)
            /\ UNCHANGED <<link, queue, getters, tasks, waiter, doomed, bound, calls>>

\* A getter whose future is cancelled is not one any more.
LeaveGetters(g) == \E i \in DOMAIN getters : getters[i] = g /\ getters' = RemoveAt(getters, i)

\* The future the reader awaits is resolved, unless it was before.
Resolve(s) == IF s = slot /\ waiter = "pending"
                THEN waiter' = "done" /\ Soon(<<<<"reader", 0>>>>)
                ELSE Soon(<<>>) /\ UNCHANGED waiter

\* Queue._wakeup_next: the first pending getter, task or reader.
WakeNext(handles) ==
    IF getters = <<>>
      THEN Soon(handles) /\ UNCHANGED <<getters, get, waiter>>
      ELSE LET g == Head(getters) IN
           /\ getters' = Tail(getters)
           /\ IF g = 0
                THEN /\ waiter' = "done"
                     /\ Soon(handles \o <<<<"reader", 0>>>>)
                     /\ UNCHANGED get
                ELSE /\ get' = [get EXCEPT ![g] = "woken"]
                     /\ Soon(handles \o <<<<"get", g>>>>)
                     /\ UNCHANGED waiter

\* What the device, the backend and the clock make ready.
Arrive(handle) ==
    /\ ready' = Append(ready, handle)
    /\ UNCHANGED <<link, queue, getters, tasks, waiter, doomed, calls>>

\* Frames that the device has sent and the loop has not come to.
OnTheWay == {n \in Frames : <<"frame", n>> \in Range(ready)}

FrameArrives == /\ ~Running
                /\ \E n \in Frames : /\ n > landed /\ OnTheWay = landed + 1 .. n - 1
                                     /\ Arrive(<<"frame", n>>)
                /\ UNCHANGED bound

LinkDrops == /\ ~Running /\ watched /\ ~dropped
             /\ <<"gone", 0>> \notin Range(ready)
             /\ Arrive(<<"gone", 0>>)
             /\ UNCHANGED bound

TimerDue == /\ ~Running /\ bound = "armed"
            /\ bound' = "due"
            /\ Arrive(<<"timer", 0>>)

\* put_nowait: queued, and the first getter woken.
OnNotify(n) ==
    /\ Runs("frame", n)
    /\ landed' = n
    /\ queue' = Append(queue, n)
    /\ WakeNext(<<>>)
    /\ UNCHANGED <<watched, dropped, droppedAt, got, drop, slot, doomed, bound, calls>>

\* The session's disconnect callback sets the event: its waiters are woken.
OnDisconnect ==
    /\ Runs("gone", 0)
    /\ dropped' = TRUE
    /\ droppedAt' = landed
    /\ IF drop = "waiting"
         THEN drop' = "woken" /\ Soon(<<<<"drop", slot>>>>)
         ELSE Soon(<<>>) /\ UNCHANGED drop
    /\ UNCHANGED <<watched, landed, queue, getters, get, got, slot, waiter,
                   doomed, bound, calls>>

\* The timeout cancels the reader: its future, or else its next step.
OnTimeout ==
    /\ Runs("timer", 0)
    /\ bound' = "expired"
    /\ IF waiter = "pending"
         THEN /\ waiter' = "cancelled"
              /\ IF watched THEN UNCHANGED getters ELSE LeaveGetters(0)
              /\ Soon(<<<<"reader", 0>>>>)
              /\ UNCHANGED doomed
         ELSE doomed' = TRUE /\ Soon(<<>>) /\ UNCHANGED <<waiter, getters>>
    /\ UNCHANGED <<link, queue, tasks, calls>>

GetStep(s) ==
    /\ Runs("get", s)
    /\ get[s] \in {"new", "woken"}
    /\ IF queue # <<>>
         THEN /\ got' = [got EXCEPT ![s] = Head(queue)]
              /\ queue' = Tail(queue)
              /\ get' = [get EXCEPT ![s] = "done"]
              /\ Soon(<<<<"getDone", s>>>>)
              /\ UNCHANGED getters
         ELSE /\ get' = [get EXCEPT ![s] = "waiting"]
              /\ getters' = Append(getters, s)
              /\ Soon(<<>>)
              /\ UNCHANGED <<got, queue>>
    /\ UNCHANGED <<link, drop, slot, waiter, doomed, bound, calls>>

\* A get task ends by its cancellation; one that had been woken for a frame
\* hands the wake-up on.
GetStopped(s) ==
    /\ Runs("get", s)
    /\ get[s] \in {"stopped", "stoppedWoken"}
    /\ IF get[s] = "stoppedWoken" /\ queue # <<>> /\ getters # <<>>
         THEN /\ getters' = Tail(getters)
              /\ get' = [get EXCEPT ![s] = "none", ![Head(getters)] = "woken"]
              /\ Soon(<<<<"get", Head(getters)>>>>)
         ELSE /\ get' = [get EXCEPT ![s] = "none"]
              /\ Soon(<<>>)
              /\ UNCHANGED getters
    /\ UNCHANGED <<link, queue, got, drop, slot, waiter, doomed, bound, calls>>

GetDone(s) ==
    /\ Runs("getDone", s)
    /\ Resolve(s)
    /\ UNCHANGED <<link, queue, getters, tasks, doomed, bound, calls>>

DropStep(s) ==
    /\ Runs("drop", s)
    /\ IF dropped
         THEN drop' = "done" /\ Soon(<<<<"dropDone", s>>>>)
         ELSE drop' = "waiting" /\ Soon(<<>>)
    /\ UNCHANGED <<link, queue, getters, get, got, slot, waiter, doomed, bound, calls>>

\* Mutant: return_when=ALL_COMPLETED, so that the drop alone ends no wait.
DropAloneIsNotEnough(s) ==
    /\ Runs("dropDone", s)
    /\ IF get[s] = "done" THEN Resolve(s) ELSE Soon(<<>>) /\ UNCHANGED waiter
    /\ UNCHANGED <<link, queue, getters, tasks, doomed, bound, calls>>

DropDone(s) ==
    /\ Runs("dropDone", s)
    /\ Resolve(s)
    /\ UNCHANGED <<link, queue, getters, tasks, doomed, bound, calls>>

-----------------------------------------------------------------------------
(* How a call ends, or goes on *)

\* Leaving the timeout takes its timer back, also one that is due already.
Disarmed(handles) == Cancelled(handles, {<<"timer", 0>>})

EndCall(how) == pc' = "idle" /\ answer' = how /\ bound' = "none" /\ UNCHANGED op

\* next_burst() collects the rest, and ends with a frame in hand whatever
\* ends it.
Gather == pc' = "gathering" /\ op' = "gap" /\ answer' = "partial" /\ bound' = "none"

\* wait_for(): accept() turned the frame down, and the same timeout runs on.
WaitOn == pc' = "calling" /\ UNCHANGED <<op, answer, bound>>

\* _next() returned frame n to the call that made it.
Deliver(n) ==
    /\ given' = n
    /\ \/ op \in {"next", "wait_for"} /\ EndCall("reply")
       \/ op = "wait_for" /\ (WaitOn \/ EndCall("failed"))
       \/ op \in {"next_burst", "gap"} /\ Gather

SayDropped == /\ EndCall(IF op = "gap" THEN "reply" ELSE "dropped")
              /\ UNCHANGED given

SayTimeout == /\ EndCall(IF op = "gap" THEN "reply" ELSE "timeout")
              /\ UNCHANGED given

\* The handles of a wait that is over do nothing any more.
Left == Cancelled(Tail(ready), {"getDone", "drop", "dropDone"} \X {slot})

Keep(handles) == ready' = IF bound' = "none" THEN Disarmed(handles) ELSE handles

\* The reader resumes, and is no longer in its wait.
Leave(handles) ==
    /\ Runs("reader", 0)
    /\ waiter' = "none"
    /\ doomed' = FALSE
    /\ drop' = "none"
    /\ slot' = 0
    /\ Keep(Left \o handles)
    /\ UNCHANGED link

-----------------------------------------------------------------------------
(* _next(), up to its await *)

ReadQueued ==
    /\ pc = "calling"
    /\ queue # <<>>
    /\ queue' = Tail(queue)
    /\ Deliver(Head(queue))
    /\ Keep(ready)
    /\ UNCHANGED <<link, getters, tasks, waiter, doomed>>

LinkIsGone ==
    /\ pc = "calling"
    /\ queue = <<>>
    /\ dropped
    /\ SayDropped
    /\ Keep(ready)
    /\ UNCHANGED <<link, queue, getters, tasks, waiter, doomed>>

StartWait ==
    /\ pc = "calling"
    /\ queue = <<>>
    /\ ~dropped
    /\ pc' = "waiting"
    /\ waiter' = "pending"
    /\ bound' = IF bound = "none" THEN "armed" ELSE bound
    /\ IF watched
         THEN \E s \in Tasks :
                  /\ get[s] = "none" /\ \A t \in 1 .. s - 1 : get[t] # "none"
                  /\ slot' = s
                  /\ get' = [get EXCEPT ![s] = "new"]
                  /\ drop' = "new"
                  /\ ready' = ready \o <<<<"get", s>>, <<"drop", s>>>>
                  /\ UNCHANGED <<getters, got>>
         ELSE getters' = Append(getters, 0) /\ UNCHANGED <<tasks, ready>>
    /\ UNCHANGED <<link, queue, doomed, op, answer, given>>

-----------------------------------------------------------------------------
(* _next(), from its await *)

Interrupted == waiter = "cancelled" \/ doomed

\* Mutant: the wait is over, and its get task still runs.
LeaveGet == Leave(<<>>) /\ UNCHANGED <<getters, get>>

\* get.cancel(): its future, or else its next step.
StopGet ==
    IF get[slot] = "waiting"
      THEN /\ Leave(<<<<"get", slot>>>>)
           /\ LeaveGetters(slot)
           /\ get' = [get EXCEPT ![slot] = "stopped"]
      ELSE /\ Leave(<<>>)
           /\ get' = [get EXCEPT ![slot] = IF @ = "woken" THEN "stoppedWoken" ELSE "stopped"]
           /\ UNCHANGED getters

EndGet == get' = [get EXCEPT ![slot] = "none"] /\ UNCHANGED getters

WaitDelivers ==
    /\ watched
    /\ ~Interrupted
    /\ slot # 0 /\ get[slot] = "done"
    /\ Deliver(got[slot])
    /\ EndGet
    /\ Leave(<<>>)
    /\ UNCHANGED <<queue, got>>

WaitSeesDrop ==
    /\ watched
    /\ ~Interrupted
    /\ slot # 0 /\ get[slot] # "done"
    /\ SayDropped
    /\ StopGet
    /\ UNCHANGED <<queue, got>>

\* Mutant: the frame the get task had taken goes with it.
LoseTaken == UNCHANGED queue

\* _requeue_first: what the get task had taken goes back, in front.
RequeueTaken == queue' = <<got[slot]>> \o queue

\* Mutant: put back whether or not the get task had a frame.
TimesOutPuttingBack ==
    /\ watched
    /\ Interrupted
    /\ SayTimeout
    /\ queue' = <<got[slot]>> \o queue
    /\ IF get[slot] = "done" THEN EndGet /\ Leave(<<>>) ELSE StopGet
    /\ UNCHANGED got

WaitTimesOut ==
    /\ watched
    /\ Interrupted
    /\ SayTimeout
    /\ IF get[slot] = "done"
         THEN RequeueTaken /\ EndGet /\ Leave(<<>>)
         ELSE StopGet /\ UNCHANGED queue
    /\ UNCHANGED got

\* Without an event the reader is the queue's getter itself.
PlainWaitDelivers ==
    /\ ~watched
    /\ ~Interrupted
    /\ queue # <<>>
    /\ queue' = Tail(queue)
    /\ Deliver(Head(queue))
    /\ Leave(<<>>)
    /\ UNCHANGED <<getters, get, got>>

PlainWaitTimesOut ==
    /\ ~watched
    /\ Interrupted
    /\ SayTimeout
    /\ Leave(<<>>)
    /\ UNCHANGED <<queue, getters, get, got>>

-----------------------------------------------------------------------------
(* The reader's calls *)

Call ==
    /\ pc = "idle"
    /\ pc' = "calling"
    /\ op' \in {"next", "wait_for", "next_burst"}
    /\ answer' = "pending"
    /\ UNCHANGED <<link, queue, getters, ready, tasks, waiter, doomed, bound, given>>

\* next_burst(): all there is, then another gap, unless its time is up.
GatherBurst ==
    /\ pc = "gathering"
    /\ queue' = <<>>
    /\ given' = IF queue = <<>> THEN given ELSE Last(queue)
    /\ \/ pc' = "calling" /\ UNCHANGED <<op, answer, bound>>
       \/ EndCall("reply")
    /\ UNCHANGED <<link, getters, ready, tasks, waiter, doomed>>

\* request(): what is queued answers something earlier.
CallRequest ==
    /\ pc = "idle"
    /\ pc' = "request"
    /\ op' \in {"next", "wait_for"}
    /\ answer' = "requesting"
    /\ UNCHANGED <<link, queue, getters, ready, tasks, waiter, doomed, bound, given>>

StartRequest ==
    /\ pc = "request"
    /\ IF dropped
         THEN EndCall("dropped") /\ UNCHANGED queue
         ELSE queue' = <<>> /\ pc' = "writing" /\ UNCHANGED <<op, answer, bound>>
    /\ UNCHANGED <<link, getters, ready, tasks, waiter, doomed, given>>

\* guarded_write() and the pause after it.
WriteReturns ==
    /\ pc = "writing"
    /\ pc' = "calling"
    /\ answer' = "pending"
    /\ UNCHANGED <<link, queue, getters, ready, tasks, waiter, doomed, bound, op, given>>

\* The backend's own error, or the write's timeout: the drop's, if there is one.
WriteFails ==
    /\ pc = "writing"
    /\ EndCall("failed") \/ (dropped /\ EndCall("dropped"))
    /\ UNCHANGED <<link, queue, getters, ready, tasks, waiter, doomed, given>>

Clear ==
    /\ pc = "idle"
    /\ queue # <<>>
    /\ queue' = <<>>
    /\ UNCHANGED <<link, getters, ready, tasks, waiter, doomed, bound, calls>>

-----------------------------------------------------------------------------
Init ==
    /\ watched \in BOOLEAN
    /\ dropped = FALSE
    /\ landed = 0
    /\ droppedAt = Never
    /\ queue = <<>>
    /\ getters = <<>>
    /\ ready = <<>>
    /\ get = [s \in Tasks |-> "none"]
    /\ got = [s \in Tasks |-> 0]
    /\ drop = "none"
    /\ slot = 0
    /\ waiter = "none"
    /\ doomed = FALSE
    /\ bound = "none"
    /\ pc = "idle"
    /\ op = "next"
    /\ answer = "none"
    /\ given = 0

Outside == FrameArrives \/ LinkDrops \/ TimerDue

Callbacks == (\E n \in Frames : OnNotify(n)) \/ OnDisconnect \/ OnTimeout \/ PassOver

TaskSteps == \E s \in Tasks : GetStep(s) \/ GetStopped(s) \/ GetDone(s) \/ DropStep(s) \/ DropDone(s)

Reads == ReadQueued \/ LinkIsGone \/ StartWait \/ GatherBurst \/ StartRequest

Resumption == \/ WaitDelivers \/ WaitSeesDrop \/ WaitTimesOut
              \/ PlainWaitDelivers \/ PlainWaitTimesOut

Writes == WriteReturns \/ WriteFails

Next == \/ Outside \/ Callbacks \/ TaskSteps \/ Reads \/ Resumption
        \/ Call \/ CallRequest \/ Writes \/ Clear

Spec == Init /\ [][Next]_vars

\* The loop runs what is ready, and a write ends: it has a bound.  No timer,
\* frame or drop has to come, and no call has to be made.
Fairness == WF_vars(Callbacks \/ TaskSteps \/ Reads \/ Resumption) /\ WF_vars(Writes)

FairSpec == Spec /\ Fairness

-----------------------------------------------------------------------------
(* Properties *)

\* What a get task has taken and not handed over still counts as held.
Taken == IF slot # 0 /\ get[slot] = "done" THEN <<got[slot]>> ELSE <<>>

Replies == INSTANCE ReplyQueue WITH held <- Taken \o queue

\* Every step is one the promise of ReplyQueue allows, or none: no reply is
\* lost, read twice or out of order, and a drop never overtakes the replies
\* that landed before it, wherever a timeout or the drop catches the wait
\* (notifications.py:211-241).
ImplementsReplyQueue == Replies!Spec

\* A reader that is suspended and a reply that is queued do not miss each
\* other: the reply's wake-up went to this wait's own task, or to the reader.
ReplyOnItsWay ==
    waiter = "pending" /\ queue # <<>> => watched /\ get[slot] # "waiting"

\* A wait on a link that has dropped ends without its timeout, whichever call
\* made it (notifications.py:38-39).
DroppedWaitEnds == dropped /\ pc = "waiting" ~> pc # "waiting"

=============================================================================
