------------------------- MODULE NotificationsProofs -------------------------
(***************************************************************************)
(* Theorems about Notifications, for any number of frames and tasks.        *)
(*                                                                         *)
(* Everything turns on the order of the loop's handles.  The invariant says *)
(* which handles there are, each once, and which stands before which: the   *)
(* frames in the order they were sent, and the get task of a wait before    *)
(* its drop task as long as a frame is queued that the drop must not        *)
(* overtake.                                                                *)
(***************************************************************************)
EXTENDS Notifications, SequenceTheorems, TLAPS

USE NotificationsAssumption DEF Tasks, Frames

-----------------------------------------------------------------------------
(* Sequences of handles *)

Nothing == <<"cancelled", 0>>
Holds(s, h) == \E i \in DOMAIN s : s[i] = h
Before(s, a, b) == \A i, k \in DOMAIN s : s[i] = a /\ s[k] = b => i < k
Once(s) == \A i, k \in DOMAIN s : s[i] = s[k] /\ s[i] # Nothing => i = k

LEMMA TailHandles ==
    ASSUME NEW s \in Seq(Handles), s # <<>>, Once(s)
    PROVE  /\ Tail(s) \in Seq(Handles)
           /\ Once(Tail(s))
           /\ \A h : Holds(Tail(s), h) => Holds(s, h)
           /\ \A h : Holds(s, h) /\ h # Head(s) => Holds(Tail(s), h)
           /\ Head(s) # Nothing => ~Holds(Tail(s), Head(s))
           /\ \A a, b : Before(s, a, b) => Before(Tail(s), a, b)
<1>1. /\ Tail(s) \in Seq(Handles) /\ Len(s) \in Nat \ {0} /\ Head(s) = s[1]
      /\ DOMAIN s = 1 .. Len(s) /\ DOMAIN Tail(s) = 1 .. Len(s) - 1
      /\ \A i \in 1 .. Len(s) - 1 : Tail(s)[i] = s[i + 1]
  BY HeadTailProperties, EmptySeq
<1>2. ASSUME NEW h, Holds(s, h), h # Head(s) PROVE Holds(Tail(s), h)
  <2>1. PICK i \in 1 .. Len(s) : s[i] = h
    BY <1>1, <1>2 DEF Holds
  <2>2. i - 1 \in 1 .. Len(s) - 1 /\ Tail(s)[i - 1] = h
    BY <1>1, <1>2, <2>1
  <2> QED
    BY <1>1, <2>2 DEF Holds
<1>3. Once(Tail(s))
  <2>1. ASSUME NEW i \in 1 .. Len(s) - 1, NEW k \in 1 .. Len(s) - 1,
               Tail(s)[i] = Tail(s)[k], Tail(s)[i] # Nothing
        PROVE  i = k
    <3>1. i + 1 \in DOMAIN s /\ k + 1 \in DOMAIN s /\ s[i + 1] = s[k + 1] /\ s[i + 1] # Nothing
      BY <1>1, <2>1
    <3>2. i + 1 = k + 1
      BY <3>1 DEF Once
    <3> QED
      BY <3>2
  <2> QED
    BY <1>1, <2>1 DEF Once
<1>4. ASSUME Head(s) # Nothing PROVE ~Holds(Tail(s), Head(s))
  <2>1. ASSUME NEW i \in 1 .. Len(s) - 1, Tail(s)[i] = Head(s) PROVE FALSE
    <3>1. i + 1 \in DOMAIN s /\ 1 \in DOMAIN s /\ s[i + 1] = s[1] /\ s[1] # Nothing
      BY <1>1, <1>4, <2>1
    <3>2. i + 1 = 1
      BY <3>1 DEF Once
    <3> QED
      BY <3>2
  <2> QED
    BY <1>1, <2>1 DEF Holds
<1>5. ASSUME NEW a, NEW b, Before(s, a, b) PROVE Before(Tail(s), a, b)
  <2>1. ASSUME NEW i \in 1 .. Len(s) - 1, NEW k \in 1 .. Len(s) - 1,
               Tail(s)[i] = a, Tail(s)[k] = b
        PROVE  i < k
    <3>1. i + 1 \in DOMAIN s /\ k + 1 \in DOMAIN s /\ s[i + 1] = a /\ s[k + 1] = b
      BY <1>1, <2>1
    <3>2. i + 1 < k + 1
      BY <1>5, <3>1 DEF Before
    <3> QED
      BY <3>2
  <2> QED
    BY <1>1, <2>1 DEF Before
<1>6. \A h : Holds(Tail(s), h) => Holds(s, h)
  <2>1. \A i \in 1 .. Len(s) - 1 : i + 1 \in DOMAIN s /\ Tail(s)[i] = s[i + 1]
    BY <1>1
  <2> QED
    BY <1>1, <2>1 DEF Holds
<1> QED
  BY <1>1, <1>2, <1>3, <1>4, <1>5, <1>6

LEMMA AppendHandles ==
    ASSUME NEW s \in Seq(Handles), NEW h \in Handles
    PROVE  /\ Append(s, h) \in Seq(Handles)
           /\ \A x : Holds(Append(s, h), x) <=> Holds(s, x) \/ x = h
           /\ Once(s) /\ ~Holds(s, h) => Once(Append(s, h))
           /\ \A a, b : Before(s, a, b) /\ a # h => Before(Append(s, h), a, b)
           /\ \A a : ~Holds(s, h) /\ a # h => Before(Append(s, h), a, h)
<1>1. /\ Append(s, h) \in Seq(Handles) /\ Len(s) \in Nat
      /\ DOMAIN s = 1 .. Len(s) /\ DOMAIN Append(s, h) = 1 .. Len(s) + 1
      /\ \A i \in 1 .. Len(s) : Append(s, h)[i] = s[i]
      /\ Append(s, h)[Len(s) + 1] = h
  BY AppendProperties
<1>2. \A i \in 1 .. Len(s) + 1 : i \in 1 .. Len(s) \/ i = Len(s) + 1
  BY <1>1
<1> HIDE <1>2
<1>3. \A x : Holds(Append(s, h), x) <=> Holds(s, x) \/ x = h
  <2>1. Len(s) + 1 \in 1 .. Len(s) + 1 /\ 1 .. Len(s) \subseteq 1 .. Len(s) + 1
    BY <1>1
  <2> QED
    BY <1>1, <1>2, <2>1 DEF Holds
<1>4. ASSUME Once(s), ~Holds(s, h) PROVE Once(Append(s, h))
  BY <1>1, <1>2, <1>4 DEF Once, Holds
<1>5. ASSUME NEW a, NEW b, Before(s, a, b), a # h PROVE Before(Append(s, h), a, b)
  <2>1. \A i \in 1 .. Len(s) : i < Len(s) + 1
    BY <1>1
  <2> QED
    BY <1>1, <1>2, <1>5, <2>1 DEF Before
<1>6. ASSUME NEW a, ~Holds(s, h), a # h PROVE Before(Append(s, h), a, h)
  <2>1. \A i \in 1 .. Len(s) : i < Len(s) + 1
    BY <1>1
  <2> QED
    BY <1>1, <1>2, <1>6, <2>1 DEF Before, Holds
<1> QED
  BY <1>1, <1>3, <1>4, <1>5, <1>6

LEMMA CancelHandles ==
    ASSUME NEW s \in Seq(Handles), NEW dead
    PROVE  /\ Cancelled(s, dead) \in Seq(Handles)
           /\ \A x : x # Nothing => (Holds(Cancelled(s, dead), x) <=> Holds(s, x) /\ x \notin dead)
           /\ Once(s) => Once(Cancelled(s, dead))
           /\ \A a, b : Before(s, a, b) /\ a # Nothing /\ b # Nothing =>
                            Before(Cancelled(s, dead), a, b)
<1> DEFINE c == Cancelled(s, dead)
<1>1. Nothing \in Handles
  BY DEF Nothing, Handles
<1>2. /\ DOMAIN s = 1 .. Len(s) /\ Len(s) \in Nat /\ DOMAIN c = DOMAIN s
      /\ \A i \in DOMAIN s : s[i] \in Handles /\ c[i] = IF s[i] \in dead THEN Nothing ELSE s[i]
  BY DEF Cancelled, Nothing
<1>3. c \in [1 .. Len(s) -> Handles]
  BY <1>1, <1>2 DEF Cancelled, Nothing
<1>4. c \in Seq(Handles)
  BY <1>2, <1>3, IsASeq
<1> HIDE DEF c
<1>5. \A x : x # Nothing => (Holds(c, x) <=> Holds(s, x) /\ x \notin dead)
  BY <1>2 DEF Holds
<1>6. Once(s) => Once(c)
  BY <1>2 DEF Once
<1>7. \A a, b : Before(s, a, b) /\ a # Nothing /\ b # Nothing => Before(c, a, b)
  BY <1>2 DEF Before
<1> QED
  BY <1>4, <1>5, <1>6, <1>7 DEF c

-----------------------------------------------------------------------------
(* The invariant *)

\* What a call has come to, by where the reader is in it; the timeout is that
\* of its wait.
Called ==
    /\ pc = "idle" => answer \in {"none", "reply", "timeout", "dropped", "failed"}
    /\ pc \in {"request", "writing"} => answer = "requesting" /\ op # "gap"
    /\ pc = "gathering" => answer = "partial" /\ op = "gap"
    /\ pc \in {"calling", "waiting"} => answer = IF op = "gap" THEN "partial" ELSE "pending"
    /\ pc \notin {"calling", "waiting"} => bound = "none"

\* The tasks of a wait are there while the reader is suspended in it, and only
\* its own get task can take a frame or wait for one.
Suspended ==
    /\ pc = "waiting" <=> waiter # "none"
    /\ slot # 0 <=> watched /\ pc = "waiting"
    /\ drop # "none" <=> slot # 0
    /\ slot # 0 => get[slot] \in Stoppable \cup {"done"}
    /\ \A t \in Tasks \ {slot} : get[t] \in {"none", "stopped", "stoppedWoken"}
    /\ getters = IF slot # 0 /\ get[slot] = "waiting" THEN <<slot>>
                 ELSE IF ~watched /\ waiter = "pending" THEN <<0>> ELSE <<>>

\* The drop is known, and has resolved a wait, only if it happened.
Dropped ==
    /\ IF dropped THEN watched /\ droppedAt \in 0 .. landed ELSE droppedAt = Never
    /\ drop \in {"woken", "done"} => dropped
    /\ slot # 0 /\ waiter = "done" => get[slot] = "done" \/ drop = "done"

\* Frames queued or taken have landed; those on the way are the next ones, in
\* order.
Numbered ==
    /\ \A i \in DOMAIN queue : queue[i] \in 1 .. landed
    /\ slot # 0 /\ get[slot] = "done" => got[slot] \in 1 .. landed
    /\ \E m \in landed .. MaxFrames :
           \A n \in Frames : Holds(ready, <<"frame", n>>) <=> n \in landed + 1 .. m
    /\ \A m, n \in Frames : m < n => Before(ready, <<"frame", m>>, <<"frame", n>>)

\* No handle is there twice; each has its reason, and a task that has a step
\* to take has its handle.
Scheduled ==
    /\ Once(ready)
    /\ \A s \in Tasks :
           /\ Holds(ready, <<"get", s>>) => get[s] \in {"new", "woken", "stopped", "stoppedWoken"}
           /\ Holds(ready, <<"getDone", s>>) => s = slot /\ get[s] = "done"
           /\ Holds(ready, <<"drop", s>>) => s = slot /\ drop \in {"new", "woken"}
           /\ Holds(ready, <<"dropDone", s>>) => s = slot /\ drop = "done"
           /\ get[s] \in {"new", "woken"} => Holds(ready, <<"get", s>>)
    /\ drop \in {"new", "woken"} => Holds(ready, <<"drop", slot>>)
    /\ Holds(ready, <<"gone", 0>>) => watched /\ ~dropped
    /\ Holds(ready, <<"timer", 0>>) => bound = "due"
    /\ Holds(ready, <<"reader", 0>>) => waiter \in {"done", "cancelled"}

\* A queued frame that the drop must not overtake.
Late == queue # <<>> /\ (dropped => \E i \in DOMAIN queue : queue[i] <= droppedAt)

\* The steps of the two tasks keep the order of their wait: nothing comes
\* between them at first, and later the get task is before the drop.
Ordered == slot # 0 =>
    /\ queue # <<>> => get[slot] # "waiting"
    /\ drop = "new" => \A n \in Frames :
           Holds(ready, <<"frame", n>>) =>
               \/ Before(ready, <<"drop", slot>>, <<"frame", n>>)
               \/ get[slot] = "new" /\ Before(ready, <<"frame", n>>, <<"get", slot>>)
    /\ drop = "new" /\ get[slot] = "new" => Before(ready, <<"get", slot>>, <<"drop", slot>>)
    /\ Late /\ get[slot] \in {"new", "woken"} =>
           drop # "done" /\ Before(ready, <<"get", slot>>, <<"drop", slot>>)

\* A reader that is the queue's own getter is woken by the first frame.
Plain == ~watched /\ waiter = "pending" => queue = <<>>

IInv == TypeOK /\ Called /\ Suspended /\ Dropped /\ Numbered /\ Scheduled /\ Ordered /\ Plain

LEMMA EmptyHoldsNothing ==
    /\ <<>> \in Seq(Handles) /\ Once(<<>>)
    /\ \A h : ~Holds(<<>>, h)
    /\ \A a, b : Before(<<>>, a, b)
BY DEF Once, Holds, Before

LEMMA InitHolds == Init => IInv
<1> SUFFICES ASSUME Init PROVE IInv
    OBVIOUS
<1> USE EmptyHoldsNothing DEF Init
<1>1. TypeOK
  <2>1. queue \in Seq(Frames) /\ getters \in Seq(Tasks \cup {0}) /\ ready \in Seq(Handles)
    OBVIOUS
  <2>2. get \in [Tasks -> {"none"}] /\ got \in [Tasks -> 0 .. MaxFrames]
    OBVIOUS
  <2>3. droppedAt \in 0 .. MaxFrames \cup {Never} /\ landed \in 0 .. MaxFrames
    OBVIOUS
  <2>4. get \in [Tasks -> {"none", "done", "stopped", "stoppedWoken"} \cup Stoppable]
    BY <2>2
  <2> HIDE DEF Init, Tasks, Frames
  <2> QED
    BY <2>1, <2>2, <2>3, <2>4 DEF TypeOK, Init
<1>2. Called /\ Suspended /\ Dropped /\ Ordered /\ Plain
  BY DEF Called, Suspended, Dropped, Ordered, Plain
<1>3. Numbered
  <2>1. 0 \in landed .. MaxFrames /\ \A n \in Frames : n \notin landed + 1 .. 0
    OBVIOUS
  <2> QED
    BY <2>1 DEF Numbered
<1>4. Scheduled
  BY DEF Scheduled
<1> QED
  BY <1>1, <1>2, <1>3, <1>4 DEF IInv

-----------------------------------------------------------------------------
(* What a step makes of the handles *)

\* The handle that runs is the first: no other is before it.
LEMMA Turn ==
    ASSUME ready \in Seq(Handles), NEW w, NEW x, Runs(w, x)
    PROVE  /\ ready # <<>> /\ Head(ready) = <<w, x>> /\ ~Running
           /\ Holds(ready, <<w, x>>) /\ <<w, x>> \in Handles
           /\ \A a : Holds(ready, a) => ~Before(ready, a, <<w, x>>)
<1>1. ready # <<>> /\ Head(ready) = <<w, x>> /\ ~Running
  BY DEF Runs
<1>2. Head(ready) = ready[1] /\ 1 \in DOMAIN ready /\ ready[1] \in Handles
      /\ \A i \in DOMAIN ready : ~(i < 1)
  BY <1>1, EmptySeq
<1>3. Holds(ready, <<w, x>>) /\ <<w, x>> \in Handles
  BY <1>1, <1>2 DEF Holds
<1>4. \A a : Holds(ready, a) => ~Before(ready, a, <<w, x>>)
  BY <1>1, <1>2 DEF Holds, Before
<1> QED
  BY <1>1, <1>3, <1>4

LEMMA Absent == \A s, a, b : ~Holds(s, a) \/ ~Holds(s, b) => Before(s, a, b)
BY DEF Holds, Before

\* The loop runs a handle, and nothing is scheduled.
LEMMA PopHandle ==
    ASSUME ready \in Seq(Handles), Once(ready),
           NEW w, NEW x, Runs(w, x), Soon(<<>>)
    PROVE  /\ ready' \in Seq(Handles) /\ Once(ready')
           /\ \A h : Holds(ready', h) => Holds(ready, h)
           /\ <<w, x>> # Nothing => ~Holds(ready', <<w, x>>)
           /\ \A h : Holds(ready, h) /\ h # <<w, x>> => Holds(ready', h)
           /\ \A a, b : Before(ready, a, b) => Before(ready', a, b)
<1>1. ready # <<>> /\ Head(ready) = <<w, x>>
  BY Turn
<1>2. ready' = Tail(ready)
  <2>1. Tail(ready) \in Seq(Handles)
    BY <1>1, TailHandles
  <2> QED
    BY <2>1, ConcatEmptySeq DEF Soon
<1> QED
  BY <1>1, <1>2, TailHandles

\* The loop runs a handle, and another one is scheduled.
LEMMA PopPush ==
    ASSUME ready \in Seq(Handles), Once(ready),
           NEW w, NEW x, Runs(w, x), NEW new \in Handles, ~Holds(ready, new), Soon(<<new>>)
    PROVE  /\ ready' \in Seq(Handles) /\ Once(ready')
           /\ \A h : Holds(ready', h) => Holds(ready, h) \/ h = new
           /\ <<w, x>> # Nothing => ~Holds(ready', <<w, x>>)
           /\ \A h : Holds(ready, h) /\ h # <<w, x>> => Holds(ready', h)
           /\ Holds(ready', new)
           /\ \A a, b : Before(ready, a, b) /\ a # new => Before(ready', a, b)
           /\ \A a : a # new => Before(ready', a, new)
<1> DEFINE rest == Tail(ready)
<1>1. ready # <<>> /\ Head(ready) = <<w, x>> /\ new # <<w, x>>
  BY Turn
<1>2. /\ rest \in Seq(Handles) /\ Once(rest)
      /\ \A h : Holds(rest, h) => Holds(ready, h)
      /\ <<w, x>> # Nothing => ~Holds(rest, <<w, x>>)
      /\ \A h : Holds(ready, h) /\ h # <<w, x>> => Holds(rest, h)
      /\ \A a, b : Before(ready, a, b) => Before(rest, a, b)
  BY <1>1, TailHandles
<1>3. ready' = Append(rest, new)
  BY <1>2, AppendIsConcat DEF Soon
<1> HIDE DEF rest
<1>4. ~Holds(rest, new)
  BY <1>2
<1>5. /\ ready' \in Seq(Handles) /\ Once(ready')
      /\ \A h : Holds(ready', h) <=> Holds(rest, h) \/ h = new
      /\ \A a, b : Before(rest, a, b) /\ a # new => Before(ready', a, b)
      /\ \A a : a # new => Before(ready', a, new)
  BY <1>2, <1>3, <1>4, AppendHandles
<1> QED
  BY <1>1, <1>2, <1>5

\* The handles of a wait.
OfWait == {"getDone", "drop", "dropDone"} \X {slot}

LEMMA KeepHandles ==
    ASSUME NEW s \in Seq(Handles), Once(s), Keep(s)
    PROVE  /\ ready' \in Seq(Handles) /\ Once(ready')
           /\ \A h : h # Nothing /\ Holds(ready', h) =>
                         Holds(s, h) /\ (bound' = "none" => h # <<"timer", 0>>)
           /\ \A h : h # Nothing /\ Holds(s, h) /\ h # <<"timer", 0>> => Holds(ready', h)
           /\ \A a, b : Before(s, a, b) /\ a # Nothing /\ b # Nothing => Before(ready', a, b)
<1>1. CASE bound' = "none"
  <2>1. ready' = Cancelled(s, {<<"timer", 0>>})
    BY <1>1 DEF Keep, Disarmed
  <2> QED
    BY <1>1, <2>1, CancelHandles
<1>2. CASE bound' # "none"
  BY <1>2 DEF Keep
<1> QED
  BY <1>1, <1>2

\* What is left of the loop's handles once the reader has resumed.
LEMMA LeftHandles ==
    ASSUME ready \in Seq(Handles), Once(ready), Runs("reader", 0)
    PROVE  /\ Left \in Seq(Handles) /\ Once(Left) /\ Holds(ready, <<"reader", 0>>)
           /\ \A h : h # Nothing =>
                  (Holds(Left, h) <=> Holds(ready, h) /\ h # <<"reader", 0>> /\ h \notin OfWait)
           /\ \A a, b : Before(ready, a, b) /\ a # Nothing /\ b # Nothing => Before(Left, a, b)
<1>1. /\ ready # <<>> /\ Head(ready) = <<"reader", 0>> /\ Head(ready) # Nothing
      /\ Holds(ready, <<"reader", 0>>)
  BY Turn DEF Nothing
<1>3. /\ Tail(ready) \in Seq(Handles) /\ Once(Tail(ready))
      /\ \A h : Holds(Tail(ready), h) <=> Holds(ready, h) /\ h # <<"reader", 0>>
      /\ \A a, b : Before(ready, a, b) => Before(Tail(ready), a, b)
  BY <1>1, TailHandles
<1>4. Left = Cancelled(Tail(ready), OfWait)
  BY DEF Left, OfWait
<1> QED
  BY <1>1, <1>3, <1>4, CancelHandles

LEMMA LeaveQuietly ==
    ASSUME ready \in Seq(Handles), Once(ready), Leave(<<>>)
    PROVE  /\ ready' \in Seq(Handles) /\ Once(ready') /\ Holds(ready, <<"reader", 0>>)
           /\ \A h : h # Nothing /\ Holds(ready', h) =>
                  /\ Holds(ready, h) /\ h # <<"reader", 0>> /\ h \notin OfWait
                  /\ bound' = "none" => h # <<"timer", 0>>
           /\ \A h : h # Nothing /\ Holds(ready, h) /\ h \notin OfWait
                       /\ h \notin {<<"timer", 0>>, <<"reader", 0>>} => Holds(ready', h)
           /\ \A a, b : Before(ready, a, b) /\ a # Nothing /\ b # Nothing => Before(ready', a, b)
<1>1. Runs("reader", 0) /\ Keep(Left \o <<>>)
  BY DEF Leave
<1>2. Left \o <<>> = Left
  BY <1>1, LeftHandles, ConcatEmptySeq
<1> QED
  BY <1>1, <1>2, LeftHandles, KeepHandles

LEMMA LeaveStopping ==
    ASSUME ready \in Seq(Handles), Once(ready), slot \in Tasks,
           ~Holds(ready, <<"get", slot>>), Leave(<<<<"get", slot>>>>)
    PROVE  /\ ready' \in Seq(Handles) /\ Once(ready') /\ Holds(ready, <<"reader", 0>>)
           /\ \A h : h # Nothing /\ Holds(ready', h) =>
                  /\ Holds(ready, h) \/ h = <<"get", slot>>
                  /\ h # <<"reader", 0>> /\ h \notin OfWait
                  /\ bound' = "none" => h # <<"timer", 0>>
           /\ \A h : h # Nothing /\ Holds(ready, h) /\ h \notin OfWait
                       /\ h \notin {<<"timer", 0>>, <<"reader", 0>>} => Holds(ready', h)
           /\ Holds(ready', <<"get", slot>>)
           /\ \A a, b : Before(ready, a, b) /\ a # Nothing /\ b # Nothing /\ a # <<"get", slot>> =>
                            Before(ready', a, b)
<1> DEFINE new == <<"get", slot>>
           full == Append(Left, new)
<1>1. Runs("reader", 0) /\ Keep(Left \o <<new>>)
  BY DEF Leave
<1>2. new \in Handles /\ new # Nothing /\ new # <<"timer", 0>> /\ new # <<"reader", 0>>
      /\ new \notin OfWait
  BY DEF Handles, Nothing, OfWait
<1>3. Left \o <<new>> = full
  BY <1>1, <1>2, LeftHandles, AppendIsConcat
<1>4. ~Holds(Left, new)
  BY <1>1, <1>2, LeftHandles
<1> HIDE DEF new
<1>5. /\ full \in Seq(Handles) /\ Once(full)
      /\ \A h : Holds(full, h) <=> Holds(Left, h) \/ h = new
      /\ \A a, b : Before(Left, a, b) /\ a # new => Before(full, a, b)
  BY <1>1, <1>2, <1>4, LeftHandles, AppendHandles
<1> HIDE DEF full
<1>6. /\ ready' \in Seq(Handles) /\ Once(ready')
      /\ \A h : h # Nothing /\ Holds(ready', h) =>
                    Holds(full, h) /\ (bound' = "none" => h # <<"timer", 0>>)
      /\ \A h : h # Nothing /\ Holds(full, h) /\ h # <<"timer", 0>> => Holds(ready', h)
      /\ \A a, b : Before(full, a, b) /\ a # Nothing /\ b # Nothing => Before(ready', a, b)
  BY <1>1, <1>3, <1>5, KeepHandles
<1> QED
  BY <1>1, <1>2, <1>5, <1>6, LeftHandles DEF new

-----------------------------------------------------------------------------
(* Frames *)

LEMMA FramesStay ==
    ASSUME Numbered, landed' = landed,
           \A n \in Frames : Holds(ready', <<"frame", n>>) <=> Holds(ready, <<"frame", n>>),
           \A m, n \in Frames : Before(ready, <<"frame", m>>, <<"frame", n>>) =>
                                    Before(ready', <<"frame", m>>, <<"frame", n>>),
           \A i \in DOMAIN queue' : queue'[i] \in 1 .. landed,
           slot' # 0 /\ get'[slot'] = "done" => got'[slot'] \in 1 .. landed
    PROVE  Numbered'
<1>1. PICK m \in landed .. MaxFrames :
          \A n \in Frames : Holds(ready, <<"frame", n>>) <=> n \in landed + 1 .. m
  BY DEF Numbered
<1>2. \A n \in Frames : Holds(ready', <<"frame", n>>) <=> n \in landed' + 1 .. m
  BY <1>1
<1> QED
  BY <1>1, <1>2 DEF Numbered

\* The frame whose turn it is is the next one.
LEMMA NextFrame ==
    ASSUME TypeOK, Numbered, Once(ready), NEW n \in Frames, Runs("frame", n)
    PROVE  n = landed + 1
<1>1. ready \in Seq(Handles) /\ landed \in Nat
  BY DEF TypeOK
<1>2. ready # <<>> /\ Head(ready) = <<"frame", n>> /\ Holds(ready, <<"frame", n>>)
  BY <1>1, Turn
<1>3. PICK m \in landed .. MaxFrames :
          \A k \in Frames : Holds(ready, <<"frame", k>>) <=> k \in landed + 1 .. m
  BY DEF Numbered
<1>4. landed + 1 \in Frames /\ landed + 1 <= n /\ Holds(ready, <<"frame", landed + 1>>)
  BY <1>1, <1>2, <1>3
<1>5. ~Before(ready, <<"frame", landed + 1>>, <<"frame", n>>)
  BY <1>1, <1>4, Turn
<1> QED
  BY <1>1, <1>4, <1>5 DEF Numbered

\* Whom a frame wakes: nobody, the get task of the wait, or the reader.
LEMMA Wakes ==
    ASSUME TypeOK, Suspended, WakeNext(<<>>)
    PROVE  \/ /\ ~(slot # 0 /\ get[slot] = "waiting") /\ ~(~watched /\ waiter = "pending")
              /\ Soon(<<>>) /\ UNCHANGED <<getters, get, waiter>>
           \/ /\ slot # 0 /\ get[slot] = "waiting"
              /\ getters' = <<>> /\ get' = [get EXCEPT ![slot] = "woken"]
              /\ Soon(<<<<"get", slot>>>>) /\ UNCHANGED waiter
           \/ /\ slot = 0 /\ ~watched /\ waiter = "pending"
              /\ getters' = <<>> /\ waiter' = "done"
              /\ Soon(<<<<"reader", 0>>>>) /\ UNCHANGED get
<1>1. CASE slot # 0 /\ get[slot] = "waiting"
  <2>1. getters = <<slot>>
    BY <1>1 DEF Suspended
  <2>2. getters # <<>> /\ Head(getters) = slot /\ Tail(getters) = <<>>
    BY <2>1
  <2>3. <<>> \o <<<<"get", slot>>>> = <<<<"get", slot>>>>
    OBVIOUS
  <2> QED
    BY <1>1, <2>2, <2>3 DEF WakeNext
<1>2. CASE ~(slot # 0 /\ get[slot] = "waiting") /\ ~watched /\ waiter = "pending"
  <2>1. getters = <<0>> /\ slot = 0
    BY <1>2 DEF Suspended
  <2>2. getters # <<>> /\ Head(getters) = 0 /\ Tail(getters) = <<>>
    BY <2>1
  <2>3. <<>> \o <<<<"reader", 0>>>> = <<<<"reader", 0>>>>
    OBVIOUS
  <2> QED
    BY <1>2, <2>1, <2>2, <2>3 DEF WakeNext
<1>3. CASE ~(slot # 0 /\ get[slot] = "waiting") /\ ~(~watched /\ waiter = "pending")
  <2>1. getters = <<>>
    BY <1>3 DEF Suspended
  <2> QED
    BY <1>3, <2>1 DEF WakeNext
<1> QED
  BY <1>1, <1>2, <1>3

\* A frame lands.
LEMMA NotifyStep ==
    ASSUME IInv, NEW n \in Frames, OnNotify(n)
    PROVE  IInv'
<1> USE DEF IInv
<1>1. /\ Runs("frame", n) /\ ready \in Seq(Handles) /\ Once(ready) /\ n = landed + 1
      /\ landed' = n /\ queue' = Append(queue, n)
      /\ UNCHANGED <<watched, dropped, droppedAt, got, drop, slot, doomed, bound, calls>>
      /\ landed \in Nat /\ queue \in Seq(Frames)
  <2>1. Runs("frame", n) /\ n = landed' /\ queue' = Append(queue, n) /\ landed' = n
        /\ UNCHANGED <<watched, dropped, droppedAt, got, drop, slot, doomed, bound, calls>>
    BY DEF OnNotify
  <2>2. ready \in Seq(Handles) /\ landed \in Nat /\ queue \in Seq(Frames)
    BY DEF TypeOK
  <2>3. Once(ready)
    BY DEF Scheduled
  <2> HIDE DEF IInv
  <2>4. n = landed + 1
    <3>1. TypeOK /\ Numbered
      BY DEF IInv
    <3> QED
      BY <2>1, <2>3, <3>1, NextFrame
  <2> QED
    BY <2>1, <2>2, <2>3, <2>4
<1>2. /\ queue' \in Seq(Frames) /\ queue' # <<>> /\ DOMAIN queue' = 1 .. Len(queue) + 1
      /\ \A i \in 1 .. Len(queue) : queue'[i] = queue[i]
      /\ queue'[Len(queue) + 1] = n /\ DOMAIN queue = 1 .. Len(queue) /\ Len(queue) \in Nat
  BY <1>1
<1>3. Called'
  BY <1>1 DEF Called, calls
<1>4. ASSUME \A k \in Frames : Holds(ready', <<"frame", k>>) <=> Holds(ready, <<"frame", k>>) /\ k # n,
             \A k, m \in Frames : Before(ready, <<"frame", k>>, <<"frame", m>>) =>
                                      Before(ready', <<"frame", k>>, <<"frame", m>>),
             slot # 0 /\ get'[slot] = "done" => get[slot] = "done"
      PROVE  Numbered'
  <2>1. PICK m \in landed .. MaxFrames :
            \A k \in Frames : Holds(ready, <<"frame", k>>) <=> k \in landed + 1 .. m
    BY DEF Numbered
  <2> Holds(ready, <<"frame", n>>)
    BY <1>1, Turn
  <2> n <= m
    BY <1>1, <2>1
  <2>2. m \in landed' .. MaxFrames
        /\ \A k \in Frames : Holds(ready', <<"frame", k>>) <=> k \in landed' + 1 .. m
    BY <1>1, <1>4, <2>1
  <2>3. \A i \in DOMAIN queue' : queue'[i] \in 1 .. landed'
    BY <1>1, <1>2 DEF Numbered
  <2>4. slot' # 0 /\ get'[slot'] = "done" => got'[slot'] \in 1 .. landed'
    BY <1>1, <1>4 DEF Numbered
  <2> QED
    BY <1>4, <2>2, <2>3, <2>4 DEF Numbered
<1>5. Late' => Late \/ ~dropped
  BY <1>1, <1>2 DEF Late, Dropped
<1>7. ASSUME slot # 0 PROVE drop = "new" => get[slot] = "new"
  <2>1. drop = "new" => Holds(ready, <<"drop", slot>>)
    BY DEF Scheduled
  <2> QED
    BY <1>1, <1>7, <2>1, Turn DEF Ordered
<1>8. ASSUME slot # 0, Late', get[slot] \in {"new", "woken"}
      PROVE  drop # "done" /\ Before(ready, <<"get", slot>>, <<"drop", slot>>)
  <2>1. CASE Late
    BY <1>8, <2>1 DEF Ordered
  <2>2. CASE ~dropped /\ drop = "new"
    BY <1>7, <1>8, <2>2 DEF Ordered
  <2>3. CASE ~dropped /\ drop # "new"
    <3>1. drop \notin {"new", "woken", "done"} /\ slot \in Tasks
      BY <1>8, <2>3 DEF Dropped, TypeOK
    <3> QED
      BY <3>1, Absent DEF Scheduled
  <2> QED
    BY <1>5, <1>8, <2>1, <2>2, <2>3
<1>9. ASSUME ready' \in Seq(Handles), getters' \in Seq(Tasks \cup {0}),
             get' \in [Tasks -> {"none", "done", "stopped", "stoppedWoken"} \cup Stoppable],
             waiter' \in {"none", "pending", "done", "cancelled"}
      PROVE  TypeOK'
  <2>1. landed' \in 0 .. MaxFrames /\ queue' \in Seq(Frames)
    BY <1>1, <1>2, AppendProperties DEF TypeOK, Frames
  <2>2. UNCHANGED <<pc, op, answer, given>>
    BY <1>1 DEF calls
  <2> QED
    BY <1>1, <1>9, <2>1, <2>2 DEF TypeOK
<1>10. CASE /\ ~(slot # 0 /\ get[slot] = "waiting") /\ ~(~watched /\ waiter = "pending")
            /\ Soon(<<>>) /\ UNCHANGED <<getters, get, waiter>>
  <2>1. /\ ready' \in Seq(Handles) /\ Once(ready')
        /\ \A h : Holds(ready', h) => Holds(ready, h)
        /\ ~Holds(ready', <<"frame", n>>)
        /\ \A h : Holds(ready, h) /\ h # <<"frame", n>> => Holds(ready', h)
        /\ \A a, b : Before(ready, a, b) => Before(ready', a, b)
    BY <1>1, <1>10, PopHandle DEF Nothing
  <2>2. TypeOK' /\ Numbered'
    BY <1>1, <1>4, <1>9, <1>10, <2>1 DEF TypeOK
  <2>3. Suspended' /\ Dropped' /\ Plain'
    BY <1>1, <1>10 DEF Suspended, Dropped, Plain, calls
  <2>4. Scheduled'
    BY <1>1, <1>10, <2>1 DEF Scheduled
  <2>5. Ordered'
    BY <1>1, <1>8, <1>10, <2>1 DEF Ordered
  <2> QED
    BY <1>3, <2>2, <2>3, <2>4, <2>5
<1>11. CASE /\ slot # 0 /\ get[slot] = "waiting"
            /\ getters' = <<>> /\ get' = [get EXCEPT ![slot] = "woken"]
            /\ Soon(<<<<"get", slot>>>>) /\ UNCHANGED waiter
  <2>1. /\ slot \in Tasks /\ <<"get", slot>> \in Handles /\ queue = <<>>
        /\ get'[slot] = "woken" /\ \A t \in Tasks \ {slot} : get'[t] = get[t]
        /\ get' \in [Tasks -> {"none", "done", "stopped", "stoppedWoken"} \cup Stoppable]
    BY <1>11 DEF TypeOK, Handles, Stoppable, Ordered
  <2>2. ~Holds(ready, <<"get", slot>>)
    BY <1>11, <2>1 DEF Scheduled
  <2>3. /\ ready' \in Seq(Handles) /\ Once(ready')
        /\ \A h : Holds(ready', h) => Holds(ready, h) \/ h = <<"get", slot>>
        /\ ~Holds(ready', <<"frame", n>>)
        /\ \A h : Holds(ready, h) /\ h # <<"frame", n>> => Holds(ready', h)
        /\ Holds(ready', <<"get", slot>>)
        /\ \A a, b : Before(ready, a, b) /\ a # <<"get", slot>> => Before(ready', a, b)
    BY <1>1, <1>11, <2>1, <2>2, PopPush DEF Nothing
  <2>4. TypeOK' /\ Numbered'
    <3>1. getters' \in Seq(Tasks \cup {0})
      BY <1>11
    <3>2. TypeOK'
      BY <1>9, <1>11, <2>1, <2>3, <3>1 DEF TypeOK
    <3>3. Numbered'
      BY <1>1, <1>4, <1>11, <2>1, <2>3
    <3> QED
      BY <3>2, <3>3
  <2>5. Suspended' /\ Dropped' /\ Plain'
    BY <1>1, <1>11, <2>1 DEF Suspended, Dropped, Plain, calls, Stoppable
  <2>6. Scheduled'
    BY <1>1, <1>11, <2>1, <2>3 DEF Scheduled
  <2>7. drop # "new" /\ ~Late
    BY <1>7, <1>11, <2>1 DEF Late
  <2>8. ~Holds(ready', <<"drop", slot>>) \/ dropped
    BY <2>1, <2>3, <2>7 DEF Scheduled, Dropped
  <2>9. Ordered'
    <3>1. Late' => ~dropped
      BY <1>5, <2>7
    <3>2. ASSUME Late' PROVE drop # "done" /\ Before(ready', <<"get", slot>>, <<"drop", slot>>)
      BY <2>8, <3>1, <3>2, Absent DEF Dropped
    <3> QED
      BY <1>1, <2>1, <2>7, <3>2 DEF Ordered
  <2> QED
    BY <1>3, <2>4, <2>5, <2>6, <2>9
<1>12. CASE /\ slot = 0 /\ ~watched /\ waiter = "pending"
            /\ getters' = <<>> /\ waiter' = "done"
            /\ Soon(<<<<"reader", 0>>>>) /\ UNCHANGED get
  <2>1. <<"reader", 0>> \in Handles /\ ~Holds(ready, <<"reader", 0>>)
    BY <1>12 DEF Handles, Scheduled
  <2>2. /\ ready' \in Seq(Handles) /\ Once(ready')
        /\ \A h : Holds(ready', h) => Holds(ready, h) \/ h = <<"reader", 0>>
        /\ ~Holds(ready', <<"frame", n>>)
        /\ \A h : Holds(ready, h) /\ h # <<"frame", n>> => Holds(ready', h)
        /\ \A a, b : Before(ready, a, b) /\ a # <<"reader", 0>> => Before(ready', a, b)
    BY <1>1, <1>12, <2>1, PopPush DEF Nothing
  <2>3. TypeOK' /\ Numbered'
    <3>1. getters' \in Seq(Tasks \cup {0})
      BY <1>12
    <3>2. TypeOK'
      BY <1>9, <1>12, <2>2, <3>1 DEF TypeOK
    <3>3. Numbered'
      BY <1>1, <1>4, <1>12, <2>2
    <3> QED
      BY <3>2, <3>3
  <2>4. Suspended' /\ Dropped' /\ Plain' /\ Ordered'
    BY <1>1, <1>12 DEF Suspended, Dropped, Plain, Ordered, calls
  <2>5. Scheduled'
    BY <1>1, <1>12, <2>2 DEF Scheduled
  <2> QED
    BY <1>3, <2>3, <2>4, <2>5
<1> QED
  BY <1>10, <1>11, <1>12, Wakes DEF OnNotify

-----------------------------------------------------------------------------
(* The other callbacks *)

\* The link's drop sets the event.
LEMMA DisconnectStep ==
    ASSUME IInv, OnDisconnect
    PROVE  IInv'
<1> USE DEF IInv
<1>1. /\ Runs("gone", 0) /\ ready \in Seq(Handles) /\ Once(ready)
      /\ dropped' = TRUE /\ droppedAt' = landed /\ landed \in 0 .. MaxFrames
      /\ UNCHANGED <<watched, landed, queue, getters, get, got, slot, waiter, doomed, bound, calls>>
  BY DEF OnDisconnect, TypeOK, Scheduled
<1>2. Holds(ready, <<"gone", 0>>) /\ watched /\ ~dropped
  BY <1>1, Turn DEF Scheduled
<1>3. Called' /\ Plain'
  BY <1>1 DEF Called, Plain, calls
<1>4. Late' /\ slot # 0 /\ get[slot] \in {"new", "woken"} =>
          Before(ready, <<"get", slot>>, <<"drop", slot>>)
  BY <1>1, <1>2 DEF Late, Ordered
<1>5. CASE drop = "waiting"
  <2>1. slot \in Tasks /\ <<"drop", slot>> \in Handles /\ drop' = "woken"
        /\ Soon(<<<<"drop", slot>>>>) /\ ~Holds(ready, <<"drop", slot>>)
    BY <1>5 DEF OnDisconnect, Suspended, TypeOK, Handles, Scheduled
  <2>2. /\ ready' \in Seq(Handles) /\ Once(ready')
        /\ \A h : Holds(ready', h) => Holds(ready, h) \/ h = <<"drop", slot>>
        /\ ~Holds(ready', <<"gone", 0>>)
        /\ \A h : Holds(ready, h) /\ h # <<"gone", 0>> => Holds(ready', h)
        /\ Holds(ready', <<"drop", slot>>)
        /\ \A a, b : Before(ready, a, b) /\ a # <<"drop", slot>> => Before(ready', a, b)
    BY <1>1, <2>1, PopPush DEF Nothing
  <2>3. TypeOK'
    BY <1>1, <2>1, <2>2 DEF TypeOK, calls
  <2>4. Suspended' /\ Dropped'
    BY <1>1, <1>2, <1>5, <2>1 DEF Suspended, Dropped, calls
  <2>5. Numbered'
    BY <1>1, <2>2, FramesStay DEF Numbered
  <2>6. Scheduled'
    BY <1>1, <1>5, <2>1, <2>2 DEF Scheduled
  <2>7. Ordered'
    BY <1>1, <1>4, <2>1, <2>2 DEF Ordered
  <2> QED
    BY <1>3, <2>3, <2>4, <2>5, <2>6, <2>7
<1>6. CASE drop # "waiting"
  <2>1. Soon(<<>>) /\ drop' = drop
    BY <1>6 DEF OnDisconnect
  <2>2. /\ ready' \in Seq(Handles) /\ Once(ready')
        /\ \A h : Holds(ready', h) => Holds(ready, h)
        /\ ~Holds(ready', <<"gone", 0>>)
        /\ \A h : Holds(ready, h) /\ h # <<"gone", 0>> => Holds(ready', h)
        /\ \A a, b : Before(ready, a, b) => Before(ready', a, b)
    BY <1>1, <2>1, PopHandle DEF Nothing
  <2>3. TypeOK'
    BY <1>1, <2>1, <2>2 DEF TypeOK, calls
  <2>4. Suspended' /\ Dropped'
    BY <1>1, <1>2, <2>1 DEF Suspended, Dropped, calls
  <2>5. Numbered'
    BY <1>1, <2>2, FramesStay DEF Numbered
  <2>6. Scheduled'
    BY <1>1, <2>1, <2>2 DEF Scheduled
  <2>7. Ordered'
    BY <1>1, <1>2, <1>4, <2>1, <2>2 DEF Ordered, Dropped
  <2> QED
    BY <1>3, <2>3, <2>4, <2>5, <2>6, <2>7
<1> QED
  BY <1>5, <1>6

\* A getter that leaves was the only one.
LEMMA LeavesNone ==
    ASSUME NEW g, NEW h, getters = <<g>>, LeaveGetters(h)
    PROVE  getters' = <<>>
<1>1. PICK i \in DOMAIN getters : getters' = RemoveAt(getters, i)
  BY DEF LeaveGetters
<1>2. i = 1 /\ Len(getters) = 1 /\ getters \in Seq({g})
  BY <1>1
<1>3. SubSeq(getters, 1, 0) = <<>> /\ SubSeq(getters, 2, 1) = <<>>
  BY <1>2, SubSeqEmpty
<1> QED
  BY <1>1, <1>2, <1>3 DEF RemoveAt

LEMMA TimeoutStep ==
    ASSUME IInv, OnTimeout
    PROVE  IInv'
<1> USE DEF IInv
<1>1. /\ Runs("timer", 0) /\ ready \in Seq(Handles) /\ Once(ready)
      /\ bound' = "expired" /\ UNCHANGED <<link, queue, tasks, calls>>
  BY DEF OnTimeout, TypeOK, Scheduled
<1>2. Called'
  <2>1. Holds(ready, <<"timer", 0>>)
    BY <1>1, Turn
  <2>2. bound = "due"
    BY <2>1 DEF Scheduled
  <2> QED
    BY <1>1, <2>2 DEF Called, calls
<1>3. Late' = Late
  BY <1>1 DEF Late, link
<1>4. CASE waiter = "pending"
  <2>1. /\ waiter' = "cancelled" /\ Soon(<<<<"reader", 0>>>>) /\ doomed' = doomed
        /\ <<"reader", 0>> \in Handles /\ ~Holds(ready, <<"reader", 0>>)
    BY <1>4 DEF OnTimeout, Handles, Scheduled
  <2>2. getters' = IF watched THEN getters ELSE <<>>
    <3>1. ~watched => getters = <<0>>
      BY <1>4 DEF Suspended
    <3> QED
      BY <1>4, <3>1, LeavesNone DEF OnTimeout
  <2>3. /\ ready' \in Seq(Handles) /\ Once(ready')
        /\ \A h : Holds(ready', h) => Holds(ready, h) \/ h = <<"reader", 0>>
        /\ ~Holds(ready', <<"timer", 0>>)
        /\ \A h : Holds(ready, h) /\ h # <<"timer", 0>> => Holds(ready', h)
        /\ \A a, b : Before(ready, a, b) /\ a # <<"reader", 0>> => Before(ready', a, b)
    BY <1>1, <2>1, PopPush DEF Nothing
  <2>4. TypeOK'
    <3>1. getters' \in Seq(Tasks \cup {0})
      BY <2>2 DEF TypeOK
    <3> QED
      BY <1>1, <2>1, <2>3, <3>1 DEF TypeOK, calls, link, tasks
  <2>5. Suspended' /\ Dropped' /\ Plain'
    BY <1>1, <1>4, <2>1, <2>2 DEF Suspended, Dropped, Plain, calls, link, tasks
  <2>6. Numbered'
    BY <1>1, <2>3, FramesStay DEF Numbered, link, tasks
  <2>7. Scheduled'
    BY <1>1, <2>1, <2>3 DEF Scheduled, link, tasks
  <2>8. Ordered'
    BY <1>1, <1>3, <2>1, <2>3 DEF Ordered, tasks
  <2> QED
    BY <1>2, <2>4, <2>5, <2>6, <2>7, <2>8
<1>5. CASE waiter # "pending"
  <2>1. doomed' = TRUE /\ Soon(<<>>) /\ UNCHANGED <<waiter, getters>>
    BY <1>5 DEF OnTimeout
  <2>2. /\ ready' \in Seq(Handles) /\ Once(ready')
        /\ \A h : Holds(ready', h) => Holds(ready, h)
        /\ ~Holds(ready', <<"timer", 0>>)
        /\ \A h : Holds(ready, h) /\ h # <<"timer", 0>> => Holds(ready', h)
        /\ \A a, b : Before(ready, a, b) => Before(ready', a, b)
    BY <1>1, <2>1, PopHandle DEF Nothing
  <2>3. TypeOK'
    BY <1>1, <2>1, <2>2 DEF TypeOK, calls, link, tasks
  <2>4. Suspended' /\ Dropped' /\ Plain'
    BY <1>1, <2>1 DEF Suspended, Dropped, Plain, calls, link, tasks
  <2>5. Numbered'
    BY <1>1, <2>2, FramesStay DEF Numbered, link, tasks
  <2>6. Scheduled'
    BY <1>1, <2>1, <2>2 DEF Scheduled, link, tasks
  <2>7. Ordered'
    BY <1>1, <1>3, <2>1, <2>2 DEF Ordered, tasks
  <2> QED
    BY <1>2, <2>3, <2>4, <2>5, <2>6, <2>7
<1> QED
  BY <1>4, <1>5

\* A cancelled handle goes, and nothing else changes.
LEMMA PassOverStep ==
    ASSUME IInv, PassOver
    PROVE  IInv'
<1> USE DEF IInv
<1>1. /\ Runs("cancelled", 0) /\ Soon(<<>>) /\ ready \in Seq(Handles) /\ Once(ready)
      /\ UNCHANGED <<link, queue, getters, tasks, waiter, doomed, bound, calls>>
  BY DEF PassOver, TypeOK, Scheduled
<1>2. /\ ready' \in Seq(Handles) /\ Once(ready')
      /\ \A h : Holds(ready', h) => Holds(ready, h)
      /\ \A h : Holds(ready, h) /\ h # <<"cancelled", 0>> => Holds(ready', h)
      /\ \A a, b : Before(ready, a, b) => Before(ready', a, b)
  BY <1>1, PopHandle
<1>3. TypeOK'
  BY <1>1, <1>2 DEF TypeOK, calls, link, tasks
<1>4. Called' /\ Suspended' /\ Dropped' /\ Plain'
  BY <1>1 DEF Called, Suspended, Dropped, Plain, calls, link, tasks
<1>5. Numbered'
  BY <1>1, <1>2, FramesStay DEF Numbered, link, tasks
<1>6. Scheduled'
  BY <1>1, <1>2 DEF Scheduled, link, tasks
<1>7. Late' = Late
  BY <1>1 DEF Late, link
<1>8. Ordered'
  BY <1>1, <1>2, <1>7 DEF Ordered, tasks
<1> QED
  BY <1>3, <1>4, <1>5, <1>6, <1>8

-----------------------------------------------------------------------------
(* Steps of the tasks *)

\* A get task takes a frame or waits for one: it is that of the wait.
LEMMA GetStepStep ==
    ASSUME IInv, NEW s \in Tasks, GetStep(s)
    PROVE  IInv'
<1> USE DEF IInv
<1>1. /\ Runs("get", s) /\ get[s] \in {"new", "woken"} /\ ready \in Seq(Handles) /\ Once(ready)
      /\ UNCHANGED <<link, drop, slot, waiter, doomed, bound, calls>>
  BY DEF GetStep, TypeOK, Scheduled
<1> s = slot /\ slot # 0
  <2>1. s = slot
    BY <1>1 DEF Suspended
  <2> QED
    BY <2>1
<1>2. ~Holds(ready, <<"getDone", s>>) /\ <<"getDone", s>> \in Handles
  BY <1>1 DEF Scheduled, Handles
<1>3. /\ \A a : Holds(ready, a) => ~Before(ready, a, <<"get", s>>)
      /\ Holds(ready, <<"get", s>>)
  BY <1>1, Turn
<1>4. Called'
  BY <1>1 DEF Called, calls
<1>5. CASE queue # <<>>
  <2>1. /\ got' = [got EXCEPT ![s] = queue[1]] /\ queue' = Tail(queue)
        /\ get' = [get EXCEPT ![s] = "done"] /\ getters' = getters
        /\ Soon(<<<<"getDone", s>>>>)
    BY <1>5 DEF GetStep, TypeOK
  <2>2. queue \in Seq(Frames) /\ queue[1] \in Frames /\ queue[1] \in 1 .. landed /\ landed \in Nat
    BY <1>5, EmptySeq DEF TypeOK, Numbered
  <2>3. /\ queue' \in Seq(Frames) /\ \A i \in DOMAIN queue' : queue'[i] \in 1 .. landed
    <3>1. /\ queue' \in Seq(Frames) /\ DOMAIN queue' = 1 .. Len(queue) - 1
          /\ \A i \in 1 .. Len(queue) - 1 : queue'[i] = queue[i + 1]
          /\ DOMAIN queue = 1 .. Len(queue) /\ Len(queue) \in Nat
      BY <1>5, <2>1, <2>2, HeadTailProperties
    <3>2. \A i \in 1 .. Len(queue) - 1 : i + 1 \in DOMAIN queue
      BY <3>1
    <3> QED
      BY <3>1, <3>2 DEF Numbered
  <2>4. /\ get'[s] = "done" /\ \A t \in Tasks \ {s} : get'[t] = get[t]
        /\ got'[s] = queue[1] /\ got' \in [Tasks -> 0 .. MaxFrames]
        /\ get' \in [Tasks -> {"none", "done", "stopped", "stoppedWoken"} \cup Stoppable]
    <3>1. /\ get \in [Tasks -> {"none", "done", "stopped", "stoppedWoken"} \cup Stoppable]
          /\ got \in [Tasks -> 0 .. MaxFrames]
      BY DEF TypeOK
    <3>2. /\ get'[s] = "done" /\ \A t \in Tasks \ {s} : get'[t] = get[t]
          /\ get' \in [Tasks -> {"none", "done", "stopped", "stoppedWoken"} \cup Stoppable]
      BY <2>1, <3>1
    <3>3. got'[s] = queue[1] /\ got' \in [Tasks -> 0 .. MaxFrames]
      BY <2>1, <2>2, <3>1
    <3> QED
      BY <3>2, <3>3
  <2>5. /\ ready' \in Seq(Handles) /\ Once(ready')
        /\ \A h : Holds(ready', h) => Holds(ready, h) \/ h = <<"getDone", s>>
        /\ ~Holds(ready', <<"get", s>>)
        /\ \A h : Holds(ready, h) /\ h # <<"get", s>> => Holds(ready', h)
        /\ Holds(ready', <<"getDone", s>>)
        /\ \A a, b : Before(ready, a, b) /\ a # <<"getDone", s>> => Before(ready', a, b)
    <3>1. <<"get", s>> # Nothing
      BY DEF Nothing
    <3> QED
      BY <1>1, <1>2, <2>1, <3>1, PopPush
  <2>6. TypeOK'
    <3>1. /\ UNCHANGED <<watched, dropped, landed, droppedAt>>
          /\ UNCHANGED <<drop, slot, waiter, doomed, bound>>
      BY <1>1 DEF link
    <3>2. UNCHANGED <<pc, op, answer, given>>
      BY <1>1 DEF calls
    <3>3. getters' \in Seq(Tasks \cup {0})
      BY <2>1 DEF TypeOK
    <3>4. /\ get' \in [Tasks -> {"none", "done", "stopped", "stoppedWoken"} \cup Stoppable]
          /\ got' \in [Tasks -> 0 .. MaxFrames]
      BY <2>4
    <3>5. ready' \in Seq(Handles) /\ queue' \in Seq(Frames)
      BY <2>3, <2>5
    <3>6. TypeOK
      OBVIOUS
    <3> HIDE DEF IInv
    <3>7. /\ (watched \in BOOLEAN /\ dropped \in BOOLEAN /\ landed \in 0 .. MaxFrames)'
          /\ (droppedAt \in 0 .. MaxFrames \cup {Never})'
      BY <3>1, <3>6 DEF TypeOK
    <3>8. /\ (drop \in {"none", "new", "waiting", "woken", "done"})'
          /\ (slot \in Tasks \cup {0} /\ waiter \in {"none", "pending", "done", "cancelled"})'
          /\ (doomed \in BOOLEAN /\ bound \in {"none", "armed", "due", "expired"})'
      BY <3>1, <3>6 DEF TypeOK
    <3>9. /\ (pc \in {"idle", "calling", "gathering", "request", "writing", "waiting"})'
          /\ (op \in {"next", "wait_for", "next_burst", "gap"} /\ given \in 0 .. MaxFrames)'
          /\ (answer \in {"none", "pending", "partial", "requesting",
                          "reply", "timeout", "dropped", "failed"})'
      BY <3>2, <3>6 DEF TypeOK
    <3> QED
      BY <3>3, <3>4, <3>5, <3>7, <3>8, <3>9 DEF TypeOK
  <2>7. Suspended' /\ Dropped' /\ Plain'
    BY <1>1, <1>5, <2>1, <2>4 DEF Suspended, Dropped, Plain, calls, link, Stoppable
  <2>8. Numbered'
    BY <1>1, <2>2, <2>3, <2>4, <2>5, FramesStay DEF Numbered, link
  <2>9. Scheduled'
    BY <1>1, <2>1, <2>4, <2>5 DEF Scheduled, link
  <2>10. Ordered'
    BY <1>1, <1>3, <2>4, <2>5 DEF Ordered
  <2> QED
    BY <1>4, <2>6, <2>7, <2>8, <2>9, <2>10
<1>6. CASE queue = <<>>
  <2>1. /\ get' = [get EXCEPT ![s] = "waiting"] /\ getters' = Append(getters, s)
        /\ Soon(<<>>) /\ UNCHANGED <<got, queue>>
    BY <1>6 DEF GetStep
  <2>2. getters = <<>> /\ getters' = <<s>> /\ getters' \in Seq(Tasks \cup {0})
    <3>1. getters = <<>>
      BY <1>1 DEF Suspended
    <3> QED
      BY <2>1, <3>1
  <2>3. /\ get'[s] = "waiting" /\ \A t \in Tasks \ {s} : get'[t] = get[t]
        /\ get' \in [Tasks -> {"none", "done", "stopped", "stoppedWoken"} \cup Stoppable]
    BY <2>1 DEF TypeOK, Stoppable
  <2>4. /\ ready' \in Seq(Handles) /\ Once(ready')
        /\ \A h : Holds(ready', h) => Holds(ready, h)
        /\ ~Holds(ready', <<"get", s>>)
        /\ \A h : Holds(ready, h) /\ h # <<"get", s>> => Holds(ready', h)
        /\ \A a, b : Before(ready, a, b) => Before(ready', a, b)
    BY <1>1, <2>1, PopHandle DEF Nothing
  <2>5. TypeOK'
    BY <1>1, <2>1, <2>2, <2>3, <2>4 DEF TypeOK, calls, link
  <2>6. Suspended' /\ Dropped' /\ Plain'
    BY <1>1, <1>6, <2>1, <2>2, <2>3 DEF Suspended, Dropped, Plain, calls, link, Stoppable
  <2>7. Numbered'
    BY <1>1, <2>1, <2>3, <2>4, FramesStay DEF Numbered, link
  <2>8. Scheduled'
    BY <1>1, <2>1, <2>3, <2>4 DEF Scheduled, link
  <2>9. Ordered'
    BY <1>1, <1>3, <1>6, <2>1, <2>3, <2>4 DEF Ordered, Late
  <2> QED
    BY <1>4, <2>5, <2>6, <2>7, <2>8, <2>9
<1> QED
  BY <1>5, <1>6

\* A cancelled get task ends; there is no getter to hand its wake-up to.
LEMMA GetStoppedStep ==
    ASSUME IInv, NEW s \in Tasks, GetStopped(s)
    PROVE  IInv'
<1> USE DEF IInv
<1>1. /\ Runs("get", s) /\ get[s] \in {"stopped", "stoppedWoken"}
      /\ ready \in Seq(Handles) /\ Once(ready)
      /\ UNCHANGED <<link, queue, got, drop, slot, waiter, doomed, bound, calls>>
  BY DEF GetStopped, TypeOK, Scheduled
<1> s # slot
  <2>1. slot # 0 => get[slot] \in {"new", "waiting", "woken", "done"}
    BY DEF Suspended, Stoppable
  <2> QED
    BY <1>1, <2>1
<1>2. queue = <<>> \/ getters = <<>>
  BY DEF Ordered, Suspended, Plain
<1>3. get' = [get EXCEPT ![s] = "none"] /\ Soon(<<>>) /\ getters' = getters
  BY <1>2 DEF GetStopped
<1>4. /\ get'[s] = "none" /\ \A t \in Tasks \ {s} : get'[t] = get[t]
      /\ slot # 0 => slot \in Tasks /\ get'[slot] = get[slot]
      /\ get' \in [Tasks -> {"none", "done", "stopped", "stoppedWoken"} \cup Stoppable]
  BY <1>1, <1>3 DEF TypeOK
<1>5. /\ ready' \in Seq(Handles) /\ Once(ready')
      /\ \A h : Holds(ready', h) => Holds(ready, h)
      /\ ~Holds(ready', <<"get", s>>)
      /\ \A h : Holds(ready, h) /\ h # <<"get", s>> => Holds(ready', h)
      /\ \A a, b : Before(ready, a, b) => Before(ready', a, b)
  BY <1>1, <1>3, PopHandle DEF Nothing
<1>6. TypeOK'
  BY <1>1, <1>3, <1>4, <1>5 DEF TypeOK, calls, link
<1>7. Called' /\ Suspended' /\ Dropped' /\ Plain'
  BY <1>1, <1>3, <1>4 DEF Called, Suspended, Dropped, Plain, calls, link
<1>8. Numbered'
  BY <1>1, <1>4, <1>5, FramesStay DEF Numbered, link
<1>9. Scheduled'
  BY <1>1, <1>3, <1>4, <1>5 DEF Scheduled, link
<1>10. Late' = Late
  BY <1>1 DEF Late, link
<1>11. Ordered'
  BY <1>1, <1>4, <1>5, <1>10 DEF Ordered
<1> QED
  BY <1>6, <1>7, <1>8, <1>9, <1>11

\* One of the two tasks is done: the reader's future is resolved, if it is not.
LEMMA DoneStep ==
    ASSUME IInv, NEW s \in Tasks, GetDone(s) \/ DropDone(s)
    PROVE  IInv'
<1> USE DEF IInv
<1>1. PICK w \in {"getDone", "dropDone"} : Runs(w, s)
  BY DEF GetDone, DropDone
<1>2. /\ ready \in Seq(Handles) /\ Once(ready) /\ Resolve(s)
      /\ UNCHANGED <<link, queue, getters, tasks, doomed, bound, calls>>
  BY DEF GetDone, DropDone, TypeOK, Scheduled
<1>3. s = slot /\ slot # 0 /\ (get[slot] = "done" \/ drop = "done")
  <2>1. Holds(ready, <<w, s>>)
    BY <1>1, <1>2, Turn
  <2>2. s = slot /\ (get[s] = "done" \/ drop = "done")
    BY <2>1 DEF Scheduled
  <2> QED
    BY <2>2
<1>4. Late' = Late
  BY <1>2 DEF Late, link
<1>5. CASE waiter = "pending"
  <2>1. /\ waiter' = "done" /\ Soon(<<<<"reader", 0>>>>)
        /\ <<"reader", 0>> \in Handles /\ ~Holds(ready, <<"reader", 0>>)
    BY <1>2, <1>3, <1>5 DEF Resolve, Handles, Scheduled
  <2>2. /\ ready' \in Seq(Handles) /\ Once(ready')
        /\ \A h : Holds(ready', h) => Holds(ready, h) \/ h = <<"reader", 0>>
        /\ ~Holds(ready', <<w, s>>)
        /\ \A h : Holds(ready, h) /\ h # <<w, s>> => Holds(ready', h)
        /\ \A a, b : Before(ready, a, b) /\ a # <<"reader", 0>> => Before(ready', a, b)
    BY <1>1, <1>2, <2>1, PopPush DEF Nothing
  <2>3. TypeOK'
    BY <1>2, <2>1, <2>2 DEF TypeOK, calls, link, tasks
  <2>4. Called' /\ Suspended' /\ Dropped' /\ Plain'
    BY <1>2, <1>3, <1>5, <2>1 DEF Called, Suspended, Dropped, Plain, calls, link, tasks
  <2>5. Numbered'
    BY <1>1, <1>2, <2>2, FramesStay DEF Numbered, link, tasks
  <2>6. Scheduled'
    BY <1>1, <1>2, <2>1, <2>2 DEF Scheduled, link, tasks
  <2>7. Ordered'
    BY <1>2, <1>4, <2>1, <2>2 DEF Ordered, tasks
  <2> QED
    BY <2>3, <2>4, <2>5, <2>6, <2>7
<1>6. CASE waiter # "pending"
  <2>1. Soon(<<>>) /\ waiter' = waiter
    BY <1>2, <1>6 DEF Resolve
  <2>2. /\ ready' \in Seq(Handles) /\ Once(ready')
        /\ \A h : Holds(ready', h) => Holds(ready, h)
        /\ \A h : Holds(ready, h) /\ h # <<w, s>> => Holds(ready', h)
        /\ \A a, b : Before(ready, a, b) => Before(ready', a, b)
    BY <1>1, <1>2, <2>1, PopHandle
  <2>3. TypeOK'
    BY <1>2, <2>1, <2>2 DEF TypeOK, calls, link, tasks
  <2>4. Called' /\ Suspended' /\ Dropped' /\ Plain'
    BY <1>2, <2>1 DEF Called, Suspended, Dropped, Plain, calls, link, tasks
  <2>5. Numbered'
    BY <1>1, <1>2, <2>2, FramesStay DEF Numbered, link, tasks
  <2>6. Scheduled'
    BY <1>1, <1>2, <2>1, <2>2 DEF Scheduled, link, tasks
  <2>7. Ordered'
    BY <1>2, <1>4, <2>1, <2>2 DEF Ordered, tasks
  <2> QED
    BY <2>3, <2>4, <2>5, <2>6, <2>7
<1> QED
  BY <1>5, <1>6

\* The drop task waits for the event, or sees it; the get task is before it
\* if there is a frame for it.
LEMMA DropStepStep ==
    ASSUME IInv, NEW s \in Tasks, DropStep(s)
    PROVE  IInv'
<1> USE DEF IInv
<1>1. /\ Runs("drop", s) /\ ready \in Seq(Handles) /\ Once(ready)
      /\ UNCHANGED <<link, queue, getters, get, got, slot, waiter, doomed, bound, calls>>
  BY DEF DropStep, TypeOK, Scheduled
<1>2. /\ \A a : Holds(ready, a) => ~Before(ready, a, <<"drop", s>>)
      /\ s = slot /\ slot # 0 /\ drop \in {"new", "woken"}
  <2>1. /\ \A a : Holds(ready, a) => ~Before(ready, a, <<"drop", s>>)
        /\ Holds(ready, <<"drop", s>>)
    BY <1>1, Turn
  <2>2. s = slot /\ drop \in {"new", "woken"}
    BY <2>1 DEF Scheduled
  <2> QED
    BY <2>1, <2>2
<1>3. get[slot] # "new" \/ drop = "woken"
  BY <1>2 DEF Ordered, Scheduled
<1>4. ~(Late /\ get[slot] \in {"new", "woken"})
  BY <1>2 DEF Ordered, Scheduled
<1>5. Late' = Late
  BY <1>1 DEF Late, link
<1>6. CASE dropped
  <2>1. /\ drop' = "done" /\ Soon(<<<<"dropDone", s>>>>)
        /\ <<"dropDone", s>> \in Handles /\ ~Holds(ready, <<"dropDone", s>>)
    BY <1>2, <1>6 DEF DropStep, Handles, Scheduled
  <2>2. /\ ready' \in Seq(Handles) /\ Once(ready')
        /\ \A h : Holds(ready', h) => Holds(ready, h) \/ h = <<"dropDone", s>>
        /\ ~Holds(ready', <<"drop", s>>)
        /\ \A h : Holds(ready, h) /\ h # <<"drop", s>> => Holds(ready', h)
        /\ Holds(ready', <<"dropDone", s>>)
        /\ \A a, b : Before(ready, a, b) /\ a # <<"dropDone", s>> => Before(ready', a, b)
    BY <1>1, <2>1, PopPush DEF Nothing
  <2>3. TypeOK'
    BY <1>1, <2>1, <2>2 DEF TypeOK, calls, link
  <2>4. Called' /\ Suspended' /\ Dropped' /\ Plain'
    BY <1>1, <1>2, <1>6, <2>1 DEF Called, Suspended, Dropped, Plain, calls, link
  <2>5. Numbered'
    BY <1>1, <2>2, FramesStay DEF Numbered, link
  <2>6. Scheduled'
    BY <1>1, <1>2, <2>1, <2>2 DEF Scheduled, link
  <2>7. Ordered'
    BY <1>1, <1>4, <1>5, <2>1 DEF Ordered
  <2> QED
    BY <2>3, <2>4, <2>5, <2>6, <2>7
<1>7. CASE ~dropped
  <2>1. drop' = "waiting" /\ Soon(<<>>)
    BY <1>7 DEF DropStep
  <2>2. /\ ready' \in Seq(Handles) /\ Once(ready')
        /\ \A h : Holds(ready', h) => Holds(ready, h)
        /\ ~Holds(ready', <<"drop", s>>)
        /\ \A h : Holds(ready, h) /\ h # <<"drop", s>> => Holds(ready', h)
        /\ \A a, b : Before(ready, a, b) => Before(ready', a, b)
    BY <1>1, <2>1, PopHandle DEF Nothing
  <2>3. TypeOK'
    BY <1>1, <2>1, <2>2 DEF TypeOK, calls, link
  <2>4. Called' /\ Suspended' /\ Dropped' /\ Plain'
    BY <1>1, <1>2, <2>1 DEF Called, Suspended, Dropped, Plain, calls, link
  <2>5. Numbered'
    BY <1>1, <2>2, FramesStay DEF Numbered, link
  <2>6. Scheduled'
    BY <1>1, <1>2, <2>1, <2>2 DEF Scheduled, link
  <2>7. Ordered'
    BY <1>1, <1>4, <1>5, <2>1 DEF Ordered
  <2> QED
    BY <2>3, <2>4, <2>5, <2>6, <2>7
<1> QED
  BY <1>6, <1>7

-----------------------------------------------------------------------------
(* What comes from outside *)

\* The next frame is the one behind those on the way.
LEMMA FrameStep ==
    ASSUME IInv, FrameArrives
    PROVE  IInv'
<1> USE DEF IInv
<1>1. PICK n \in Frames : n > landed /\ OnTheWay = landed + 1 .. n - 1 /\ Arrive(<<"frame", n>>)
  BY DEF FrameArrives
<1>2. /\ ready \in Seq(Handles) /\ Once(ready) /\ <<"frame", n>> \in Handles /\ landed \in Nat
      /\ ready' = Append(ready, <<"frame", n>>)
      /\ UNCHANGED <<link, queue, getters, tasks, waiter, doomed, bound, calls>>
  <2>1. ready \in Seq(Handles) /\ Once(ready) /\ landed \in Nat
    BY DEF TypeOK, Scheduled
  <2>2. <<"frame", n>> \in Handles
    BY DEF Handles
  <2>3. bound' = bound
    BY DEF FrameArrives
  <2> QED
    BY <1>1, <2>1, <2>2, <2>3 DEF Arrive
<1>3. \A k \in Frames : Holds(ready, <<"frame", k>>) <=> k \in landed + 1 .. n - 1
  <2>1. \A k \in Frames : Holds(ready, <<"frame", k>>) <=> k \in OnTheWay
    BY DEF Holds, OnTheWay, Range
  <2> QED
    BY <1>1, <2>1
<1>4. ~Holds(ready, <<"frame", n>>)
  BY <1>2, <1>3
<1>5. /\ ready' \in Seq(Handles) /\ Once(ready')
      /\ \A h : Holds(ready', h) <=> Holds(ready, h) \/ h = <<"frame", n>>
      /\ \A a, b : Before(ready, a, b) /\ a # <<"frame", n>> => Before(ready', a, b)
      /\ \A a : a # <<"frame", n>> => Before(ready', a, <<"frame", n>>)
  BY <1>2, <1>4, AppendHandles
<1>6. TypeOK'
  BY <1>2, <1>5 DEF TypeOK, calls, link, tasks
<1>7. Called' /\ Suspended' /\ Dropped' /\ Plain'
  BY <1>2 DEF Called, Suspended, Dropped, Plain, calls, link, tasks
<1>8. Numbered'
  <2>1. \A i \in DOMAIN queue' : queue'[i] \in 1 .. landed'
    BY <1>2 DEF Numbered, link
  <2>2. slot' # 0 /\ get'[slot'] = "done" => got'[slot'] \in 1 .. landed'
    BY <1>2 DEF Numbered, link, tasks
  <2>3. n \in landed' .. MaxFrames
        /\ \A k \in Frames : Holds(ready', <<"frame", k>>) <=> k \in landed' + 1 .. n
    BY <1>1, <1>2, <1>3, <1>5 DEF link
  <2>4. \A k, m \in Frames : k < m => Before(ready', <<"frame", k>>, <<"frame", m>>)
    <3> SUFFICES ASSUME NEW k \in Frames, NEW m \in Frames, k < m
                 PROVE  Before(ready', <<"frame", k>>, <<"frame", m>>)
      OBVIOUS
    <3>1. CASE k # n
      BY <1>5, <3>1 DEF Numbered
    <3>2. CASE k = n
      <4>1. ~Holds(ready', <<"frame", m>>)
        <5>1. m # n /\ m \notin landed + 1 .. n - 1
          BY <1>2, <3>2
        <5>2. <<"frame", m>> # <<"frame", n>>
          BY <5>1
        <5> QED
          BY <1>3, <1>5, <5>1, <5>2
      <4> QED
        BY <4>1, Absent
    <3> QED
      BY <3>1, <3>2
  <2> QED
    BY <2>1, <2>2, <2>3, <2>4 DEF Numbered
<1>9. Scheduled'
  BY <1>2, <1>5 DEF Scheduled, link, tasks
<1>10. Late' = Late
  BY <1>2 DEF Late, link
<1>11. Ordered'
  BY <1>2, <1>5, <1>10 DEF Ordered, tasks
<1> QED
  BY <1>6, <1>7, <1>8, <1>9, <1>11

\* The drop, or the clock, takes its place behind what is ready.
LEMMA EventStep ==
    ASSUME IInv, LinkDrops \/ TimerDue
    PROVE  IInv'
<1> USE DEF IInv
<1>1. PICK w \in {"gone", "timer"} :
          /\ ready' = Append(ready, <<w, 0>>) /\ ~Holds(ready, <<w, 0>>)
          /\ w = "gone" => watched /\ ~dropped /\ bound' = bound
          /\ w = "timer" => bound = "armed" /\ bound' = "due"
          /\ UNCHANGED <<link, queue, getters, tasks, waiter, doomed, calls>>
  <2>1. CASE LinkDrops
    BY <2>1 DEF LinkDrops, Arrive, Range, Holds
  <2>2. CASE TimerDue
    BY <2>2 DEF TimerDue, Arrive, Scheduled
  <2> QED
    BY <2>1, <2>2
<1>2. ready \in Seq(Handles) /\ Once(ready) /\ <<w, 0>> \in Handles
  BY DEF TypeOK, Scheduled, Handles
<1>3. /\ ready' \in Seq(Handles) /\ Once(ready')
      /\ \A h : Holds(ready', h) <=> Holds(ready, h) \/ h = <<w, 0>>
      /\ \A a, b : Before(ready, a, b) /\ a # <<w, 0>> => Before(ready', a, b)
  BY <1>1, <1>2, AppendHandles
<1>4. TypeOK'
  BY <1>1, <1>3 DEF TypeOK, calls, link, tasks
<1>5. Called' /\ Suspended' /\ Dropped' /\ Plain'
  BY <1>1 DEF Called, Suspended, Dropped, Plain, calls, link, tasks
<1>6. Numbered'
  BY <1>1, <1>3, FramesStay DEF Numbered, link, tasks
<1>7. Scheduled'
  BY <1>1, <1>3 DEF Scheduled, link, tasks
<1>8. Late' = Late
  BY <1>1 DEF Late, link
<1>9. Ordered'
  BY <1>1, <1>3, <1>8 DEF Ordered, tasks
<1> QED
  BY <1>4, <1>5, <1>6, <1>7, <1>9

-----------------------------------------------------------------------------
(* Steps of the reader that no await comes before *)

LEMMA NoWait ==
    ASSUME IInv, pc # "waiting"
    PROVE  slot = 0 /\ waiter = "none" /\ drop = "none" /\ getters = <<>>
BY DEF IInv, Suspended

\* Outside a wait only the call, the queue and a timer taken back change.
LEMMA AwayStep ==
    ASSUME IInv, pc # "waiting",
           pc' \in {"idle", "calling", "gathering", "request", "writing"},
           op' \in {"next", "wait_for", "next_burst", "gap"},
           answer' \in {"none", "pending", "partial", "requesting",
                        "reply", "timeout", "dropped", "failed"},
           given' \in 0 .. MaxFrames, Called', bound' \in {bound, "none"},
           queue' \in Seq(Frames), \A i \in DOMAIN queue' : queue'[i] \in 1 .. landed,
           Keep(ready), UNCHANGED <<link, getters, tasks, waiter, doomed>>
    PROVE  IInv'
<1> USE DEF IInv
<1>1. slot = 0 /\ waiter = "none" /\ drop = "none" /\ getters = <<>>
  BY NoWait
<1>2. ready \in Seq(Handles) /\ Once(ready)
  BY DEF TypeOK, Scheduled
<1>3. /\ ready' \in Seq(Handles) /\ Once(ready')
      /\ \A h : h # Nothing /\ Holds(ready', h) =>
                    Holds(ready, h) /\ (bound' = "none" => h # <<"timer", 0>>)
      /\ \A h : h # Nothing /\ Holds(ready, h) /\ h # <<"timer", 0>> => Holds(ready', h)
      /\ \A a, b : Before(ready, a, b) /\ a # Nothing /\ b # Nothing => Before(ready', a, b)
  BY <1>2, KeepHandles
<1>4. TypeOK'
  <2>1. bound' \in {"none", "armed", "due", "expired"}
    BY DEF TypeOK
  <2> QED
    BY <1>3, <2>1 DEF TypeOK, link, tasks
<1>5. Suspended' /\ Dropped' /\ Plain' /\ Ordered'
  BY <1>1 DEF Suspended, Dropped, Plain, Ordered, link, tasks
<1>6. Numbered'
  <2>1. /\ \A n \in Frames : Holds(ready', <<"frame", n>>) <=> Holds(ready, <<"frame", n>>)
        /\ \A m, n \in Frames : Before(ready, <<"frame", m>>, <<"frame", n>>) =>
                                    Before(ready', <<"frame", m>>, <<"frame", n>>)
    BY <1>3 DEF Nothing
  <2> QED
    BY <1>1, <2>1, FramesStay DEF link, tasks
<1>7. Scheduled'
  BY <1>1, <1>3 DEF Scheduled, Nothing, link, tasks
<1> QED
  BY <1>4, <1>5, <1>6, <1>7

\* A frame that _next() returns, or an end of it, leaves the call consistent.
LEMMA Delivered ==
    ASSUME IInv, pc \in {"calling", "waiting"}, NEW n \in Frames, Deliver(n)
    PROVE  /\ pc' \in {"idle", "calling", "gathering"}
           /\ op' \in {"next", "wait_for", "next_burst", "gap"}
           /\ answer' \in {"pending", "partial", "reply", "failed"}
           /\ given' \in 0 .. MaxFrames /\ bound' \in {bound, "none"} /\ Called'
<1>1. given' = n /\ op \in {"next", "wait_for", "next_burst", "gap"} /\ n \in 0 .. MaxFrames
  BY DEF Deliver, IInv, TypeOK
<1>2. answer = IF op = "gap" THEN "partial" ELSE "pending"
  BY DEF IInv, Called
<1> QED
  BY <1>1, <1>2 DEF Deliver, EndCall, WaitOn, Gather, Called

LEMMA Ended ==
    ASSUME IInv, pc \in {"calling", "waiting"}, SayDropped \/ SayTimeout
    PROVE  /\ pc' = "idle" /\ bound' = "none" /\ given' = given /\ op' = op
           /\ answer' \in {"reply", "timeout", "dropped"}
           /\ op' \in {"next", "wait_for", "next_burst", "gap"} /\ given' \in 0 .. MaxFrames
           /\ Called'
BY DEF SayDropped, SayTimeout, EndCall, IInv, TypeOK, Called

\* What is left when the first is read, or put back.
LEMMA QueueReads ==
    ASSUME IInv, queue # <<>>
    PROVE  /\ queue \in Seq(Frames) /\ Head(queue) \in Frames /\ Head(queue) = queue[1]
           /\ Tail(queue) \in Seq(Frames)
           /\ \A i \in DOMAIN Tail(queue) : Tail(queue)[i] \in 1 .. landed
<1>1. queue \in Seq(Frames) /\ \A i \in DOMAIN queue : queue[i] \in 1 .. landed
  BY DEF IInv, TypeOK, Numbered
<1>2. /\ Head(queue) \in Frames /\ Tail(queue) \in Seq(Frames) /\ Head(queue) = queue[1]
      /\ DOMAIN queue = 1 .. Len(queue) /\ Len(queue) \in Nat
      /\ DOMAIN Tail(queue) = 1 .. Len(queue) - 1
      /\ \A i \in 1 .. Len(queue) - 1 : Tail(queue)[i] = queue[i + 1]
  BY <1>1, HeadTailProperties
<1>3. \A i \in 1 .. Len(queue) - 1 : i + 1 \in DOMAIN queue
  BY <1>2
<1> QED
  BY <1>1, <1>2, <1>3

LEMMA ReadQueuedStep ==
    ASSUME IInv, ReadQueued
    PROVE  IInv'
<1>1. /\ pc = "calling" /\ queue # <<>> /\ queue' = Tail(queue) /\ Deliver(Head(queue))
      /\ Keep(ready) /\ UNCHANGED <<link, getters, tasks, waiter, doomed>>
  BY DEF ReadQueued
<1>2. /\ Head(queue) \in Frames /\ queue' \in Seq(Frames)
      /\ \A i \in DOMAIN queue' : queue'[i] \in 1 .. landed
  BY <1>1, QueueReads
<1> QED
  BY <1>1, <1>2, Delivered, AwayStep

LEMMA LinkIsGoneStep ==
    ASSUME IInv, LinkIsGone
    PROVE  IInv'
<1>1. /\ pc = "calling" /\ SayDropped /\ Keep(ready)
      /\ UNCHANGED <<link, queue, getters, tasks, waiter, doomed>>
  BY DEF LinkIsGone
<1>2. queue' \in Seq(Frames) /\ \A i \in DOMAIN queue' : queue'[i] \in 1 .. landed
  BY <1>1 DEF IInv, TypeOK, Numbered
<1> QED
  BY <1>1, <1>2, Ended, AwayStep

\* The rest of the reader's steps leave the handles alone.
LEMMA UnkeptStep ==
    ASSUME IInv, GatherBurst \/ StartRequest \/ Call \/ CallRequest
                     \/ WriteReturns \/ WriteFails \/ Clear
    PROVE  IInv'
<1> USE DEF IInv
<1>1. /\ pc \in {"idle", "gathering", "request", "writing"}
      /\ pc' \in {"idle", "calling", "gathering", "request", "writing"}
      /\ ready' = ready /\ UNCHANGED <<link, getters, tasks, waiter, doomed>>
      /\ queue' \in {queue, <<>>} /\ bound = "none" /\ bound' = "none"
  BY DEF Called, GatherBurst, StartRequest, Call, CallRequest, WriteReturns, WriteFails, Clear,
         EndCall, calls
<1>2. /\ op' \in {"next", "wait_for", "next_burst", "gap"}
      /\ answer' \in {"none", "pending", "partial", "requesting",
                      "reply", "timeout", "dropped", "failed"}
      /\ Called'
  BY DEF TypeOK, Called, GatherBurst, StartRequest, Call, CallRequest, WriteReturns, WriteFails,
         Clear, EndCall, calls
<1>3. queue \in Seq(Frames) /\ \A i \in DOMAIN queue : queue[i] \in 1 .. landed
  BY DEF TypeOK, Numbered
<1>4. given' \in 0 .. MaxFrames
  <2>1. CASE queue # <<>> /\ given' = Last(queue)
    <3>1. Len(queue) \in DOMAIN queue /\ Last(queue) = queue[Len(queue)]
      BY <1>3, <2>1 DEF Last
    <3> QED
      BY <1>3, <2>1, <3>1
  <2>2. CASE given' = given
    BY <2>2 DEF TypeOK
  <2> QED
    BY <2>1, <2>2 DEF GatherBurst, StartRequest, Call, CallRequest, WriteReturns, WriteFails,
                      Clear, calls
<1>5. queue' \in Seq(Frames) /\ \A i \in DOMAIN queue' : queue'[i] \in 1 .. landed
  <2>1. <<>> \in Seq(Frames) /\ DOMAIN <<>> = {}
    OBVIOUS
  <2>2. CASE queue' = <<>>
    BY <2>1, <2>2
  <2>3. CASE queue' = queue
    BY <1>3, <2>3
  <2> QED
    BY <1>1, <2>2, <2>3
<1>6. TypeOK'
  BY <1>1, <1>2, <1>4, <1>5 DEF TypeOK, link, tasks
<1>7. Suspended' /\ Dropped' /\ Plain' /\ Ordered'
  BY <1>1, NoWait DEF Suspended, Dropped, Plain, Ordered, link, tasks
<1>8. Numbered'
  BY <1>1, <1>5, NoWait, FramesStay DEF Numbered, link, tasks
<1>9. Scheduled'
  BY <1>1 DEF Scheduled, link, tasks
<1> QED
  BY <1>2, <1>6, <1>7, <1>8, <1>9

-----------------------------------------------------------------------------
(* The wait *)

\* A wait begins: its two tasks are scheduled, the get task first.
LEMMA StartWaitStep ==
    ASSUME IInv, StartWait
    PROVE  IInv'
<1> USE DEF IInv
<1>1. /\ pc = "calling" /\ queue = <<>> /\ ~dropped /\ pc' = "waiting" /\ waiter' = "pending"
      /\ bound' = IF bound = "none" THEN "armed" ELSE bound
      /\ UNCHANGED <<link, queue, doomed, op, answer, given>>
  BY DEF StartWait
<1>2. slot = 0 /\ waiter = "none" /\ drop = "none" /\ getters = <<>>
  BY <1>1, NoWait
<1>3. ready \in Seq(Handles) /\ Once(ready)
  BY DEF TypeOK, Scheduled
<1>4. Called'
  BY <1>1 DEF Called
<1>5. CASE watched
  <2>1. PICK s \in Tasks :
            /\ get[s] = "none" /\ slot' = s /\ get' = [get EXCEPT ![s] = "new"] /\ drop' = "new"
            /\ ready' = ready \o <<<<"get", s>>, <<"drop", s>>>>
            /\ UNCHANGED <<getters, got>>
    BY <1>1, <1>5 DEF StartWait
  <2> DEFINE g == <<"get", s>>
             d == <<"drop", s>>
             mid == Append(ready, g)
  <2>2. ready' = Append(mid, d)
    <3>1. g \in Handles /\ d \in Handles
      BY DEF Handles
    <3> HIDE DEF g, d
    <3>2. Append(mid, d) = (ready \o <<g>>) \o <<d>>
      <4>1. mid = ready \o <<g>> /\ mid \in Seq(Handles)
        BY <1>3, <3>1, AppendIsConcat, AppendProperties
      <4> HIDE DEF mid
      <4>2. Append(mid, d) = mid \o <<d>>
        BY <3>1, <4>1, AppendIsConcat
      <4> QED
        BY <4>1, <4>2
    <3>3. (ready \o <<g>>) \o <<d>> = ready \o (<<g>> \o <<d>>)
      BY <1>3, <3>1, ConcatAssociative
    <3>4. <<g>> \o <<d>> = <<g, d>>
      <4>1. <<g>> \in Seq(Handles) /\ <<d>> \in Seq(Handles) /\ <<g, d>> \in Seq(Handles)
        BY <3>1
      <4>2. /\ <<g>> \o <<d>> \in Seq(Handles) /\ Len(<<g>> \o <<d>>) = 2
            /\ (<<g>> \o <<d>>)[1] = g /\ (<<g>> \o <<d>>)[2] = d
        BY <4>1, ConcatProperties
      <4>3. /\ Len(<<g, d>>) = 2
            /\ \A i \in 1 .. 2 : (<<g>> \o <<d>>)[i] = <<g, d>>[i]
        <5>1. \A i \in 1 .. 2 : i = 1 \/ i = 2
          OBVIOUS
        <5> QED
          BY <4>2, <5>1
      <4> DEFINE both == <<g>> \o <<d>>
                 pair == <<g, d>>
      <4>4. /\ both \in Seq(Handles) /\ pair \in Seq(Handles) /\ Len(both) = 2 /\ Len(pair) = 2
            /\ \A i \in 1 .. 2 : both[i] = pair[i]
        BY <4>1, <4>2, <4>3
      <4> HIDE DEF both, pair
      <4>5. both = pair
        BY <4>4, SeqEqual
      <4> QED
        BY <4>5 DEF both, pair
    <3> QED
      BY <2>1, <3>2, <3>3, <3>4 DEF g, d
  <2>3. ~Holds(ready, g) /\ ~Holds(ready, d)
    BY <1>2, <2>1 DEF Scheduled
  <2>4. g \in Handles /\ d \in Handles /\ g # d
    BY DEF Handles
  <2> HIDE DEF g, d
  <2>5. /\ mid \in Seq(Handles) /\ Once(mid)
        /\ \A h : Holds(mid, h) <=> Holds(ready, h) \/ h = g
        /\ \A a, b : Before(ready, a, b) /\ a # g => Before(mid, a, b)
        /\ \A a : a # g => Before(mid, a, g)
    BY <1>3, <2>3, <2>4, AppendHandles
  <2> HIDE DEF mid
  <2>6. /\ ready' \in Seq(Handles) /\ Once(ready')
        /\ \A h : Holds(ready', h) <=> Holds(ready, h) \/ h = g \/ h = d
        /\ \A a, b : Before(ready, a, b) /\ a # g /\ a # d => Before(ready', a, b)
        /\ \A a : a # g /\ a # d => Before(ready', a, g)
        /\ Before(ready', g, d)
    BY <2>2, <2>3, <2>4, <2>5, AppendHandles
  <2> USE DEF g, d
  <2>7. /\ get'[s] = "new" /\ \A t \in Tasks \ {s} : get'[t] = get[t]
        /\ get' \in [Tasks -> {"none", "done", "stopped", "stoppedWoken"} \cup Stoppable]
    BY <2>1 DEF TypeOK, Stoppable
  <2>8. TypeOK'
    BY <1>1, <2>1, <2>6, <2>7 DEF TypeOK, link
  <2>9. Suspended'
    BY <1>1, <1>2, <1>5, <2>1, <2>7 DEF Suspended, Stoppable, link
  <2>10. Dropped' /\ Plain'
    BY <1>1, <1>2, <1>5, <2>1, <2>7 DEF Dropped, Plain, link
  <2>11. Numbered'
    BY <1>1, <2>1, <2>6, <2>7, FramesStay DEF Numbered, link
  <2>12. Scheduled'
    <3>1. ASSUME NEW t \in Tasks
          PROVE  /\ Holds(ready', <<"get", t>>) =>
                        get'[t] \in {"new", "woken", "stopped", "stoppedWoken"}
                 /\ get'[t] \in {"new", "woken"} => Holds(ready', <<"get", t>>)
      BY <2>6, <2>7 DEF Scheduled
    <3>2. ASSUME NEW t \in Tasks
          PROVE  /\ Holds(ready', <<"drop", t>>) => t = slot' /\ drop' = "new"
                 /\ ~Holds(ready', <<"getDone", t>>) /\ ~Holds(ready', <<"dropDone", t>>)
      <4>1. ~Holds(ready, <<"drop", t>>) /\ ~Holds(ready, <<"getDone", t>>)
            /\ ~Holds(ready, <<"dropDone", t>>)
        <5>1. t # slot
          BY <1>2
        <5> QED
          BY <5>1 DEF Scheduled
      <4> QED
        BY <2>1, <2>6, <4>1
    <3>3. Holds(ready', <<"drop", slot'>>)
      BY <2>1, <2>6
    <3>4. /\ Holds(ready', <<"gone", 0>>) => watched /\ ~dropped
          /\ Holds(ready', <<"timer", 0>>) => bound' = "due"
          /\ ~Holds(ready', <<"reader", 0>>)
      BY <1>1, <1>2, <2>6 DEF Scheduled
    <3> QED
      BY <1>1, <2>1, <2>6, <3>1, <3>2, <3>3, <3>4 DEF Scheduled, link
  <2>13. Ordered'
    BY <1>1, <2>1, <2>6, <2>7 DEF Ordered, Late, link
  <2> QED
    BY <1>4, <2>8, <2>9, <2>10, <2>11, <2>12, <2>13
<1>6. CASE ~watched
  <2>1. getters' = <<0>> /\ UNCHANGED <<tasks, ready>>
    BY <1>1, <1>2, <1>6 DEF StartWait
  <2>2. TypeOK'
    <3>1. getters' \in Seq(Tasks \cup {0})
      BY <2>1
    <3> QED
      BY <1>1, <2>1, <3>1 DEF TypeOK, link, tasks
  <2>3. Suspended' /\ Dropped' /\ Plain' /\ Ordered'
    BY <1>1, <1>2, <1>6, <2>1 DEF Suspended, Dropped, Plain, Ordered, link, tasks
  <2>4. Numbered'
    BY <1>1, <2>1, FramesStay DEF Numbered, link, tasks
  <2>5. Scheduled'
    BY <1>1, <1>2, <2>1 DEF Scheduled, link, tasks
  <2> QED
    BY <1>4, <2>2, <2>3, <2>4, <2>5
<1> QED
  BY <1>5, <1>6

\* What a wait leaves: its tasks and handles are not there any more, but for a
\* get task that is to stop.
Cleared == /\ waiter' = "none" /\ doomed' = FALSE /\ drop' = "none" /\ slot' = 0
           /\ getters' = <<>> /\ get' \in [Tasks -> {"none", "stopped", "stoppedWoken"}]
           /\ ready' \in Seq(Handles) /\ Once(ready')
           /\ \A h : h # Nothing /\ Holds(ready', h) =>
                  /\ Holds(ready, h) \/ (slot # 0 /\ h = <<"get", slot>>)
                  /\ h # <<"reader", 0>> /\ h \notin OfWait
                  /\ bound' = "none" => h # <<"timer", 0>>
           /\ \A t \in Tasks : Holds(ready', <<"get", t>>) => get'[t] # "none"
           /\ \A h : h # Nothing /\ Holds(ready, h) /\ h \notin OfWait
                       /\ h \notin {<<"timer", 0>>, <<"reader", 0>>} => Holds(ready', h)
           /\ \A a, b : Before(ready, a, b) /\ a # Nothing /\ b # Nothing /\ a # <<"get", slot>> =>
                            Before(ready', a, b)

\* A wait is over.
LEMMA OverStep ==
    ASSUME IInv, pc = "waiting", pc' \in {"idle", "calling", "gathering"},
           op' \in {"next", "wait_for", "next_burst", "gap"},
           answer' \in {"pending", "partial", "reply", "timeout", "dropped", "failed"},
           given' \in 0 .. MaxFrames, Called', bound' \in {bound, "none"},
           queue' \in Seq(Frames), \A i \in DOMAIN queue' : queue'[i] \in 1 .. landed,
           UNCHANGED <<link, got>>, Cleared
    PROVE  IInv'
<1> USE DEF IInv, Cleared
<1>1. TypeOK'
  <2>1. /\ get' \in [Tasks -> {"none", "done", "stopped", "stoppedWoken"} \cup Stoppable]
        /\ getters' \in Seq(Tasks \cup {0})
    OBVIOUS
  <2>2. bound' \in {"none", "armed", "due", "expired"} /\ UNCHANGED link /\ got' = got
    BY DEF TypeOK
  <2> QED
    BY <2>1, <2>2 DEF TypeOK, link
<1>2. Suspended' /\ Plain' /\ Ordered'
  BY DEF Suspended, Plain, Ordered
<1>3. Dropped'
  BY DEF Dropped, link
<1>4. Numbered'
  <2>1. /\ \A n \in Frames : Holds(ready', <<"frame", n>>) <=> Holds(ready, <<"frame", n>>)
        /\ \A m, n \in Frames : Before(ready, <<"frame", m>>, <<"frame", n>>) =>
                                    Before(ready', <<"frame", m>>, <<"frame", n>>)
    <3>1. ASSUME NEW n \in Frames
          PROVE  /\ <<"frame", n>> # Nothing /\ <<"frame", n>> \notin OfWait
                 /\ <<"frame", n>> # <<"get", slot>>
                 /\ <<"frame", n>> \notin {<<"timer", 0>>, <<"reader", 0>>}
      BY DEF Nothing, OfWait
    <3> QED
      BY <3>1
  <2> QED
    BY <2>1, FramesStay DEF link
<1>5. Scheduled'
  <2>1. ASSUME NEW s \in Tasks
        PROVE  /\ Holds(ready', <<"get", s>>) => get'[s] \in {"stopped", "stoppedWoken"}
               /\ \A w \in {"getDone", "drop", "dropDone"} : ~Holds(ready', <<w, s>>)
               /\ get'[s] \notin {"new", "woken"}
    <3>1. Holds(ready', <<"get", s>>) => get'[s] \in {"stopped", "stoppedWoken"}
      OBVIOUS
    <3>2. ASSUME NEW w \in {"getDone", "drop", "dropDone"} PROVE ~Holds(ready', <<w, s>>)
      <4> SUFFICES ASSUME Holds(ready', <<w, s>>) PROVE FALSE
        OBVIOUS
      <4>1. Holds(ready, <<w, s>>) /\ <<w, s>> \notin OfWait
        BY DEF Nothing
      <4>2. s = slot
        BY <4>1 DEF Scheduled
      <4> QED
        BY <4>1, <4>2 DEF OfWait
    <3> QED
      BY <3>1, <3>2
  <2>2. Holds(ready', <<"gone", 0>>) => watched /\ ~dropped
    BY DEF Scheduled, Nothing
  <2>3. Holds(ready', <<"timer", 0>>) => bound' = "due"
    BY DEF Scheduled, Nothing
  <2>4. ~Holds(ready', <<"reader", 0>>)
    BY DEF Nothing
  <2> QED
    BY <2>1, <2>2, <2>3, <2>4 DEF Scheduled, link
<1> QED
  BY <1>1, <1>2, <1>3, <1>4, <1>5

LEMMA Resumes ==
    ASSUME IInv, Runs("reader", 0)
    PROVE  /\ pc = "waiting" /\ waiter \in {"done", "cancelled"}
           /\ (slot # 0 <=> watched) /\ slot \in Tasks \cup {0}
           /\ ready \in Seq(Handles) /\ Once(ready)
<1>1. ready \in Seq(Handles) /\ Once(ready) /\ slot \in Tasks \cup {0}
  BY DEF IInv, TypeOK, Scheduled
<1>2. Holds(ready, <<"reader", 0>>)
  BY <1>1, Turn
<1>3. waiter \in {"done", "cancelled"}
  BY <1>2 DEF IInv, Scheduled
<1> QED
  BY <1>1, <1>3 DEF IInv, Suspended

\* The tasks of the wait have all ended, or the wait had none.
LEMMA EndsCleared ==
    ASSUME IInv, Leave(<<>>), slot # 0 => get[slot] = "done",
           get' = IF slot = 0 THEN get ELSE [get EXCEPT ![slot] = "none"],
           getters' = <<>>
    PROVE  Cleared
<1>1. Runs("reader", 0) /\ waiter' = "none" /\ doomed' = FALSE /\ drop' = "none" /\ slot' = 0
  BY DEF Leave
<1>2. ready \in Seq(Handles) /\ Once(ready) /\ slot \in Tasks \cup {0}
  BY <1>1, Resumes
<1>3. \A t \in Tasks \ {slot} : get[t] \in {"none", "stopped", "stoppedWoken"}
  BY DEF IInv, Suspended
<1>4. DOMAIN get = Tasks /\ get = [t \in Tasks |-> get[t]]
  BY DEF IInv, TypeOK
<1>5. /\ \A t \in Tasks : get'[t] = IF t = slot THEN "none" ELSE get[t]
      /\ get' = [t \in Tasks |-> get'[t]]
  <2>1. CASE slot = 0
    BY <1>2, <1>4, <2>1
  <2>2. CASE slot # 0
    BY <1>2, <1>4, <2>2
  <2> QED
    BY <2>1, <2>2
<1>6. \A t \in Tasks : get'[t] \in {"none", "stopped", "stoppedWoken"}
  BY <1>3, <1>5
<1>7. get' \in [Tasks -> {"none", "stopped", "stoppedWoken"}]
  BY <1>5, <1>6
<1>8. /\ ready' \in Seq(Handles) /\ Once(ready')
      /\ \A h : h # Nothing /\ Holds(ready', h) =>
             /\ Holds(ready, h) /\ h # <<"reader", 0>> /\ h \notin OfWait
             /\ bound' = "none" => h # <<"timer", 0>>
      /\ \A h : h # Nothing /\ Holds(ready, h) /\ h \notin OfWait
                  /\ h \notin {<<"timer", 0>>, <<"reader", 0>>} => Holds(ready', h)
      /\ \A a, b : Before(ready, a, b) /\ a # Nothing /\ b # Nothing => Before(ready', a, b)
  BY <1>2, LeaveQuietly
<1>9. ASSUME NEW t \in Tasks, Holds(ready', <<"get", t>>) PROVE get'[t] # "none"
  <2>1. Holds(ready, <<"get", t>>)
    BY <1>8, <1>9 DEF Nothing
  <2>2. get[t] \notin {"none", "done"}
    BY <2>1 DEF IInv, Scheduled
  <2>3. t # slot
    BY <2>2
  <2> QED
    BY <1>5, <2>2, <2>3
<1> QED
  BY <1>1, <1>7, <1>8, <1>9 DEF Cleared

\* The get task of the wait is to stop, and has a handle to do it with.
LEMMA StopsCleared ==
    ASSUME IInv, StopGet, slot # 0, get[slot] # "done"
    PROVE  Cleared
<1>1. Runs("reader", 0) /\ waiter' = "none" /\ doomed' = FALSE /\ drop' = "none" /\ slot' = 0
  BY DEF StopGet, Leave
<1>2. ready \in Seq(Handles) /\ Once(ready) /\ slot \in Tasks
  BY <1>1, Resumes
<1>3. /\ \A t \in Tasks \ {slot} : get[t] \in {"none", "stopped", "stoppedWoken"}
      /\ get[slot] \in {"new", "waiting", "woken"}
      /\ getters = IF get[slot] = "waiting" THEN <<slot>> ELSE <<>>
  <2>1. watched
    BY DEF IInv, Suspended
  <2> QED
    BY <2>1 DEF IInv, Suspended, Stoppable
<1>4. DOMAIN get = Tasks /\ get = [t \in Tasks |-> get[t]]
  BY DEF IInv, TypeOK
<1>5. PICK how \in {"stopped", "stoppedWoken"} : get' = [get EXCEPT ![slot] = how]
  BY DEF StopGet
<1>6. /\ get'[slot] = how /\ \A t \in Tasks \ {slot} : get'[t] = get[t]
      /\ get' \in [Tasks -> {"none", "stopped", "stoppedWoken"}]
  BY <1>2, <1>3, <1>4, <1>5
<1>7. \A t \in Tasks \ {slot} : Holds(ready, <<"get", t>>) => get'[t] # "none"
  BY <1>6 DEF IInv, Scheduled
<1>8. CASE get[slot] = "waiting"
  <2>1. Leave(<<<<"get", slot>>>>) /\ LeaveGetters(slot)
    BY <1>8 DEF StopGet
  <2>2. getters' = <<>>
    BY <1>3, <1>8, <2>1, LeavesNone
  <2>3. ~Holds(ready, <<"get", slot>>)
    BY <1>2, <1>8 DEF IInv, Scheduled
  <2>4. /\ ready' \in Seq(Handles) /\ Once(ready')
        /\ \A h : h # Nothing /\ Holds(ready', h) =>
               /\ Holds(ready, h) \/ h = <<"get", slot>>
               /\ h # <<"reader", 0>> /\ h \notin OfWait
               /\ bound' = "none" => h # <<"timer", 0>>
        /\ \A h : h # Nothing /\ Holds(ready, h) /\ h \notin OfWait
                    /\ h \notin {<<"timer", 0>>, <<"reader", 0>>} => Holds(ready', h)
        /\ \A a, b : Before(ready, a, b) /\ a # Nothing /\ b # Nothing /\ a # <<"get", slot>> =>
                         Before(ready', a, b)
    BY <1>2, <2>1, <2>3, LeaveStopping
  <2>5. \A t \in Tasks : Holds(ready', <<"get", t>>) => get'[t] # "none"
    BY <1>6, <1>7, <2>4 DEF Nothing
  <2> QED
    BY <1>1, <1>6, <2>2, <2>4, <2>5 DEF Cleared
<1>9. CASE get[slot] # "waiting"
  <2>1. Leave(<<>>) /\ getters' = <<>>
    BY <1>3, <1>9 DEF StopGet
  <2>2. /\ ready' \in Seq(Handles) /\ Once(ready')
        /\ \A h : h # Nothing /\ Holds(ready', h) =>
               /\ Holds(ready, h) /\ h # <<"reader", 0>> /\ h \notin OfWait
               /\ bound' = "none" => h # <<"timer", 0>>
        /\ \A h : h # Nothing /\ Holds(ready, h) /\ h \notin OfWait
                    /\ h \notin {<<"timer", 0>>, <<"reader", 0>>} => Holds(ready', h)
        /\ \A a, b : Before(ready, a, b) /\ a # Nothing /\ b # Nothing => Before(ready', a, b)
    BY <1>2, <2>1, LeaveQuietly
  <2>3. \A t \in Tasks : Holds(ready', <<"get", t>>) => get'[t] # "none"
    BY <1>6, <1>7, <2>2 DEF Nothing
  <2> QED
    BY <1>1, <1>6, <2>1, <2>2, <2>3 DEF Cleared
<1> QED
  BY <1>8, <1>9

LEMMA WaitDeliversStep ==
    ASSUME IInv, WaitDelivers
    PROVE  IInv'
<1>1. /\ slot # 0 /\ get[slot] = "done" /\ Deliver(got[slot]) /\ EndGet /\ Leave(<<>>)
      /\ UNCHANGED <<queue, got, link>> /\ Runs("reader", 0)
  BY DEF WaitDelivers, Leave
<1>2. pc = "waiting" /\ slot \in Tasks
  BY <1>1, Resumes
<1>3. got[slot] \in Frames /\ queue' \in Seq(Frames)
      /\ \A i \in DOMAIN queue' : queue'[i] \in 1 .. landed
  <2>1. got[slot] \in 1 .. landed /\ landed \in 0 .. MaxFrames
    BY <1>1 DEF IInv, Numbered, TypeOK
  <2> QED
    BY <1>1, <2>1 DEF IInv, Numbered, TypeOK
<1>4. getters' = <<>> /\ get' = [get EXCEPT ![slot] = "none"]
  BY <1>1 DEF EndGet, IInv, Suspended
<1>5. Cleared
  BY <1>1, <1>4, EndsCleared
<1> QED
  BY <1>1, <1>2, <1>3, <1>5, Delivered, OverStep

LEMMA WaitSeesDropStep ==
    ASSUME IInv, WaitSeesDrop
    PROVE  IInv'
<1>1. /\ slot # 0 /\ get[slot] # "done" /\ SayDropped /\ StopGet
      /\ UNCHANGED <<queue, got, link>> /\ Runs("reader", 0)
  BY DEF WaitSeesDrop, StopGet, Leave
<1>2. pc = "waiting"
  BY <1>1, Resumes
<1>3. queue' \in Seq(Frames) /\ \A i \in DOMAIN queue' : queue'[i] \in 1 .. landed
  BY <1>1 DEF IInv, Numbered, TypeOK
<1>4. Cleared
  BY <1>1, StopsCleared
<1> QED
  BY <1>1, <1>2, <1>3, <1>4, Ended, OverStep

\* The frame that is put back is one that has landed.
LEMMA PutBack ==
    ASSUME IInv, slot # 0, get[slot] = "done"
    PROVE  /\ got[slot] \in Frames /\ queue \in Seq(Frames)
           /\ <<got[slot]>> \o queue \in Seq(Frames)
           /\ \A i \in DOMAIN (<<got[slot]>> \o queue) : (<<got[slot]>> \o queue)[i] \in 1 .. landed
<1>1. got[slot] \in 1 .. landed /\ landed \in 0 .. MaxFrames /\ queue \in Seq(Frames)
      /\ \A i \in DOMAIN queue : queue[i] \in 1 .. landed
  BY DEF IInv, Numbered, TypeOK
<1>2. got[slot] \in Frames /\ <<got[slot]>> \in Seq(Frames) /\ Len(queue) \in Nat
      /\ DOMAIN queue = 1 .. Len(queue)
  BY <1>1
<1> DEFINE back == <<got[slot]>> \o queue
<1>3. /\ back \in Seq(Frames) /\ DOMAIN back = 1 .. Len(queue) + 1
      /\ \A i \in 1 .. Len(queue) + 1 : back[i] = IF i <= 1 THEN got[slot] ELSE queue[i - 1]
  BY <1>1, <1>2, ConcatProperties
<1> HIDE DEF back
<1>4. \A i \in 1 .. Len(queue) + 1 : i <= 1 \/ i - 1 \in 1 .. Len(queue)
  BY <1>2
<1> QED
  BY <1>1, <1>2, <1>3, <1>4 DEF back

LEMMA WaitTimesOutStep ==
    ASSUME IInv, WaitTimesOut
    PROVE  IInv'
<1>1. watched /\ SayTimeout /\ got' = got
  BY DEF WaitTimesOut
<1>2. Runs("reader", 0) /\ link' = link
  BY DEF WaitTimesOut, StopGet, Leave
<1>3. pc = "waiting" /\ slot # 0
  BY <1>1, <1>2, Resumes
<1>4. queue' \in Seq(Frames) /\ \A i \in DOMAIN queue' : queue'[i] \in 1 .. landed
  <2>1. CASE get[slot] = "done"
    BY <1>3, <2>1, PutBack DEF WaitTimesOut, RequeueTaken
  <2>2. CASE get[slot] # "done"
    BY <2>2 DEF WaitTimesOut, IInv, Numbered, TypeOK
  <2> QED
    BY <2>1, <2>2
<1>5. Cleared
  <2>1. CASE get[slot] = "done"
    <3>1. /\ getters' = <<>> /\ get' = [get EXCEPT ![slot] = "none"] /\ Leave(<<>>)
      BY <1>3, <2>1 DEF WaitTimesOut, EndGet, IInv, Suspended
    <3> QED
      BY <1>3, <2>1, <3>1, EndsCleared
  <2>2. CASE get[slot] # "done"
    <3>1. StopGet
      BY <2>2 DEF WaitTimesOut
    <3> QED
      BY <1>3, <2>2, <3>1, StopsCleared
  <2> QED
    BY <2>1, <2>2
<1> QED
  BY <1>1, <1>2, <1>3, <1>4, <1>5, Ended, OverStep

LEMMA PlainWaitStep ==
    ASSUME IInv, PlainWaitDelivers \/ PlainWaitTimesOut
    PROVE  IInv'
<1>1. ~watched /\ Leave(<<>>) /\ Runs("reader", 0) /\ UNCHANGED <<getters, get, got, link>>
  BY DEF PlainWaitDelivers, PlainWaitTimesOut, Leave
<1>2. pc = "waiting" /\ slot = 0 /\ waiter \in {"done", "cancelled"}
  BY <1>1, Resumes
<1>3. getters' = <<>>
  BY <1>1, <1>2 DEF IInv, Suspended
<1>4. Cleared
  BY <1>1, <1>2, <1>3, EndsCleared
<1>5. CASE PlainWaitDelivers
  <2>1. queue # <<>> /\ queue' = Tail(queue) /\ Deliver(Head(queue))
    BY <1>5 DEF PlainWaitDelivers
  <2>2. /\ Head(queue) \in Frames /\ queue' \in Seq(Frames)
        /\ \A i \in DOMAIN queue' : queue'[i] \in 1 .. landed
    BY <2>1, QueueReads
  <2> QED
    BY <1>1, <1>2, <1>4, <2>1, <2>2, Delivered, OverStep
<1>6. CASE PlainWaitTimesOut
  <2>1. SayTimeout /\ queue' = queue
    BY <1>6 DEF PlainWaitTimesOut
  <2>2. queue' \in Seq(Frames) /\ \A i \in DOMAIN queue' : queue'[i] \in 1 .. landed
    BY <2>1 DEF IInv, Numbered, TypeOK
  <2> QED
    BY <1>1, <1>2, <1>4, <2>1, <2>2, Ended, OverStep
<1> QED
  BY <1>5, <1>6

-----------------------------------------------------------------------------
(* The invariant holds *)

LEMMA StutterStep ==
    ASSUME IInv, UNCHANGED vars
    PROVE  IInv'
<1> USE DEF IInv, vars, link, tasks, calls
<1>1. TypeOK' /\ Called' /\ Plain'
  BY DEF TypeOK, Called, Plain
<1>2. Suspended' /\ Dropped'
  BY DEF Suspended, Dropped
<1>3. Numbered'
  BY FramesStay DEF Numbered
<1>4. Scheduled'
  BY DEF Scheduled
<1>5. Late' = Late
  BY DEF Late
<1>6. Ordered'
  BY <1>5 DEF Ordered
<1> QED
  BY <1>1, <1>2, <1>3, <1>4, <1>6

LEMMA NextStep ==
    ASSUME IInv, [Next]_vars
    PROVE  IInv'
<1>1. CASE Outside
  BY <1>1, FrameStep, EventStep DEF Outside
<1>2. CASE Callbacks
  BY <1>2, NotifyStep, DisconnectStep, TimeoutStep, PassOverStep DEF Callbacks
<1>3. CASE TaskSteps
  BY <1>3, GetStepStep, GetStoppedStep, DoneStep, DropStepStep DEF TaskSteps
<1>4. CASE Reads
  BY <1>4, ReadQueuedStep, LinkIsGoneStep, StartWaitStep, UnkeptStep DEF Reads
<1>5. CASE Resumption
  BY <1>5, WaitDeliversStep, WaitSeesDropStep, WaitTimesOutStep, PlainWaitStep DEF Resumption
<1>6. CASE Call \/ CallRequest \/ Writes \/ Clear
  BY <1>6, UnkeptStep DEF Writes
<1> QED
  BY <1>1, <1>2, <1>3, <1>4, <1>5, <1>6, StutterStep DEF Next

LEMMA InvHolds == Spec => []IInv
<1>1. Init => IInv
  BY InitHolds
<1>2. IInv /\ [Next]_vars => IInv'
  BY NextStep
<1> QED
  BY <1>1, <1>2, PTL DEF Spec

\* The reader, its tasks, the queue and the loop's handles keep their types.
THEOREM TypeCorrect == Spec => []TypeOK
<1>1. IInv => TypeOK
  BY DEF IInv
<1> QED
  BY <1>1, InvHolds, PTL

\* A reader that is suspended and a reply that is queued do not miss each
\* other (notifications.py:211-241), whatever comes when.
THEOREM RepliesAreNotMissed == Spec => []ReplyOnItsWay
<1>1. IInv => ReplyOnItsWay
  BY DEF IInv, ReplyOnItsWay, Ordered, Plain, Suspended
<1> QED
  BY <1>1, InvHolds, PTL

-----------------------------------------------------------------------------
(* The promise of ReplyQueue *)

Held == Taken \o queue

\* The abstract queue, before and after a step: what the get task has taken is
\* its first frame.
LEMMA HeldIs ==
    ASSUME TypeOK
    PROVE  /\ ~(slot # 0 /\ get[slot] = "done") => Taken = <<>> /\ Held = queue
           /\ slot # 0 /\ get[slot] = "done" => Taken = <<got[slot]>> /\ Held = <<got[slot]>> \o queue
<1>1. queue \in Seq(Frames)
  BY DEF TypeOK
<1>2. <<>> \o queue = queue
  BY <1>1, ConcatEmptySeq
<1> QED
  BY <1>2 DEF Held, Taken

LEMMA FirstOfAll ==
    ASSUME NEW S, NEW x \in S, NEW q \in Seq(S)
    PROVE  /\ <<x>> \o q \in Seq(S) /\ Len(<<x>> \o q) = Len(q) + 1 /\ (<<x>> \o q)[1] = x
           /\ \A i \in 1 .. Len(q) : (<<x>> \o q)[i + 1] = q[i]
<1> DEFINE one == <<x>>
           r == one \o q
<1>1. one \in Seq(S) /\ Len(one) = 1 /\ one[1] = x /\ Len(q) \in Nat
  OBVIOUS
<1> HIDE DEF one
<1>2. /\ r \in Seq(S) /\ Len(r) = Len(one) + Len(q)
      /\ \A i \in 1 .. Len(one) + Len(q) : r[i] = IF i <= Len(one) THEN one[i] ELSE q[i - Len(one)]
  BY <1>1, ConcatProperties
<1> HIDE DEF r
<1>3. Len(r) = Len(q) + 1 /\ r[1] = x
  BY <1>1, <1>2
<1>4. ASSUME NEW i \in 1 .. Len(q) PROVE r[i + 1] = q[i]
  <2>1. i + 1 \in 1 .. Len(one) + Len(q) /\ ~(i + 1 <= Len(one)) /\ i + 1 - Len(one) = i
    BY <1>1
  <2> QED
    BY <1>2, <2>1
<1> QED
  BY <1>2, <1>3, <1>4 DEF r, one

LEMMA HeadAndTail ==
    ASSUME NEW S, NEW q \in Seq(S)
    PROVE  /\ q # <<>> => <<Head(q)>> \o Tail(q) = q
           /\ \A x \in S : <<x>> \o q # <<>> /\ Head(<<x>> \o q) = x /\ Tail(<<x>> \o q) = q
<1>1. ASSUME q # <<>> PROVE <<Head(q)>> \o Tail(q) = q
  <2>1. /\ Head(q) \in S /\ Tail(q) \in Seq(S) /\ Len(q) \in Nat \ {0} /\ Head(q) = q[1]
        /\ Len(Tail(q)) = Len(q) - 1 /\ \A i \in 1 .. Len(Tail(q)) : Tail(q)[i] = q[i + 1]
    BY <1>1, HeadTailProperties, EmptySeq
  <2> DEFINE r == <<Head(q)>> \o Tail(q)
  <2>2. /\ r \in Seq(S) /\ Len(r) = Len(Tail(q)) + 1 /\ r[1] = Head(q)
        /\ \A i \in 1 .. Len(Tail(q)) : r[i + 1] = Tail(q)[i]
    BY <2>1, FirstOfAll
  <2> HIDE DEF r
  <2>3. Len(r) = Len(q)
    BY <2>1, <2>2
  <2>4. ASSUME NEW i \in 1 .. Len(r) PROVE r[i] = q[i]
    <3>1. CASE i = 1
      BY <2>1, <2>2, <3>1
    <3>2. CASE i # 1
      <4>1. i - 1 \in 1 .. Len(Tail(q)) /\ (i - 1) + 1 = i
        BY <2>1, <2>3, <3>2
      <4>2. r[(i - 1) + 1] = q[(i - 1) + 1]
        BY <2>1, <2>2, <4>1
      <4> QED
        BY <4>1, <4>2
    <3> QED
      BY <3>1, <3>2
  <2>5. r = q
    BY <2>2, <2>3, <2>4, SeqEqual
  <2> QED
    BY <2>5 DEF r
<1>2. ASSUME NEW x \in S
      PROVE  <<x>> \o q # <<>> /\ Head(<<x>> \o q) = x /\ Tail(<<x>> \o q) = q
  <2> DEFINE r == <<x>> \o q
  <2>1. /\ r \in Seq(S) /\ Len(r) = Len(q) + 1 /\ r[1] = x /\ Len(q) \in Nat
        /\ \A i \in 1 .. Len(q) : r[i + 1] = q[i]
    BY FirstOfAll
  <2> HIDE DEF r
  <2>2. r # <<>>
    BY <2>1
  <2>3. /\ Head(r) = r[1] /\ Tail(r) \in Seq(S) /\ Len(Tail(r)) = Len(r) - 1
        /\ \A i \in 1 .. Len(Tail(r)) : Tail(r)[i] = r[i + 1]
    BY <2>1, <2>2, HeadTailProperties
  <2>4. Len(Tail(r)) = Len(q)
    BY <2>1, <2>3
  <2>5. Tail(r) = q
    BY <2>1, <2>3, <2>4, SeqEqual
  <2> QED
    BY <2>1, <2>2, <2>3, <2>5 DEF r
<1> QED
  BY <1>1, <1>2

LEMMA AppendBehind ==
    ASSUME NEW S, NEW p \in Seq(S), NEW q \in Seq(S), NEW x \in S
    PROVE  p \o Append(q, x) = Append(p \o q, x)
<1>1. /\ Append(q, x) = q \o <<x>> /\ <<x>> \in Seq(S) /\ p \o q \in Seq(S)
  BY AppendIsConcat, ConcatProperties
<1>2. (p \o q) \o <<x>> = p \o (q \o <<x>>)
  BY <1>1, ConcatAssociative
<1>3. Append(p \o q, x) = (p \o q) \o <<x>>
  BY <1>1, AppendIsConcat
<1> QED
  BY <1>1, <1>2, <1>3

\* A step that leaves the replies and the call alone is no step of the promise.
LEMMA Unseen ==
    ASSUME UNCHANGED <<landed, Held, droppedAt, answer, given>>
    PROVE  [Replies!Next]_Replies!vars
BY DEF Held, Replies!vars

LEMMA HeldStays ==
    ASSUME IInv, UNCHANGED <<queue, slot, got>>,
           slot # 0 => (get'[slot] = "done" <=> get[slot] = "done")
    PROVE  Held' = Held
BY DEF Held, Taken

\* What comes from outside, the timeout and most of the tasks' steps are unseen.
LEMMA UnseenSteps ==
    ASSUME IInv, Outside \/ OnTimeout \/ PassOver
                     \/ \E s \in Tasks : GetDone(s) \/ DropStep(s) \/ DropDone(s)
    PROVE  [Replies!Next]_Replies!vars
<1>1. UNCHANGED <<link, queue, get, got, slot, calls>>
  BY DEF Outside, FrameArrives, LinkDrops, TimerDue, Arrive, OnTimeout, PassOver, GetDone,
         DropStep, DropDone, tasks
<1> QED
  BY <1>1, HeldStays, Unseen DEF link, calls

LEMMA NotifyRefines ==
    ASSUME IInv, NEW n \in Frames, OnNotify(n)
    PROVE  [Replies!Next]_Replies!vars
<1>1. /\ n = landed + 1 /\ landed' = n /\ queue' = Append(queue, n)
      /\ UNCHANGED <<droppedAt, got, slot, calls>>
  <2>1. TypeOK /\ Numbered /\ Once(ready)
    BY DEF IInv, Scheduled
  <2>2. Runs("frame", n) /\ landed' = n /\ queue' = Append(queue, n)
    BY DEF OnNotify
  <2>3. UNCHANGED <<droppedAt, got, slot, calls>>
    BY DEF OnNotify
  <2>4. n = landed + 1
    BY <2>1, <2>2, NextFrame
  <2> QED
    BY <2>2, <2>3, <2>4
<1>2. slot # 0 => (get'[slot] = "done" <=> get[slot] = "done")
  <2>1. WakeNext(<<>>)
    BY DEF OnNotify
  <2>2. get \in [Tasks -> {"none", "done", "stopped", "stoppedWoken"} \cup Stoppable]
        /\ slot \in Tasks \cup {0}
    BY DEF IInv, TypeOK
  <2>3. UNCHANGED get \/ (get[slot] = "waiting" /\ get' = [get EXCEPT ![slot] = "woken"])
    BY <2>1, Wakes DEF IInv
  <2> QED
    BY <2>2, <2>3
<1>3. Taken \in Seq(Frames) /\ queue \in Seq(Frames) /\ Taken' = Taken
  <2>1. Taken \in Seq(Frames)
    <3>1. CASE slot # 0 /\ get[slot] = "done"
      BY <3>1, PutBack DEF Taken
    <3>2. CASE ~(slot # 0 /\ get[slot] = "done")
      BY <3>2, EmptySeq DEF Taken
    <3> QED
      BY <3>1, <3>2
  <2> QED
    BY <1>1, <1>2, <2>1 DEF Taken, IInv, TypeOK
<1>4. Held' = Append(Held, landed')
  <2>1. Held' = Taken \o Append(queue, landed')
    BY <1>1, <1>3 DEF Held
  <2>2. landed' \in Frames
    BY <1>1
  <2>3. Taken \o Append(queue, landed') = Append(Taken \o queue, landed')
    BY <1>3, <2>2, AppendBehind
  <2> QED
    BY <2>1, <2>3 DEF Held
<1>5. Replies!Land
  BY <1>1, <1>4 DEF Held, Replies!Land, calls
<1> QED
  BY <1>5 DEF Replies!Next

LEMMA DisconnectRefines ==
    ASSUME IInv, OnDisconnect
    PROVE  [Replies!Next]_Replies!vars
<1>1. /\ droppedAt' = landed /\ UNCHANGED <<landed, queue, get, got, slot, calls>>
      /\ Runs("gone", 0)
  BY DEF OnDisconnect
<1>2. droppedAt = Never
  <2>1. Holds(ready, <<"gone", 0>>)
    BY <1>1, Turn DEF IInv, TypeOK
  <2> QED
    BY <2>1 DEF IInv, Scheduled, Dropped
<1>3. Held' = Held
  BY <1>1, HeldStays
<1>4. Replies!Drop
  BY <1>1, <1>2, <1>3 DEF Held, Replies!Drop, calls
<1> QED
  BY <1>4 DEF Replies!Next

\* The frame a get task takes is still held.
LEMMA GetStepRefines ==
    ASSUME IInv, NEW s \in Tasks, GetStep(s)
    PROVE  [Replies!Next]_Replies!vars
<1>1. /\ get[s] \in {"new", "woken"} /\ UNCHANGED <<landed, droppedAt, slot, calls>>
  BY DEF GetStep, link
<1>2. s = slot /\ slot # 0
  <2>1. s = slot
    BY <1>1 DEF IInv, Suspended
  <2> QED
    BY <2>1
<1>3. queue \in Seq(Frames) /\ get \in [Tasks -> {"none", "done", "stopped", "stoppedWoken"} \cup Stoppable]
      /\ got \in [Tasks -> 0 .. MaxFrames] /\ Held = queue
  <2>1. queue \in Seq(Frames) /\ get \in [Tasks -> {"none", "done", "stopped", "stoppedWoken"} \cup Stoppable]
        /\ got \in [Tasks -> 0 .. MaxFrames]
    BY DEF IInv, TypeOK
  <2> QED
    BY <1>1, <1>2, <2>1, HeldIs DEF IInv
<1>4. CASE queue # <<>>
  <2>1. /\ got' = [got EXCEPT ![s] = Head(queue)] /\ queue' = Tail(queue)
        /\ get' = [get EXCEPT ![s] = "done"]
    BY <1>4 DEF GetStep
  <2>2. get'[slot'] = "done" /\ got'[slot'] = Head(queue) /\ slot' # 0
    BY <1>1, <1>2, <1>3, <2>1
  <2>3. Held' = <<Head(queue)>> \o Tail(queue)
    BY <2>1, <2>2 DEF Held, Taken
  <2>4. Held' = Held
    BY <1>3, <1>4, <2>3, HeadAndTail
  <2> QED
    BY <1>1, <2>4, Unseen DEF calls
<1>5. CASE queue = <<>>
  <2>1. UNCHANGED <<got, queue>> /\ get'[s] = "waiting"
    BY <1>3, <1>5 DEF GetStep
  <2> QED
    BY <1>1, <1>2, <2>1, HeldStays, Unseen DEF calls
<1> QED
  BY <1>4, <1>5

LEMMA GetStoppedRefines ==
    ASSUME IInv, NEW s \in Tasks, GetStopped(s)
    PROVE  [Replies!Next]_Replies!vars
<1>1. /\ get[s] \in {"stopped", "stoppedWoken"}
      /\ UNCHANGED <<landed, droppedAt, queue, got, slot, calls>>
  BY DEF GetStopped, link
<1>2. queue = <<>> \/ getters = <<>>
  BY DEF IInv, Ordered, Suspended, Plain
<1>3. get' = [get EXCEPT ![s] = "none"]
  BY <1>2 DEF GetStopped
<1>4. slot # 0 => slot \in Tasks /\ slot # s
  <2>1. slot # 0 => get[slot] \in {"new", "waiting", "woken", "done"}
    BY DEF IInv, Suspended, Stoppable
  <2> QED
    BY <1>1, <2>1 DEF IInv, TypeOK
<1>5. slot # 0 => get'[slot] = get[slot]
  BY <1>3, <1>4 DEF IInv, TypeOK
<1> QED
  BY <1>1, <1>5, HeldStays, Unseen DEF calls

\* A frame is read: it is the first that was held.
LEMMA ReadRefines ==
    ASSUME IInv, pc \in {"calling", "waiting"}, Held # <<>>, Held' = Tail(Held),
           Deliver(Head(Held)), UNCHANGED link
    PROVE  [Replies!Next]_Replies!vars
<1>1. /\ answer = IF op = "gap" THEN "partial" ELSE "pending"
      /\ given' = Head(Held)
  BY DEF IInv, Called, Deliver
<1>2. answer' \in (IF answer = "pending" THEN {"pending", "partial", "reply", "failed"}
                                         ELSE {"partial"})
  BY <1>1 DEF Deliver, EndCall, WaitOn, Gather
<1>3. Replies!Read
  BY <1>1, <1>2 DEF Held, Replies!Read, link
<1> QED
  BY <1>3 DEF Replies!Next

\* A call ends without a frame: by the drop, if nothing older is held.
LEMMA DropRefines ==
    ASSUME IInv, pc \in {"calling", "waiting"}, SayDropped, dropped,
           \A i \in DOMAIN Held : Held[i] > droppedAt, Held' = Held, UNCHANGED link
    PROVE  [Replies!Next]_Replies!vars
<1>1. /\ answer = IF op = "gap" THEN "partial" ELSE "pending"
      /\ answer' = (IF op = "gap" THEN "reply" ELSE "dropped") /\ given' = given
  BY DEF IInv, Called, SayDropped, EndCall
<1>2. droppedAt # Never
  BY DEF IInv, Dropped, TypeOK
<1>3. Replies!GiveUp \/ Replies!SayDropped
  BY <1>1, <1>2 DEF Held, Replies!GiveUp, Replies!SayDropped, link
<1> QED
  BY <1>3 DEF Replies!Next

\* A call ends by its timeout, with all that was held.
LEMMA TimeoutRefines ==
    ASSUME IInv, pc \in {"calling", "waiting"}, SayTimeout, Held' = Held, UNCHANGED link
    PROVE  [Replies!Next]_Replies!vars
<1>1. /\ answer = IF op = "gap" THEN "partial" ELSE "pending"
      /\ answer' = (IF op = "gap" THEN "reply" ELSE "timeout") /\ given' = given
  BY DEF IInv, Called, SayTimeout, EndCall
<1>2. Replies!GiveUp
  BY <1>1 DEF Held, Replies!GiveUp, link
<1> QED
  BY <1>2 DEF Replies!Next

LEMMA ReadsRefine ==
    ASSUME IInv, ReadQueued \/ LinkIsGone \/ StartWait
    PROVE  [Replies!Next]_Replies!vars
<1>1. pc = "calling" /\ link' = link /\ TypeOK /\ slot = 0 /\ Held = queue
  <2>1. pc = "calling" /\ link' = link /\ TypeOK /\ slot = 0
    BY NoWait DEF IInv, ReadQueued, LinkIsGone, StartWait
  <2> QED
    BY <2>1, HeldIs
<1>2. CASE ReadQueued
  <2>1. queue # <<>> /\ queue' = Tail(queue) /\ Deliver(Head(queue)) /\ slot' = slot
    BY <1>2 DEF ReadQueued, tasks
  <2>2. Held' = Tail(queue)
    <3>1. queue' \in Seq(Frames)
      BY <2>1, QueueReads
    <3> QED
      BY <1>1, <2>1, <3>1, ConcatEmptySeq DEF Held, Taken
  <2> QED
    BY <1>1, <2>1, <2>2, ReadRefines
<1>3. CASE LinkIsGone
  <2>1. queue = <<>> /\ dropped /\ SayDropped /\ UNCHANGED <<queue, tasks>>
    BY <1>3 DEF LinkIsGone
  <2>2. Held' = Held /\ \A i \in DOMAIN Held : Held[i] > droppedAt
    BY <1>1, <2>1, HeldStays DEF tasks
  <2> QED
    BY <1>1, <2>1, <2>2, DropRefines
<1>4. CASE StartWait
  <2>1. queue = <<>> /\ UNCHANGED <<queue, answer, given>>
    BY <1>4 DEF StartWait
  <2>2. slot' # 0 => get'[slot'] = "new"
    <3>1. get \in [Tasks -> {"none", "done", "stopped", "stoppedWoken"} \cup Stoppable]
      BY <1>1 DEF TypeOK
    <3> QED
      BY <1>1, <1>4, <3>1 DEF StartWait, tasks
  <2>3. Held' = Held
    BY <1>1, <2>1, <2>2 DEF Held, Taken
  <2> QED
    BY <1>1, <2>1, <2>3, Unseen DEF link
<1> QED
  BY <1>2, <1>3, <1>4

\* What the reader finds when it resumes from its wait.
LEMMA ResumptionRefines ==
    ASSUME IInv, Resumption
    PROVE  [Replies!Next]_Replies!vars
<1>1. Runs("reader", 0) /\ link' = link /\ slot' = 0 /\ got' = got
  BY DEF Resumption, WaitDelivers, WaitSeesDrop, WaitTimesOut, PlainWaitDelivers,
         PlainWaitTimesOut, StopGet, Leave
<1>2. /\ pc = "waiting" /\ waiter \in {"done", "cancelled"} /\ (slot # 0 <=> watched)
      /\ TypeOK /\ queue \in Seq(Frames)
  BY <1>1, Resumes DEF IInv, TypeOK
<1>3. queue' \in Seq(Frames) => Held' = queue'
  BY <1>1, ConcatEmptySeq DEF Held, Taken
<1>4. CASE WaitDelivers
  <2>1. slot # 0 /\ get[slot] = "done" /\ Deliver(got[slot]) /\ queue' = queue
    BY <1>4 DEF WaitDelivers
  <2>2. Held = <<got[slot]>> \o queue /\ got[slot] \in Frames
    BY <1>2, <2>1, HeldIs, PutBack
  <2>3. Held # <<>> /\ Head(Held) = got[slot] /\ Tail(Held) = queue
    BY <1>2, <2>2, HeadAndTail
  <2> QED
    BY <1>1, <1>2, <1>3, <2>1, <2>3, ReadRefines
<1>5. CASE WaitSeesDrop
  <2>1. slot # 0 /\ get[slot] # "done" /\ SayDropped /\ queue' = queue /\ ~Interrupted
    BY <1>5 DEF WaitSeesDrop
  <2>2. drop = "done" /\ dropped
    BY <1>2, <2>1 DEF IInv, Dropped, Interrupted
  <2>3. ~Late \/ get[slot] = "waiting"
    BY <2>1, <2>2 DEF IInv, Ordered, Suspended, Stoppable
  <2>4. Held = queue
    BY <1>2, <2>1, HeldIs
  <2>5. \A i \in DOMAIN Held : Held[i] > droppedAt
    <3>1. CASE queue = <<>>
      BY <2>4, <3>1
    <3>2. CASE queue # <<>>
      <4>1. ~Late
        BY <2>1, <2>3, <3>2 DEF IInv, Ordered
      <4>2. \A i \in DOMAIN queue : ~(queue[i] <= droppedAt) /\ queue[i] \in Nat
        BY <2>2, <3>2, <4>1 DEF Late, IInv, Numbered
      <4>3. droppedAt \in Nat
        BY <2>2 DEF IInv, Dropped
      <4> QED
        BY <2>4, <4>2, <4>3
    <3> QED
      BY <3>1, <3>2
  <2> QED
    BY <1>1, <1>2, <1>3, <2>1, <2>2, <2>4, <2>5, DropRefines
<1>6. CASE WaitTimesOut
  <2>1. SayTimeout /\ slot # 0
    BY <1>2, <1>6 DEF WaitTimesOut
  <2>2. CASE get[slot] = "done"
    <3>1. queue' = <<got[slot]>> \o queue
      BY <1>6, <2>2 DEF WaitTimesOut, RequeueTaken
    <3>2. Held = queue' /\ queue' \in Seq(Frames)
      BY <1>2, <2>1, <2>2, <3>1, HeldIs, PutBack
    <3> QED
      BY <1>1, <1>2, <1>3, <2>1, <3>2, TimeoutRefines
  <2>3. CASE get[slot] # "done"
    <3>1. queue' = queue
      BY <1>6, <2>3 DEF WaitTimesOut
    <3>2. Held = queue
      BY <1>2, <2>3, HeldIs
    <3> QED
      BY <1>1, <1>2, <1>3, <2>1, <3>1, <3>2, TimeoutRefines
  <2> QED
    BY <2>2, <2>3
<1>7. CASE PlainWaitDelivers
  <2>1. queue # <<>> /\ queue' = Tail(queue) /\ Deliver(Head(queue)) /\ ~watched
    BY <1>7 DEF PlainWaitDelivers
  <2>2. Held = queue /\ queue' \in Seq(Frames)
    BY <1>2, <2>1, HeldIs, QueueReads
  <2> QED
    BY <1>1, <1>2, <1>3, <2>1, <2>2, ReadRefines
<1>8. CASE PlainWaitTimesOut
  <2>1. SayTimeout /\ queue' = queue /\ ~watched
    BY <1>8 DEF PlainWaitTimesOut
  <2>2. Held = queue
    BY <1>2, <2>1, HeldIs
  <2> QED
    BY <1>1, <1>2, <1>3, <2>1, <2>2, TimeoutRefines
<1> QED
  BY <1>4, <1>5, <1>6, <1>7, <1>8 DEF Resumption

\* Calls, requests and what is thrown away on purpose.
LEMMA CallsRefine ==
    ASSUME IInv, GatherBurst \/ StartRequest \/ Call \/ CallRequest \/ Writes \/ Clear
    PROVE  [Replies!Next]_Replies!vars
<1>1. /\ pc \in {"idle", "gathering", "request", "writing"}
      /\ UNCHANGED <<landed, droppedAt, dropped, slot, got, get>>
  BY DEF GatherBurst, StartRequest, Call, CallRequest, Writes, WriteReturns, WriteFails, Clear,
         link, tasks
<1>2. slot = 0 /\ TypeOK /\ queue \in Seq(Frames) /\ Held = queue
  <2>1. slot = 0 /\ TypeOK
    BY <1>1, NoWait DEF IInv
  <2> QED
    BY <2>1, HeldIs DEF TypeOK
<1>3. queue' \in {queue, <<>>} => Held' = queue'
  <2>1. <<>> \o <<>> = <<>> /\ <<>> \o queue = queue
    BY <1>2, ConcatEmptySeq
  <2> QED
    BY <1>1, <1>2, <2>1 DEF Held, Taken
<1>4. dropped => droppedAt # Never
  BY DEF IInv, Dropped
<1>5. CASE GatherBurst
  <2>1. /\ answer = "partial" /\ queue' = <<>> /\ answer' \in {"partial", "reply"}
        /\ given' = IF queue = <<>> THEN given ELSE Last(queue)
    BY <1>5 DEF GatherBurst, EndCall, IInv, Called
  <2>2. Replies!ReadAll
    BY <1>1, <1>2, <1>3, <2>1 DEF Replies!ReadAll, Held, Last
  <2> QED
    BY <2>2 DEF Replies!Next
<1>6. CASE StartRequest
  <2>1. answer = "requesting" /\ given' = given
    BY <1>6 DEF StartRequest, IInv, Called
  <2>2. CASE dropped
    <3>1. answer' = "dropped" /\ queue' = queue
      BY <1>6, <2>2 DEF StartRequest, EndCall
    <3>2. Replies!SayDropped
      BY <1>1, <1>2, <1>3, <1>4, <2>1, <2>2, <3>1 DEF Replies!SayDropped, Held
    <3> QED
      BY <3>2 DEF Replies!Next
  <2>3. CASE ~dropped
    <3>1. answer' = answer /\ queue' = <<>>
      BY <1>6, <2>3 DEF StartRequest
    <3>2. Replies!Discard
      BY <1>1, <1>3, <2>1, <3>1 DEF Replies!Discard, Held
    <3> QED
      BY <3>2 DEF Replies!Next
  <2> QED
    BY <2>2, <2>3
<1>7. CASE Call \/ CallRequest
  <2>1. /\ answer \in {"none", "reply", "timeout", "dropped", "failed"} /\ queue' = queue
        /\ answer' \in {"pending", "requesting"} /\ given' = given
    BY <1>7 DEF Call, CallRequest, IInv, Called
  <2>2. Replies!Ask
    BY <1>1, <1>2, <1>3, <2>1 DEF Replies!Ask, Replies!Open, Held
  <2> QED
    BY <2>2 DEF Replies!Next
<1>8. CASE Writes
  <2>1. /\ answer = "requesting" /\ queue' = queue /\ given' = given
        /\ answer' \in {"pending", "failed"} \/ (dropped /\ answer' = "dropped")
    BY <1>8 DEF Writes, WriteReturns, WriteFails, EndCall, IInv, Called
  <2>2. Replies!Written \/ Replies!SayDropped
    BY <1>1, <1>2, <1>3, <1>4, <2>1 DEF Replies!Written, Replies!SayDropped, Held
  <2> QED
    BY <2>2 DEF Replies!Next
<1>9. CASE Clear
  <2>1. /\ answer \in {"none", "reply", "timeout", "dropped", "failed"} /\ queue' = <<>>
        /\ answer' = answer /\ given' = given
    BY <1>9 DEF Clear, calls, IInv, Called
  <2>2. Replies!Discard
    BY <1>1, <1>3, <2>1 DEF Replies!Discard, Held
  <2> QED
    BY <2>2 DEF Replies!Next
<1> QED
  BY <1>5, <1>6, <1>7, <1>8, <1>9

LEMMA StepRefines ==
    ASSUME IInv, [Next]_vars
    PROVE  [Replies!Next]_Replies!vars
<1>1. CASE Outside
  BY <1>1, UnseenSteps
<1>2. CASE Callbacks
  BY <1>2, NotifyRefines, DisconnectRefines, UnseenSteps DEF Callbacks
<1>3. CASE TaskSteps
  BY <1>3, GetStepRefines, GetStoppedRefines, UnseenSteps DEF TaskSteps
<1>4. CASE Reads
  BY <1>4, ReadsRefine, CallsRefine DEF Reads
<1>5. CASE Resumption
  BY <1>5, ResumptionRefines
<1>6. CASE Call \/ CallRequest \/ Writes \/ Clear
  BY <1>6, CallsRefine
<1>7. CASE UNCHANGED vars
  BY <1>7, Unseen DEF vars, link, tasks, calls, Held, Taken
<1> QED
  BY <1>1, <1>2, <1>3, <1>4, <1>5, <1>6, <1>7 DEF Next

\* Every step keeps the promise of ReplyQueue: no reply is lost, read twice or
\* out of order, and a drop never overtakes the replies that landed before it
\* (notifications.py:211-241).
THEOREM RepliesAreKept == Spec => ImplementsReplyQueue
<1>1. Init => Replies!Init
  <2>1. ASSUME Init PROVE Taken \o queue = <<>>
    BY <2>1, ConcatEmptySeq DEF Init, Taken
  <2> QED
    BY <2>1 DEF Init, Replies!Init
<1>2. IInv /\ [Next]_vars => [Replies!Next]_Replies!vars
  BY StepRefines
<1> QED
  BY <1>1, <1>2, InvHolds, PTL DEF Spec, ImplementsReplyQueue, Replies!Spec

-----------------------------------------------------------------------------
(* What the promise comes to *)

\* The frames held are newer than the last one given, and in order.
InOrder == /\ landed \in Nat /\ given \in 0 .. landed /\ Held \in Seq(Nat)
           /\ \A i \in DOMAIN Held : given < Held[i] /\ Held[i] <= landed
           /\ \A i, k \in DOMAIN Held : i < k => Held[i] < Held[k]

LEMMA PromiseKeepsOrder ==
    ASSUME InOrder, [Replies!Next]_Replies!vars
    PROVE  InOrder' /\ (given' = given \/ given' > given)
<1> USE DEF InOrder
<1>1. /\ Len(Held) \in Nat /\ DOMAIN Held = 1 .. Len(Held)
      /\ \A i \in 1 .. Len(Held) : Held[i] \in Nat
  BY ElementOfSeq
<1>2. CASE Replies!Land
  <2>1. /\ landed' = landed + 1 /\ given' = given /\ Held' = Append(Held, landed + 1)
    BY <1>2 DEF Replies!Land, Held
  <2>2. /\ Held' \in Seq(Nat) /\ DOMAIN Held' = 1 .. Len(Held) + 1
        /\ \A i \in 1 .. Len(Held) : Held'[i] = Held[i]
        /\ Held'[Len(Held) + 1] = landed + 1
    BY <2>1, AppendProperties
  <2>3. \A i \in DOMAIN Held' : i \in DOMAIN Held \/ i = Len(Held) + 1
    BY <1>1, <2>2
  <2>4. \A i \in DOMAIN Held' : given < Held'[i] /\ Held'[i] <= landed + 1
    <3> SUFFICES ASSUME NEW i \in DOMAIN Held'
                 PROVE  given < Held'[i] /\ Held'[i] <= landed + 1
      OBVIOUS
    <3>1. CASE i \in DOMAIN Held
      <4>1. Held'[i] = Held[i] /\ Held[i] \in Nat
        BY <1>1, <2>2, <3>1
      <4>2. given < Held[i] /\ Held[i] <= landed
        BY <3>1
      <4> QED
        BY <4>1, <4>2
    <3>2. CASE i = Len(Held) + 1
      BY <2>2, <3>2
    <3> QED
      BY <2>3, <3>1, <3>2
  <2>5. \A i, k \in DOMAIN Held' : i < k => Held'[i] < Held'[k]
    <3> SUFFICES ASSUME NEW i \in DOMAIN Held', NEW k \in DOMAIN Held', i < k
                 PROVE  Held'[i] < Held'[k]
      OBVIOUS
    <3>1. i \in DOMAIN Held
      BY <1>1, <2>2, <2>3
    <3>2. CASE k \in DOMAIN Held
      BY <1>1, <2>2, <3>1, <3>2
    <3>3. CASE k = Len(Held) + 1
      BY <1>1, <2>2, <3>1, <3>3
    <3> QED
      BY <2>3, <3>2, <3>3
  <2> QED
    BY <2>1, <2>2, <2>4, <2>5
<1>3. CASE Replies!Read
  <2>1. Held # <<>> /\ given' = Head(Held) /\ Held' = Tail(Held) /\ landed' = landed
    BY <1>3 DEF Replies!Read, Held
  <2>2. /\ Len(Held) # 0 /\ Head(Held) = Held[1] /\ Held' \in Seq(Nat)
        /\ DOMAIN Held' = 1 .. Len(Held) - 1
        /\ \A i \in 1 .. Len(Held) - 1 : Held'[i] = Held[i + 1]
    <3>1. Held \in Seq(Nat) /\ Held # <<>>
      BY <2>1
    <3>2. Len(Held) # 0
      BY <3>1, EmptySeq
    <3> QED
      BY <2>1, <3>1, <3>2, HeadTailProperties
  <2>3. 1 \in DOMAIN Held /\ \A i \in DOMAIN Held' : i + 1 \in DOMAIN Held /\ 1 < i + 1
    BY <1>1, <2>2
  <2>4. given' > given /\ given' \in 0 .. landed'
    BY <1>1, <2>1, <2>2, <2>3
  <2>5. \A i \in DOMAIN Held' : given' < Held'[i] /\ Held'[i] <= landed'
    BY <2>1, <2>2, <2>3
  <2>6. \A i, k \in DOMAIN Held' : i < k => Held'[i] < Held'[k]
    <3>1. \A i, k \in DOMAIN Held' : i < k => i + 1 < k + 1
      BY <2>2
    <3> QED
      BY <2>2, <2>3, <3>1
  <2> QED
    BY <2>1, <2>2, <2>4, <2>5, <2>6
<1>4. CASE Replies!ReadAll
  <2>1. Held' = <<>> /\ landed' = landed
        /\ given' = IF Held = <<>> THEN given ELSE Held[Len(Held)]
    BY <1>4 DEF Replies!ReadAll, Held
  <2>2. Held # <<>> => Len(Held) \in DOMAIN Held
    BY <1>1, EmptySeq
  <2>3. (given' = given \/ given' > given) /\ given' \in 0 .. landed'
    BY <1>1, <2>1, <2>2
  <2> QED
    BY <2>1, <2>3, EmptySeq
<1>5. CASE Replies!Discard
  <2>1. Held' = <<>> /\ landed' = landed /\ given' = given
    BY <1>5 DEF Replies!Discard, Held
  <2> QED
    BY <2>1, EmptySeq
<1>6. CASE \/ Replies!Drop \/ Replies!Ask \/ Replies!Written \/ Replies!GiveUp
           \/ Replies!SayDropped \/ UNCHANGED Replies!vars
  <2>1. Held' = Held /\ landed' = landed /\ given' = given
    BY <1>6 DEF Replies!Drop, Replies!Ask, Replies!Written, Replies!GiveUp,
                Replies!SayDropped, Replies!vars, Held
  <2> QED
    BY <2>1
<1> QED
  BY <1>2, <1>3, <1>4, <1>5, <1>6 DEF Replies!Next

\* The frames held are the last that landed, with none missing among them, and
\* a drop was known when some number of frames had landed.
Gapless == /\ \A i \in DOMAIN Held : Held[i] = landed - Len(Held) + i
           /\ droppedAt # Never => droppedAt \in 0 .. landed

LEMMA PromiseKeepsGapless ==
    ASSUME InOrder, Gapless, [Replies!Next]_Replies!vars
    PROVE  Gapless'
<1> USE DEF Gapless
<1>1. /\ landed \in Nat /\ Held \in Seq(Nat) /\ Len(Held) \in Nat
      /\ DOMAIN Held = 1 .. Len(Held)
  BY DEF InOrder
<1>2. CASE Replies!Land
  <2>1. landed' = landed + 1 /\ Held' = Append(Held, landed + 1) /\ droppedAt' = droppedAt
    BY <1>2 DEF Replies!Land, Held
  <2>2. /\ DOMAIN Held' = 1 .. Len(Held) + 1 /\ Len(Held') = Len(Held) + 1
        /\ \A i \in 1 .. Len(Held) : Held'[i] = Held[i]
        /\ Held'[Len(Held) + 1] = landed + 1
    BY <1>1, <2>1, AppendProperties
  <2>3. ASSUME NEW i \in DOMAIN Held' PROVE Held'[i] = landed' - Len(Held') + i
    <3>1. CASE i \in 1 .. Len(Held)
      BY <1>1, <2>1, <2>2, <3>1
    <3>2. CASE i = Len(Held) + 1
      BY <1>1, <2>1, <2>2, <3>2
    <3> QED
      BY <1>1, <2>2, <2>3, <3>1, <3>2
  <2> QED
    BY <1>1, <2>1, <2>3
<1>3. CASE Replies!Read
  <2>1. Held # <<>> /\ Held' = Tail(Held) /\ landed' = landed /\ droppedAt' = droppedAt
    BY <1>3 DEF Replies!Read, Held
  <2>2. /\ DOMAIN Held' = 1 .. Len(Held) - 1 /\ Len(Held') = Len(Held) - 1
        /\ \A i \in 1 .. Len(Held) - 1 : Held'[i] = Held[i + 1]
    <3>1. Len(Held) # 0
      BY <1>1, <2>1, EmptySeq
    <3> QED
      BY <1>1, <2>1, <3>1, HeadTailProperties
  <2>3. ASSUME NEW i \in DOMAIN Held' PROVE Held'[i] = landed' - Len(Held') + i
    <3>1. i + 1 \in DOMAIN Held
      BY <1>1, <2>2
    <3>2. Held[i + 1] = landed - Len(Held) + (i + 1)
      BY <3>1
    <3> QED
      BY <1>1, <2>1, <2>2, <3>2
  <2> QED
    BY <2>1, <2>3
<1>4. CASE Replies!ReadAll \/ Replies!Discard
  <2>1. Held' = <<>> /\ landed' = landed /\ droppedAt' = droppedAt
    BY <1>4 DEF Replies!ReadAll, Replies!Discard, Held
  <2> QED
    BY <2>1, EmptySeq
<1>5. CASE Replies!Drop
  <2>1. Held' = Held /\ landed' = landed /\ droppedAt' = landed
    BY <1>5 DEF Replies!Drop, Held
  <2> QED
    BY <1>1, <2>1
<1>6. CASE \/ Replies!Ask \/ Replies!Written \/ Replies!GiveUp
           \/ Replies!SayDropped \/ UNCHANGED Replies!vars
  <2>1. Held' = Held /\ landed' = landed /\ droppedAt' = droppedAt
    BY <1>6 DEF Replies!Ask, Replies!Written, Replies!GiveUp,
                Replies!SayDropped, Replies!vars, Held
  <2> QED
    BY <2>1
<1> QED
  BY <1>2, <1>3, <1>4, <1>5, <1>6 DEF Replies!Next

LEMMA PromiseHolds == Spec => [](InOrder /\ Gapless)
<1>1. Init => InOrder /\ Gapless
  <2> SUFFICES ASSUME Init PROVE InOrder /\ Gapless
    OBVIOUS
  <2>1. Held = <<>> /\ landed = 0 /\ given = 0 /\ droppedAt = Never
    BY ConcatEmptySeq DEF Init, Held, Taken
  <2> QED
    BY <2>1, EmptySeq DEF InOrder, Gapless
<1>2. IInv /\ InOrder /\ Gapless /\ [Next]_vars => (InOrder /\ Gapless)'
  BY StepRefines, PromiseKeepsOrder, PromiseKeepsGapless
<1> QED
  BY <1>1, <1>2, InvHolds, PTL DEF Spec

\* Whatever calls are made and however they end, the frames the reader is given
\* come in the order in which they landed, and none comes twice: a frame that a
\* timed out wait put back is in its place (notifications.py:237-241).
THEOREM ReadInOrder == Spec => [][given' > given]_given
<1>1. IInv /\ InOrder /\ [Next]_vars => [given' > given]_given
  BY StepRefines, PromiseKeepsOrder
<1> QED
  BY <1>1, PromiseHolds, InvHolds, PTL DEF Spec

\* However waits time out and tasks race, the replies not yet read or cleared
\* are the last ones that landed, with none missing among them: a getter that
\* is cancelled takes no frame with it (notifications.py:213-241).
THEOREM NothingIsSkipped == Spec => [](\A i \in DOMAIN Held : Held[i] = landed - Len(Held) + i)
BY PromiseHolds, PTL DEF Gapless

\* A wait that ends without a reply, timed out or told of the drop, loses none:
\* what was held for the reader is still held (notifications.py:228-241).
THEOREM EndedWaitLosesNothing ==
    Spec => [][(answer \in Replies!Open /\ answer' \in {"timeout", "dropped"})
               => Held' = Held /\ given' = given]_vars
<1>1. IInv /\ [Next]_vars
      => [(answer \in Replies!Open /\ answer' \in {"timeout", "dropped"})
          => Held' = Held /\ given' = given]_vars
  <2> SUFFICES ASSUME IInv, [Next]_vars, answer \in Replies!Open, answer' \in {"timeout", "dropped"}
               PROVE  Held' = Held /\ given' = given
    OBVIOUS
  <2>1. [Replies!Next]_Replies!vars
    BY StepRefines
  <2>2. Replies!GiveUp \/ Replies!SayDropped
    BY <2>1 DEF Replies!Next, Replies!vars, Replies!Land, Replies!Drop, Replies!Ask,
                Replies!Read, Replies!ReadAll, Replies!Discard, Replies!Written, Replies!Open
  <2> QED
    BY <2>2 DEF Replies!GiveUp, Replies!SayDropped, Held
<1> QED
  BY <1>1, InvHolds, PTL DEF Spec

\* A wait is given the oldest reply there is, not the one whose getter happened
\* to be woken first (notifications.py:213-236).
THEOREM NextIsTheOldest ==
    Spec => [][(given' # given /\ answer = "pending") => given' = landed - Len(Held) + 1]_vars
<1>1. IInv /\ InOrder /\ Gapless /\ [Next]_vars
      => [(given' # given /\ answer = "pending") => given' = landed - Len(Held) + 1]_vars
  <2> SUFFICES ASSUME IInv, InOrder, Gapless, [Next]_vars, given' # given, answer = "pending"
               PROVE  given' = landed - Len(Held) + 1
    OBVIOUS
  <2>1. [Replies!Next]_Replies!vars
    BY StepRefines
  <2>2. Replies!Read
    BY <2>1 DEF Replies!Next, Replies!vars, Replies!Land, Replies!Drop, Replies!Ask,
                Replies!ReadAll, Replies!Discard, Replies!Written, Replies!GiveUp,
                Replies!SayDropped, Replies!Open
  <2>3. Held # <<>> /\ given' = Head(Held)
    BY <2>2 DEF Replies!Read, Held
  <2>4. 1 \in DOMAIN Held /\ Head(Held) = Held[1]
    BY <2>3, EmptySeq DEF InOrder
  <2> QED
    BY <2>3, <2>4 DEF Gapless
<1> QED
  BY <1>1, PromiseHolds, InvHolds, PTL DEF Spec

\* A wait is told of the drop only once every reply that landed before the drop
\* was known has been read or cleared: their count is past it
\* (notifications.py:218-236).
THEOREM DropIsSaidLast ==
    Spec => [][(answer = "pending" /\ answer' = "dropped")
               => droppedAt # Never /\ droppedAt <= landed - Len(Held)]_vars
<1>1. IInv /\ InOrder /\ Gapless /\ [Next]_vars
      => [(answer = "pending" /\ answer' = "dropped")
          => droppedAt # Never /\ droppedAt <= landed - Len(Held)]_vars
  <2> SUFFICES ASSUME IInv, InOrder, Gapless, [Next]_vars, answer = "pending", answer' = "dropped"
               PROVE  droppedAt # Never /\ droppedAt <= landed - Len(Held)
    OBVIOUS
  <2>1. [Replies!Next]_Replies!vars
    BY StepRefines
  <2>2. Replies!SayDropped
    BY <2>1 DEF Replies!Next, Replies!vars, Replies!Land, Replies!Drop, Replies!Ask,
                Replies!Read, Replies!ReadAll, Replies!Discard, Replies!Written,
                Replies!GiveUp, Replies!Open
  <2>3. droppedAt # Never /\ \A i \in DOMAIN Held : Held[i] > droppedAt
    BY <2>2 DEF Replies!SayDropped, Held
  <2>4. landed \in Nat /\ droppedAt \in 0 .. landed /\ Len(Held) \in Nat
    BY <2>3 DEF Gapless, InOrder
  <2>5. CASE Held = <<>>
    BY <2>3, <2>4, <2>5, EmptySeq
  <2>6. CASE Held # <<>>
    <3>1. 1 \in DOMAIN Held
      BY <2>6, EmptySeq DEF InOrder
    <3>2. Held[1] = landed - Len(Held) + 1 /\ Held[1] > droppedAt
      BY <2>3, <3>1 DEF Gapless
    <3> QED
      BY <2>3, <2>4, <3>2
  <2> QED
    BY <2>5, <2>6
<1> QED
  BY <1>1, PromiseHolds, InvHolds, PTL DEF Spec

=============================================================================
