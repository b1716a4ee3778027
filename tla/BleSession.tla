----------------------------- MODULE BleSession -----------------------------
(***************************************************************************)
(* ble_session() of session.py: one session after another on one device,  *)
(* with the caller's side of the protocol its docstring gives              *)
(*                                                                         *)
(*    async with ble_session(.., client=self._client, keep=k) as client:   *)
(*        self._client = client if k else None                             *)
(*                                                                         *)
(* One action per stretch of code between two awaits.  bleak, the backend  *)
(* and the proxy are external: they bring links up, drop them, run the     *)
(* disconnect callback later, and let is_connected catch up later still.   *)
(*                                                                         *)
(* Some variables keep their value after a session ended, until the next   *)
(* one begins: client, turnedDown, args, exc, failedStage, timings, facts. *)
(* They are what the properties say of a finished session.                 *)
(***************************************************************************)
EXTENDS Naturals, FiniteSets

CONSTANTS
    Clients,     \* BleakClient objects
    NoClient,    \* Python's None where a client is expected
    MaxCancels   \* bound: cancellations one session is dealt

ASSUME NoClientAssumption == NoClient \notin Clients
ASSUME CancelsAssumption == MaxCancels \in Nat \ {0}

VARIABLES
    kept,         \* the caller's self._client
    pc,           \* what ble_session is suspended in
    args,         \* the arguments that steer the session
    client,       \* its local of that name
    turnedDown,   \* its local turned_down
    pending,      \* the client establish_connection works on
    handedOff,    \* its local handed_off
    exc,          \* how the session is ending, or ended
    cancels,      \* cancellations dealt so far
    failedStage,  \* SessionTrace.failed_stage
    timings,      \* the stages SessionTrace has timed
    facts,        \* the keys of SessionTrace.facts
    link,         \* what became of a client's link: a proxy may hold one
                  \* that the device has left
    connected,    \* client.is_connected, which lags behind the link
    owed,         \* the disconnect callback is still to run
    dropped,      \* the asyncio.Event on_disconnect sets
    watched       \* clients registered in _DROPPED

caller  == <<kept>>
local   == <<args, client, turnedDown, handedOff, exc, cancels>>
trace   == <<failedStage, timings, facts>>
backend == <<link, connected, owed>>
events  == <<dropped, watched>>
vars == <<caller, pc, local, pending, trace, backend, events>>

Args == [keep : BOOLEAN, settle : BOOLEAN, closeStale : BOOLEAN]
Stages == {"connect", "session", "disconnect"}
FactNames == {"reused", "mtu", "stale_close_error", "disconnect_error"}
Handles == Clients \cup {NoClient}

TypeOK ==
    /\ kept \in Handles
    /\ pc \in {"idle", "staleClose", "closeStale", "connect", "resume",
               "settle", "block", "close"}
    /\ args \in Args
    /\ client \in Handles
    /\ turnedDown \in Handles
    /\ pending \in Handles
    /\ handedOff \in BOOLEAN
    /\ exc \in {"none", "error", "cancelled"}
    /\ cancels \in 0 .. MaxCancels
    /\ failedStage \in Stages \cup {"none"}
    /\ timings \subseteq Stages
    /\ facts \subseteq FactNames
    /\ link \in [Clients -> {"gone", "up", "held"}]
    /\ connected \in [Clients -> BOOLEAN]
    /\ owed \in [Clients -> BOOLEAN]
    /\ dropped \in [Clients -> BOOLEAN]
    /\ watched \subseteq Clients

-----------------------------------------------------------------------------
(* Helpers of session.py and trace.py *)

StillUp(c) == /\ c # NoClient
              /\ connected[c]
              /\ c \in watched => ~dropped[c]

\* Mutant: the stage the exception left last is named.
LastFailsIn(s) == failedStage' = s

\* An exception leaves stage s: the first stage to fail is the one named.
FailIn(s) == failedStage' = IF failedStage = "none" THEN s ELSE failedStage

\* What the caller's first line in the block leaves in self._client.
KeptBy(c, keep) == IF keep THEN c ELSE NoClient

\* Mutants: keep=True is honoured for a link never handed over; or not at all.
KeepsUndelivered(c, keep, handed) == c # NoClient /\ ~keep
ClosesKept(c, keep, handed) == c # NoClient

\* The `finally`: is there a client, and is it not the caller's by now?
MustClose(c, keep, handed) == c # NoClient /\ (~keep \/ ~handed)

\* Mutant: a handle that says it is disconnected is not worth a close.
ToTurnDownIfConnected(c) == IF c # NoClient /\ connected[c] THEN c ELSE NoClient

\* A handle still_up() turned down is closed whatever its is_connected says.
ToTurnDown(c) == c

\* Where the connect stage goes from here, turned_down dealt with.
AfterStaleClose(a) == IF a.closeStale THEN "closeStale" ELSE "connect"

-----------------------------------------------------------------------------
(* Opening a session *)

Begin(a) ==
    /\ pc = "idle"
    /\ args' = a
    /\ exc' = "none"
    /\ cancels' = 0
    /\ failedStage' = "none"
    /\ timings' = {}

\* The caller's link is still up: straight to the block on it.
Reuse(a) ==
    /\ Begin(a)
    /\ StillUp(kept)
    /\ pc' = "block"
    /\ client' = kept
    /\ turnedDown' = NoClient
    /\ handedOff' = TRUE
    /\ facts' = {"reused"}
    /\ kept' = KeptBy(kept, a.keep)
    /\ UNCHANGED <<pending, backend, events>>

Open(a) ==
    /\ Begin(a)
    /\ ~StillUp(kept)
    /\ client' = NoClient
    /\ turnedDown' = ToTurnDown(kept)
    /\ handedOff' = FALSE
    /\ facts' = {}
    /\ pc' = IF turnedDown' # NoClient THEN "staleClose" ELSE AfterStaleClose(a)
    /\ UNCHANGED <<caller, pending, backend, events>>

-----------------------------------------------------------------------------
(* _close(), at its two sites: a turned-down handle inside the connect     *)
(* stage, and the session's own client in the `finally`                    *)

Target == CASE pc = "staleClose" -> turnedDown
            [] pc = "close" -> client
            [] OTHER -> NoClient

\* Mutant: the site's fact is given with its suffix already on.
CloseFactTwice(at) == IF at = "staleClose" THEN "stale_close_error_error"
                                           ELSE "disconnect_error_error"

CloseFact(at) == IF at = "staleClose" THEN "stale_close_error" ELSE "disconnect_error"

\* The code after the close, when _close returned rather than was cancelled.
AfterClose ==
    /\ \/ /\ pc = "staleClose"
          /\ pc' = AfterStaleClose(args)
          /\ UNCHANGED timings
       \/ /\ pc = "close"
          /\ pc' = "idle"
          /\ timings' = timings \cup {"disconnect"}
    /\ UNCHANGED <<caller, local, pending, failedStage, dropped, watched>>

\* disconnect() came back: the slot is free, the callback runs if it still has to.
CloseReturns ==
    /\ AfterClose
    /\ link' = [link EXCEPT ![Target] = "gone"]
    /\ connected' = [connected EXCEPT ![Target] = FALSE]
    /\ owed' = [owed EXCEPT ![Target] = @ \/ link[Target] = "up"]
    /\ UNCHANGED facts

\* Mutant: a close that fails is tried again until it works.
CloseRetries ==
    /\ pc \in {"staleClose", "close"}
    /\ facts' = facts \cup {CloseFact(pc)}
    /\ UNCHANGED <<caller, pc, local, pending, failedStage, timings, backend, events>>

\* Mutant: an error of the close is the session's.
CloseRaises ==
    /\ pc \in {"staleClose", "close"}
    /\ pc' = "idle"
    /\ exc' = "error"
    /\ FailIn("disconnect")
    /\ facts' = facts \cup {CloseFact(pc)}
    /\ UNCHANGED <<caller, args, client, turnedDown, handedOff, cancels, pending,
                   timings, backend, events>>

\* disconnect() raised, or ran into disconnect_timeout_s: only noted.
CloseFails ==
    /\ AfterClose
    /\ facts' = facts \cup {CloseFact(pc)}
    /\ UNCHANGED backend

-----------------------------------------------------------------------------
(* The rest of the connect stage.  client is None in it until Resume, so a  *)
(* failure has nothing to close and ends the session.                      *)

EndInConnect(how) ==
    /\ exc' = how
    /\ FailIn("connect")
    /\ timings' = timings \cup {"connect"}
    /\ pc' = "idle"
    /\ UNCHANGED <<caller, args, client, turnedDown, handedOff, facts, events>>

CloseStaleReturns ==
    /\ pc = "closeStale"
    /\ pc' = "connect"
    /\ UNCHANGED <<caller, local, pending, trace, backend, events>>

CloseStaleRaises ==
    /\ pc = "closeStale"
    /\ EndInConnect("error")
    /\ UNCHANGED <<cancels, pending, backend>>

\* establish_connection builds its client once, with on_disconnect.  A name
\* nobody refers to any more stands for the new object.
BuildClient(c) ==
    /\ pc = "connect"
    /\ pending = NoClient
    /\ c \notin {kept, turnedDown}
    /\ link[c] = "gone"
    /\ ~owed[c]
    /\ pending' = c
    /\ connected' = [connected EXCEPT ![c] = FALSE]
    /\ dropped' = [dropped EXCEPT ![c] = FALSE]
    /\ watched' = watched \ {c}
    /\ UNCHANGED <<caller, pc, local, trace, link, owed>>

\* A connect() it retries has failed after the link was up for a moment.
ConnectRetryFires ==
    /\ pc = "connect"
    /\ pending # NoClient
    /\ dropped' = [dropped EXCEPT ![pending] = TRUE]
    /\ UNCHANGED <<caller, pc, local, pending, trace, backend, watched>>

\* The link is up; ble_session resumes in a later step of the event loop.
ConnectUp ==
    /\ pc = "connect"
    /\ pending # NoClient
    /\ pc' = "resume"
    /\ link' = [link EXCEPT ![pending] = "up"]
    /\ connected' = [connected EXCEPT ![pending] = TRUE]
    /\ UNCHANGED <<caller, local, pending, trace, owed, events>>

\* establish_connection gives up, and cleans up behind itself.
ReleasePending ==
    /\ pending' = NoClient
    /\ link' = [c \in Clients |-> IF c = pending THEN "gone" ELSE link[c]]
    /\ connected' = [c \in Clients |-> IF c = pending THEN FALSE ELSE connected[c]]
    /\ UNCHANGED owed

ConnectRaises ==
    /\ pc = "connect"
    /\ EndInConnect("error")
    /\ ReleasePending
    /\ UNCHANGED cancels

Yield(c, keep) ==
    /\ pc' = "block"
    /\ handedOff' = TRUE
    /\ timings' = timings \cup {"connect"}
    /\ kept' = KeptBy(c, keep)

\* establish_connection returned: the event is cleared and registered.  The
\* registration is given up for a client without weak references.
Resume ==
    /\ pc = "resume"
    /\ client' = pending
    /\ pending' = NoClient
    /\ dropped' = [dropped EXCEPT ![pending] = FALSE]
    /\ watched' \in {watched, watched \cup {pending}}
    /\ IF args.settle
         THEN pc' = "settle" /\ UNCHANGED <<caller, handedOff, timings>>
         ELSE Yield(pending, args.keep)
    /\ UNCHANGED <<args, turnedDown, exc, cancels, failedStage, facts, backend>>

\* _settle() looks at both signs of a drop whenever its wait ends.
SettleSeesDrop == dropped[client] \/ ~connected[client]

SettleOver ==
    /\ pc = "settle"
    /\ ~SettleSeesDrop
    /\ Yield(client, args.keep)
    /\ UNCHANGED <<args, client, turnedDown, exc, cancels, pending,
                   failedStage, facts, backend, events>>

\* The settle ends in an exception, with a client in hand.
EndInSettle(how) ==
    /\ pc = "settle"
    /\ exc' = how
    /\ FailIn("connect")
    /\ timings' = timings \cup {"connect"}
    /\ pc' = IF MustClose(client, args.keep, handedOff) THEN "close" ELSE "idle"
    /\ UNCHANGED <<caller, args, client, turnedDown, handedOff, pending,
                   facts, backend, events>>

SettleDrops ==
    /\ EndInSettle("error")
    /\ SettleSeesDrop
    /\ UNCHANGED cancels

-----------------------------------------------------------------------------
(* The block and the way out *)

\* Mutant: `except Exception` in timed(), so a cancellation is blamed on nothing.
EndBlockException(how) ==
    /\ pc = "block"
    /\ exc' = how
    /\ IF how = "error" THEN FailIn("session") ELSE UNCHANGED failedStage
    /\ timings' = timings \cup {"session"}
    /\ facts' \in {facts, facts \cup {"mtu"}}
    /\ pc' = IF MustClose(client, args.keep, handedOff) THEN "close" ELSE "idle"
    /\ UNCHANGED <<caller, args, client, turnedDown, handedOff, pending,
                   backend, events>>

EndBlock(how) ==
    /\ pc = "block"
    /\ exc' = how
    /\ IF how = "none" THEN UNCHANGED failedStage ELSE FailIn("session")
    /\ timings' = timings \cup {"session"}
    /\ facts' \in {facts, facts \cup {"mtu"}}
    /\ pc' = IF MustClose(client, args.keep, handedOff) THEN "close" ELSE "idle"
    /\ UNCHANGED <<caller, args, client, turnedDown, handedOff, pending,
                   backend, events>>

BlockReturns == EndBlock("none") /\ UNCHANGED cancels

BlockRaises == EndBlock("error") /\ UNCHANGED cancels

-----------------------------------------------------------------------------
(* Cancellation: the attempt bound of run_attempts, or Home Assistant      *)
(* giving the task up.  It lands at whichever await is suspended.          *)

DealCancel == cancels < MaxCancels /\ cancels' = cancels + 1

CancelConnect ==
    /\ pc \in {"staleClose", "closeStale", "connect", "resume"}
    /\ DealCancel
    /\ EndInConnect("cancelled")
    /\ ReleasePending

CancelSettle == DealCancel /\ EndInSettle("cancelled")

CancelBlock == DealCancel /\ EndBlock("cancelled")

CancelClose ==
    /\ pc = "close"
    /\ DealCancel
    /\ exc' = "cancelled"
    /\ FailIn("disconnect")
    /\ timings' = timings \cup {"disconnect"}
    /\ pc' = "idle"
    /\ UNCHANGED <<caller, args, client, turnedDown, handedOff, pending,
                   facts, backend, events>>

Cancel == CancelConnect \/ CancelSettle \/ CancelBlock \/ CancelClose

-----------------------------------------------------------------------------
(* The backend *)

\* The device leaves: its link is gone, or a proxy goes on holding it.
Drop(c) ==
    /\ link[c] = "up"
    /\ \E l \in {"gone", "held"} : link' = [link EXCEPT ![c] = l]
    /\ owed' = [owed EXCEPT ![c] = TRUE]
    /\ UNCHANGED <<caller, pc, local, pending, trace, connected, events>>

Report(c) ==
    /\ link[c] # "up"
    /\ connected[c]
    /\ connected' = [connected EXCEPT ![c] = FALSE]
    /\ UNCHANGED <<caller, pc, local, pending, trace, link, owed, events>>

Callback(c) ==
    /\ owed[c]
    /\ owed' = [owed EXCEPT ![c] = FALSE]
    /\ dropped' = [dropped EXCEPT ![c] = TRUE]
    /\ UNCHANGED <<caller, pc, local, pending, trace, link, connected, watched>>

\* The proxy lets a link go by itself.
Release(c) ==
    /\ link[c] = "held"
    /\ link' = [link EXCEPT ![c] = "gone"]
    /\ UNCHANGED <<caller, pc, local, pending, trace, connected, owed, events>>

-----------------------------------------------------------------------------
Init ==
    /\ kept = NoClient
    /\ pc = "idle"
    /\ args = [keep |-> FALSE, settle |-> FALSE, closeStale |-> FALSE]
    /\ client = NoClient
    /\ turnedDown = NoClient
    /\ pending = NoClient
    /\ handedOff = FALSE
    /\ exc = "none"
    /\ cancels = 0
    /\ failedStage = "none"
    /\ timings = {}
    /\ facts = {}
    /\ link = [c \in Clients |-> "gone"]
    /\ connected = [c \in Clients |-> FALSE]
    /\ owed = [c \in Clients |-> FALSE]
    /\ dropped = [c \in Clients |-> FALSE]
    /\ watched = {}

Next ==
    \/ \E a \in Args : Reuse(a) \/ Open(a)
    \/ CloseReturns \/ CloseFails
    \/ CloseStaleReturns \/ CloseStaleRaises
    \/ \E c \in Clients : BuildClient(c)
    \/ ConnectRetryFires \/ ConnectUp \/ ConnectRaises \/ Resume
    \/ SettleOver \/ SettleDrops
    \/ BlockReturns \/ BlockRaises
    \/ Cancel
    \/ \E c \in Clients : Drop(c) \/ Report(c) \/ Callback(c) \/ Release(c)

Spec == Init /\ [][Next]_vars

\* The attempt bound fires in the end, but once; another cancellation may come
\* or not.  A close has its own bound.  Nothing is asked of bleak, of the device
\* or of the block.
Fairness == WF_vars(cancels = 0 /\ Cancel) /\ WF_vars(CloseFails)

FairSpec == Spec /\ Fairness

-----------------------------------------------------------------------------
(* Properties *)

\* Once a session is over, a link it closed or turned down that is still
\* held shows on the report, as a note or as the cancellation that cut the
\* close short: no connection slot is lost silently (session.py:211-224).
LeakIsReported ==
    pc = "idle" =>
        /\ client # NoClient /\ client # kept /\ link[client] # "gone"
             => "disconnect_error" \in facts \/ exc = "cancelled"
        /\ turnedDown # NoClient /\ link[turnedDown] # "gone"
             => "stale_close_error" \in facts \/ exc = "cancelled"

\* The stage a finished session is blamed on fits what it got done: the
\* connect stage only if the caller never had the client, the session stage
\* only if it had, no stage at all only after a success; and a session that
\* timed no connect ran on the caller's link and says so.
Attribution ==
    pc = "idle" =>
        /\ failedStage = "none" <=> exc = "none"
        /\ failedStage = "connect" => ~handedOff /\ "connect" \in timings
        /\ failedStage \in {"session", "disconnect"} => handedOff
        /\ "mtu" \in facts => "session" \in timings
        /\ handedOff => ("connect" \notin timings <=> "reused" \in facts)

\* The close is blamed only when it is what turned a success into a failure:
\* a session that failed before keeps the stage it failed in, and one that
\* had not loses its result to a cancellation alone (session.py:239-243).
CloseNeverMasks ==
    [][pc = "close" =>
          /\ failedStage # "none" => failedStage' = failedStage
          /\ failedStage' = "disconnect" <=> exc = "none" /\ exc' = "cancelled"]_vars

\* The links of session.py are owned as LinkOwnership promises.
Owner(c) ==
    CASE c = pending -> "connector"
      [] c = Target -> "closing"
      [] pc \in {"settle", "block"} /\ c = client /\ ~(args.keep /\ handedOff) -> "session"
      [] c = kept /\ c # turnedDown -> "caller"
      [] OTHER -> "nobody"

Ownership == INSTANCE LinkOwnership WITH
    owner <- [c \in Clients |-> Owner(c)],
    live <- {c \in Clients : link[c] # "gone"}

\* Every step of a session is a step LinkOwnership allows, or none.
ImplementsLinkOwnership == Ownership!Spec

\* At most one link is in anybody's hands (see LinkOwnership).
OneLinkOwned == Ownership!OneOwned

Life == INSTANCE SessionLife WITH
    life <- CASE pc = "idle" -> "idle" [] pc = "close" -> "closing" [] OTHER -> "running",
    how <- exc

\* To its attempt a session is what SessionLife says: what it ends as is
\* settled before the close, and the close ends (session.py:222-243).
ImplementsSessionLife == Life!Spec /\ Life!ClosesEnd

\* A session always ends, however silent the device and the backend are.
SessionEnds == (pc # "idle") ~> (pc = "idle")

\* session.py:134 and 192-196: once the callback of a link that went has
\* run, the event of a watched client is set, for the whole block.
WatchedDropIsKnown ==
    pc = "block" /\ client \in watched /\ link[client] # "up" /\ ~owed[client]
        => dropped[client]

\* session.py:30-33: a bound that fires during the close is reported as
\* the disconnect's, not as the failure of another stage.
BoundInCloseBlamesClose == [][CancelClose => failedStage' = "disconnect"]_vars

=============================================================================
