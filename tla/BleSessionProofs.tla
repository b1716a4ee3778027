-------------------------- MODULE BleSessionProofs --------------------------
(***************************************************************************)
(* Theorems about BleSession, for any number of clients and cancellations. *)
(*                                                                         *)
(* The inductive invariant says, phase by phase, whose hands the handles   *)
(* are in and what the trace has recorded so far; the two properties of a  *)
(* finished session are what is left of it at "idle".                      *)
(***************************************************************************)
EXTENDS BleSession, TLAPS

USE NoClientAssumption, CancelsAssumption

Opening == {"staleClose", "closeStale", "connect", "resume"}

\* establish_connection works on an object nobody else refers to.
PendingIsFresh ==
    /\ pending # NoClient => pc \in {"connect", "resume"} /\ pending \notin {kept, turnedDown}
    /\ pc = "resume" => pending # NoClient

\* Until it hands a client over, a session has only opened and closed, and
\* the caller still refers to the handle that was turned down.
BeforeHandOver ==
    /\ pc = "staleClose" => turnedDown # NoClient
    /\ pc \in Opening => client = NoClient
    /\ pc = "settle" => client \in Clients \ {turnedDown}
    /\ pc \in Opening \cup {"settle"} =>
          /\ ~handedOff /\ kept = turnedDown
          /\ exc = "none" /\ failedStage = "none"
          /\ timings = {} /\ facts \subseteq {"stale_close_error"}

\* How the connect stage shows on the trace of a session handed over.
ConnectTimed == "connect" \notin timings <=> "reused" \in facts

InBlock ==
    pc = "block" =>
        /\ handedOff /\ client \in Clients \ {turnedDown}
        /\ kept = KeptBy(client, args.keep)
        /\ exc = "none" /\ failedStage = "none"
        /\ "mtu" \notin facts /\ ConnectTimed

InClose ==
    pc = "close" =>
        /\ client \in Clients \ {turnedDown}
        /\ failedStage = "none" <=> exc = "none"
        /\ IF handedOff
             THEN /\ kept = NoClient
                  /\ failedStage \in {"none", "session"}
                  /\ "session" \in timings /\ ConnectTimed
             ELSE /\ kept = turnedDown
                  /\ failedStage = "connect"
                  /\ "connect" \in timings /\ "mtu" \notin facts

\* A handle that was turned down is never found up again.
StaysDown == turnedDown # NoClient => ~StillUp(turnedDown)

\* What became of the turned-down handle is settled once its close is over.
StaleIsReported ==
    turnedDown # NoClient /\ pc # "staleClose" /\ link[turnedDown] # "gone"
        => "stale_close_error" \in facts \/ (pc = "idle" /\ exc = "cancelled")

IInv == /\ TypeOK
        /\ PendingIsFresh /\ BeforeHandOver /\ InBlock /\ InClose
        /\ StaysDown /\ StaleIsReported
        /\ LeakIsReported /\ Attribution

USE DEF vars, caller, local, trace, backend, events

-----------------------------------------------------------------------------
(* Types *)

\* The initial values are in range.
LEMMA TypeInit == Init => TypeOK
<1> SUFFICES ASSUME Init PROVE TypeOK
  OBVIOUS
<1> USE DEF Init
<1>1. args \in Args
  BY DEF Args
<1>2. cancels \in 0 .. MaxCancels
  OBVIOUS
<1>3. timings \subseteq Stages /\ facts \subseteq FactNames /\ watched \subseteq Clients
  OBVIOUS
<1>4. /\ link \in [Clients -> {"gone", "up", "held"}]
      /\ connected \in [Clients -> BOOLEAN]
      /\ owed \in [Clients -> BOOLEAN]
      /\ dropped \in [Clients -> BOOLEAN]
  OBVIOUS
<1>5. QED
  BY <1>1, <1>2, <1>3, <1>4 DEF TypeOK, Handles

\* Every step keeps the variables in range.  Resume needs to know that there
\* is a client to resume with.
LEMMA TypeStep == TypeOK /\ PendingIsFresh /\ [Next]_vars => TypeOK'
<1> SUFFICES ASSUME TypeOK, PendingIsFresh, [Next]_vars PROVE TypeOK'
  OBVIOUS
<1> USE DEF TypeOK, Handles, Stages, FactNames
<1>1. ASSUME NEW a \in Args, Reuse(a) PROVE TypeOK'
  BY <1>1 DEF Reuse, Begin, KeptBy, StillUp
<1>2. ASSUME NEW a \in Args, Open(a) PROVE TypeOK'
  <2> USE <1>2 DEF Open, Begin, ToTurnDown
  <2>1. pc' \in {"staleClose", "closeStale", "connect"}
    BY DEF AfterStaleClose
  <2>2. timings' \subseteq Stages /\ facts' \subseteq FactNames
    OBVIOUS
  <2>3. cancels' \in 0 .. MaxCancels
    OBVIOUS
  <2>4. QED
    BY <2>1, <2>2, <2>3
<1>3. ASSUME CloseReturns PROVE TypeOK'
  <2> USE <1>3 DEF CloseReturns, AfterClose
  <2>1. pc' \in {"closeStale", "connect", "idle"} /\ timings' \subseteq Stages
    BY DEF AfterStaleClose
  <2>2. /\ link' \in [Clients -> {"gone", "up", "held"}]
        /\ connected' \in [Clients -> BOOLEAN]
        /\ owed' \in [Clients -> BOOLEAN]
    OBVIOUS
  <2>3. QED
    BY <2>1, <2>2
<1>4. ASSUME CloseFails PROVE TypeOK'
  <2> USE <1>4 DEF CloseFails, AfterClose
  <2>1. pc' \in {"closeStale", "connect", "idle"}
    BY DEF AfterStaleClose
  <2>2. timings' \subseteq Stages /\ facts' \subseteq FactNames
    BY DEF CloseFact
  <2>3. QED
    BY <2>1, <2>2
<1>5. ASSUME CloseStaleReturns PROVE TypeOK'
  BY <1>5 DEF CloseStaleReturns
<1>6. ASSUME CloseStaleRaises PROVE TypeOK'
  BY <1>6 DEF CloseStaleRaises, EndInConnect, FailIn
<1>7. ASSUME NEW c \in Clients, BuildClient(c) PROVE TypeOK'
  BY <1>7 DEF BuildClient
<1>8. ASSUME ConnectRetryFires PROVE TypeOK'
  BY <1>8 DEF ConnectRetryFires
<1>9. ASSUME ConnectUp PROVE TypeOK'
  BY <1>9 DEF ConnectUp
<1>10. ASSUME ConnectRaises PROVE TypeOK'
  BY <1>10 DEF ConnectRaises, EndInConnect, FailIn, ReleasePending
<1>11. ASSUME Resume PROVE TypeOK'
  BY <1>11 DEF Resume, Yield, KeptBy, PendingIsFresh
<1>12. ASSUME SettleOver PROVE TypeOK'
  BY <1>12 DEF SettleOver, Yield, KeptBy
<1>13. ASSUME SettleDrops PROVE TypeOK'
  BY <1>13 DEF SettleDrops, EndInSettle, FailIn, MustClose
<1>14. ASSUME BlockReturns PROVE TypeOK'
  BY <1>14 DEF BlockReturns, EndBlock, FailIn, MustClose
<1>15. ASSUME BlockRaises PROVE TypeOK'
  BY <1>15 DEF BlockRaises, EndBlock, FailIn, MustClose
<1>16. ASSUME CancelConnect PROVE TypeOK'
  <2> USE <1>16 DEF CancelConnect, DealCancel, EndInConnect, FailIn,
    ReleasePending
  <2>1. timings' \subseteq Stages
    OBVIOUS
  <2>2. cancels' \in 0 .. MaxCancels
    OBVIOUS
  <2>3. QED
    BY <2>1, <2>2
<1>17. ASSUME CancelSettle PROVE TypeOK'
  BY <1>17 DEF CancelSettle, DealCancel, EndInSettle, FailIn, MustClose
<1>18. ASSUME CancelBlock PROVE TypeOK'
  BY <1>18 DEF CancelBlock, DealCancel, EndBlock, FailIn, MustClose
<1>19. ASSUME CancelClose PROVE TypeOK'
  BY <1>19 DEF CancelClose, DealCancel, FailIn
<1>20. ASSUME NEW c \in Clients, Drop(c) PROVE TypeOK'
  BY <1>20 DEF Drop
<1>21. ASSUME NEW c \in Clients, Report(c) PROVE TypeOK'
  BY <1>21 DEF Report
<1>22. ASSUME NEW c \in Clients, Callback(c) PROVE TypeOK'
  BY <1>22 DEF Callback
<1>23. ASSUME NEW c \in Clients, Release(c) PROVE TypeOK'
  BY <1>23 DEF Release
<1>24. ASSUME UNCHANGED vars PROVE TypeOK'
  BY <1>24
<1>25. QED
  BY <1>1, <1>2, <1>3, <1>4, <1>5, <1>6, <1>7, <1>8, <1>9, <1>10, <1>11,
     <1>12, <1>13, <1>14, <1>15, <1>16, <1>17, <1>18, <1>19, <1>20, <1>21,
     <1>22, <1>23, <1>24 DEF Next, Cancel

-----------------------------------------------------------------------------
(* The inductive invariant *)

LEMMA InvInit == Init => IInv
BY TypeInit DEF Init, IInv, PendingIsFresh, BeforeHandOver, InBlock, InClose,
   StaysDown, StaleIsReported, LeakIsReported, Attribution, Opening

LEMMA InvStep == IInv /\ [Next]_vars => IInv'
<1> SUFFICES ASSUME IInv, [Next]_vars PROVE IInv'
  OBVIOUS
<1> USE TypeStep DEF IInv, TypeOK, Handles, Args, Stages, FactNames
<1> USE DEF Opening, ConnectTimed, PendingIsFresh, BeforeHandOver, InBlock,
            InClose, StaysDown, StillUp, StaleIsReported, KeptBy,
            LeakIsReported, Attribution
<1>1. ASSUME NEW a \in Args, Reuse(a) PROVE IInv'
  BY <1>1 DEF Reuse, Begin
<1>2. ASSUME NEW a \in Args, Open(a) PROVE IInv'
  BY <1>2 DEF Open, Begin, ToTurnDown, AfterStaleClose
<1>3. ASSUME CloseReturns PROVE IInv'
  BY <1>3 DEF CloseReturns, AfterClose, AfterStaleClose, Target
<1>4. ASSUME CloseFails PROVE IInv'
  BY <1>4 DEF CloseFails, AfterClose, AfterStaleClose, CloseFact
<1>5. ASSUME CloseStaleReturns PROVE IInv'
  BY <1>5 DEF CloseStaleReturns
<1>6. ASSUME CloseStaleRaises PROVE IInv'
  BY <1>6 DEF CloseStaleRaises, EndInConnect, FailIn
<1>7. ASSUME NEW c \in Clients, BuildClient(c) PROVE IInv'
  BY <1>7 DEF BuildClient
<1>8. ASSUME ConnectRetryFires PROVE IInv'
  BY <1>8 DEF ConnectRetryFires
<1>9. ASSUME ConnectUp PROVE IInv'
  BY <1>9 DEF ConnectUp
<1>10. ASSUME ConnectRaises PROVE IInv'
  <2> USE <1>10 DEF ConnectRaises, EndInConnect, FailIn, ReleasePending
  <2>1. TypeOK'
    OBVIOUS
  <2>2. PendingIsFresh' /\ BeforeHandOver' /\ InBlock' /\ InClose'
    OBVIOUS
  <2>3. StaysDown'
    OBVIOUS
  <2>4. StaleIsReported'
    OBVIOUS
  <2>5. LeakIsReported' /\ Attribution'
    OBVIOUS
  <2>6. QED
    BY <2>1, <2>2, <2>3, <2>4, <2>5
<1>11. ASSUME Resume PROVE IInv'
  BY <1>11 DEF Resume, Yield
<1>12. ASSUME SettleOver PROVE IInv'
  BY <1>12 DEF SettleOver, Yield
<1>13. ASSUME SettleDrops PROVE IInv'
  BY <1>13 DEF SettleDrops, EndInSettle, FailIn, MustClose
<1>14. ASSUME BlockReturns PROVE IInv'
  BY <1>14 DEF BlockReturns, EndBlock, FailIn, MustClose
<1>15. ASSUME BlockRaises PROVE IInv'
  BY <1>15 DEF BlockRaises, EndBlock, FailIn, MustClose
<1>16. ASSUME CancelConnect PROVE IInv'
  BY <1>16 DEF CancelConnect, DealCancel, EndInConnect, FailIn, ReleasePending
<1>17. ASSUME CancelSettle PROVE IInv'
  BY <1>17 DEF CancelSettle, DealCancel, EndInSettle, FailIn, MustClose
<1>18. ASSUME CancelBlock PROVE IInv'
  BY <1>18 DEF CancelBlock, DealCancel, EndBlock, FailIn, MustClose
<1>19. ASSUME CancelClose PROVE IInv'
  BY <1>19 DEF CancelClose, DealCancel, FailIn
<1>20. ASSUME NEW c \in Clients, Drop(c) PROVE IInv'
  BY <1>20 DEF Drop
<1>21. ASSUME NEW c \in Clients, Report(c) PROVE IInv'
  BY <1>21 DEF Report
<1>22. ASSUME NEW c \in Clients, Callback(c) PROVE IInv'
  BY <1>22 DEF Callback
<1>23. ASSUME NEW c \in Clients, Release(c) PROVE IInv'
  BY <1>23 DEF Release
<1>24. ASSUME UNCHANGED vars PROVE IInv'
  BY <1>24
<1>25. QED
  BY <1>1, <1>2, <1>3, <1>4, <1>5, <1>6, <1>7, <1>8, <1>9, <1>10, <1>11,
     <1>12, <1>13, <1>14, <1>15, <1>16, <1>17, <1>18, <1>19, <1>20, <1>21,
     <1>22, <1>23, <1>24 DEF Next, Cancel

\* BleSession's variables stay in range.
THEOREM TypeCorrect == Spec => []TypeOK
<1>1. IInv => TypeOK
  BY DEF IInv
<1>2. QED
  BY InvInit, InvStep, <1>1, PTL DEF Spec

\* Whatever the backend does and wherever a cancellation lands, a link that
\* a finished session left behind is on its report (see LeakIsReported).
THEOREM LeaksAreReported == Spec => []LeakIsReported
<1>1. IInv => LeakIsReported
  BY DEF IInv
<1>2. QED
  BY InvInit, InvStep, <1>1, PTL DEF Spec

\* Every finished session is blamed on the stage that fits what it got done
\* (see Attribution).
THEOREM AttributionHolds == Spec => []Attribution
<1>1. IInv => Attribution
  BY DEF IInv
<1>2. QED
  BY InvInit, InvStep, <1>1, PTL DEF Spec

\* A close that is cut short is blamed only for what it spoiled itself (see
\* CloseNeverMasks).
THEOREM CloseMasksNothing == Spec => CloseNeverMasks
<1> DEFINE Kept == pc = "close" =>
          /\ failedStage # "none" => failedStage' = failedStage
          /\ failedStage' = "disconnect" <=> exc = "none" /\ exc' = "cancelled"
<1>1. IInv /\ [Next]_vars => [Kept]_vars
  <2> SUFFICES ASSUME IInv, Next, pc = "close" PROVE Kept
    OBVIOUS
  <2> USE DEF IInv, TypeOK, InClose, Stages
  <2>1. CASE CloseReturns
    BY <2>1 DEF CloseReturns, AfterClose
  <2>2. CASE CloseFails
    BY <2>2 DEF CloseFails, AfterClose
  <2>3. CASE CancelClose
    BY <2>3 DEF CancelClose, FailIn
  <2>4. CASE UNCHANGED <<failedStage, exc>>
    BY <2>4
  <2>5. QED
    BY <2>1, <2>2, <2>3, <2>4 DEF Next, Cancel, Reuse, Open, Begin,
       CloseStaleReturns, CloseStaleRaises, BuildClient, ConnectRetryFires,
       ConnectUp, ConnectRaises, Resume, SettleOver, SettleDrops, EndInSettle,
       BlockReturns, BlockRaises, EndBlock, CancelConnect, CancelSettle,
       CancelBlock, Drop, Report, Callback, Release
<1>2. QED
  BY InvInit, InvStep, <1>1, PTL DEF Spec, CloseNeverMasks

-----------------------------------------------------------------------------
(* Refinement of LinkOwnership *)

AbstractStep == [Ownership!Next]_Ownership!vars

\* A step that changes the owner of one handle moves that handle.
LEMMA OneMoves ==
    ASSUME NEW k \in Clients, NEW from, NEW to, Owner(k) \in from,
           \A c \in Clients : Owner(c)' = IF c = k THEN to ELSE Owner(c)
    PROVE Ownership!Move(k, from, to)
BY DEF Ownership!Move

\* A step that changes no owner and no link is a stutter.
LEMMA NoneMoves ==
    ASSUME \A c \in Clients : Owner(c)' = Owner(c),
           link' = link
    PROVE AbstractStep
BY DEF AbstractStep, Ownership!vars

\* Who owns what in each phase: one handle is owned, or none.
OwnersByPhase ==
    \A c \in Clients :
        /\ pc = "idle" =>
              Owner(c) = IF c = kept /\ c # turnedDown THEN "caller" ELSE "nobody"
        /\ pc = "staleClose" =>
              Owner(c) = IF c = turnedDown THEN "closing" ELSE "nobody"
        /\ pc \in {"closeStale", "connect", "resume"} =>
              Owner(c) = IF c = pending THEN "connector" ELSE "nobody"
        /\ pc = "settle" =>
              Owner(c) = IF c = client THEN "session" ELSE "nobody"
        /\ pc = "block" =>
              Owner(c) = IF c # client THEN "nobody"
                         ELSE IF args.keep THEN "caller" ELSE "session"
        /\ pc = "close" =>
              Owner(c) = IF c = client THEN "closing" ELSE "nobody"

LEMMA OwnersNow == IInv => OwnersByPhase
BY DEF OwnersByPhase, IInv, TypeOK, Handles, Args, Owner, Target, PendingIsFresh,
   BeforeHandOver, InBlock, InClose, Opening, KeptBy

LEMMA OwnersNext == IInv' => OwnersByPhase'
BY DEF OwnersByPhase, IInv, TypeOK, Handles, Args, Owner, Target, PendingIsFresh,
   BeforeHandOver, InBlock, InClose, Opening, KeptBy

LEMMA AbstractInit == Init => Ownership!Init
BY DEF Init, Ownership!Init, Owner, Target

\* Every step of a session is one LinkOwnership allows, or none.
LEMMA AbstractNext == IInv /\ [Next]_vars => AbstractStep
<1> SUFFICES ASSUME IInv, [Next]_vars PROVE AbstractStep
  OBVIOUS
<1> USE OwnersNow, OwnersNext, InvStep DEF OwnersByPhase
<1>0. /\ TypeOK /\ TypeOK' /\ PendingIsFresh /\ BeforeHandOver
      /\ InBlock /\ InBlock' /\ InClose /\ StaysDown
  BY DEF IInv
<1> USE <1>0 DEF TypeOK, Handles, Args
<1>1. ASSUME NEW a \in Args, Reuse(a) PROVE AbstractStep
  <2> USE <1>1 DEF Reuse, Begin
  <2>1. kept \in Clients /\ kept # turnedDown /\ a.keep \in BOOLEAN
    BY DEF StillUp, StaysDown
  <2>2. CASE a.keep
    BY <2>1, <2>2, NoneMoves
  <2>3. CASE ~a.keep
    <3>1. Ownership!Move(kept, {"caller"}, "session")
      BY <2>1, <2>3, OneMoves
    <3>2. QED
      BY <2>1, <3>1 DEF AbstractStep, Ownership!Next, Ownership!Reuse
  <2>4. QED
    BY <2>1, <2>2, <2>3
<1>2. ASSUME NEW a \in Args, Open(a) PROVE AbstractStep
  <2> USE <1>2 DEF Open, Begin, ToTurnDown, AfterStaleClose, PendingIsFresh
  <2>1. CASE kept = NoClient
    BY <2>1, NoneMoves
  <2>2. CASE kept # NoClient
    <3>1. pc' = "staleClose" /\ kept \in Clients /\ turnedDown' = kept
      BY <2>2
    <3>2. \A c \in Clients : Owner(c)' = IF c = kept THEN "closing" ELSE Owner(c)
      BY <3>1
    <3>3. CASE kept = turnedDown
      <4>1. Ownership!Owned = {}
        BY <3>3 DEF Ownership!Owned
      <4>2. Ownership!Move(kept, {"nobody"}, "closing")
        BY <3>1, <3>2, <3>3, OneMoves
      <4>3. QED
        BY <3>1, <4>1, <4>2 DEF AbstractStep, Ownership!Next, Ownership!StartClose
    <3>4. CASE kept # turnedDown
      <4>1. Ownership!Move(kept, {"session", "caller"}, "closing")
        BY <3>1, <3>2, <3>4, OneMoves
      <4>2. QED
        BY <3>1, <4>1 DEF AbstractStep, Ownership!Next, Ownership!StartClose
    <3>5. QED
      BY <3>3, <3>4
  <2>3. QED
    BY <2>1, <2>2
<1>3. ASSUME CloseReturns \/ CloseFails PROVE AbstractStep
  <2> USE <1>3 DEF CloseReturns, CloseFails, AfterClose, AfterStaleClose, PendingIsFresh
  <2>1. /\ Target \in Clients
        /\ \A c \in Clients : Owner(c) = IF c = Target THEN "closing" ELSE "nobody"
    BY DEF Target, BeforeHandOver, InClose
  <2>2. \A c \in Clients : Owner(c)' = "nobody"
    BY DEF BeforeHandOver, InClose
  <2>3. Ownership!Move(Target, {"closing"}, "nobody")
    BY <2>1, <2>2, OneMoves
  <2>4. {c \in Clients : link[c] # "gone"}' \in
          {{c \in Clients : link[c] # "gone"}, {c \in Clients : link[c] # "gone"} \ {Target}}
    BY <2>1
  <2>5. QED
    BY <2>1, <2>3, <2>4 DEF AbstractStep, Ownership!Next, Ownership!EndClose
<1>4. ASSUME CloseStaleReturns PROVE AbstractStep
  BY <1>4, NoneMoves DEF CloseStaleReturns
<1>5. ASSUME CloseStaleRaises PROVE AbstractStep
  BY <1>5, NoneMoves DEF CloseStaleRaises, EndInConnect, PendingIsFresh, BeforeHandOver, Opening
<1>6. ASSUME NEW c \in Clients, BuildClient(c) PROVE AbstractStep
  <2> USE <1>6 DEF BuildClient
  <2>1. Ownership!Owned = {}
    BY DEF Ownership!Owned
  <2>2. Ownership!Move(c, {"nobody"}, "connector")
    BY OneMoves
  <2>3. QED
    BY <2>1, <2>2 DEF AbstractStep, Ownership!Next, Ownership!Connect
<1>7. ASSUME ConnectUp PROVE AbstractStep
  <2> USE <1>7 DEF ConnectUp
  <2>1. pending \in Clients /\ Owner(pending) = "connector"
    OBVIOUS
  <2>2. \A c \in Clients : Owner(c)' = Owner(c)
    OBVIOUS
  <2>3. QED
    BY <2>1, <2>2 DEF AbstractStep, Ownership!Next, Ownership!LinkUp
<1>8. ASSUME ReleasePending, pc \in {"connect", "resume"}, pc' = "idle",
             kept' = kept, turnedDown' = turnedDown PROVE AbstractStep
  <2> USE <1>8 DEF ReleasePending
  <2>1. \A c \in Clients : Owner(c)' = "nobody"
    BY DEF BeforeHandOver, Opening
  <2>2. CASE pending = NoClient
    <3>1. link' = link
      BY <2>2
    <3>2. QED
      BY <2>1, <2>2, <3>1, NoneMoves
  <2>3. CASE pending # NoClient
    <3>1. Ownership!Move(pending, {"connector"}, "nobody")
      BY <2>1, <2>3, OneMoves
    <3>2. {c \in Clients : link[c] # "gone"}' = {c \in Clients : link[c] # "gone"} \ {pending}
      BY <2>3
    <3>3. QED
      BY <2>3, <3>1, <3>2 DEF AbstractStep, Ownership!Next, Ownership!Abandon
  <2>4. QED
    BY <2>2, <2>3
<1>9. ASSUME Resume PROVE AbstractStep
  <2> USE <1>9 DEF Resume, Yield, PendingIsFresh
  <2>1. pending \in Clients /\ args.keep \in BOOLEAN
    OBVIOUS
  <2>2. \E to \in {"session", "caller"} : Ownership!Move(pending, {"connector", "session"}, to)
    BY <2>1, OneMoves
  <2>3. QED
    BY <2>1, <2>2 DEF AbstractStep, Ownership!Next, Ownership!HandOver
<1>10. ASSUME SettleOver PROVE AbstractStep
  <2> USE <1>10 DEF SettleOver, Yield, BeforeHandOver
  <2>1. client \in Clients
    OBVIOUS
  <2>2. CASE args.keep
    <3>1. Ownership!Move(client, {"connector", "session"}, "caller")
      BY <2>1, <2>2, OneMoves
    <3>2. QED
      BY <2>1, <3>1 DEF AbstractStep, Ownership!Next, Ownership!HandOver
  <2>3. CASE ~args.keep
    BY <2>3, NoneMoves
  <2>4. QED
    BY <2>2, <2>3
<1>11. ASSUME NEW how, EndInSettle(how) PROVE AbstractStep
  <2> USE <1>11 DEF EndInSettle, MustClose, BeforeHandOver
  <2>1. client \in Clients /\ pc' = "close"
    OBVIOUS
  <2>2. Ownership!Move(client, {"session", "caller"}, "closing")
    BY <2>1, OneMoves
  <2>3. QED
    BY <2>1, <2>2 DEF AbstractStep, Ownership!Next, Ownership!StartClose
<1>12. ASSUME NEW how, EndBlock(how) PROVE AbstractStep
  <2> USE <1>12 DEF EndBlock, MustClose, InBlock, KeptBy
  <2>1. client \in Clients /\ args.keep \in BOOLEAN
    OBVIOUS
  <2>2. CASE args.keep
    BY <2>1, <2>2, NoneMoves
  <2>3. CASE ~args.keep
    <3>1. Ownership!Move(client, {"session", "caller"}, "closing")
      BY <2>1, <2>3, OneMoves
    <3>2. QED
      BY <2>1, <3>1 DEF AbstractStep, Ownership!Next, Ownership!StartClose
  <2>4. QED
    BY <2>1, <2>2, <2>3
<1>13. ASSUME pc \in {"staleClose", "close"}, pc' = "idle", link' = link,
              kept' = kept, turnedDown' = turnedDown PROVE AbstractStep
  <2> USE <1>13 DEF BeforeHandOver, InClose, Opening
  <2>1. /\ Target \in Clients
        /\ \A c \in Clients : Owner(c) = IF c = Target THEN "closing" ELSE "nobody"
    BY DEF Target
  <2>2. \A c \in Clients : Owner(c)' = "nobody"
    OBVIOUS
  <2>3. Ownership!Move(Target, {"closing"}, "nobody")
    BY <2>1, <2>2, OneMoves
  <2>4. QED
    BY <2>1, <2>3 DEF AbstractStep, Ownership!Next, Ownership!EndClose
<1>14. ASSUME CancelConnect PROVE AbstractStep
  <2> USE <1>14 DEF CancelConnect, EndInConnect
  <2>1. CASE pc \in {"connect", "resume"}
    BY <2>1, <1>8
  <2>2. CASE pc \in {"staleClose", "closeStale"}
    <3>1. link' = link
      BY <2>2 DEF ReleasePending, PendingIsFresh
    <3>2. CASE pc = "staleClose"
      BY <3>1, <3>2, <1>13
    <3>3. CASE pc = "closeStale"
      BY <3>1, <3>3, NoneMoves DEF BeforeHandOver, Opening, PendingIsFresh
    <3>4. QED
      BY <2>2, <3>2, <3>3
  <2>3. QED
    BY <2>1, <2>2
<1>15. ASSUME NEW c \in Clients, Drop(c) \/ Release(c) PROVE AbstractStep
  <2> USE <1>15 DEF Drop, Release
  <2>1. \A d \in Clients : Owner(d)' = Owner(d)
    BY DEF Owner, Target
  <2>2. CASE link'[c] = "gone"
    <3>1. {d \in Clients : link[d] # "gone"}' = {d \in Clients : link[d] # "gone"} \ {c}
      BY <2>2
    <3>2. QED
      BY <2>1, <3>1 DEF AbstractStep, Ownership!Next, Ownership!Lose
  <2>3. CASE link'[c] # "gone"
    <3>1. {d \in Clients : link[d] # "gone"}' = {d \in Clients : link[d] # "gone"}
      BY <2>3
    <3>2. QED
      BY <2>1, <3>1 DEF AbstractStep, Ownership!vars
  <2>4. QED
    BY <2>2, <2>3
<1>16. ASSUME UNCHANGED <<caller, pc, local, pending, link>> PROVE AbstractStep
  <2>1. \A c \in Clients : Owner(c)' = Owner(c)
    BY <1>16 DEF Owner, Target
  <2>2. QED
    BY <1>16, <2>1, NoneMoves
<1>17. ASSUME ConnectRaises PROVE AbstractStep
  BY <1>17, <1>8 DEF ConnectRaises, EndInConnect
<1>18. ASSUME CancelClose PROVE AbstractStep
  BY <1>18, <1>13 DEF CancelClose
<1>19. QED
  BY <1>1, <1>2, <1>3, <1>4, <1>5, <1>6, <1>7, <1>9, <1>10, <1>11, <1>12, <1>14,
     <1>15, <1>16, <1>17, <1>18
     DEF Next, Cancel, ConnectRetryFires, SettleDrops, BlockReturns, BlockRaises,
         CancelSettle, CancelBlock, Report, Callback

\* ble_session() keeps LinkOwnership's promise: no link leaves its owner's
\* hands without a close (see ImplementsLinkOwnership).
THEOREM SessionImplementsOwnership == Spec => ImplementsLinkOwnership
BY InvInit, InvStep, AbstractInit, AbstractNext, PTL
   DEF Spec, ImplementsLinkOwnership, Ownership!Spec, AbstractStep

\* At most one link is in anybody's hands at a time (see OneLinkOwned).
THEOREM AtMostOneLink == Spec => []OneLinkOwned
<1>1. IInv => OneLinkOwned
  <2> SUFFICES ASSUME IInv, NEW c \in Clients, NEW d \in Clients,
                      Owner(c) # "nobody", Owner(d) # "nobody"
               PROVE c = d
    BY DEF OneLinkOwned, Ownership!OneOwned, Ownership!Owned
  <2> QED
    BY OwnersNow DEF OwnersByPhase, IInv, TypeOK
<1>2. QED
  BY InvInit, InvStep, <1>1, PTL DEF Spec

\* session.py:176-224: a handle that is the session's or the caller's never
\* becomes nobody's but through a close, and one that the connector lets go of
\* has no link any more (drawn from LinkOwnership alone).
THEOREM OnlyACloseLetsGo ==
    Spec => [][\A c \in Clients : Owner(c) # "nobody" /\ Owner(c)' = "nobody"
                   => Owner(c) = "closing" \/ (Owner(c) = "connector" /\ link'[c] = "gone")]_vars
<1>1. IInv /\ [Next]_vars
      => [\A c \in Clients : Owner(c) # "nobody" /\ Owner(c)' = "nobody"
              => Owner(c) = "closing" \/ (Owner(c) = "connector" /\ link'[c] = "gone")]_vars
  <2> SUFFICES ASSUME IInv, [Next]_vars, NEW c \in Clients,
                      Owner(c) # "nobody", Owner(c)' = "nobody"
               PROVE  Owner(c) = "closing" \/ (Owner(c) = "connector" /\ link'[c] = "gone")
    OBVIOUS
  <2>1. AbstractStep
    BY AbstractNext
  <2>2. PICK d \in Clients :
            \/ Ownership!Connect(d) \/ Ownership!LinkUp(d) \/ Ownership!Abandon(d)
            \/ Ownership!HandOver(d) \/ Ownership!Reuse(d) \/ Ownership!StartClose(d)
            \/ Ownership!EndClose(d) \/ Ownership!Lose(d)
    BY <2>1 DEF AbstractStep, Ownership!Next, Ownership!vars
  <2>3. ASSUME NEW from, NEW to, Ownership!Move(d, from, to)
        PROVE  c = d /\ Owner(c) \in from /\ to = "nobody"
    BY <2>3 DEF Ownership!Move
  <2>4. ~Ownership!LinkUp(d) /\ ~Ownership!Lose(d)
    BY DEF Ownership!LinkUp, Ownership!Lose
  <2>5. CASE Ownership!Abandon(d)
    BY <2>3, <2>5 DEF Ownership!Abandon
  <2>6. CASE Ownership!EndClose(d)
    BY <2>3, <2>6 DEF Ownership!EndClose
  <2>7. ~Ownership!Connect(d) /\ ~Ownership!HandOver(d) /\ ~Ownership!Reuse(d) /\ ~Ownership!StartClose(d)
    BY <2>3 DEF Ownership!Connect, Ownership!HandOver, Ownership!Reuse, Ownership!StartClose
  <2> QED
    BY <2>2, <2>4, <2>5, <2>6, <2>7
<1> QED
  BY <1>1, InvInit, InvStep, PTL DEF Spec

-----------------------------------------------------------------------------
(* What an attempt sees of a session *)

LEMMA LifeInit == Init => Life!Init
BY DEF Init, Life!Init

LEMMA LifeStep == [Next]_vars => [Life!Next]_Life!vars
<1> SUFFICES ASSUME [Next]_vars PROVE [Life!Next]_Life!vars
    OBVIOUS
<1> USE DEF Life!Next, Life!vars, Life!Begin, Life!End, Life!EndsIn, Life!CloseEnds, Life!Cancel
<1>1. ASSUME NEW a \in Args, Reuse(a) \/ Open(a) PROVE Life!Begin
  BY <1>1 DEF Reuse, Open, Begin, AfterStaleClose
<1>2. CASE CloseReturns \/ CloseFails
  BY <1>2 DEF CloseReturns, CloseFails, AfterClose, AfterStaleClose, local
<1>3. CASE CloseStaleReturns
  BY <1>3 DEF CloseStaleReturns, local
<1>4. CASE CloseStaleRaises \/ ConnectRaises
  BY <1>4 DEF CloseStaleRaises, ConnectRaises, EndInConnect
<1>5. CASE \E c \in Clients : BuildClient(c)
  BY <1>5 DEF BuildClient, local
<1>6. CASE ConnectRetryFires \/ ConnectUp
  BY <1>6 DEF ConnectRetryFires, ConnectUp, local
<1>7. CASE Resume
  BY <1>7 DEF Resume, Yield
<1>8. CASE SettleOver
  BY <1>8 DEF SettleOver, Yield
<1>9. CASE SettleDrops
  BY <1>9 DEF SettleDrops, EndInSettle
<1>10. CASE BlockReturns \/ BlockRaises
  BY <1>10 DEF BlockReturns, BlockRaises, EndBlock
<1>11. CASE CancelConnect
  BY <1>11 DEF CancelConnect, EndInConnect
<1>12. CASE CancelSettle
  BY <1>12 DEF CancelSettle, EndInSettle
<1>13. CASE CancelBlock
  BY <1>13 DEF CancelBlock, EndBlock
<1>14. CASE CancelClose
  BY <1>14 DEF CancelClose
<1>15. CASE \E c \in Clients : Drop(c) \/ Report(c) \/ Callback(c) \/ Release(c)
  BY <1>15 DEF Drop, Report, Callback, Release, local
<1>16. CASE UNCHANGED vars
  BY <1>16 DEF vars, local
<1> QED
  BY <1>1, <1>2, <1>3, <1>4, <1>5, <1>6, <1>7, <1>8, <1>9, <1>10, <1>11, <1>12, <1>13, <1>14,
     <1>15, <1>16 DEF Next, Cancel

\* session.py:174-243: what a session ends as is settled before its close, and
\* only a cancellation changes it then: to its attempt it is a SessionLife.
THEOREM SessionIsALife == Spec => Life!Spec
BY LifeInit, LifeStep, PTL DEF Spec, Life!Spec

\* A close changes nothing of how a session ends unless it is cancelled: an
\* error of the block comes out as that error, and a block that returned stays
\* returned, whatever becomes of the disconnect (session.py:206-250; drawn from
\* SessionLife alone).
THEOREM CloseKeepsTheOutcome == Spec => [][pc = "close" => exc' \in {exc, "cancelled"}]_vars
<1>1. [Next]_vars => [pc = "close" => exc' \in {exc, "cancelled"}]_vars
  <2> SUFFICES ASSUME [Next]_vars, pc = "close" PROVE exc' \in {exc, "cancelled"}
    OBVIOUS
  <2>1. [Life!Next]_Life!vars
    BY LifeStep
  <2> QED
    BY <2>1 DEF Life!Next, Life!vars, Life!Begin, Life!End, Life!EndsIn, Life!CloseEnds, Life!Cancel
<1> QED
  BY <1>1, PTL DEF Spec

=============================================================================
