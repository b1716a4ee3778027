----------------------------- MODULE ReportProofs -----------------------------
(***************************************************************************)
(* Theorems about Report: for any stages and map of them, nested to any     *)
(* depth, any failures, notes and sentences of the integration, and any     *)
(* listeners, recording into one another.                                   *)
(***************************************************************************)
EXTENDS Report, SequenceTheorems, WellFoundedInduction, TLAPS

USE NamesAssumption, DepthAssumption

-----------------------------------------------------------------------------
(* Sequences as stacks *)

LEMMA PushProperties ==
    ASSUME NEW S, NEW q \in Seq(S), NEW e \in S
    PROVE  /\ Append(q, e) \in Seq(S)
           /\ Len(Append(q, e)) = Len(q) + 1
           /\ \A i \in 1 .. Len(q) : Append(q, e)[i] = q[i]
           /\ Append(q, e)[Len(q) + 1] = e
OBVIOUS

LEMMA PopProperties ==
    ASSUME NEW S, NEW q \in Seq(S), q # <<>>
    PROVE  /\ Len(q) \in Nat /\ Len(q) >= 1
           /\ Last(q) = q[Len(q)] /\ Last(q) \in S
           /\ Front(q) \in Seq(S)
           /\ Len(Front(q)) = Len(q) - 1
           /\ \A i \in 1 .. Len(q) - 1 : Front(q)[i] = q[i]
<1>1. Len(q) \in Nat /\ Len(q) >= 1
  OBVIOUS
<1>2. Last(q) = q[Len(q)] /\ Last(q) \in S
  BY <1>1 DEF Last
<1>3. \A i \in 1 .. Len(q) - 1 : q[i] \in S
  BY <1>1
<1>4. /\ Front(q) \in Seq(S)
      /\ Len(Front(q)) = IF 1 <= Len(q) - 1 THEN Len(q) - 1 - 1 + 1 ELSE 0
      /\ \A i \in 1 .. Len(q) - 1 - 1 + 1 : Front(q)[i] = q[1 + i - 1]
  BY <1>1, <1>3, SubSeqProperties DEF Front
<1>5. Len(Front(q)) = Len(q) - 1
  <2>1. CASE Len(q) = 1
    BY <1>4, <2>1
  <2>2. CASE Len(q) > 1
    BY <1>1, <1>4, <2>2
  <2>3. \A n \in Nat : n >= 1 => n = 1 \/ n > 1
    OBVIOUS
  <2> QED
    BY <1>1, <2>1, <2>2, <2>3
<1>6. ASSUME NEW i \in 1 .. Len(q) - 1 PROVE Front(q)[i] = q[i]
  <2>1. i \in 1 .. Len(q) - 1 - 1 + 1 /\ 1 + i - 1 = i
    BY <1>1
  <2>2. Front(q)[i] = q[1 + i - 1]
    BY <1>4, <2>1
  <2> QED
    BY <2>1, <2>2
<1> QED
  BY <1>1, <1>2, <1>4, <1>5, <1>6

-----------------------------------------------------------------------------
(* The trace *)

\* A cleanup holds a failure that has left a stage.
Placed(i) == frames[i][1] = "cleanup" /\ frames[i][2] \in Names

NothingPlaced(n) == \A i \in 1 .. n : ~Placed(i)

\* BlameIsFirst, said of the frames themselves.
Blames ==
    IF failedStage = "none"
      THEN NothingPlaced(Len(frames)) /\ flight \notin Names
      ELSE \/ \E i \in 1 .. Len(frames) :
                  Placed(i) /\ frames[i][2] = failedStage /\ NothingPlaced(i - 1)
           \/ flight \in Names /\ flight = failedStage /\ NothingPlaced(Len(frames))

\* No name is open, in flight or held inside a cleanup after a failure of that
\* name: forgiving one failure does not forgive an older one.
Apart ==
    /\ \A i, k \in 1 .. Len(frames) : i < k /\ Placed(i) => frames[k][2] # frames[i][2]
    /\ \A i \in 1 .. Len(frames) : Placed(i) => flight # frames[i][2]

TraceType ==
    /\ frames \in Seq(Frames)
    /\ flight \in Failures \cup {"none"}
    /\ failedStage \in Names \cup {"none"}
    /\ \A i \in 1 .. Len(frames) : frames[i][1] = "stage" => frames[i][2] \in Names

TraceInv == TraceType /\ Blames /\ Apart

LEMMA FrameFields ==
    ASSUME frames \in Seq(Frames), NEW i \in 1 .. Len(frames)
    PROVE  /\ frames[i] \in Frames /\ frames[i][1] \in {"stage", "cleanup"}
           /\ frames[i][2] \in Failures
<1>1. frames[i] \in Frames
  OBVIOUS
<1> QED
  BY <1>1 DEF Frames

LEMMA NotHeld ==
    ASSUME frames \in Seq(Frames), NEW n \in Names, n \notin Held
    PROVE  \A i \in 1 .. Len(frames) : Placed(i) => frames[i][2] # n
BY DEF Held, Placed

\* A frame is put on top, and the failure in flight may become another.
LEMMA PushStep ==
    ASSUME TraceInv, NEW kind \in {"stage", "cleanup"}, NEW n \in Failures,
           frames' = Append(frames, <<kind, n>>),
           failedStage' = failedStage, flight' = "none",
           \/ kind = "cleanup" /\ n = flight
           \/ kind = "stage" /\ flight = "none" /\ n \in Names /\ n \notin Held
    PROVE  TraceInv'
<1>1. <<kind, n>> \in Frames
  BY DEF Frames
<1>2. /\ frames' \in Seq(Frames) /\ Len(frames') = Len(frames) + 1
      /\ \A i \in 1 .. Len(frames) : frames'[i] = frames[i]
      /\ frames'[Len(frames) + 1] = <<kind, n>>
  BY <1>1, PushProperties DEF TraceInv, TraceType
<1>3. Len(frames) \in Nat
  BY DEF TraceInv, TraceType
<1>4. \A i \in 1 .. Len(frames) : Placed(i)' <=> Placed(i)
  BY <1>2 DEF Placed
<1>5. \A i : i = Len(frames) + 1 => (Placed(i)' <=> kind = "cleanup" /\ n \in Names)
  BY <1>2 DEF Placed
<1>6. TraceType'
  BY <1>2, <1>3 DEF TraceInv, TraceType
<1>7. Apart'
  <2>1. \A i \in 1 .. Len(frames) : Placed(i) => n # frames[i][2]
    BY NotHeld DEF TraceInv, TraceType, Apart
  <2>2. ASSUME NEW i \in 1 .. Len(frames'), NEW k \in 1 .. Len(frames'), i < k, Placed(i)'
        PROVE  frames'[k][2] # frames'[i][2]
    <3>1. i \in 1 .. Len(frames) /\ Placed(i) /\ frames'[i] = frames[i]
      BY <1>2, <1>3, <1>4, <2>2
    <3>2. CASE k \in 1 .. Len(frames)
      BY <1>2, <2>2, <3>1, <3>2 DEF TraceInv, Apart
    <3>3. CASE k = Len(frames) + 1
      BY <1>2, <2>1, <3>1, <3>3
    <3> QED
      BY <1>2, <1>3, <3>2, <3>3
  <2>3. ASSUME NEW i \in 1 .. Len(frames'), Placed(i)' PROVE flight' # frames'[i][2]
    BY <2>3 DEF Placed
  <2> QED
    BY <2>2, <2>3 DEF Apart
<1>8. Blames'
  <2>1. CASE failedStage = "none"
    <3>1. \A i \in 1 .. Len(frames') : ~Placed(i)'
      BY <1>2, <1>3, <1>4, <1>5, <2>1 DEF TraceInv, Blames, NothingPlaced
    <3> QED
      BY <2>1, <3>1 DEF Blames, NothingPlaced
  <2>2. CASE failedStage # "none" /\ flight \in Names /\ NothingPlaced(Len(frames))
             /\ flight = failedStage
    <3>1. kind = "cleanup" /\ n = flight
      BY <2>2
    <3>2. PICK top \in 1 .. Len(frames') : frames'[top] = <<kind, n>> /\ top - 1 = Len(frames)
      BY <1>2, <1>3
    <3>3. \A i \in 1 .. top - 1 : ~Placed(i)'
      BY <1>4, <2>2, <3>2 DEF NothingPlaced
    <3>4. Placed(top)'
      BY <2>2, <3>1, <3>2 DEF Placed
    <3> QED
      BY <2>2, <3>1, <3>2, <3>3, <3>4 DEF Blames, NothingPlaced
  <2>3. CASE failedStage # "none"
             /\ \E i \in 1 .. Len(frames) :
                    Placed(i) /\ frames[i][2] = failedStage /\ NothingPlaced(i - 1)
    <3>1. PICK i \in 1 .. Len(frames) :
                   Placed(i) /\ frames[i][2] = failedStage /\ NothingPlaced(i - 1)
      BY <2>3
    <3>2. \A k \in 1 .. i - 1 : ~Placed(k)'
      BY <1>3, <1>4, <3>1 DEF NothingPlaced
    <3>3. i \in 1 .. Len(frames') /\ Placed(i)' /\ frames'[i][2] = failedStage'
      BY <1>2, <1>3, <1>4, <3>1
    <3> QED
      BY <2>3, <3>2, <3>3 DEF Blames, NothingPlaced
  <2> QED
    BY <2>1, <2>2, <2>3 DEF TraceInv, Blames
<1> QED
  BY <1>6, <1>7, <1>8 DEF TraceInv

\* The top frame goes; a failure f is in flight then.
LEMMA PopStep ==
    ASSUME TraceInv, frames # <<>>, NEW f \in Failures \cup {"none"},
           frames' = Front(frames), flight' = f,
           failedStage' \in Names \cup {"none"},
           \A i \in 1 .. Len(frames) - 1 : Placed(i) => f # frames[i][2],
           \/ \E i \in 1 .. Len(frames) - 1 :
                  /\ Placed(i) /\ NothingPlaced(i - 1)
                  /\ frames[i][2] = failedStage /\ failedStage' = failedStage
           \/ NothingPlaced(Len(frames) - 1) /\ failedStage' = IF f \in Names THEN f ELSE "none"
    PROVE  TraceInv'
<1>0. frames \in Seq(Frames)
  BY DEF TraceInv, TraceType
<1>1. /\ Len(frames) \in Nat /\ Len(frames) >= 1
      /\ frames' \in Seq(Frames) /\ Len(frames') = Len(frames) - 1
      /\ \A i \in 1 .. Len(frames) - 1 : frames'[i] = frames[i]
  BY <1>0, PopProperties
<1>2. \A i \in 1 .. Len(frames') : Placed(i)' <=> Placed(i)
  BY <1>1 DEF Placed
<1>3. TraceType'
  BY <1>1 DEF TraceInv, TraceType
<1>4. Apart'
  BY <1>1, <1>2 DEF TraceInv, Apart
<1>5. Blames'
  <2>1. CASE \E i \in 1 .. Len(frames) - 1 :
                 /\ Placed(i) /\ NothingPlaced(i - 1)
                 /\ frames[i][2] = failedStage /\ failedStage' = failedStage
    <3>1. PICK i \in 1 .. Len(frames) - 1 :
                 /\ Placed(i) /\ NothingPlaced(i - 1)
                 /\ frames[i][2] = failedStage /\ failedStage' = failedStage
      BY <2>1
    <3>2. \A k \in 1 .. i - 1 : ~Placed(k)'
      BY <1>1, <1>2, <3>1 DEF NothingPlaced
    <3>3. i \in 1 .. Len(frames') /\ Placed(i)' /\ frames'[i][2] = failedStage'
      BY <1>1, <1>2, <3>1
    <3>4. failedStage' # "none"
      BY <3>1 DEF Placed
    <3> QED
      BY <3>2, <3>3, <3>4 DEF Blames, NothingPlaced
  <2>2. CASE NothingPlaced(Len(frames) - 1) /\ failedStage' = IF f \in Names THEN f ELSE "none"
    <3>1. \A k \in 1 .. Len(frames') : ~Placed(k)'
      BY <1>1, <1>2, <2>2 DEF NothingPlaced
    <3> QED
      BY <2>2, <3>1 DEF Blames, NothingPlaced
  <2> QED
    BY <2>1, <2>2
<1> QED
  BY <1>3, <1>4, <1>5 DEF TraceInv

\* Nothing is opened or closed.
LEMMA SameFramesStep ==
    ASSUME TraceInv, frames' = frames,
           flight' \in Failures \cup {"none"}, failedStage' \in Names \cup {"none"},
           \A i \in 1 .. Len(frames) : Placed(i) => flight' # frames[i][2],
           \/ \E i \in 1 .. Len(frames) :
                  /\ Placed(i) /\ NothingPlaced(i - 1)
                  /\ frames[i][2] = failedStage /\ failedStage' = failedStage
           \/ /\ NothingPlaced(Len(frames))
              /\ failedStage' = IF flight' \in Names THEN flight' ELSE "none"
    PROVE  TraceInv'
<1>1. \A i : Placed(i)' <=> Placed(i)
  BY DEF Placed
<1>2. \A i : NothingPlaced(i)' <=> NothingPlaced(i)
  BY <1>1 DEF NothingPlaced
<1>3. Apart'
  BY <1>1 DEF TraceInv, Apart
<1>4. Blames'
  BY <1>1, <1>2 DEF Blames, Placed
<1> QED
  BY <1>3, <1>4 DEF TraceInv, TraceType

\* Blames, for a case distinction.
LEMMA BlameCases ==
    ASSUME TraceInv
    PROVE  \/ failedStage = "none" /\ NothingPlaced(Len(frames)) /\ flight \notin Names
           \/ \E i \in 1 .. Len(frames) :
                  Placed(i) /\ NothingPlaced(i - 1) /\ frames[i][2] = failedStage
           \/ failedStage = flight /\ flight \in Names /\ NothingPlaced(Len(frames))
BY DEF TraceInv, Blames

LEMMA TopProperties ==
    ASSUME TraceInv, frames # <<>>
    PROVE  /\ Len(frames) \in 1 .. Len(frames) /\ Last(frames) = frames[Len(frames)]
           /\ \A i \in 1 .. Len(frames) : i = Len(frames) \/ i \in 1 .. Len(frames) - 1
           /\ Last(frames)[1] \in {"stage", "cleanup"} /\ Last(frames)[2] \in Failures
           /\ NothingPlaced(Len(frames)) => NothingPlaced(Len(frames) - 1)
<1>1. Len(frames) \in Nat /\ Len(frames) >= 1 /\ Last(frames) = frames[Len(frames)]
  BY PopProperties DEF TraceInv, TraceType
<1>2. Last(frames)[1] \in {"stage", "cleanup"} /\ Last(frames)[2] \in Failures
  BY <1>1, FrameFields DEF TraceInv, TraceType
<1>3. NothingPlaced(Len(frames)) => NothingPlaced(Len(frames) - 1)
  BY <1>1 DEF NothingPlaced
<1> QED
  BY <1>1, <1>2, <1>3

LEMMA TraceStep == TraceInv /\ TraceNext => TraceInv'
<1> SUFFICES ASSUME TraceInv, TraceNext PROVE TraceInv'
    OBVIOUS
<1> USE DEF Failures
<1>0. TraceType /\ Apart
  BY DEF TraceInv
<1>1. ASSUME NEW n \in Names, EnterStage(n) PROVE TraceInv'
  BY <1>1, PushStep DEF EnterStage, Open
<1>2. CASE StartCleanup
  <2>1. flight \in Failures
    BY <1>0, <1>2 DEF StartCleanup, TraceType
  <2> QED
    BY <1>2, <2>1, PushStep DEF StartCleanup, Open
<1>3. ASSUME NEW n \in Names, Fail(n) PROVE TraceInv'
  <2>1. /\ frames' = frames /\ flight = "none" /\ flight' = n /\ n \notin Held
        /\ failedStage' = IF failedStage = "none" THEN n ELSE failedStage
    BY <1>3 DEF Fail, Blame
  <2>2. \A i \in 1 .. Len(frames) : Placed(i) => flight' # frames[i][2]
    BY <1>0, <2>1, NotHeld DEF TraceType
  <2>3. \/ \E i \in 1 .. Len(frames) :
                  /\ Placed(i) /\ NothingPlaced(i - 1)
                  /\ frames[i][2] = failedStage /\ failedStage' = failedStage
        \/ /\ NothingPlaced(Len(frames))
           /\ failedStage' = IF flight' \in Names THEN flight' ELSE "none"
    BY <2>1, BlameCases DEF Placed
  <2> QED
    BY <1>0, <2>1, <2>2, <2>3, SameFramesStep DEF TraceType
<1>4. CASE Raise
  <2>1. frames' = frames /\ failedStage' = failedStage /\ flight = "none" /\ flight' = "unplaced"
    BY <1>4 DEF Raise
  <2>2. \A i \in 1 .. Len(frames) : Placed(i) => flight' # frames[i][2]
    BY <2>1 DEF Placed
  <2> QED
    BY <1>0, <2>1, <2>2, BlameCases, SameFramesStep DEF TraceType
<1>5. CASE Swallow
  <2>1. /\ frames' = frames /\ flight # "none" /\ flight' = "none"
        /\ failedStage' = IF failedStage = flight THEN "none" ELSE failedStage
    BY <1>5 DEF Swallow, Forgive
  <2>2. \A i \in 1 .. Len(frames) : Placed(i) => flight' # frames[i][2]
    BY <2>1 DEF Placed
  <2>3. \/ \E i \in 1 .. Len(frames) :
                  /\ Placed(i) /\ NothingPlaced(i - 1)
                  /\ frames[i][2] = failedStage /\ failedStage' = failedStage
        \/ /\ NothingPlaced(Len(frames))
           /\ failedStage' = IF flight' \in Names THEN flight' ELSE "none"
    BY <1>0, <2>1, BlameCases DEF Apart
  <2> QED
    BY <1>0, <2>1, <2>2, <2>3, SameFramesStep DEF TraceType
<1>6. CASE SwallowAnything
  <2>1. frames' = frames /\ Held = {} /\ flight' = "none" /\ failedStage' = "none"
    BY <1>6 DEF SwallowAnything
  <2>2. NothingPlaced(Len(frames))
    <3>1. ASSUME NEW i \in 1 .. Len(frames), Placed(i) PROVE FALSE
      <4>1. i \in {k \in DOMAIN frames : frames[k][1] = "cleanup"}
        BY <1>0, <3>1 DEF Placed, TraceType
      <4>2. frames[i][2] \in Held
        BY <4>1 DEF Held
      <4> QED
        BY <2>1, <4>2
    <3> QED
      BY <3>1 DEF NothingPlaced
  <2> QED
    BY <2>1, <2>2, SameFramesStep DEF NothingPlaced
<1>7. CASE ExitStage
  <2>1. /\ frames # <<>> /\ Last(frames)[1] = "stage" /\ frames' = Front(frames)
        /\ flight = "none" /\ flight' = "none" /\ failedStage' = failedStage
    BY <1>7 DEF ExitStage, Inside, Close
  <2>2. ~Placed(Len(frames))
    BY <2>1, TopProperties DEF Placed
  <2>3. \A i \in 1 .. Len(frames) - 1 : Placed(i) => "none" # frames[i][2]
    BY DEF Placed
  <2>4. \/ \E i \in 1 .. Len(frames) - 1 :
                  /\ Placed(i) /\ NothingPlaced(i - 1)
                  /\ frames[i][2] = failedStage /\ failedStage' = failedStage
        \/ NothingPlaced(Len(frames) - 1) /\ failedStage' = "none"
    BY <2>1, <2>2, BlameCases, TopProperties
  <2> QED
    BY <1>0, <2>1, <2>3, <2>4, PopStep DEF TraceType
<1>8. CASE EscapeStage
  <2> DEFINE n == Last(frames)[2]
             f == IF flight = "unplaced" THEN n ELSE flight
  <2>1. /\ frames # <<>> /\ Last(frames)[1] = "stage" /\ frames' = Front(frames)
        /\ flight # "none" /\ flight' = f
        /\ failedStage' = IF failedStage = "none" THEN n ELSE failedStage
    BY <1>8 DEF EscapeStage, Inside, Close, Blame
  <2>2. ~Placed(Len(frames)) /\ n \in Names /\ f \in Names
    BY <1>0, <2>1, TopProperties DEF Placed, TraceType
  <2>3. \A i \in 1 .. Len(frames) - 1 : Placed(i) => f # frames[i][2]
    BY <1>0, <2>1, TopProperties DEF Apart, TraceType
  <2> HIDE DEF n
  <2>4. \/ \E i \in 1 .. Len(frames) - 1 :
                  /\ Placed(i) /\ NothingPlaced(i - 1)
                  /\ frames[i][2] = failedStage /\ failedStage' = failedStage
        \/ NothingPlaced(Len(frames) - 1) /\ failedStage' = f
    BY <1>0, <2>1, <2>2, BlameCases, TopProperties DEF TraceType, Placed
  <2> QED
    BY <1>0, <2>1, <2>2, <2>3, <2>4, PopStep DEF TraceType
<1>9. CASE EndCleanup
  <2> DEFINE t == Last(frames)[2]
             f == IF t = "unplaced" /\ flight # "none" THEN flight ELSE t
  <2>1. /\ frames # <<>> /\ Last(frames)[1] = "cleanup" /\ frames' = Front(frames)
        /\ flight' = f /\ failedStage' = failedStage
    BY <1>9 DEF EndCleanup, Inside, Close
  <2>2. t \in Failures /\ f \in Failures /\ (Placed(Len(frames)) <=> t \in Names)
        /\ t = frames[Len(frames)][2]
    BY <1>0, <2>1, TopProperties DEF Placed, TraceType
  <2>3. \A i \in 1 .. Len(frames) - 1 : Placed(i) => f # frames[i][2]
    BY <1>0, <2>1, TopProperties DEF Apart, TraceType
  <2> HIDE DEF t
  <2>4. \/ \E i \in 1 .. Len(frames) - 1 :
                  /\ Placed(i) /\ NothingPlaced(i - 1)
                  /\ frames[i][2] = failedStage /\ failedStage' = failedStage
        \/ NothingPlaced(Len(frames) - 1) /\ failedStage' = IF f \in Names THEN f ELSE "none"
    <3>1. CASE NothingPlaced(Len(frames))
      BY <1>0, <2>1, <2>2, <3>1, BlameCases, TopProperties DEF TraceType, NothingPlaced
    <3>2. CASE \E i \in 1 .. Len(frames) :
                   Placed(i) /\ NothingPlaced(i - 1) /\ frames[i][2] = failedStage
      BY <2>1, <2>2, <3>2, TopProperties
    <3> QED
      BY <3>1, <3>2, BlameCases
  <2> QED
    BY <1>0, <2>1, <2>2, <2>3, <2>4, PopStep DEF TraceType
<1> QED
  BY <1>1, <1>2, <1>3, <1>4, <1>5, <1>6, <1>7, <1>8, <1>9 DEF TraceNext

LEMMA TraceAtStart ==
    ASSUME frames = <<>>, flight = "none", failedStage = "none"
    PROVE  TraceInv
BY DEF TraceInv, TraceType, Blames, Apart, NothingPlaced, Failures

LEMMA TraceAfterReset ==
    ASSUME frames' = <<>>, flight' = "none", failedStage' = "none"
    PROVE  TraceInv'
BY DEF TraceInv, TraceType, Blames, Apart, NothingPlaced, Failures

LEMMA TraceUnchanged == TraceInv /\ UNCHANGED trace => TraceInv'
BY DEF trace, TraceInv, TraceType, Blames, Apart, NothingPlaced, Placed

LEMMA TraceAlways == Spec => []TraceInv
<1>1. Init => TraceInv
  BY TraceAtStart DEF Init, TraceInit
<1>2. TraceInv /\ [Next]_vars => TraceInv'
  <2> SUFFICES ASSUME TraceInv, [Next]_vars PROVE TraceInv'
    OBVIOUS
  <2>1. CASE TraceNext
    BY <2>1, TraceStep
  <2>2. CASE UNCHANGED trace
    BY <2>2, TraceUnchanged
  <2>3. CASE RecordFiled
    BY <2>3, TraceAfterReset DEF RecordFiled
  <2>4. FileSkipped \/ FileResult \/ FileFailure => UNCHANGED trace
    BY DEF FileSkipped, FileResult, FileFailure, File
  <2> QED
    BY <2>1, <2>2, <2>3, <2>4 DEF Next, vars
<1> QED
  BY <1>1, <1>2, PTL DEF Spec

LEMMA TraceInvImplies == TraceInv => BlameIsFirst
<1> SUFFICES ASSUME TraceInv PROVE BlameIsFirst
    OBVIOUS
<1> DEFINE held == [i \in DOMAIN frames |->
                       IF frames[i][1] = "cleanup" THEN frames[i][2] ELSE "none"]
<1>1. frames \in Seq(Frames) /\ Len(frames) \in Nat /\ flight \in Failures \cup {"none"}
      /\ DOMAIN frames = 1 .. Len(frames)
  BY DEF TraceInv, TraceType
<1>2. held \in Seq(Failures \cup {"none"}) /\ Len(held) = Len(frames)
  <2>1. \A i \in 1 .. Len(frames) : frames[i][2] \in Failures
    BY <1>1, FrameFields
  <2> QED
    BY <1>1, <2>1
<1>3. \A i \in 1 .. Len(frames) :
          held[i] = IF frames[i][1] = "cleanup" THEN frames[i][2] ELSE "none"
  BY <1>1
<1>4. Unswallowed = Append(held, flight)
  BY DEF Unswallowed
<1> HIDE DEF held
<1>5. /\ Unswallowed \in Seq(Failures \cup {"none"}) /\ Len(Unswallowed) = Len(frames) + 1
      /\ \A i \in 1 .. Len(frames) : Unswallowed[i] = held[i]
      /\ Unswallowed[Len(frames) + 1] = flight
  BY <1>1, <1>2, <1>4, PushProperties
<1>6. DOMAIN Unswallowed = 1 .. Len(frames) + 1
  BY <1>5
<1>7. \A i \in 1 .. Len(frames) : Unswallowed[i] \in Names <=> Placed(i)
  BY <1>3, <1>5 DEF Placed
<1>8. \A i \in 1 .. Len(frames) : Placed(i) => Unswallowed[i] = frames[i][2]
  BY <1>3, <1>5 DEF Placed
<1>9. CASE failedStage = "none" /\ NothingPlaced(Len(frames)) /\ flight \notin Names
  <2>1. \A i \in DOMAIN Unswallowed : Unswallowed[i] \notin Names
    BY <1>1, <1>5, <1>6, <1>7, <1>9 DEF NothingPlaced
  <2> QED
    BY <1>9, <2>1 DEF BlameIsFirst
<1>10. CASE \E i \in 1 .. Len(frames) :
               Placed(i) /\ NothingPlaced(i - 1) /\ frames[i][2] = failedStage
  <2>1. PICK i \in 1 .. Len(frames) :
               Placed(i) /\ NothingPlaced(i - 1) /\ frames[i][2] = failedStage
    BY <1>10
  <2>2. failedStage # "none" /\ i \in DOMAIN Unswallowed /\ Unswallowed[i] = failedStage
    BY <1>1, <1>6, <1>8, <2>1 DEF Placed
  <2>3. \A k \in 1 .. i - 1 : Unswallowed[k] \notin Names
    BY <1>1, <1>7, <2>1 DEF NothingPlaced
  <2> QED
    BY <2>2, <2>3 DEF BlameIsFirst
<1>11. CASE failedStage = flight /\ flight \in Names /\ NothingPlaced(Len(frames))
  <2>1. PICK i \in DOMAIN Unswallowed : i = Len(frames) + 1 /\ i - 1 = Len(frames)
    BY <1>1, <1>6
  <2>2. failedStage # "none" /\ Unswallowed[i] = failedStage
    BY <1>5, <1>11, <2>1
  <2>3. \A k \in 1 .. i - 1 : Unswallowed[k] \notin Names
    BY <1>7, <1>11, <2>1 DEF NothingPlaced
  <2> QED
    BY <2>2, <2>3 DEF BlameIsFirst
<1> QED
  BY <1>9, <1>10, <1>11, BlameCases

\* The stage a report names is the one the oldest unswallowed failure first
\* left, for any stages nested to any depth (trace.py:28-30, 57-97).
THEOREM BlameHolds == Spec => []BlameIsFirst
BY TraceAlways, TraceInvImplies, PTL

-----------------------------------------------------------------------------
(* The listeners *)

LEMMA RemoveAtProperties ==
    ASSUME NEW S, NEW q \in Seq(S), NEW i \in DOMAIN q
    PROVE /\ RemoveAt(q, i) \in Seq(S)
          /\ Len(RemoveAt(q, i)) = Len(q) - 1
          /\ \A k \in 1 .. Len(q) - 1 :
                 RemoveAt(q, i)[k] = IF k < i THEN q[k] ELSE q[k + 1]
<1> DEFINE a == SubSeq(q, 1, i - 1)
           b == SubSeq(q, i + 1, Len(q))
<1>1. i \in 1 .. Len(q) /\ Len(q) \in Nat /\ \A k \in 1 .. Len(q) : q[k] \in S
  OBVIOUS
<1>2. a \in Seq(S) /\ Len(a) = i - 1 /\ \A k \in 1 .. i - 1 : a[k] = q[k]
  BY <1>1, SubSeqProperties
<1>3. b \in Seq(S) /\ Len(b) = Len(q) - i /\ \A k \in 1 .. Len(q) - i : b[k] = q[i + k]
  <2>1. \A k \in i + 1 .. Len(q) : q[k] \in S
    BY <1>1
  <2> HIDE DEF b
  <2>2. /\ SubSeq(q, i + 1, Len(q)) \in Seq(S)
        /\ Len(SubSeq(q, i + 1, Len(q))) = IF i + 1 <= Len(q) THEN Len(q) - (i + 1) + 1 ELSE 0
        /\ \A k \in 1 .. Len(q) - (i + 1) + 1 : SubSeq(q, i + 1, Len(q))[k] = q[i + 1 + k - 1]
    BY <1>1, <2>1, SubSeqProperties
  <2>3. QED
    BY <1>1, <2>2 DEF b
<1>4. RemoveAt(q, i) = a \o b
  BY DEF RemoveAt
<1> HIDE DEF a, b
<1>5. /\ a \o b \in Seq(S)
      /\ Len(a \o b) = Len(a) + Len(b)
      /\ \A k \in 1 .. Len(a) + Len(b) :
             (a \o b)[k] = IF k <= Len(a) THEN a[k] ELSE b[k - Len(a)]
  <2>1. a \in Seq(S) /\ b \in Seq(S)
    BY <1>2, <1>3
  <2> QED
    BY <2>1, ConcatProperties
<1>6. Len(a \o b) = Len(q) - 1
  BY <1>1, <1>2, <1>3, <1>5
<1>7. ASSUME NEW k \in 1 .. Len(q) - 1
      PROVE (a \o b)[k] = IF k < i THEN q[k] ELSE q[k + 1]
  <2>1. (a \o b)[k] = IF k <= Len(a) THEN a[k] ELSE b[k - Len(a)]
    <3>1. Len(a) + Len(b) = Len(q) - 1
      BY <1>5, <1>6
    <3>2. k \in 1 .. Len(a) + Len(b)
      BY <3>1
    <3>3. QED
      BY <3>2, <1>5
  <2>2. CASE k < i
    BY <2>1, <2>2, <1>1, <1>2
  <2>3. CASE ~(k < i)
    <3>1. k - (i - 1) \in 1 .. Len(q) - i
      BY <2>3, <1>1
    <3>2. b[k - (i - 1)] = q[i + (k - (i - 1))]
      BY <3>1, <1>3
    <3>3. i + (k - (i - 1)) = k + 1
      BY <1>1
    <3>4. QED
      BY <2>1, <2>3, <3>2, <3>3, <1>1, <1>2
  <2>4. QED
    BY <2>2, <2>3
<1>8. QED
  BY <1>4, <1>5, <1>6, <1>7

Waiting(c) == notifying # <<>>
              /\ \E k \in 1 .. Len(Innermost.todo) : Innermost.todo[k] = c

Notification == [todo : Seq(Callables), inside : BOOLEAN]

\* A listener has been called, or the innermost notification will call it.
TellInv ==
    /\ listeners \in Seq(Callables)
    /\ notifying \in Seq(Notification)
    /\ \A i, k \in 1 .. Len(listeners) : listeners[i] = listeners[k] => i = k
    /\ \A i \in 1 .. Len(listeners) : listeners[i] \in told \/ Waiting(listeners[i])

\* What a step does to the innermost notification decides.
LEMMA InnermostStep ==
    ASSUME TellInv, listeners' = listeners,
           NEW q \in Seq(Notification), NEW n \in Notification, notifying' = Append(q, n),
           \A i \in 1 .. Len(listeners) :
               \/ listeners[i] \in told'
               \/ \E k \in 1 .. Len(n.todo) : n.todo[k] = listeners[i]
    PROVE  TellInv'
<1>1. notifying' \in Seq(Notification) /\ Len(notifying') = Len(q) + 1
      /\ notifying'[Len(q) + 1] = n
  BY PushProperties
<1>2. notifying' # <<>> /\ Last(notifying') = n
  BY <1>1 DEF Last
<1>3. \A c : Waiting(c)' <=> \E k \in 1 .. Len(n.todo) : n.todo[k] = c
  BY <1>2 DEF Waiting, Innermost
<1> QED
  BY <1>1, <1>3 DEF TellInv

LEMMA NotifyStep == TellInv /\ Notify => TellInv'
<1> SUFFICES ASSUME TellInv, Notify PROVE TellInv'
    OBVIOUS
<1> DEFINE n == [todo |-> listeners, inside |-> FALSE]
<1>1. n \in Notification /\ n.todo = listeners /\ notifying' = Append(notifying, n)
      /\ listeners' = listeners
  BY DEF Notify, TellInv, Notification
<1> HIDE DEF n
<1> QED
  BY <1>1, InnermostStep DEF TellInv

LEMMA CallNextStep == TellInv /\ CallNext => TellInv'
<1> SUFFICES ASSUME TellInv, CallNext PROVE TellInv'
    OBVIOUS
<1> DEFINE todo == Innermost.todo
           n == [todo |-> Tail(todo), inside |-> TRUE]
<1>1. notifying # <<>> /\ Innermost \in Notification /\ Front(notifying) \in Seq(Notification)
  BY PopProperties DEF CallNext, OthersRun, Quiet, TellInv, Innermost
<1>2. todo \in Seq(Callables) /\ todo # <<>>
  BY <1>1 DEF Notification, CallNext
<1> HIDE DEF todo
<1>3. n \in Notification /\ n.todo = Tail(todo)
  BY <1>2 DEF Notification
<1>4. notifying' = Append(Front(notifying), n) /\ listeners' = listeners
      /\ told' = told \cup {Head(todo)}
  BY DEF CallNext, SetInnermost, todo
<1>5. ASSUME NEW i \in 1 .. Len(listeners)
      PROVE  \/ listeners[i] \in told'
             \/ \E k \in 1 .. Len(n.todo) : n.todo[k] = listeners[i]
  <2>1. CASE listeners[i] \in told
    BY <1>4, <2>1
  <2>2. CASE Waiting(listeners[i])
    <3>1. PICK k \in 1 .. Len(todo) : todo[k] = listeners[i]
      BY <2>2 DEF Waiting, todo
    <3>2. CASE k = 1
      BY <1>2, <1>4, <3>1, <3>2
    <3>3. CASE k # 1
      <4>1. /\ Len(todo) \in Nat /\ Len(Tail(todo)) = Len(todo) - 1
            /\ k - 1 \in 1 .. Len(todo) - 1
        BY <1>2, <3>1, <3>3
      <4>2. Tail(todo)[k - 1] = todo[k]
        BY <1>2, <3>1, <3>3, <4>1
      <4> QED
        BY <1>3, <3>1, <4>1, <4>2
    <3> QED
      BY <3>2, <3>3
  <2> QED
    BY <2>1, <2>2 DEF TellInv
<1> HIDE DEF n
<1> QED
  BY <1>1, <1>3, <1>4, <1>5, InnermostStep

LEMMA ListenerEndsStep == TellInv /\ ListenerEnds => TellInv'
<1> SUFFICES ASSUME TellInv, ListenerEnds PROVE TellInv'
    OBVIOUS
<1> DEFINE n == [Innermost EXCEPT !.inside = FALSE]
<1>1. notifying # <<>> /\ Innermost \in Notification /\ Front(notifying) \in Seq(Notification)
  BY PopProperties DEF ListenerEnds, Quiet, TellInv, Innermost
<1>2. n \in Notification /\ n.todo = Innermost.todo
  BY <1>1 DEF Notification
<1>3. notifying' = Append(Front(notifying), n) /\ listeners' = listeners /\ told' = told
  BY DEF ListenerEnds, SetInnermost
<1> HIDE DEF n
<1>4. \A i \in 1 .. Len(listeners) :
          \/ listeners[i] \in told'
          \/ \E k \in 1 .. Len(n.todo) : n.todo[k] = listeners[i]
  BY <1>2, <1>3 DEF TellInv, Waiting
<1> QED
  BY <1>1, <1>2, <1>3, <1>4, InnermostStep

LEMMA NotifyEndsStep == TellInv /\ NotifyEnds => TellInv'
<1> SUFFICES ASSUME TellInv, NotifyEnds PROVE TellInv'
    OBVIOUS
<1>1. notifying # <<>> /\ Innermost.todo = <<>> /\ notifying' = Front(notifying)
      /\ UNCHANGED <<listeners, told>>
  BY DEF NotifyEnds, OthersRun, Quiet
<1>2. \A i \in 1 .. Len(listeners) : listeners[i] \in told
  BY <1>1 DEF TellInv, Waiting
<1>3. Front(notifying) \in Seq(Notification)
  BY <1>1, PopProperties DEF TellInv
<1> QED
  BY <1>1, <1>2, <1>3 DEF TellInv

LEMMA AddListenerStep == ASSUME TellInv, NEW c \in Callables, AddListener(c) PROVE TellInv'
<1>1. /\ listeners' \in Seq(Callables) /\ Len(listeners') = Len(listeners) + 1
      /\ \A i \in 1 .. Len(listeners) : listeners'[i] = listeners[i]
      /\ listeners'[Len(listeners) + 1] = c
      /\ Len(listeners) \in Nat
  BY PushProperties DEF AddListener, TellInv
<1>2. \A i \in 1 .. Len(listeners) : listeners[i] # c
  BY DEF AddListener, ToSet, TellInv
<1>3. notifying' = notifying /\ told' = told \cup {c}
  BY DEF AddListener
<1>4. \A x : Waiting(x)' <=> Waiting(x)
  BY <1>3 DEF Waiting, Innermost
<1>5. \A i \in 1 .. Len(listeners') : i \in 1 .. Len(listeners) \/ i = Len(listeners) + 1
  BY <1>1
<1>6. \A i, k \in 1 .. Len(listeners') : listeners'[i] = listeners'[k] => i = k
  BY <1>1, <1>2, <1>5 DEF TellInv
<1>7. ASSUME NEW i \in 1 .. Len(listeners')
      PROVE  (listeners[i] \in told \/ Waiting(listeners[i]))'
  <2>1. CASE i \in 1 .. Len(listeners)
    <3>1. PICK d : d = listeners[i] /\ d = listeners'[i]
      BY <1>1, <2>1
    <3>2. d \in told \/ Waiting(d)
      BY <2>1, <3>1 DEF TellInv
    <3>3. d \in told' \/ Waiting(d)'
      BY <1>3, <1>4, <3>2
    <3> QED
      BY <3>1, <3>3 DEF Waiting
  <2>2. CASE i = Len(listeners) + 1
    BY <1>1, <1>3, <2>2
  <2> QED
    BY <1>5, <2>1, <2>2
<1> QED
  BY <1>1, <1>3, <1>6, <1>7 DEF TellInv

LEMMA RemoveListenerStep == ASSUME TellInv, NEW c \in Callables, RemoveListener(c) PROVE TellInv'
<1>0. listeners \in Seq(Callables) /\ DOMAIN listeners = 1 .. Len(listeners)
  BY DEF TellInv
<1>1. PICK j \in DOMAIN listeners : listeners[j] = c /\ listeners' = RemoveAt(listeners, j)
  BY DEF RemoveListener
<1>2. /\ listeners' \in Seq(Callables) /\ Len(listeners') = Len(listeners) - 1
      /\ \A k \in 1 .. Len(listeners) - 1 :
             listeners'[k] = IF k < j THEN listeners[k] ELSE listeners[k + 1]
      /\ Len(listeners) \in Nat
  <2>1. /\ RemoveAt(listeners, j) \in Seq(Callables)
        /\ Len(RemoveAt(listeners, j)) = Len(listeners) - 1
        /\ \A k \in 1 .. Len(listeners) - 1 :
               RemoveAt(listeners, j)[k] = IF k < j THEN listeners[k] ELSE listeners[k + 1]
    BY <1>0, RemoveAtProperties
  <2>2. Len(listeners) \in Nat
    BY <1>0
  <2> QED
    BY <1>1, <2>1, <2>2
<1>3. notifying' = notifying /\ told' = told \ {c}
  BY DEF RemoveListener
<1>4. \A x : Waiting(x)' <=> Waiting(x)
  BY <1>3 DEF Waiting, Innermost
<1> DEFINE Old(k) == IF k < j THEN k ELSE k + 1
<1>5. \A k \in 1 .. Len(listeners') :
          Old(k) \in 1 .. Len(listeners) /\ Old(k) # j /\ listeners'[k] = listeners[Old(k)]
  BY <1>0, <1>1, <1>2
<1>6. \A i, k \in 1 .. Len(listeners') : Old(i) = Old(k) => i = k
  BY <1>1, <1>2
<1> HIDE DEF Old
<1>7. \A i, k \in 1 .. Len(listeners') : listeners'[i] = listeners'[k] => i = k
  BY <1>5, <1>6 DEF TellInv
<1>8. \A k \in 1 .. Len(listeners') : listeners'[k] # c
  BY <1>0, <1>1, <1>5 DEF TellInv
<1>9. ASSUME NEW k \in 1 .. Len(listeners')
      PROVE  (listeners[k] \in told \/ Waiting(listeners[k]))'
  <2>1. PICK d : \E i \in 1 .. Len(listeners) :
                     d = listeners[i] /\ d = listeners'[k] /\ d # c
    BY <1>5, <1>8
  <2>2. d \in told \/ Waiting(d)
    BY <2>1 DEF TellInv
  <2>3. d \in told' \/ Waiting(d)'
    BY <1>3, <1>4, <2>1, <2>2
  <2> QED
    BY <2>1, <2>3 DEF Waiting
<1> QED
  BY <1>2, <1>3, <1>7, <1>9 DEF TellInv

LEMMA TellUnchanged == TellInv /\ UNCHANGED registry => TellInv'
BY DEF registry, TellInv, Waiting, Innermost

LEMMA TellAlways == Spec => []TellInv
<1>1. Init => TellInv
  BY DEF Init, ListenersInit, TellInv
<1>2. TellInv /\ [Next]_vars => TellInv'
  <2> SUFFICES ASSUME TellInv, [Next]_vars PROVE TellInv'
    OBVIOUS
  <2>1. CASE ListenersNext
    BY <2>1, CallNextStep, ListenerEndsStep, NotifyEndsStep, NotifyStep, AddListenerStep,
       RemoveListenerStep DEF ListenersNext
  <2>2. CASE RecordFiled
    BY <2>2, NotifyStep DEF RecordFiled
  <2>3. CASE UNCHANGED registry
    BY <2>3, TellUnchanged
  <2>4. FileSkipped \/ FileResult \/ FileFailure => UNCHANGED registry
    BY DEF FileSkipped, FileResult, FileFailure, File
  <2> QED
    BY <2>1, <2>2, <2>3, <2>4 DEF Next, vars
<1> QED
  BY <1>1, <1>2, PTL DEF Spec

\* Every listener hears of what was last recorded, for any number of them,
\* whoever raises, is removed or records while they are told
\* (report.py:459-480).
THEOREM ListenersHear == Spec => []EveryoneIsTold
<1>1. TellInv => EveryoneIsTold
  BY DEF TellInv, Waiting, EveryoneIsTold, Quiet, ToSet
<1> QED
  BY <1>1, TellAlways, PTL

-----------------------------------------------------------------------------
(* The report *)

\* An attempt is skipped, retried after an error, or neither.
Consistent(a) ==
    /\ a.skipped \in BOOLEAN /\ a.retrying \in BOOLEAN
    /\ a.notes \subseteq NoteNames
    /\ a.error # NoError => ~a.skipped
    /\ a.error = NoError => ~a.retrying

LEMMA Union == \A f, g : DOMAIN (f ++ g) = DOMAIN f \cup DOMAIN g
BY DEF ++

LEMMA OptionalKeys ==
    /\ DOMAIN <<>> = {}
    /\ \A k, set : set \in BOOLEAN => DOMAIN Flag(k, set) = IF set THEN {k} ELSE {}
    /\ \A k, v : DOMAIN Entry(k, v) \subseteq {k}
<1>1. DOMAIN <<>> = {}
  OBVIOUS
<1> QED
  BY <1>1 DEF Flag, Entry

\* The keys classify() looks for, in each of the parts.
Looked == {"skipped", "error", "retrying"}

LEMMA OutcomeKeys ==
    ASSUME NEW a, Consistent(a)
    PROVE  DOMAIN Outcome(a) \cap Looked
           = (IF a.skipped THEN {"skipped"} ELSE {}) \cup (IF a.retrying THEN {"retrying"} ELSE {})
<1> DEFINE s == Flag("skipped", a.skipped)
           r == Flag("retrying", a.retrying)
           o == [success |-> a.error = NoError /\ ~a.skipped]
<1>1. DOMAIN s = IF a.skipped THEN {"skipped"} ELSE {}
  BY OptionalKeys DEF Consistent
<1>2. DOMAIN r = IF a.retrying THEN {"retrying"} ELSE {}
  BY OptionalKeys DEF Consistent
<1>3. DOMAIN o = {"success"}
  OBVIOUS
<1>4. Outcome(a) = o ++ s ++ r
  BY DEF Outcome
<1> HIDE DEF o, s, r
<1>5. DOMAIN (o ++ s) = DOMAIN o \cup DOMAIN s
  BY Union
<1>6. DOMAIN ((o ++ s) ++ r) = DOMAIN (o ++ s) \cup DOMAIN r
  BY Union
<1>7. DOMAIN Outcome(a) = DOMAIN o \cup DOMAIN s \cup DOMAIN r
  BY <1>4, <1>5, <1>6
<1> QED
  BY <1>1, <1>2, <1>3, <1>7 DEF Looked

LEMMA WhereKeys ==
    ASSUME NEW a
    PROVE  DOMAIN Where(a) \cap Looked = IF a.error # NoError THEN {"error"} ELSE {}
<1> DEFINE e == [error |-> TRUE]
           g == Entry("failed_stage", FailedIn(a.error))
           d == Entry("failed_detail", FailedAt(a.error))
<1>1. CASE a.error = NoError
  BY <1>1, OptionalKeys DEF Where
<1>2. CASE a.error # NoError
  <2>1. DOMAIN e = {"error"}
    OBVIOUS
  <2>2. DOMAIN g \subseteq {"failed_stage"} /\ DOMAIN d \subseteq {"failed_detail"}
    BY OptionalKeys
  <2>3. Where(a) = e ++ g ++ d
    BY <1>2 DEF Where
  <2> HIDE DEF e, g, d
  <2>4. DOMAIN (e ++ g) = DOMAIN e \cup DOMAIN g
    BY Union
  <2>5. DOMAIN Where(a) = DOMAIN e \cup DOMAIN g \cup DOMAIN d
    BY <2>3, <2>4, Union
  <2> QED
    BY <1>2, <2>1, <2>2, <2>5 DEF Looked
<1> QED
  BY <1>1, <1>2

LEMMA LikelyKeys == ASSUME NEW a PROVE DOMAIN Likely(a) \cap Looked = {}
<1> DEFINE key == CauseKey(FailedIn(a.error), a.error)
           own == [likely_cause |-> "own"]
           c == Entry("likely_cause", key)
           k == Entry("likely_cause_key", key)
           t == Flag("timed_out", a.error.class = "AttemptTimedOut")
<1>1. /\ DOMAIN own = {"likely_cause"} /\ DOMAIN c \subseteq {"likely_cause"}
      /\ DOMAIN k \subseteq {"likely_cause_key"}
  BY OptionalKeys
<1>2. DOMAIN t \subseteq {"timed_out"}
  BY OptionalKeys
<1>3. Likely(a) = IF a.error = NoError THEN <<>> ELSE (IF Owns(a) THEN own ELSE c ++ k) ++ t
  BY DEF Likely
<1> HIDE DEF own, c, k, t
<1>4. DOMAIN Likely(a) \subseteq DOMAIN own \cup DOMAIN c \cup DOMAIN k \cup DOMAIN t
  <2>1. DOMAIN (c ++ k) = DOMAIN c \cup DOMAIN k
    BY Union
  <2>2. DOMAIN (own ++ t) = DOMAIN own \cup DOMAIN t
    BY Union
  <2>3. DOMAIN ((c ++ k) ++ t) = DOMAIN c \cup DOMAIN k \cup DOMAIN t
    BY <2>1, Union
  <2> QED
    BY <1>3, <2>2, <2>3, OptionalKeys
<1> QED
  BY <1>1, <1>2, <1>4 DEF Looked

\* Either report has the keys classify() looks for just as the attempt has
\* them, and notes do not add any.
LEMMA ReportKeys ==
    ASSUME NEW a, Consistent(a), NEW r \in {BuildReport(a), FallbackReport(a)}
    PROVE  DOMAIN r \cap Looked
           = (IF a.skipped THEN {"skipped"} ELSE {}) \cup (IF a.retrying THEN {"retrying"} ELSE {})
             \cup (IF a.error # NoError THEN {"error"} ELSE {})
<1>1. DOMAIN FallbackReport(a) = DOMAIN Outcome(a) \cup DOMAIN Where(a)
  BY Union DEF FallbackReport
<1> DEFINE n == [x \in a.notes |-> TRUE]
<1>2. DOMAIN n \cap Looked = {}
  BY NotesAssumption DEF Consistent, Looked, Keys
<1>3. BuildReport(a) = n ++ Outcome(a) ++ Where(a) ++ Likely(a)
  BY DEF BuildReport
<1> HIDE DEF n
<1>4. DOMAIN BuildReport(a)
      = DOMAIN n \cup DOMAIN Outcome(a) \cup DOMAIN Where(a) \cup DOMAIN Likely(a)
  <2>1. DOMAIN (n ++ Outcome(a)) = DOMAIN n \cup DOMAIN Outcome(a)
    BY Union
  <2>2. DOMAIN (n ++ Outcome(a) ++ Where(a)) = DOMAIN n \cup DOMAIN Outcome(a) \cup DOMAIN Where(a)
    BY <2>1, Union
  <2> QED
    BY <1>3, <2>2, Union
<1> QED
  BY <1>1, <1>2, <1>4, OutcomeKeys, WhereKeys, LikelyKeys

-----------------------------------------------------------------------------
(* The causes *)

LEMMA LeastIndex ==
    ASSUME NEW n \in Nat, NEW I \in SUBSET (1 .. n), I # {}
    PROVE  \E i \in I : \A k \in 1 .. i - 1 : k \notin I
<1>1. PICK i \in I : \A k \in I : <<k, i>> \notin OpToRel(<, Nat)
  <2>1. I \subseteq Nat
    OBVIOUS
  <2> QED
    BY <2>1, WFMin, NatLessThanWellFounded
<1>2. \A k \in 1 .. i - 1 : <<k, i>> \in OpToRel(<, Nat)
  <2>1. ASSUME NEW k \in 1 .. i - 1 PROVE <<k, i>> \in OpToRel(<, Nat)
    <3>1. k \in Nat /\ i \in Nat /\ k < i
      OBVIOUS
    <3> QED
      BY <3>1 DEF OpToRel
  <2> QED
    BY <2>1
<1> QED
  BY <1>1, <1>2

\* The first of cause_key()'s rules that applies is the one that counts.
LEMMA FirstRule ==
    ASSUME NEW stage, NEW exc
    PROVE  \E i \in 1 .. 15 :
               /\ CauseKey(stage, exc) = Rules(stage, exc)[i][2]
               /\ Rules(stage, exc)[i][1]
               /\ \A k \in 1 .. i - 1 : ~Rules(stage, exc)[k][1]
<1> DEFINE rules == Rules(stage, exc)
           I == {i \in 1 .. 15 : rules[i][1]}
           First(i) == rules[i][1] /\ \A k \in 1 .. i - 1 : ~rules[k][1]
<1>1. DOMAIN rules = 1 .. 15 /\ rules[15][1]
  BY DEF Rules
<1>2. CauseKey(stage, exc) = rules[CHOOSE i \in DOMAIN rules : First(i)][2]
  BY DEF CauseKey
<1> HIDE DEF rules
<1>3. I \in SUBSET (1 .. 15) /\ I # {}
  BY <1>1
<1>4. PICK i \in I : \A k \in 1 .. i - 1 : k \notin I
  BY <1>3, LeastIndex
<1>5. i \in DOMAIN rules /\ First(i)
  BY <1>1, <1>4
<1> HIDE DEF First
<1>6. (CHOOSE j \in DOMAIN rules : First(j)) \in DOMAIN rules
      /\ First(CHOOSE j \in DOMAIN rules : First(j))
  BY <1>5
<1> QED
  BY <1>1, <1>2, <1>6 DEF First, rules

\* The two keys of the attempt bound are told to its error only, and the close's
\* sentence to the close only.
LEMMA CauseKeyFacts ==
    ASSUME NEW stage, NEW exc
    PROVE  /\ exc.class = "AttemptTimedOut" =>
                  CauseKey(stage, exc) = IF stage = "disconnect" THEN "disconnect.timed_out"
                                         ELSE "attempt_timed_out"
           /\ exc.class # "AttemptTimedOut" =>
                  /\ CauseKey(stage, exc) \notin {"attempt_timed_out", "disconnect.timed_out"}
                  /\ CauseKey(stage, exc) = "disconnect.close_failed" => stage = "disconnect"
<1> DEFINE rules == Rules(stage, exc)
<1>1. PICK i \in 1 .. 15 : /\ CauseKey(stage, exc) = rules[i][2] /\ rules[i][1]
                           /\ \A k \in 1 .. i - 1 : ~rules[k][1]
  BY FirstRule
<1>2. /\ rules[1][1] <=> exc.class = "AttemptTimedOut" /\ stage = "disconnect"
      /\ rules[2][1] <=> exc.class = "AttemptTimedOut"
      /\ rules[14][1] <=> stage = "disconnect"
  BY DEF Rules
<1>3. rules[1][2] = "disconnect.timed_out" /\ rules[2][2] = "attempt_timed_out"
  BY DEF Rules
<1>4. \A k \in 3 .. 15 :
          /\ rules[k][2] \notin {"attempt_timed_out", "disconnect.timed_out"}
          /\ rules[k][2] = "disconnect.close_failed" => k = 14
  BY DEF Rules
<1> HIDE DEF rules
<1> QED
  BY <1>1, <1>2, <1>3, <1>4
-----------------------------------------------------------------------------
(* What a report says *)

LEMMA Lookup ==
    ASSUME NEW f, NEW g, NEW k \in DOMAIN f \cup DOMAIN g
    PROVE  (f ++ g)[k] = IF k \in DOMAIN f THEN f[k] ELSE g[k]
BY DEF ++

\* The keys of each part: only Likely() gives a sentence and its key.
LEMMA PartKeys ==
    ASSUME NEW a, Consistent(a)
    PROVE  /\ "success" \in DOMAIN Outcome(a)
           /\ DOMAIN Outcome(a) \subseteq {"success", "skipped", "retrying"}
           /\ DOMAIN Where(a) \subseteq {"error", "failed_stage", "failed_detail"}
           /\ DOMAIN Likely(a) \subseteq {"likely_cause", "likely_cause_key", "timed_out"}
<1>1. "success" \in DOMAIN Outcome(a)
      /\ DOMAIN Outcome(a) \subseteq {"success", "skipped", "retrying"}
  <2> DEFINE o == [success |-> a.error = NoError /\ ~a.skipped]
             s == Flag("skipped", a.skipped)
             r == Flag("retrying", a.retrying)
  <2>1. DOMAIN o = {"success"} /\ DOMAIN s \subseteq {"skipped"} /\ DOMAIN r \subseteq {"retrying"}
    BY OptionalKeys DEF Consistent
  <2>2. Outcome(a) = o ++ s ++ r
    BY DEF Outcome
  <2> HIDE DEF o, s, r
  <2>3. DOMAIN (o ++ s) = DOMAIN o \cup DOMAIN s
    BY Union
  <2>4. DOMAIN ((o ++ s) ++ r) = DOMAIN (o ++ s) \cup DOMAIN r
    BY Union
  <2> QED
    BY <2>1, <2>2, <2>3, <2>4
<1>2. DOMAIN Where(a) \subseteq {"error", "failed_stage", "failed_detail"}
  <2> DEFINE e == [error |-> TRUE]
             g == Entry("failed_stage", FailedIn(a.error))
             d == Entry("failed_detail", FailedAt(a.error))
  <2>1. /\ DOMAIN e = {"error"} /\ DOMAIN g \subseteq {"failed_stage"}
        /\ DOMAIN d \subseteq {"failed_detail"}
    BY OptionalKeys
  <2>2. Where(a) = IF a.error = NoError THEN <<>> ELSE e ++ g ++ d
    BY DEF Where
  <2> HIDE DEF e, g, d
  <2>3. /\ DOMAIN (e ++ g) = DOMAIN e \cup DOMAIN g
        /\ DOMAIN ((e ++ g) ++ d) = DOMAIN (e ++ g) \cup DOMAIN d
    BY Union
  <2> QED
    BY <2>1, <2>2, <2>3, OptionalKeys
<1>3. DOMAIN Likely(a) \subseteq {"likely_cause", "likely_cause_key", "timed_out"}
  <2> DEFINE key == CauseKey(FailedIn(a.error), a.error)
             own == [likely_cause |-> "own"]
             c == Entry("likely_cause", key)
             k == Entry("likely_cause_key", key)
             t == Flag("timed_out", a.error.class = "AttemptTimedOut")
  <2>1. /\ DOMAIN own = {"likely_cause"} /\ DOMAIN c \subseteq {"likely_cause"}
        /\ DOMAIN k \subseteq {"likely_cause_key"} /\ DOMAIN t \subseteq {"timed_out"}
    BY OptionalKeys
  <2>2. Likely(a) = IF a.error = NoError THEN <<>> ELSE (IF Owns(a) THEN own ELSE c ++ k) ++ t
    BY DEF Likely
  <2> HIDE DEF own, c, k, t
  <2>3. /\ DOMAIN (c ++ k) = DOMAIN c \cup DOMAIN k
        /\ DOMAIN (own ++ t) = DOMAIN own \cup DOMAIN t
        /\ DOMAIN ((c ++ k) ++ t) = DOMAIN (c ++ k) \cup DOMAIN t
    BY Union
  <2> QED
    BY <2>1, <2>2, <2>3, OptionalKeys
<1> QED
  BY <1>1, <1>2, <1>3

\* The keys of either report.
LEMMA ReportDomains ==
    ASSUME NEW a, Consistent(a)
    PROVE  /\ DOMAIN FallbackReport(a) = DOMAIN Outcome(a) \cup DOMAIN Where(a)
           /\ DOMAIN BuildReport(a) = a.notes \cup DOMAIN Outcome(a) \cup DOMAIN Where(a)
                                      \cup DOMAIN Likely(a)
           /\ \A r \in {FallbackReport(a), BuildReport(a)} :
                  DOMAIN r \subseteq Keys \cup NoteNames /\ r # <<>>
           /\ \A k \in DOMAIN Likely(a) :
                  k \in DOMAIN BuildReport(a) /\ BuildReport(a)[k] = Likely(a)[k]
<1> DEFINE n == [x \in a.notes |-> TRUE]
           o == Outcome(a)
           w == Where(a)
           l == Likely(a)
<1>1. DOMAIN n = a.notes
  OBVIOUS
<1>2. FallbackReport(a) = o ++ w /\ BuildReport(a) = n ++ o ++ w ++ l
  BY DEF FallbackReport, BuildReport
<1>3. /\ "success" \in DOMAIN o
      /\ DOMAIN o \subseteq {"success", "skipped", "retrying"}
      /\ DOMAIN w \subseteq {"error", "failed_stage", "failed_detail"}
      /\ DOMAIN l \subseteq {"likely_cause", "likely_cause_key", "timed_out"}
  BY PartKeys
<1> HIDE DEF n, o, w, l
<1>4. DOMAIN (o ++ w) = DOMAIN o \cup DOMAIN w
  BY Union
<1>5. DOMAIN (n ++ o ++ w) = a.notes \cup DOMAIN o \cup DOMAIN w
  <2>1. /\ DOMAIN (n ++ o) = DOMAIN n \cup DOMAIN o
        /\ DOMAIN ((n ++ o) ++ w) = DOMAIN (n ++ o) \cup DOMAIN w
    BY Union
  <2> QED
    BY <1>1, <2>1
<1>6. DOMAIN (n ++ o ++ w ++ l) = a.notes \cup DOMAIN o \cup DOMAIN w \cup DOMAIN l
  <2>1. DOMAIN ((n ++ o ++ w) ++ l) = DOMAIN (n ++ o ++ w) \cup DOMAIN l
    BY Union
  <2> QED
    BY <1>5, <2>1
<1>7. ASSUME NEW r \in {FallbackReport(a), BuildReport(a)}
      PROVE  DOMAIN r \subseteq Keys \cup NoteNames /\ r # <<>>
  <2>1. DOMAIN r \subseteq Keys \cup NoteNames
    BY <1>2, <1>3, <1>4, <1>6 DEF Keys, Consistent
  <2>2. "success" \in DOMAIN r
    BY <1>2, <1>3, <1>4, <1>6
  <2> QED
    BY <2>1, <2>2, OptionalKeys
<1>8. ASSUME NEW k \in DOMAIN l PROVE (n ++ o ++ w ++ l)[k] = l[k]
  <2>1. k \in {"likely_cause", "likely_cause_key", "timed_out"}
    BY <1>3
  <2>2. k \in Keys
    BY <2>1 DEF Keys
  <2>3. k \notin a.notes
    BY <2>2, NotesAssumption DEF Consistent
  <2>4. k \notin DOMAIN (n ++ o ++ w)
    BY <1>3, <1>5, <2>1, <2>3
  <2> QED
    BY <2>4, Lookup
<1> QED
  BY <1>2, <1>4, <1>6, <1>7, <1>8 DEF o, w, l

\* The key in a report, or "none".
KeyIn(r) == IF "likely_cause_key" \in DOMAIN r THEN r["likely_cause_key"] ELSE "none"

\* The key of the report build_report() makes of a failure is cause_key()'s,
\* with its sentence, unless the integration has one of its own.
LEMMA KeyOfReport ==
    ASSUME NEW a, Consistent(a)
    PROVE  /\ KeyIn(FallbackReport(a)) = "none"
           /\ KeyIn(BuildReport(a)) = IF a.error = NoError \/ Owns(a) THEN "none"
                                      ELSE CauseKey(FailedIn(a.error), a.error)
           /\ KeyIn(BuildReport(a)) # "none" =>
                  BuildReport(a)["likely_cause"] = KeyIn(BuildReport(a))
<1> DEFINE key == CauseKey(FailedIn(a.error), a.error)
           own == [likely_cause |-> "own"]
           c == Entry("likely_cause", key)
           k == Entry("likely_cause_key", key)
           t == Flag("timed_out", a.error.class = "AttemptTimedOut")
           l == Likely(a)
<1>1. "likely_cause_key" \notin a.notes \cup DOMAIN Outcome(a) \cup DOMAIN Where(a)
  <2>1. "likely_cause_key" \notin a.notes
    BY NotesAssumption DEF Keys, Consistent
  <2> QED
    BY <2>1, PartKeys
<1>2. KeyIn(FallbackReport(a)) = "none"
  <2>1. DOMAIN FallbackReport(a) = DOMAIN Outcome(a) \cup DOMAIN Where(a)
    BY ReportDomains
  <2> QED
    BY <1>1, <2>1 DEF KeyIn
<1>3. /\ "likely_cause_key" \in DOMAIN BuildReport(a) <=> "likely_cause_key" \in DOMAIN l
      /\ \A x \in DOMAIN l : BuildReport(a)[x] = l[x]
  <2>1. DOMAIN BuildReport(a) = a.notes \cup DOMAIN Outcome(a) \cup DOMAIN Where(a) \cup DOMAIN l
    BY ReportDomains
  <2>2. \A x \in DOMAIN l : BuildReport(a)[x] = l[x]
    BY ReportDomains
  <2> HIDE DEF l
  <2> QED
    BY <1>1, <2>1, <2>2
<1>4. l = IF a.error = NoError THEN <<>> ELSE (IF Owns(a) THEN own ELSE c ++ k) ++ t
  BY DEF Likely
<1>5. DOMAIN own = {"likely_cause"} /\ DOMAIN t \subseteq {"timed_out"}
  BY OptionalKeys
<1>6. CASE a.error = NoError \/ Owns(a)
  <2>1. DOMAIN (own ++ t) = DOMAIN own \cup DOMAIN t
    <3> HIDE DEF own, t
    <3> QED
      BY Union
  <2>2. "likely_cause_key" \notin DOMAIN l
    <3> HIDE DEF own, t, l
    <3>1. CASE a.error = NoError
      <4>1. l = <<>>
        BY <1>4, <3>1
      <4> QED
        BY <4>1, OptionalKeys
    <3>2. CASE a.error # NoError
      <4>1. l = own ++ t
        BY <1>4, <1>6, <3>2
      <4>2. DOMAIN l = DOMAIN own \cup DOMAIN t
        BY <2>1, <4>1
      <4> QED
        BY <1>5, <4>2
    <3> QED
      BY <3>1, <3>2
  <2>3. KeyIn(BuildReport(a)) = "none"
    BY <1>3, <2>2 DEF KeyIn
  <2> QED
    BY <1>2, <1>6, <2>3
<1>7. CASE a.error # NoError /\ ~Owns(a) /\ key = "none"
  <2>1. DOMAIN c = {} /\ DOMAIN k = {}
    BY <1>7 DEF Entry
  <2>2. /\ DOMAIN (c ++ k) = DOMAIN c \cup DOMAIN k
        /\ DOMAIN ((c ++ k) ++ t) = DOMAIN (c ++ k) \cup DOMAIN t
    BY Union
  <2>3. "likely_cause_key" \notin DOMAIN l
    <3> HIDE DEF c, k, t, l, key
    <3> QED
      BY <1>4, <1>5, <1>7, <2>1, <2>2
  <2>4. KeyIn(BuildReport(a)) = "none"
    BY <1>3, <2>3 DEF KeyIn
  <2> QED
    BY <1>2, <1>7, <2>4
<1>8. CASE a.error # NoError /\ ~Owns(a) /\ key # "none"
  <2>1. /\ DOMAIN c = {"likely_cause"} /\ c["likely_cause"] = key
        /\ DOMAIN k = {"likely_cause_key"} /\ k["likely_cause_key"] = key
    <3> HIDE DEF key
    <3> QED
      BY <1>8 DEF Entry
  <2>2. l = (c ++ k) ++ t
    BY <1>4, <1>8
  <2> HIDE DEF c, k, t, l, key
  <2>3. DOMAIN (c ++ k) = {"likely_cause", "likely_cause_key"}
    <3>1. DOMAIN (c ++ k) = DOMAIN c \cup DOMAIN k
      BY Union
    <3> QED
      BY <2>1, <3>1
  <2>4. (c ++ k)["likely_cause"] = key
    <3>1. "likely_cause" \in DOMAIN c \cup DOMAIN k /\ "likely_cause" \in DOMAIN c
      BY <2>1
    <3> QED
      BY <2>1, <3>1, Lookup
  <2>5. (c ++ k)["likely_cause_key"] = key
    <3>1. /\ "likely_cause_key" \in DOMAIN c \cup DOMAIN k
          /\ "likely_cause_key" \notin DOMAIN c
      BY <2>1
    <3> QED
      BY <2>1, <3>1, Lookup
  <2>6. \A x \in {"likely_cause", "likely_cause_key"} : x \in DOMAIN l /\ l[x] = key
    <3>1. TAKE x \in {"likely_cause", "likely_cause_key"}
    <3>2. x \in DOMAIN (c ++ k) /\ (c ++ k)[x] = key
      BY <2>3, <2>4, <2>5
    <3>3. DOMAIN l = DOMAIN (c ++ k) \cup DOMAIN t
      BY <2>2, Union
    <3>4. l[x] = (c ++ k)[x]
      BY <2>2, <3>2, Lookup
    <3> QED
      BY <3>2, <3>3, <3>4
  <2>7. KeyIn(BuildReport(a)) = key /\ BuildReport(a)["likely_cause"] = key
    BY <1>3, <2>6 DEF KeyIn
  <2> QED
    BY <1>2, <1>8, <2>7 DEF key
<1> QED
  BY <1>6, <1>7, <1>8

LEMMA RaisedFacts ==
    ASSUME NEW e \in Raised
    PROVE  /\ e.class = "AttemptTimedOut" => e.text # "unprintable" /\ e.stage = FailedPrimary
           /\ e.class # "AttemptTimedOut" => e.stage # "disconnect"
           /\ e # NoError
<1>1. e.class # "none"
  BY DEF Raised
<1>2. e # NoError
  BY <1>1 DEF NoError
<1>3. /\ e.class = "AttemptTimedOut" => e.text # "unprintable" /\ e.stage = FailedPrimary
      /\ e.class # "AttemptTimedOut" => e.stage # "disconnect"
  BY DEF Raised
<1> QED
  BY <1>2, <1>3

\* While an attempt runs nothing is filed; then its report is, and nothing of
\* the trace is open.
Reported ==
    IF Running THEN attempt = Nothing
    ELSE /\ frames = <<>>
         /\ Consistent(attempt) /\ attempt.cause \in Causes
         /\ attempt.error = NoError \/ attempt.error \in Raised
         /\ filed = IF BuildFails(attempt) THEN FallbackReport(attempt) ELSE BuildReport(attempt)

\* What a report says depends on the trace by the stage that failed only.
LEMMA SameStage ==
    ASSUME failedStage' = failedStage
    PROVE  /\ Raised' = Raised
           /\ \A a : FallbackReport(a)' = FallbackReport(a) /\ BuildReport(a)' = BuildReport(a)
<1>1. FailedPrimary' = FailedPrimary /\ FailedDetail' = FailedDetail
  BY DEF FailedPrimary, FailedDetail
<1>2. \A e : FailedIn(e)' = FailedIn(e) /\ FailedAt(e)' = FailedAt(e)
  BY <1>1 DEF FailedIn, FailedAt
<1> QED
  BY <1>1, <1>2 DEF Raised, BuildReport, FallbackReport, Outcome, Where, Likely

LEMMA FileStep ==
    ASSUME NEW a, Consistent(a), a.cause \in Causes, a.error = NoError \/ a.error \in Raised,
           File(a)
    PROVE  Reported'
<1> DEFINE r == IF BuildFails(a) THEN FallbackReport(a) ELSE BuildReport(a)
<1>1. attempt' = a /\ filed' = r /\ frames = <<>> /\ UNCHANGED trace
  BY DEF File
<1>2. frames' = <<>> /\ failedStage' = failedStage
  BY <1>1 DEF trace
<1>3. r # <<>>
  BY ReportDomains
<1>4. Raised' = Raised /\ FallbackReport(a)' = FallbackReport(a) /\ BuildReport(a)' = BuildReport(a)
  BY <1>2, SameStage
<1>5. filed' = IF BuildFails(a) THEN FallbackReport(a)' ELSE BuildReport(a)'
  BY <1>1, <1>4
<1> HIDE DEF r
<1> QED
  BY <1>1, <1>2, <1>3, <1>4, <1>5 DEF Reported, Running, Consistent, BuildFails

LEMMA ReportedAlways == Spec => []Reported
<1>1. Init => Reported
  BY DEF Init, Reported, Running
<1>2. Reported /\ [Next]_vars => Reported'
  <2> SUFFICES ASSUME Reported, [Next]_vars PROVE Reported'
    OBVIOUS
  <2>1. CASE FileSkipped
    <3> DEFINE a == [Nothing EXCEPT !.skipped = TRUE]
    <3>1. Consistent(a) /\ a.cause \in Causes /\ a.error = NoError
      BY DEF Consistent, Nothing, NoError, Causes
    <3> QED
      BY <2>1, <3>1, FileStep DEF FileSkipped
  <2>2. CASE FileResult
    <3>1. PICK notes \in SUBSET NoteNames : File([Nothing EXCEPT !.notes = notes])
      BY <2>2 DEF FileResult
    <3> DEFINE a == [Nothing EXCEPT !.notes = notes]
    <3>2. Consistent(a) /\ a.cause \in Causes /\ a.error = NoError
      BY DEF Consistent, Nothing, NoError, Causes
    <3> QED
      BY <3>1, <3>2, FileStep
  <2>3. CASE FileFailure
    <3>1. PICK e \in Raised, retry \in BOOLEAN, c \in Causes, notes \in SUBSET NoteNames :
               File([error |-> e, skipped |-> FALSE, retrying |-> retry, cause |-> c,
                     notes |-> notes])
      BY <2>3 DEF FileFailure
    <3> DEFINE a == [error |-> e, skipped |-> FALSE, retrying |-> retry, cause |-> c,
                     notes |-> notes]
    <3>2. a.error = e /\ a.cause = c /\ Consistent(a)
      BY RaisedFacts DEF Consistent
    <3> HIDE DEF a
    <3>3. File(a)
      BY <3>1 DEF a
    <3> QED
      BY <3>2, <3>3, FileStep
  <2>4. CASE RecordFiled
    BY <2>4 DEF RecordFiled, Reported, Running
  <2>5. CASE Running /\ UNCHANGED <<attempt, filed>>
    BY <2>5 DEF Reported, Running
  <2>6. CASE UNCHANGED vars
    <3>1. UNCHANGED <<frames, failedStage, attempt, filed>>
      BY <2>6 DEF vars, trace
    <3>2. CASE Running
      BY <2>5, <3>1, <3>2
    <3>3. CASE ~Running
      <4>1. Raised' = Raised /\ FallbackReport(attempt)' = FallbackReport(attempt)
            /\ BuildReport(attempt)' = BuildReport(attempt)
        BY <3>1, SameStage DEF BuildReport, FallbackReport, Outcome, Where, Likely, Owns
      <4> QED
        BY <3>1, <3>3, <4>1 DEF Reported, Running, Consistent, BuildFails
    <3> QED
      BY <3>2, <3>3
  <2> QED
    BY <2>1, <2>2, <2>3, <2>4, <2>5, <2>6 DEF Next
<1> QED
  BY <1>1, <1>2, PTL DEF Spec

\* Whatever the errors, notes and stages, classify() files a report, of either
\* function, under the kind of its attempt (report.py:316-319).
THEOREM KindHolds == Spec => []KindIsTheAttempts
<1>1. Reported => KindIsTheAttempts
  <2> SUFFICES ASSUME Reported, ~Running PROVE KindIsTheAttempts
    BY DEF KindIsTheAttempts
  <2>1. Consistent(attempt) /\ filed \in {BuildReport(attempt), FallbackReport(attempt)}
    BY DEF Reported
  <2>2. DOMAIN filed \cap Looked
        = (IF attempt.skipped THEN {"skipped"} ELSE {})
          \cup (IF attempt.retrying THEN {"retrying"} ELSE {})
          \cup (IF attempt.error # NoError THEN {"error"} ELSE {})
    BY <2>1, ReportKeys
  <2>3. /\ "skipped" \in DOMAIN filed <=> attempt.skipped
        /\ "error" \in DOMAIN filed <=> attempt.error # NoError
        /\ "retrying" \in DOMAIN filed <=> attempt.retrying
    BY <2>1, <2>2 DEF Looked, Consistent
  <2>4. KindOf(filed) = IF attempt.skipped THEN "skipped"
                        ELSE IF attempt.error = NoError THEN "ok"
                        ELSE IF attempt.retrying THEN "retried" ELSE "failure"
    <3> DEFINE D == DOMAIN filed
    <3>1. /\ "skipped" \in D <=> attempt.skipped
          /\ "error" \in D <=> attempt.error # NoError
          /\ "retrying" \in D <=> attempt.retrying
      BY <2>3
    <3>2. KindOf(filed) =
             CASE "skipped" \in D -> "skipped"
               [] D \cap {"skipped", "error"} = {} -> "ok"
               [] {"error", "retrying"} \subseteq D /\ "skipped" \notin D -> "retried"
               [] OTHER -> "failure"
      BY DEF KindOf
    <3> HIDE DEF D
    <3> QED
      BY <2>1, <3>1, <3>2 DEF Consistent
  <2> QED
    BY <2>1, <2>4 DEF KindIsTheAttempts, Consistent
<1> QED
  BY <1>1, ReportedAlways, PTL

\* When nothing is open, the stage a report names is the close's just when the
\* failure in flight is.
LEMMA ClosingIsNamed ==
    ASSUME TraceInv, frames = <<>>
    PROVE  FailedPrimary = "disconnect" <=> PrimaryOf(flight) = "disconnect"
<1>1. PrimaryOf("none") = "none" /\ PrimaryOf("unplaced") = "unplaced"
  BY StageMapAssumption DEF PrimaryOf, Primary
<1>2. failedStage = "none" \/ failedStage = flight
  <2>1. Len(frames) = 0
    OBVIOUS
  <2> QED
    BY <2>1, BlameCases
<1>3. CASE failedStage = "none"
  <2>1. flight \in {"none", "unplaced"}
    BY <1>3, BlameCases DEF TraceInv, TraceType, Failures, Placed
  <2> QED
    BY <1>1, <1>3, <2>1 DEF FailedPrimary
<1>4. CASE failedStage = flight
  BY <1>4 DEF FailedPrimary
<1> QED
  BY <1>2, <1>3, <1>4

\* Whatever the stages and their map, the error, its text and the
\* integration's sentence: the sentence of a report is true of its attempt
\* (report.py:249-273, causes.py:68-104).
THEOREM CausesAreTrue == Spec => []CauseIsTrue
<1>1. TraceInv /\ Reported => CauseIsTrue
  <2> SUFFICES ASSUME TraceInv, Reported PROVE CauseIsTrue
    OBVIOUS
  <2> DEFINE e == attempt.error
             key == KeyIn(filed)
             cut == e.class = "AttemptTimedOut"
             closing == PrimaryOf(flight) = "disconnect"
  <2>1. CASE Running
    <3>1. ~cut /\ key = "none"
      BY <2>1 DEF Reported, Running, Nothing, NoError, KeyIn
    <3> QED
      BY <2>1, <3>1 DEF CauseIsTrue, KeyIn
  <2>2. CASE ~Running /\ (BuildFails(attempt) \/ e = NoError \/ Owns(attempt))
    <3>1. Consistent(attempt) /\ (e = NoError \/ e \in Raised)
      BY <2>2 DEF Reported
    <3>2. key = "none"
      BY <2>2, <3>1, KeyOfReport DEF Reported
    <3>3. ~cut
      BY <2>2, <3>1, RaisedFacts DEF BuildFails, Owns, NoError
    <3> QED
      BY <2>2, <3>2, <3>3 DEF CauseIsTrue, KeyIn
  <2>3. CASE ~Running /\ ~BuildFails(attempt) /\ e # NoError /\ ~Owns(attempt)
    <3>1. /\ Consistent(attempt) /\ e \in Raised /\ frames = <<>>
          /\ filed = BuildReport(attempt)
      BY <2>3 DEF Reported
    <3>2. key = CauseKey(FailedIn(e), e) /\ (key # "none" => filed["likely_cause"] = key)
      BY <2>3, <3>1, KeyOfReport
    <3>3. FailedIn(e) = "disconnect" <=> closing
      <4>1. FailedPrimary = "disconnect" <=> closing
        BY <3>1, ClosingIsNamed
      <4>2. e.stage = "disconnect" => FailedPrimary = "disconnect"
        BY <3>1, RaisedFacts
      <4> QED
        BY <4>1, <4>2 DEF FailedIn
    <3>4. CASE cut
      <4>1. key = IF FailedIn(e) = "disconnect" THEN "disconnect.timed_out" ELSE "attempt_timed_out"
        BY <3>2, <3>4, CauseKeyFacts
      <4> QED
        BY <2>3, <3>2, <3>3, <3>4, <4>1 DEF CauseIsTrue, KeyIn
    <3>5. CASE ~cut
      <4>1. /\ key \notin {"attempt_timed_out", "disconnect.timed_out"}
            /\ key = "disconnect.close_failed" => closing
        BY <3>2, <3>3, <3>5, CauseKeyFacts
      <4>2. attempt.cause # "own"
        BY <2>3, <3>5 DEF Owns
      <4> QED
        BY <3>2, <3>5, <4>1, <4>2 DEF CauseIsTrue, KeyIn
    <3> QED
      BY <3>4, <3>5
  <2> QED
    BY <2>1, <2>2, <2>3
<1> QED
  BY <1>1, TraceAlways, ReportedAlways, PTL

-----------------------------------------------------------------------------
(* Types *)

\* The bounds of the trace and of those who are told.
Bounds == Len(frames) <= MaxDepth /\ told \subseteq Callables

LEMMA TraceDepth ==
    ASSUME TraceInv, Len(frames) <= MaxDepth, TraceNext
    PROVE  Len(frames') <= MaxDepth
<1>1. frames \in Seq(Frames) /\ Len(frames) \in Nat /\ MaxDepth \in Nat
  BY DepthAssumption DEF TraceInv, TraceType
<1>2. ASSUME NEW kind, NEW n, Open(kind, n) PROVE Len(frames') <= MaxDepth
  <2>1. Len(frames') = Len(frames) + 1 /\ Len(frames) < MaxDepth
    BY <1>1, <1>2 DEF Open
  <2> QED
    BY <1>1, <2>1
<1>3. ASSUME frames # <<>>, Close PROVE Len(frames') <= MaxDepth
  <2>1. Len(frames') = Len(frames) - 1
    BY <1>1, <1>3, PopProperties DEF Close
  <2> QED
    BY <1>1, <2>1
<1>4. \/ \E kind, n : Open(kind, n)
      \/ frames # <<>> /\ Close
      \/ UNCHANGED frames
  BY DEF TraceNext, EnterStage, Fail, ExitStage, Raise, EscapeStage, StartCleanup, EndCleanup,
     Swallow, SwallowAnything, Inside
<1> QED
  BY <1>2, <1>3, <1>4

LEMMA ToldStep ==
    ASSUME TellInv, told \subseteq Callables, ListenersNext \/ Notify
    PROVE  told' \subseteq Callables
<1>1. ASSUME CallNext PROVE told' \subseteq Callables
  <2>1. notifying # <<>> /\ Innermost \in Notification
    BY <1>1, PopProperties DEF CallNext, OthersRun, Quiet, TellInv, Innermost
  <2>2. Innermost.todo \in Seq(Callables)
    BY <2>1 DEF Notification
  <2> QED
    BY <1>1, <2>2 DEF CallNext
<1>2. ASSUME ~CallNext PROVE told' \subseteq Callables
  BY <1>2 DEF ListenersNext, Notify, ListenerEnds, NotifyEnds, AddListener, RemoveListener
<1> QED
  BY <1>1, <1>2

LEMMA BoundsAlways == Spec => []Bounds
<1>1. Init => Bounds
  BY DepthAssumption DEF Init, TraceInit, ListenersInit, Bounds
<1>2. TraceInv /\ TellInv /\ Bounds /\ [Next]_vars => Bounds'
  <2> SUFFICES ASSUME TraceInv, TellInv, Bounds, [Next]_vars PROVE Bounds'
    OBVIOUS
  <2>1. Len(frames') <= MaxDepth
    <3>1. frames' = frames \/ frames' = <<>> \/ TraceNext
      BY DEF Next, FileSkipped, FileResult, FileFailure, File, RecordFiled, vars, trace
    <3>2. CASE frames' = <<>>
      BY <3>2, DepthAssumption
    <3> QED
      BY <3>1, <3>2, TraceDepth DEF Bounds
  <2>2. told' \subseteq Callables
    <3>1. told' = told \/ ListenersNext \/ Notify
      BY DEF Next, FileSkipped, FileResult, FileFailure, File, RecordFiled, vars, registry
    <3> QED
      BY <3>1, ToldStep DEF Bounds
  <2> QED
    BY <2>1, <2>2 DEF Bounds
<1> QED
  BY <1>1, <1>2, TraceAlways, TellAlways, PTL DEF Spec

\* Every variable is of its type, for any number of stages, listeners and
\* notes: a report has no key but its own and the notes', and a listener is
\* registered once.
THEOREM TypeCorrect == Spec => []TypeOK
<1>1. TraceInv /\ TellInv /\ Bounds /\ Reported => TypeOK
  <2> SUFFICES ASSUME TraceInv, TellInv, Bounds, Reported PROVE TypeOK
    OBVIOUS
  <2>1. TraceTypeOK
    BY DEF TraceTypeOK, TraceInv, TraceType, Bounds
  <2>2. ListenersTypeOK
    <3>1. IsInjective(listeners)
      BY DEF IsInjective, TellInv
    <3> QED
      BY <3>1 DEF ListenersTypeOK, TellInv, Notification, Bounds
  <2>3. attempt.cause \in Causes /\ attempt.notes \subseteq NoteNames
    <3>1. CASE Running
      BY <3>1 DEF Reported, Nothing, Causes
    <3>2. CASE ~Running
      BY <3>2 DEF Reported, Consistent
    <3> QED
      BY <3>1, <3>2
  <2>4. DOMAIN filed \subseteq Keys \cup NoteNames
    <3>1. CASE Running
      BY <3>1, OptionalKeys DEF Running
    <3>2. CASE ~Running
      BY <3>2, ReportDomains DEF Reported
    <3> QED
      BY <3>1, <3>2
  <2> QED
    BY <2>1, <2>2, <2>3, <2>4 DEF TypeOK
<1> QED
  BY <1>1, TraceAlways, TellAlways, BoundsAlways, ReportedAlways, PTL

=============================================================================
