---------------------------- MODULE TransferProofs ----------------------------
(***************************************************************************)
(* Theorems about Transfer, for payloads of any length, in chunks of any    *)
(* size.                                                                   *)
(***************************************************************************)
EXTENDS Transfer, SequenceTheorems, TLAPS

USE TransferAssumption

\* The bytes of the data that the first o of them, a whole number of chunks
\* unless it is all, come to.
UpTo(o) == IF o < len THEN o ELSE len

ArgsType ==
    /\ len \in Nat /\ size \in Nat
    /\ len \in 0 .. MaxLen /\ size \in 0 .. MaxSize
    /\ response \in BOOLEAN /\ gap \in BOOLEAN
    /\ bounded \in BOOLEAN /\ watched \in BOOLEAN
    /\ up \in BOOLEAN /\ dropped \in BOOLEAN
    /\ pc \in {"new", "writing", "expired", "gap", "over"}
    /\ exc \in {"none", "value", "dropped", "timeout", "error", "cancelled"}

\* The writes made are whole chunks, and the last began within the data.
Counted ==
    /\ sent \in Nat /\ offset = sent * size /\ offset \in Nat
    /\ sent > 0 => size > 0 /\ (sent - 1) * size < len
    /\ pc \in {"writing", "expired", "gap"} => size > 0
    /\ size = 0 => sent = 0 /\ wire = <<>>

\* What has been handed over is the data from its beginning.
WireIsData ==
    /\ wire \in Seq(Nat) /\ Len(wire) <= len
    /\ \A i \in 1 .. Len(wire) : wire[i] = i

\* How much of it, by the await the transfer is in.
WireByPhase ==
    /\ Len(wire) <= offset + size
    /\ pc = "new" => offset = 0 /\ Len(wire) = 0 /\ exc = "none"
    /\ pc \in {"writing", "expired"} => offset < len /\ Len(wire) = UpTo(offset + size)
    /\ pc = "gap" => Len(wire) = UpTo(offset)
    /\ pc = "over" /\ exc = "none" => offset >= len /\ Len(wire) = len

\* What the device has of it.
GotByPhase ==
    /\ got \in Nat /\ got <= Len(wire)
    /\ response => offset <= got \/ got = len

IInv == ArgsType /\ Counted /\ WireIsData /\ WireByPhase /\ GotByPhase

-----------------------------------------------------------------------------
(* The data and its chunks *)

LEMMA NextChunk ==
    ASSUME NEW x \in Nat, NEW n \in Nat PROVE (x + 1) * n = x * n + n
OBVIOUS

LEMMA ChunkProperties ==
    ASSUME len \in Nat, size \in Nat, size > 0, NEW o \in Nat, o < len
    PROVE  /\ Chunk(o) \in Seq(Nat)
           /\ Len(Chunk(o)) = UpTo(o + size) - o
           /\ \A i \in 1 .. Len(Chunk(o)) : Chunk(o)[i] = o + i
<1> DEFINE e == UpTo(o + size)
<1>1. Data \in Seq(Nat) /\ Len(Data) = len
  BY DEF Data
<1>2. Chunk(o) = SubSeq(Data, o + 1, e)
  BY DEF Chunk, UpTo
<1>3. e \in Nat /\ e >= o + 1 /\ e <= len
  BY DEF UpTo
<1>4. \A i \in o + 1 .. e : Data[i] \in Nat
  BY <1>3 DEF Data
<1> HIDE DEF e
<1>5. /\ SubSeq(Data, o + 1, e) \in Seq(Nat)
      /\ Len(SubSeq(Data, o + 1, e)) = e - o
      /\ \A i \in 1 .. e - o : SubSeq(Data, o + 1, e)[i] = Data[o + i]
  <2>1. /\ SubSeq(Data, o + 1, e) \in Seq(Nat)
        /\ Len(SubSeq(Data, o + 1, e)) = IF o + 1 <= e THEN e - (o + 1) + 1 ELSE 0
        /\ \A i \in 1 .. e - (o + 1) + 1 : SubSeq(Data, o + 1, e)[i] = Data[(o + 1) + i - 1]
    BY <1>3, <1>4, SubSeqProperties
  <2>2. e - (o + 1) + 1 = e - o /\ \A i \in Nat : (o + 1) + i - 1 = o + i
    BY <1>3
  <2>3. Len(SubSeq(Data, o + 1, e)) = e - o
    BY <1>3, <2>1, <2>2
  <2>4. ASSUME NEW i \in 1 .. e - o PROVE SubSeq(Data, o + 1, e)[i] = Data[o + i]
    BY <1>3, <2>1, <2>2
  <2> QED
    BY <2>1, <2>3, <2>4
<1>6. \A i \in 1 .. e - o : Data[o + i] = o + i
  BY <1>3 DEF Data
<1> QED
  BY <1>2, <1>3, <1>5, <1>6 DEF e

LEMMA WireGrows ==
    ASSUME len \in Nat, size \in Nat, size > 0, WireIsData, NEW o \in Nat, o < len,
           Len(wire) = o
    PROVE  LET w == wire \o Chunk(o)
           IN  /\ w \in Seq(Nat) /\ Len(w) = UpTo(o + size)
               /\ \A i \in 1 .. Len(w) : w[i] = i
<1> DEFINE w == wire \o Chunk(o)
<1>1. UpTo(o + size) \in Nat /\ UpTo(o + size) > o
  BY DEF UpTo
<1>2. /\ w \in Seq(Nat) /\ Len(w) = UpTo(o + size)
      /\ \A i \in 1 .. UpTo(o + size) :
            w[i] = IF i <= o THEN wire[i] ELSE Chunk(o)[i - o]
  <2>1. wire \in Seq(Nat) /\ Chunk(o) \in Seq(Nat) /\ Len(Chunk(o)) = UpTo(o + size) - o
    BY ChunkProperties DEF WireIsData
  <2>2. /\ w \in Seq(Nat) /\ Len(w) = Len(wire) + Len(Chunk(o))
        /\ \A i \in 1 .. Len(wire) + Len(Chunk(o)) :
              w[i] = IF i <= Len(wire) THEN wire[i] ELSE Chunk(o)[i - Len(wire)]
    BY <2>1, ConcatProperties
  <2>3. Len(wire) + Len(Chunk(o)) = UpTo(o + size)
    BY <1>1, <2>1
  <2> QED
    BY <2>2, <2>3
<1>3. ASSUME NEW i \in 1 .. Len(w) PROVE w[i] = i
  <2>1. CASE i <= o
    BY <1>1, <1>2, <2>1 DEF WireIsData
  <2>2. CASE i > o
    <3>1. i - o \in 1 .. Len(Chunk(o))
      BY <1>1, <1>2, <2>2, ChunkProperties
    <3>2. w[i] = Chunk(o)[i - o]
      BY <1>1, <1>2, <2>2
    <3>3. Chunk(o)[i - o] = o + (i - o)
      BY <3>1, ChunkProperties
    <3> QED
      BY <1>2, <3>2, <3>3
  <2> QED
    BY <2>1, <2>2
<1> QED
  BY <1>2, <1>3

-----------------------------------------------------------------------------
(* The invariant *)

LEMMA InitInv == Init => IInv
<1> SUFFICES ASSUME Init PROVE IInv
    OBVIOUS
<1>1. len \in Nat /\ size \in Nat /\ 0 * size = 0
  BY DEF Init
<1>2. ArgsType
  <2>1. dropped \in BOOLEAN
    BY DEF Init
  <2> QED
    BY <1>1, <2>1 DEF Init, ArgsType
<1>3. Counted
  BY <1>1 DEF Init, Counted
<1>4. WireIsData /\ WireByPhase /\ GotByPhase
  BY <1>1 DEF Init, WireIsData, WireByPhase, GotByPhase
<1> QED
  BY <1>2, <1>3, <1>4 DEF IInv

\* The loop from byte o on, when all before is handed over.
LEMMA LoopStep ==
    ASSUME len \in Nat, size \in Nat, size > 0, WireIsData, NEW o \in Nat,
           Len(wire) = UpTo(o), LoopAt(o), len' = len
    PROVE  /\ WireIsData'
           /\ pc' \in {"writing", "over"}
           /\ exc' \in {exc, "none", "dropped", "error"}
           /\ Len(wire') \in Nat /\ Len(wire) <= Len(wire') /\ Len(wire') <= o + size
           /\ pc' = "writing" => o < len /\ Len(wire') = UpTo(o + size)
           /\ pc' = "over" /\ exc' = "none" => o >= len /\ Len(wire') = len
<1>1. CASE wire' = wire /\ pc' = "over"
  <2>1. exc' = "none" => o >= len
    BY <1>1 DEF LoopAt, EndIn, More
  <2>2. exc' \in {"none", "dropped", "error"}
    BY <1>1 DEF LoopAt, EndIn
  <2>3. Len(wire) \in Nat /\ Len(wire) <= o
    BY DEF WireIsData, UpTo
  <2>4. Len(wire) <= o + size
    BY <2>3
  <2>5. exc' = "none" => Len(wire) = len
    BY <2>1 DEF UpTo
  <2> QED
    BY <1>1, <2>1, <2>2, <2>3, <2>4, <2>5 DEF WireIsData
<1>2. CASE o < len /\ wire' = wire \o Chunk(o) /\ pc' = "writing" /\ exc' = exc
  <2>1. Len(wire) = o
    BY <1>2 DEF UpTo
  <2>2. /\ wire' \in Seq(Nat) /\ Len(wire') = UpTo(o + size)
        /\ \A i \in 1 .. Len(wire') : wire'[i] = i
    BY <1>2, <2>1, WireGrows
  <2>3. UpTo(o + size) \in Nat /\ o <= UpTo(o + size) /\ UpTo(o + size) <= len
        /\ UpTo(o + size) <= o + size
    BY <1>2 DEF UpTo
  <2> QED
    BY <1>2, <2>1, <2>2, <2>3 DEF WireIsData
<1> QED
  BY <1>1, <1>2 DEF LoopAt, EndIn, More

\* A transfer that stops in an await, for a reason.
LEMMA StopStep ==
    ASSUME IInv, NEW e \in {"dropped", "timeout", "error", "cancelled"}, Stops(e)
    PROVE  IInv'
BY DEF IInv, ArgsType, Counted, WireIsData, WireByPhase, GotByPhase, Stops, EndIn, args, link, UpTo

LEMMA BeginStep ==
    ASSUME IInv, Begin PROVE IInv'
<1>1. UNCHANGED <<args, offset, sent, link, got>> /\ pc = "new"
  BY DEF Begin
<1>2. offset = 0 /\ Len(wire) = 0 /\ len \in Nat /\ size \in Nat
  BY <1>1 DEF IInv, WireByPhase, ArgsType
<1>3. CASE size < 1
  <2>1. pc' = "over" /\ exc' = "value" /\ wire' = wire
    BY <1>3 DEF Begin, EndIn
  <2> QED
    BY <1>1, <1>2, <2>1 DEF IInv, ArgsType, Counted, WireIsData, WireByPhase, GotByPhase, args, link
<1>4. CASE size > 0
  <2>1. LoopAt(0)
    BY <1>2, <1>4 DEF Begin
  <2>2. Len(wire) = UpTo(0)
    BY <1>2 DEF UpTo
  <2>3. UNCHANGED len
    BY <1>1 DEF args
  <2>4. /\ WireIsData' /\ pc' \in {"writing", "over"}
        /\ exc' \in {exc, "none", "dropped", "error"}
        /\ Len(wire') \in Nat /\ Len(wire) <= Len(wire') /\ Len(wire') <= 0 + size
        /\ pc' = "writing" => 0 < len /\ Len(wire') = UpTo(0 + size)
        /\ pc' = "over" /\ exc' = "none" => 0 >= len /\ Len(wire') = len
    BY <1>2, <1>4, <2>1, <2>2, <2>3, LoopStep DEF IInv
  <2>5. ArgsType'
    BY <1>1, <2>4 DEF IInv, ArgsType, args, link
  <2>6. Counted'
    BY <1>1, <1>2, <1>4 DEF IInv, Counted, args
  <2>7. WireByPhase'
    BY <1>1, <1>2, <2>4 DEF WireByPhase, UpTo, args
  <2>8. GotByPhase'
    BY <1>1, <1>2, <2>4 DEF IInv, GotByPhase, args
  <2> QED
    BY <2>4, <2>5, <2>6, <2>7, <2>8 DEF IInv
<1> QED
  BY <1>2, <1>3, <1>4

LEMMA GapOverStep ==
    ASSUME IInv, GapOver PROVE IInv'
<1>1. /\ UNCHANGED <<args, offset, sent, link, got>> /\ pc = "gap" /\ LoopAt(offset)
      /\ len' = len /\ size' = size
  BY DEF GapOver, args
<1>2. /\ size > 0 /\ Len(wire) = UpTo(offset) /\ len \in Nat /\ size \in Nat /\ offset \in Nat
      /\ WireIsData /\ Len(wire) \in Nat
  BY <1>1 DEF IInv, Counted, WireByPhase, ArgsType, WireIsData
<1>3. /\ WireIsData' /\ pc' \in {"writing", "over"}
      /\ exc' \in {exc, "none", "dropped", "error"}
      /\ Len(wire') \in Nat /\ Len(wire) <= Len(wire') /\ Len(wire') <= offset + size
      /\ pc' = "writing" => offset < len /\ Len(wire') = UpTo(offset + size)
      /\ pc' = "over" /\ exc' = "none" => offset >= len /\ Len(wire') = len
  BY <1>1, <1>2, LoopStep
<1>4. ArgsType'
  BY <1>1, <1>3 DEF IInv, ArgsType, args, link
<1>5. Counted'
  BY <1>1, <1>2 DEF IInv, Counted, args
<1>6. WireByPhase'
  BY <1>1, <1>2, <1>3 DEF WireByPhase, UpTo
<1>7. GotByPhase'
  BY <1>1, <1>2, <1>3 DEF IInv, GotByPhase, args
<1> QED
  BY <1>3, <1>4, <1>5, <1>6, <1>7 DEF IInv

LEMMA WriteReturnsStep ==
    ASSUME IInv, WriteReturns PROVE IInv'
<1> DEFINE next == offset + size
<1>1. /\ UNCHANGED <<args, link, got>> /\ pc = "writing"
      /\ sent' = sent + 1 /\ offset' = next
      /\ len' = len /\ size' = size /\ response' = response
  BY DEF WriteReturns, args
<1>2. /\ size > 0 /\ offset < len /\ Len(wire) = UpTo(next)
      /\ len \in Nat /\ size \in Nat /\ offset \in Nat /\ sent \in Nat /\ next \in Nat
      /\ WireIsData /\ Len(wire) \in Nat /\ got \in Nat /\ got <= Len(wire)
  BY <1>1 DEF IInv, Counted, WireByPhase, GotByPhase, ArgsType, WireIsData
<1>3. Counted'
  <2>1. next = (sent + 1) * size
    BY <1>2, NextChunk DEF IInv, Counted
  <2>2. (sent + 1) - 1 = sent /\ sent * size < len
    BY <1>2 DEF IInv, Counted
  <2> QED
    BY <1>1, <1>2, <2>1, <2>2 DEF Counted
<1>4. response => got >= next \/ got = len
  BY <1>2, <1>1 DEF WriteReturns, Written, UpTo
<1>5. ASSUME WireIsData', pc' \in {"writing", "gap", "over"},
             exc' \in {exc, "none", "dropped", "error"},
             Len(wire') \in Nat, Len(wire) <= Len(wire'), Len(wire') <= next + size,
             pc' = "writing" => next < len /\ Len(wire') = UpTo(next + size),
             pc' = "gap" => Len(wire') = UpTo(next),
             pc' = "over" /\ exc' = "none" => next >= len /\ Len(wire') = len
      PROVE  IInv'
  <2>1. ArgsType'
    BY <1>1, <1>5 DEF IInv, ArgsType, args, link
  <2>2. WireByPhase'
    BY <1>1, <1>2, <1>5 DEF WireByPhase, UpTo
  <2>3. GotByPhase'
    BY <1>1, <1>2, <1>4, <1>5 DEF GotByPhase
  <2> QED
    BY <1>3, <1>5, <2>1, <2>2, <2>3 DEF IInv
<1>6. WireIsData /\ wire' = wire => WireIsData'
  BY <1>1 DEF WireIsData
<1>7. Len(wire) <= next + size
  BY <1>2 DEF UpTo
<1>8. CASE EndIn("error")
  BY <1>2, <1>5, <1>6, <1>7, <1>8 DEF EndIn
<1>9. CASE pc' = "gap" /\ UNCHANGED <<exc, wire>>
  BY <1>2, <1>5, <1>6, <1>7, <1>9
<1>10. CASE LoopAt(next)
  <2>1. /\ WireIsData' /\ pc' \in {"writing", "over"}
        /\ exc' \in {exc, "none", "dropped", "error"}
        /\ Len(wire') \in Nat /\ Len(wire) <= Len(wire') /\ Len(wire') <= next + size
        /\ pc' = "writing" => next < len /\ Len(wire') = UpTo(next + size)
        /\ pc' = "over" /\ exc' = "none" => next >= len /\ Len(wire') = len
    BY <1>1, <1>2, <1>10, LoopStep
  <2> QED
    BY <1>5, <2>1
<1> QED
  BY <1>8, <1>9, <1>10 DEF WriteReturns

LEMMA NextInv == IInv /\ [Next]_vars => IInv'
<1> SUFFICES ASSUME IInv, [Next]_vars PROVE IInv'
    OBVIOUS
<1>1. CASE Begin \/ WriteReturns \/ GapOver
  BY <1>1, BeginStep, WriteReturnsStep, GapOverStep
<1>2. CASE WriteRaises \/ TimesOut \/ Cancel
  BY <1>2, StopStep DEF WriteRaises, TimesOut, Blamed, Cancel
<1>3. CASE Expires
  BY <1>3 DEF Expires, IInv, ArgsType, Counted, WireIsData, WireByPhase, GotByPhase, args, link, UpTo
<1>4. CASE Take
  <2>1. PICK n \in got + 1 .. Len(wire) : got' = n
    BY <1>4 DEF Take
  <2>2. UNCHANGED <<args, transfer, link, wire>>
    BY <1>4 DEF Take
  <2>3. GotByPhase'
    BY <2>1, <2>2 DEF IInv, ArgsType, Counted, WireIsData, GotByPhase, args, transfer
  <2> QED
    BY <2>2, <2>3 DEF IInv, ArgsType, Counted, WireIsData, WireByPhase, args, transfer, link, UpTo
<1>5. CASE LinkDrops \/ OnDisconnect
  <2>1. up' \in BOOLEAN /\ dropped' \in BOOLEAN /\ UNCHANGED <<args, transfer, wire, got>>
    BY <1>5 DEF LinkDrops, OnDisconnect, IInv, ArgsType
  <2> QED
    BY <2>1 DEF IInv, ArgsType, Counted, WireIsData, WireByPhase, GotByPhase, args, transfer, UpTo
<1>6. CASE UNCHANGED vars
  BY <1>6 DEF vars, IInv, ArgsType, Counted, WireIsData, WireByPhase, GotByPhase, args,
              transfer, link, UpTo
<1> QED
  BY <1>1, <1>2, <1>3, <1>4, <1>5, <1>6 DEF Next

LEMMA Invariance == Spec => []IInv
BY InitInv, NextInv, PTL DEF Spec

-----------------------------------------------------------------------------
(* What follows *)

LEMMA WritesProperties ==
    ASSUME NEW s \in Nat, NEW n \in Nat, n > 0, NEW l \in Nat, s > 0 => (s - 1) * n < l
    PROVE  s <= (l + n - 1) \div n
<1> DEFINE q == (l + n - 1) \div n
<1>1. q \in Int /\ l + n - 1 < (q + 1) * n /\ q >= 0
  OBVIOUS
<1>2. CASE s = 0
  BY <1>1, <1>2
<1>3. CASE s > 0
  <2>1. l - 1 < q * n
    BY <1>1
  <2>2. SUFFICES ASSUME s > q PROVE FALSE
    BY <1>1
  <2> QED
    BY <1>1, <1>3, <2>1, <2>2
<1> QED
  BY <1>2, <1>3

\* transfer.py: the state of a transfer keeps its type; the loop's variable is
\* the bytes of the chunks written, and no more chunks are than the data takes.
THEOREM TypeCorrect == Spec => []TypeOK
<1>1. IInv => TypeOK
  <2> SUFFICES ASSUME IInv PROVE TypeOK
      OBVIOUS
  <2>1. size > 0 => sent \in 0 .. Writes
    BY WritesProperties DEF IInv, ArgsType, Counted, Writes
  <2>2. wire \in Seq(1 .. len)
    BY DEF IInv, WireIsData, ArgsType
  <2> QED
    BY <2>1, <2>2 DEF IInv, ArgsType, Counted, GotByPhase, WireIsData, TypeOK
<1> QED
  BY <1>1, Invariance, PTL

LEMMA WireIsPrefix ==
    ASSUME len \in Nat, WireIsData
    PROVE  IsPrefix(wire, Data) /\ (Len(wire) = len => wire = Data)
<1>1. Data \in Seq(Nat) /\ Len(Data) = len /\ \A i \in 1 .. len : Data[i] = i
  BY DEF Data
<1>2. wire \in Seq(Nat) /\ Len(wire) \in Nat /\ Len(wire) <= len
  BY DEF WireIsData
<1>3. Len(wire) = len => wire = Data
  BY <1>1, <1>2, SeqEqual DEF WireIsData
<1> DEFINE n == Len(wire)
           a == SubSeq(wire, 1, n)
           b == SubSeq(Data, 1, n)
<1>4. /\ a \in Seq(Nat) /\ Len(a) = n /\ \A i \in 1 .. n : a[i] = wire[i]
      /\ b \in Seq(Nat) /\ Len(b) = n /\ \A i \in 1 .. n : b[i] = Data[i]
  <2>1. (\A i \in 1 .. n : wire[i] \in Nat) /\ (\A i \in 1 .. n : Data[i] \in Nat)
    BY <1>1, <1>2
  <2>2. /\ a \in Seq(Nat) /\ Len(a) = (IF 1 <= n THEN n - 1 + 1 ELSE 0)
        /\ \A i \in 1 .. n - 1 + 1 : a[i] = wire[1 + i - 1]
    BY <1>2, <2>1, SubSeqProperties
  <2>3. /\ b \in Seq(Nat) /\ Len(b) = (IF 1 <= n THEN n - 1 + 1 ELSE 0)
        /\ \A i \in 1 .. n - 1 + 1 : b[i] = Data[1 + i - 1]
    BY <1>2, <2>1, SubSeqProperties
  <2>4. n - 1 + 1 = n /\ (\A i \in 1 .. n : 1 + i - 1 = i) /\ n \in Nat
    BY <1>2
  <2> HIDE DEF a, b, n
  <2> QED
    BY <2>2, <2>3, <2>4
<1>5. \A i \in 1 .. n : a[i] = b[i]
  BY <1>1, <1>2, <1>4 DEF WireIsData
<1>6. a = b
  <2> HIDE DEF a, b
  <2> QED
    BY <1>4, <1>5, SeqEqual
<1> QED
  BY <1>1, <1>2, <1>3, <1>6 DEF IsPrefix

\* transfer.py:99-119: what is handed over is the data in order, all of it if
\* the transfer returns, and then, acknowledged, the device has all of it.
THEOREM NothingIsLost == Spec => []WholeOnReturn
<1>1. IInv => WholeOnReturn
  BY WireIsPrefix DEF IInv, ArgsType, Counted, WireByPhase, GotByPhase, WireIsData, WholeOnReturn
<1> QED
  BY <1>1, Invariance, PTL

\* transfer.py:87-88: the progress told is never more than one chunk off.
THEOREM ProgressHolds == Spec => []ProgressIsTrue
<1>1. IInv => ProgressIsTrue
  <2> SUFFICES ASSUME IInv PROVE ProgressIsTrue
      OBVIOUS
  <2>1. (sent + 1) * size = offset + size /\ sent * size = offset
    BY NextChunk DEF IInv, ArgsType, Counted
  <2>2. got <= offset + size
    BY DEF IInv, ArgsType, Counted, GotByPhase, WireIsData, WireByPhase
  <2>3. response => offset <= got \/ got = len
    BY DEF IInv, GotByPhase
  <2> QED
    BY <2>1, <2>2, <2>3 DEF ProgressIsTrue
<1> QED
  BY <1>1, Invariance, PTL

\* transfer.py:57, 63-65, 100: a drop that is known stops the writing, and is
\* what a write that hung is blamed on.
THEOREM DropEndsIt == Spec => KnownDropEndsIt
<1>1. [Next]_vars => [Known => wire' = wire /\ (exc' = "timeout" => exc = "timeout")]_vars
  <2> SUFFICES ASSUME Next, Known
               PROVE  wire' = wire /\ (exc' = "timeout" => exc = "timeout")
      OBVIOUS
  <2>1. CASE Begin \/ WriteReturns \/ GapOver
    BY <2>1 DEF Begin, WriteReturns, GapOver, LoopAt, EndIn
  <2>2. CASE WriteRaises \/ TimesOut \/ Cancel
    BY <2>2 DEF WriteRaises, TimesOut, Blamed, Cancel, Stops, EndIn
  <2>3. CASE Expires \/ Take \/ LinkDrops \/ OnDisconnect
    BY <2>3 DEF Expires, Take, LinkDrops, OnDisconnect, transfer
  <2> QED
    BY <2>1, <2>2, <2>3 DEF Next
<1> QED
  BY <1>1, PTL DEF Spec, KnownDropEndsIt

=============================================================================
