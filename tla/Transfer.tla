------------------------------ MODULE Transfer ------------------------------
(***************************************************************************)
(* write_chunks(), and guarded_write() under it: a payload sliced into      *)
(* consecutive GATT writes on a link that may go away at any time.          *)
(*                                                                         *)
(* One action per stretch of code between two awaits.  The backend and the  *)
(* device are external: the link keeps the order of the writes and loses    *)
(* none while it is up; an acknowledged write returns when the device has   *)
(* it, an unacknowledged one at any time, even into a link already down.    *)
(***************************************************************************)
EXTENDS Integers, SequencesExt

CONSTANTS
    MaxLen,   \* bound: bytes of a payload
    MaxSize   \* bound: bytes of a chunk

ASSUME TransferAssumption == MaxLen \in Nat /\ MaxSize \in Nat

VARIABLES
    len,       \* len(data)
    size,      \* bytes of a write, at most
    response,  \* every write is acknowledged
    gap,       \* there is a pause after every chunk
    bounded,   \* write_timeout is not None
    watched,   \* dropped_event(client) is not None
    pc,        \* what the transfer is suspended in
    offset,    \* the loop's variable
    sent,      \* the writes made, as on_chunk() was last told
    exc,       \* how the transfer ended
    up,        \* the link
    dropped,   \* the drop event
    wire,      \* the bytes handed to the backend, by their position in data
    got        \* how many of them the device has

args     == <<len, size, response, gap, bounded, watched>>
transfer == <<pc, offset, sent, exc>>
link     == <<up, dropped>>
vars     == <<args, transfer, link, wire, got>>

Data == [i \in 1 .. len |-> i]

\* The writes that the whole of the data takes.
Writes == (len + size - 1) \div size

Known == watched /\ dropped

TypeOK ==
    /\ len \in 0 .. MaxLen /\ size \in 0 .. MaxSize
    /\ response \in BOOLEAN /\ gap \in BOOLEAN
    /\ bounded \in BOOLEAN /\ watched \in BOOLEAN
    /\ pc \in {"new", "writing", "expired", "gap", "over"}
    /\ offset = sent * size
    /\ size > 0 => sent \in 0 .. Writes
    /\ size = 0 => sent = 0 /\ wire = <<>>
    /\ exc \in {"none", "value", "dropped", "timeout", "error", "cancelled"}
    /\ up \in BOOLEAN /\ dropped \in BOOLEAN
    /\ wire \in Seq(1 .. len)
    /\ got \in 0 .. Len(wire)

-----------------------------------------------------------------------------
(* write_chunks() *)

EndIn(e) ==
    /\ pc' = "over"
    /\ exc' = e
    /\ UNCHANGED wire

\* Mutant: a chunk starts with the last byte of the one before.
OverlappingChunk(o) ==
    SubSeq(Data, IF o = 0 THEN 1 ELSE o, IF o + size < len THEN o + size ELSE len)

\* data[offset : offset + size]
Chunk(o) == SubSeq(Data, o + 1, IF o + size < len THEN o + size ELSE len)

\* Mutant: a last, empty chunk.
MoreEvenIfEmpty(o) == o <= len

More(o) == o < len

\* The loop from its head to the write: no await is in between.
LoopAt(o) ==
    \/ ~More(o) /\ EndIn("none")
    \/ More(o) /\ Known /\ EndIn("dropped")
    \/ More(o) /\ ~Known /\ EndIn("error")    \* wrap() raised
    \/ /\ More(o) /\ ~Known
       /\ wire' = wire \o Chunk(o)
       /\ pc' = "writing"
       /\ UNCHANGED exc

Begin ==
    /\ pc = "new"
    /\ IF size < 1 THEN EndIn("value") ELSE LoopAt(0)
    /\ UNCHANGED <<args, offset, sent, link, got>>

\* Mutant: the write is not awaited.
WrittenAtOnce == TRUE

Written == response => got = Len(wire)

WriteReturns ==
    /\ pc = "writing"
    /\ Written
    /\ sent' = sent + 1
    /\ offset' = offset + size
    /\ \/ EndIn("error")                       \* on_chunk() raised
       \/ gap /\ pc' = "gap" /\ UNCHANGED <<exc, wire>>
       \/ ~gap /\ LoopAt(offset + size)
    /\ UNCHANGED <<args, link, got>>

GapOver ==
    /\ pc = "gap"
    /\ LoopAt(offset)
    /\ UNCHANGED <<args, offset, sent, link, got>>

\* Why a transfer may stop within an await.
Stops(e) == EndIn(e) /\ UNCHANGED <<args, offset, sent, link, got>>

\* The backend's error, a timeout of its own among them, as it was.
WriteRaises == pc \in {"writing", "expired"} /\ Stops("error")

\* Mutant: only a write that has reached the device is bounded.
ExpiresIfTaken ==
    /\ pc = "writing"
    /\ bounded
    /\ got = Len(wire)
    /\ pc' = "expired"
    /\ UNCHANGED <<args, offset, sent, exc, link, wire, got>>

\* asyncio.timeout() cancels the write; the task resumes a turn later.
Expires ==
    /\ pc = "writing"
    /\ bounded
    /\ pc' = "expired"
    /\ UNCHANGED <<args, offset, sent, exc, link, wire, got>>

\* Mutant: a write that hung is the adapter's failure, always.
BlamesTheWrite == "timeout"

\* The drop event is asked again.
Blamed == IF Known THEN "dropped" ELSE "timeout"

TimesOut == pc = "expired" /\ Stops(Blamed)

Cancel == pc # "over" /\ Stops("cancelled")

-----------------------------------------------------------------------------
(* The link and the device *)

\* The device takes the chunks it was sent, one or several of them.
Take ==
    /\ up
    /\ \E n \in got + 1 .. Len(wire) :
         /\ n % size = 0 \/ n = Len(wire)
         /\ got' = n
    /\ UNCHANGED <<args, transfer, link, wire>>

LinkDrops ==
    /\ up
    /\ up' = FALSE
    /\ UNCHANGED <<args, transfer, dropped, wire, got>>

\* on_disconnect(), some time after the link has gone.
OnDisconnect ==
    /\ ~up /\ ~dropped
    /\ dropped' = TRUE
    /\ UNCHANGED <<args, transfer, up, wire, got>>

Init ==
    /\ len \in 0 .. MaxLen
    /\ size \in 0 .. MaxSize
    /\ response \in BOOLEAN
    /\ gap \in BOOLEAN
    /\ bounded \in BOOLEAN
    /\ watched \in BOOLEAN
    /\ pc = "new"
    /\ offset = 0
    /\ sent = 0
    /\ exc = "none"
    /\ up \in BOOLEAN
    /\ dropped \in (IF up THEN {FALSE} ELSE BOOLEAN)
    /\ wire = <<>>
    /\ got = 0

Next == \/ Begin \/ WriteReturns \/ WriteRaises \/ GapOver \/ Expires \/ TimesOut
        \/ Cancel \/ Take \/ LinkDrops \/ OnDisconnect

Spec == Init /\ [][Next]_vars

\* The transfer runs on whenever it can, its timers fire.  Nothing is asked of
\* the backend's write or of the device.
Fairness ==
    /\ WF_vars(Begin)
    /\ WF_vars(GapOver)
    /\ WF_vars(Expires)
    /\ WF_vars(TimesOut)

FairSpec == Spec /\ Fairness

-----------------------------------------------------------------------------
(* Properties *)

\* The backend is handed the data in order, no byte left out or sent twice; a
\* transfer that returns has written all of it, and, acknowledged, the device
\* has all of it (transfer.py:99-119).
WholeOnReturn ==
    /\ IsPrefix(wire, Data)
    /\ pc = "over" /\ exc = "none" => wire = Data /\ (response => got = len)

\* The progress the caller was told is right within the one chunk under way,
\* however the transfer ends (transfer.py:87-88).
ProgressIsTrue ==
    /\ got <= (sent + 1) * size
    /\ response => (sent * size <= got \/ got = len)

\* Once the drop is known nothing more is written, and no write that hung is
\* blamed on the adapter (transfer.py:57, 63-65, 100).
KnownDropEndsIt ==
    [][Known => wire' = wire /\ (exc' = "timeout" => exc = "timeout")]_vars

\* A transfer with a bound on its writes ends by itself, though no write ever
\* returns or fails (transfer.py:20-23).
TransferEnds == bounded ~> pc = "over"

=============================================================================
