--------------------------------- MODULE Gatt ---------------------------------
(***************************************************************************)
(* gatt.py: a protocol looks its characteristic up and asks how much one    *)
(* write carries, at any moment after connecting.  The link only comes to   *)
(* know: services are discovered, the MTU is agreed, and the backend (bleak *)
(* on BlueZ, a proxy, ...: external) reports it late, through one figure    *)
(* before the other, or never.  Until then it answers with placeholders.    *)
(***************************************************************************)
EXTENDS Naturals

CONSTANTS
    Agreed,    \* MTUs a device may agree to
    MinSizes,  \* write sizes protocols need
    Default    \* the caller's `default` for write_limit()

ATT_OVERHEAD == 3
DEFAULT_WRITE_SIZE == 20
PlainMtu == DEFAULT_WRITE_SIZE + ATT_OVERHEAD

ASSUME AgreedAssumption == Agreed \subseteq {m \in Nat : m >= PlainMtu} /\ Agreed # {}
ASSUME SizesAssumption == MinSizes \subseteq Nat /\ Default \in Nat

VARIABLES
    exposes,     \* what the device has of what the protocol needs
    discovered,  \* client.services can be read
    mtu,         \* the MTU of the link
    mtuSize,     \* client.mtu_size; 0: it raises, warns or is a placeholder
    charSize,    \* the characteristic's max_write_without_response_size; 0: it raises
    answers,     \* history: what characteristic_or_raise() has answered so far
    limit        \* the last answer of write_limit()

vars == <<exposes, discovered, mtu, mtuSize, charSize, answers, limit>>

\* Nothing of it, the service, the characteristic too, or all it needs; or a
\* UUID it has twice.
Exposures == {"nothing", "service", "characteristic", "all", "twice"}
\* "raised": an exception of the backend's, which no retry_if takes for final.
Answers == {"found", "retryable", "final", "raised"}
NoLimit == [size |-> 0, mtu |-> 0, source |-> "none"]
Mtus == Agreed \cup {PlainMtu}
Sizes == {m - ATT_OVERHEAD : m \in Mtus}

TypeOK ==
    /\ exposes \in Exposures
    /\ discovered \in BOOLEAN
    /\ mtu \in Mtus
    /\ mtuSize \in Mtus \cup {0}
    /\ charSize \in Sizes \cup {0}
    /\ answers \subseteq Answers
    /\ limit \in [size : Sizes \cup {Default}, mtu : Mtus \cup {0},
                  source : {"characteristic", "mtu", "default"}] \cup {NoLimit}

-----------------------------------------------------------------------------
(* The backend *)

Discover == /\ ~discovered
            /\ discovered' = TRUE
            /\ UNCHANGED <<exposes, mtu, mtuSize, charSize, answers, limit>>

Exchange == /\ mtu = PlainMtu
            /\ mtu' \in Agreed
            /\ UNCHANGED <<exposes, discovered, mtuSize, charSize, answers, limit>>

\* A figure catches up with the link.  Before the exchange some backends answer
\* the plain MTU, without a warning.
MtuReported == /\ mtuSize' = mtu
               /\ UNCHANGED <<exposes, discovered, mtu, charSize, answers, limit>>

SizeReported == /\ charSize' = mtu - ATT_OVERHEAD
                /\ UNCHANGED <<exposes, discovered, mtu, mtuSize, answers, limit>>

-----------------------------------------------------------------------------
(* characteristic_or_raise() *)

\* Mutant: the error says nothing of a retry, and GattMismatch is final.
SmallIsFinal(min) == CASE charSize = 0 -> "raised"
                       [] charSize \in 1 .. min - 1 -> "final"
                       [] OTHER -> "found"

\* The size is read unguarded: a backend that raises lets its exception out.
Fits(min) == CASE charSize = 0 -> "raised"
               [] charSize \in 1 .. min - 1 -> "retryable"
               [] OTHER -> "found"

\* `min` is the size the protocol needs, 0 if it asks for none.
Lookup(min) ==
    CASE ~discovered \/ exposes = "twice" -> "retryable"
      [] discovered /\ exposes \notin {"twice", "all"} -> "final"
      [] OTHER -> IF min = 0 THEN "found" ELSE Fits(min)

CharacteristicOrRaise ==
    /\ \E min \in MinSizes \cup {0} : answers' = answers \cup {Lookup(min)}
    /\ UNCHANGED <<exposes, discovered, mtu, mtuSize, charSize, limit>>

-----------------------------------------------------------------------------
(* write_limit() *)

\* Mutant: the placeholder itself counts as the characteristic's own limit.
PlaceholderCounts(size) == size >= DEFAULT_WRITE_SIZE

\* At or below the floor a size may only be bleak's placeholder.
OwnLimit(size) == size > DEFAULT_WRITE_SIZE

\* Mutant: whatever the backend says is an MTU.
AnyMtu == TRUE

\* _reported_mtu(): there is a real answer.
MtuIsReported == mtuSize > ATT_OVERHEAD

WriteLimit(response) ==
    IF ~response /\ OwnLimit(charSize)
      THEN [size |-> charSize, mtu |-> mtuSize, source |-> "characteristic"]
    ELSE IF MtuIsReported
      THEN [size |-> mtuSize - ATT_OVERHEAD, mtu |-> mtuSize, source |-> "mtu"]
    ELSE [size |-> Default, mtu |-> 0, source |-> "default"]

AskLimit == /\ \E response \in BOOLEAN : limit' = WriteLimit(response)
            /\ UNCHANGED <<exposes, discovered, mtu, mtuSize, charSize, answers>>

-----------------------------------------------------------------------------
\* Another attempt: a new link to the same device.
Reconnect ==
    /\ discovered' \in BOOLEAN
    /\ mtu' = PlainMtu
    /\ mtuSize' = 0
    /\ charSize' \in {0, DEFAULT_WRITE_SIZE}
    /\ limit' = NoLimit
    /\ UNCHANGED <<exposes, answers>>

Init ==
    /\ exposes \in Exposures
    /\ discovered \in BOOLEAN
    /\ mtu = PlainMtu
    /\ mtuSize = 0
    /\ charSize \in {0, DEFAULT_WRITE_SIZE}
    /\ answers = {}
    /\ limit = NoLimit

Next ==
    \/ Discover \/ Exchange \/ MtuReported \/ SizeReported
    \/ CharacteristicOrRaise \/ AskLimit
    \/ Reconnect

Spec == Init /\ [][Next]_vars

-----------------------------------------------------------------------------
(* Properties *)

\* gatt.py:86-89, errors.py:76: default_retry_if gives up on a final mismatch,
\* so none may be final that another attempt, or a moment's wait, could clear.
FinalStaysFinal == ~({"final", "found"} \subseteq answers)

\* gatt.py:154-168: what write_limit() was told is never more than the link
\* carries, then or later; and a size that the MTU reported at the time exceeds
\* is the characteristic's own, not bleak's placeholder.
LimitIsSound ==
    /\ limit.source \in {"characteristic", "mtu"} => limit.size <= mtu - ATT_OVERHEAD
    /\ limit.mtu <= mtu
    /\ limit.mtu > limit.size + ATT_OVERHEAD =>
           limit.source = "characteristic" /\ limit.size > DEFAULT_WRITE_SIZE

=============================================================================
