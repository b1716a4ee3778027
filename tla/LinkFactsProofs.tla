--------------------------- MODULE LinkFactsProofs ---------------------------
(***************************************************************************)
(* Theorems about what is known of a link: Gatt, whatever MTUs devices      *)
(* agree to and whatever sizes protocols need, and Radio, for any proxies   *)
(* and adapters, however often they register a scanner.                     *)
(***************************************************************************)
EXTENDS Gatt, Radio, TLAPS


-----------------------------------------------------------------------------
(* The figures of a backend *)

LEMMA SizesAreNumbers ==
    /\ \A m \in Mtus : m \in Nat /\ m >= 23
    /\ \A m \in Mtus : m - ATT_OVERHEAD \in Sizes
    /\ Sizes \subseteq Nat /\ Mtus \subseteq Nat
    /\ DEFAULT_WRITE_SIZE \in Sizes
    /\ PlainMtu = 23 /\ PlainMtu \in Mtus /\ Agreed \subseteq Mtus
BY AgreedAssumption DEF Mtus, Sizes, PlainMtu, ATT_OVERHEAD, DEFAULT_WRITE_SIZE

LEMMA TypeInit == Init => TypeOK
BY SizesAreNumbers DEF Init, TypeOK

LEMMA TypeNext == TypeOK /\ [Next]_vars => TypeOK'
<1> SUFFICES ASSUME TypeOK, [Next]_vars PROVE TypeOK'
    OBVIOUS
<1> USE SizesAreNumbers DEF TypeOK
<1>1. CASE Discover
  BY <1>1 DEF Discover
<1>2. CASE Exchange
  BY <1>2 DEF Exchange
<1>3. CASE MtuReported
  BY <1>3 DEF MtuReported
<1>4. CASE SizeReported
  BY <1>4 DEF SizeReported
<1>5. CASE CharacteristicOrRaise
  <2>1. \A min \in MinSizes \cup {0} : Lookup(min) \in Answers
    BY DEF Lookup, Fits, Answers
  <2> QED
    BY <1>5, <2>1 DEF CharacteristicOrRaise
<1>6. CASE AskLimit
  <2>1. PICK response \in BOOLEAN : limit' = WriteLimit(response)
    BY <1>6 DEF AskLimit
  <2>2. CASE ~response /\ OwnLimit(charSize)
    <3>1. charSize \in Sizes
      BY <2>2 DEF OwnLimit, DEFAULT_WRITE_SIZE
    <3> QED
      BY <1>6, <2>1, <2>2, <3>1 DEF AskLimit, WriteLimit
  <2>3. CASE ~(~response /\ OwnLimit(charSize)) /\ MtuIsReported
    <3>1. mtuSize \in Mtus
      BY <2>3 DEF MtuIsReported, ATT_OVERHEAD
    <3> QED
      BY <1>6, <2>1, <2>3, <3>1 DEF AskLimit, WriteLimit
  <2>4. CASE ~(~response /\ OwnLimit(charSize)) /\ ~MtuIsReported
    BY <1>6, <2>1, <2>4 DEF AskLimit, WriteLimit
  <2> QED
    BY <2>2, <2>3, <2>4
<1>7. CASE Reconnect
  BY <1>7 DEF Reconnect
<1>8. CASE UNCHANGED vars
  BY <1>8 DEF vars
<1> QED
  BY <1>1, <1>2, <1>3, <1>4, <1>5, <1>6, <1>7, <1>8 DEF Next

\* gatt.py: the figures of the backend and the answers given have their types,
\* in every behaviour.
THEOREM TypeCorrect == Spec => []TypeOK
BY TypeInit, TypeNext, PTL DEF Spec

-----------------------------------------------------------------------------
(* A final mismatch *)

\* What has been answered tells what the device has.
AnswersTell ==
    /\ "final" \in answers => exposes \notin {"all", "twice"}
    /\ "found" \in answers => exposes = "all"

LEMMA AnswersTellNext == AnswersTell /\ [Next]_vars => AnswersTell'
<1> SUFFICES ASSUME AnswersTell, [Next]_vars PROVE AnswersTell'
    OBVIOUS
<1>1. CASE CharacteristicOrRaise
  <2>1. \A min \in MinSizes \cup {0} :
          /\ Lookup(min) = "final" => exposes \notin {"all", "twice"}
          /\ Lookup(min) = "found" => exposes = "all"
    BY DEF Lookup, Fits
  <2> QED
    BY <1>1, <2>1 DEF CharacteristicOrRaise, AnswersTell
<1>2. CASE UNCHANGED <<exposes, answers>>
  BY <1>2 DEF AnswersTell
<1> QED
  BY <1>1, <1>2 DEF Next, vars, Discover, Exchange, MtuReported, SizeReported,
                    AskLimit, Reconnect

\* gatt.py:86-89: no lookup is declared final, so that default_retry_if gives
\* up, where another one finds the characteristic: not before the services are
\* discovered, not for a size that is still a placeholder.
THEOREM FinalIsFinal == Spec => []FinalStaysFinal
<1>1. Init => AnswersTell
  BY DEF Init, AnswersTell
<1>2. AnswersTell => FinalStaysFinal
  BY DEF AnswersTell, FinalStaysFinal
<1> QED
  BY <1>1, <1>2, AnswersTellNext, PTL DEF Spec

-----------------------------------------------------------------------------
(* The size of a write *)

\* No figure is ahead of the link, whose MTU only grows.
FiguresLag ==
    /\ mtuSize <= mtu
    /\ charSize + ATT_OVERHEAD <= mtu

LimitInv == TypeOK /\ FiguresLag /\ LimitIsSound

LEMMA FiguresLagNext == TypeOK /\ FiguresLag /\ [Next]_vars => FiguresLag'
<1> SUFFICES ASSUME TypeOK, FiguresLag, [Next]_vars PROVE FiguresLag'
    OBVIOUS
<1> USE DEF FiguresLag, ATT_OVERHEAD, DEFAULT_WRITE_SIZE
<1>1. mtu \in Nat /\ mtu >= 23 /\ mtuSize \in Nat /\ charSize \in Nat
  BY SizesAreNumbers DEF TypeOK
<1>2. CASE Exchange
  <2>1. mtu' \in Nat /\ mtu' >= mtu
    BY <1>2, <1>1, SizesAreNumbers DEF Exchange
  <2>2. mtuSize' = mtuSize /\ charSize' = charSize
    BY <1>2 DEF Exchange
  <2>3. mtuSize <= mtu' /\ charSize + 3 <= mtu'
    BY <1>1, <2>1
  <2> QED
    BY <2>2, <2>3
<1>3. CASE MtuReported
  BY <1>1, <1>3 DEF MtuReported
<1>4. CASE SizeReported
  BY <1>1, <1>4 DEF SizeReported
<1>5. CASE Reconnect
  <2>1. mtu' = 23 /\ mtuSize' = 0 /\ charSize' \in {0, 20}
    BY <1>5, SizesAreNumbers DEF Reconnect
  <2>2. CASE charSize' = 0
    BY <2>1, <2>2
  <2>3. CASE charSize' = 20
    BY <2>1, <2>3
  <2> QED
    BY <2>1, <2>2, <2>3
<1>6. CASE UNCHANGED <<mtu, mtuSize, charSize>>
  BY <1>6
<1> QED
  BY <1>2, <1>3, <1>4, <1>5, <1>6 DEF Next, vars, Discover, CharacteristicOrRaise, AskLimit

LEMMA LimitNext == LimitInv /\ [Next]_vars => LimitIsSound'
<1> SUFFICES ASSUME LimitInv, [Next]_vars PROVE LimitIsSound'
    OBVIOUS
<1> USE DEF LimitInv, FiguresLag, ATT_OVERHEAD, DEFAULT_WRITE_SIZE
<1>1. /\ mtu \in Nat /\ mtu >= 23 /\ mtuSize \in Nat /\ charSize \in Nat
      /\ limit.size \in Nat /\ limit.mtu \in Nat
  <2>1. /\ mtu \in Nat /\ mtu >= 23 /\ mtuSize \in Nat /\ charSize \in Nat
    BY SizesAreNumbers DEF TypeOK
  <2>2. CASE limit = NoLimit
    BY <2>1, <2>2 DEF NoLimit
  <2>3. CASE limit # NoLimit
    <3>1. limit.size \in Sizes \cup {Default} /\ limit.mtu \in Mtus \cup {0}
      BY <2>3 DEF TypeOK
    <3>2. limit.size \in Nat
      BY <3>1, SizesAreNumbers, SizesAssumption
    <3>3. limit.mtu \in Nat
      <4>1. \A m \in Mtus \cup {0} : m \in Nat
        BY SizesAreNumbers
      <4> QED
        BY <3>1, <4>1
    <3> QED
      BY <2>1, <3>2, <3>3
  <2> QED
    BY <2>2, <2>3
<1>2. CASE Exchange
  <2>1. mtu' \in Nat /\ mtu' >= mtu /\ limit' = limit
    BY <1>2, SizesAreNumbers DEF Exchange
  <2> QED
    BY <1>1, <2>1 DEF LimitIsSound
<1>3. CASE AskLimit
  <2>1. PICK response \in BOOLEAN : limit' = WriteLimit(response)
    BY <1>3 DEF AskLimit
  <2>2. mtu' = mtu
    BY <1>3 DEF AskLimit
  <2>3. CASE ~response /\ OwnLimit(charSize)
    BY <1>1, <2>1, <2>2, <2>3 DEF WriteLimit, LimitIsSound, OwnLimit
  <2>4. CASE ~(~response /\ OwnLimit(charSize)) /\ MtuIsReported
    BY <1>1, <2>1, <2>2, <2>4 DEF WriteLimit, LimitIsSound, MtuIsReported
  <2>5. CASE ~(~response /\ OwnLimit(charSize)) /\ ~MtuIsReported
    BY <1>1, <2>1, <2>2, <2>5, SizesAssumption DEF WriteLimit, LimitIsSound
  <2> QED
    BY <2>3, <2>4, <2>5
<1>4. CASE Reconnect
  <2>1. limit' = [size |-> 0, mtu |-> 0, source |-> "none"] /\ mtu' = 23
    BY <1>4, SizesAreNumbers DEF Reconnect, NoLimit
  <2> QED
    BY <2>1 DEF LimitIsSound
<1>5. CASE UNCHANGED <<mtu, limit>>
  BY <1>5 DEF LimitIsSound
<1> QED
  BY <1>2, <1>3, <1>4, <1>5 DEF Next, vars, Discover, MtuReported, SizeReported,
                                CharacteristicOrRaise

\* gatt.py:154-168: a size write_limit() took from the backend is never more
\* than the link carries, then or later, whatever the backend knew of it.
THEOREM LimitHolds == Spec => []LimitIsSound
<1>1. Init => LimitInv
  <2> SUFFICES ASSUME Init PROVE LimitInv
      OBVIOUS
  <2>1. limit = [size |-> 0, mtu |-> 0, source |-> "none"] /\ mtu = 23
    BY SizesAreNumbers DEF Init, NoLimit
  <2>2. LimitIsSound
    BY <2>1 DEF LimitIsSound, ATT_OVERHEAD
  <2>3. FiguresLag
    BY <2>1 DEF Init, FiguresLag, ATT_OVERHEAD, DEFAULT_WRITE_SIZE
  <2> QED
    BY <2>2, <2>3, TypeInit DEF LimitInv
<1>2. LimitInv /\ [Next]_vars => LimitInv'
  BY TypeNext, FiguresLagNext, LimitNext DEF LimitInv
<1>3. LimitInv => LimitIsSound
  BY DEF LimitInv
<1> QED
  BY <1>1, <1>2, <1>3, PTL DEF Spec

-----------------------------------------------------------------------------
(* The radio of a link *)


USE RadiosAssumption, StartsAssumption
USE DEF Radios, Maybe, radios

\* What the trace has of a link is of the radio it took, in whichever way the
\* client names it.
LinkIsTaken ==
    /\ link.via.kind = "scanner" => link.via.radio = taken /\ taken \in Radios
    /\ link.via.kind = "id" => link.via.radio = taken /\ taken \in Proxies
    /\ link.via.kind = "none" => link.via = NoScanner

\* The facts stand, once returned.
FactsStand == pc = "reported" =>
    /\ facts.via \in Radios /\ ~facts.unconfirmed => facts.via = taken
    /\ facts.unconfirmed => link.via.kind # "scanner"

RadioInv == RadioTypeOK /\ LinkIsTaken /\ FactsStand

LEMMA RadioInitHolds == RadioInit => RadioInv
BY DEF RadioInit, RadioInv, RadioTypeOK, LinkIsTaken, FactsStand, NoLink, NoFacts, NoScanner, Via, Vias

\* The radios change: nothing of the attempt does.
LEMMA RadiosStep ==
    ASSUME RadioInv, NEW r \in Radios, Start(r) \/ Stop(r) \/ Hear(r) \/ Fade(r)
    PROVE  RadioInv'
<1>1. UNCHANGED <<route, taken, link, facts, pc>>
  BY DEF Start, Stop, Hear, Fade
<1>2. LinkIsTaken' /\ FactsStand'
  BY <1>1 DEF RadioInv, LinkIsTaken, FactsStand
<1>3. /\ up' \subseteq Radios /\ hearing' \subseteq up'
      /\ starts' \in [Radios -> 0 .. MaxStarts] /\ heard' \in Maybe
  <2>1. CASE Start(r)
    <3>1. starts[r] \in 0 .. MaxStarts /\ starts[r] + 1 \in 0 .. MaxStarts
      BY <2>1 DEF Start, RadioInv, RadioTypeOK
    <3> QED
      BY <2>1, <3>1 DEF Start, RadioInv, RadioTypeOK
  <2>2. CASE Stop(r)
    BY <2>2 DEF Stop, RadioInv, RadioTypeOK
  <2>3. CASE Hear(r)
    BY <2>3 DEF Hear, RadioInv, RadioTypeOK
  <2>4. CASE Fade(r)
    BY <2>4 DEF Fade, RadioInv, RadioTypeOK
  <2> QED
    BY <2>1, <2>2, <2>3, <2>4
<1> QED
  BY <1>1, <1>2, <1>3 DEF RadioInv, RadioTypeOK

LEMMA LookUpStep == RadioInv /\ LookUp => RadioInv'
<1> SUFFICES ASSUME RadioInv, LookUp PROVE RadioInv'
    OBVIOUS
<1>1. UNCHANGED <<up, hearing, heard, starts, taken, link, facts>> /\ pc' \in {"over", "connecting"}
      /\ route' \in Maybe
  BY DEF LookUp, RadioInv, RadioTypeOK
<1> QED
  BY <1>1 DEF RadioInv, RadioTypeOK, LinkIsTaken, FactsStand

LEMMA ConnectStep == RadioInv /\ Connect => RadioInv'
<1> SUFFICES ASSUME RadioInv, Connect PROVE RadioInv'
    OBVIOUS
<1>1. UNCHANGED <<up, hearing, heard, starts, route, facts>> /\ pc' = "over"
  BY DEF Connect
<1>2. CASE UNCHANGED <<taken, link>>
  BY <1>1, <1>2 DEF RadioInv, RadioTypeOK, LinkIsTaken, FactsStand
<1>3. ASSUME NEW r \in hearing, NEW via \in ConnectedVia(r),
             taken' = r, link' = [via |-> via, source |-> AdvertisingSource(route)]
      PROVE  RadioInv'
  <2>1. r \in Radios /\ starts[r] \in 0 .. MaxStarts
    BY DEF RadioInv, RadioTypeOK
  <2>2. /\ via \in Vias
        /\ via.kind = "scanner" => via.radio = r
        /\ via.kind = "id" => via.radio = r /\ r \in Proxies
        /\ via.kind = "none" => via = NoScanner
    BY <2>1 DEF ConnectedVia, Via, Vias, NoScanner
  <2>3. AdvertisingSource(route) \in Proxies \cup {"none"}
    BY DEF AdvertisingSource
  <2>4. link'.via = via /\ link' \in [via : Vias, source : Proxies \cup {"none"}]
    BY <1>3, <2>2, <2>3
  <2> QED
    BY <1>1, <1>3, <2>1, <2>2, <2>4 DEF RadioInv, RadioTypeOK, LinkIsTaken, FactsStand
<1> QED
  BY <1>2, <1>3 DEF Connect

\* A scanner that is looked up now is the radio's own.
LEMMA CurrentRadio ==
    ASSUME NEW r
    PROVE  /\ Current(r) # NoScanner => Current(r).radio = r /\ r \in up
           /\ Current(r) = NoScanner \/ Current(r) = Via(r, "scanner", starts[r])
BY DEF Current, Via, NoScanner

LEMMA ReportStep == RadioInv /\ Report => RadioInv'
<1> SUFFICES ASSUME RadioInv, Report PROVE RadioInv'
    OBVIOUS
<1> DEFINE took == ScannerFor(link.via)
           adv == Advertised
           con == Connected(took, adv)
<1>1. UNCHANGED <<up, hearing, heard, starts, route, taken, link>> /\ pc' = "reported"
  BY DEF Report
<1>2. link.via \in Vias /\ link.via.kind \in {"none", "scanner", "id", "path"}
      /\ link.via.radio \in Maybe
  BY DEF RadioInv, RadioTypeOK, Vias
<1>3. took # NoScanner => took.radio = taken /\ taken \in Radios
  <2>1. CASE link.via.kind = "id"
    BY <2>1, CurrentRadio DEF ScannerFor, RadioInv, LinkIsTaken, RadioTypeOK
  <2>2. CASE link.via.kind = "path"
    BY <2>2 DEF ScannerFor
  <2>3. CASE link.via.kind \in {"none", "scanner"}
    BY <2>3 DEF ScannerFor, RadioInv, LinkIsTaken, RadioTypeOK
  <2> QED
    BY <1>2, <2>1, <2>2, <2>3
<1>4. link.via.kind = "scanner" => took # NoScanner
  BY DEF ScannerFor, NoScanner, Via
<1>5. adv # NoScanner => adv.radio \in Radios
  <2>1. up \subseteq Radios
    BY DEF RadioInv, RadioTypeOK
  <2> QED
    BY <2>1, CurrentRadio DEF Advertised
<1>6. con = IF took # NoScanner THEN took ELSE adv
  BY DEF Connected
<1>7. facts' = [via |-> IF con # NoScanner THEN con.radio
                        ELSE IF link.via.kind = "path" THEN "path" ELSE link.via.radio,
                unconfirmed |-> con # NoScanner /\ took = NoScanner,
                advertised |-> IF adv # NoScanner /\ adv # con THEN adv.radio ELSE "none"]
  BY DEF Report, RadioFacts
<1> HIDE DEF took, adv, con
<1>8. facts' \in [via : Maybe \cup {"path"}, unconfirmed : BOOLEAN, advertised : Maybe]
  BY <1>2, <1>3, <1>5, <1>6, <1>7
<1>9. facts'.unconfirmed => link.via.kind # "scanner"
  BY <1>4, <1>7
<1>10. ASSUME facts'.via \in Radios, ~facts'.unconfirmed PROVE facts'.via = taken
  <2>1. CASE con # NoScanner
    BY <1>3, <1>6, <1>7, <1>10, <2>1
  <2>2. CASE con = NoScanner
    <3>1. link.via.kind # "path" /\ facts'.via = link.via.radio
      BY <1>7, <1>10, <2>2
    <3>2. link.via.kind # "none"
      BY <1>10, <3>1 DEF RadioInv, LinkIsTaken, NoScanner, Via
    <3> QED
      BY <1>2, <3>1, <3>2 DEF RadioInv, LinkIsTaken
  <2> QED
    BY <2>1, <2>2
<1> QED
  BY <1>1, <1>8, <1>9, <1>10 DEF RadioInv, RadioTypeOK, LinkIsTaken, FactsStand

LEMMA NextAttemptStep == RadioInv /\ NextAttempt => RadioInv'
BY DEF NextAttempt, RadioInv, RadioTypeOK, LinkIsTaken, FactsStand, NoLink, NoFacts, NoScanner, Via, Vias

LEMMA RadioInvHolds == RadioSpec => []RadioInv
<1>1. RadioInv /\ UNCHANGED radioVars => RadioInv'
  BY DEF radioVars, RadioInv, RadioTypeOK, LinkIsTaken, FactsStand
<1>2. RadioInv /\ [RadioNext]_radioVars => RadioInv'
  BY <1>1, RadiosStep, LookUpStep, ConnectStep, ReportStep, NextAttemptStep DEF RadioNext
<1> QED
  BY RadioInitHolds, <1>2, PTL DEF RadioSpec

\* hass.py, link.py: what is known of a link and its radios keeps its type.
THEOREM RadioTypeCorrect == RadioSpec => []RadioTypeOK
<1>1. RadioInv => RadioTypeOK
  BY DEF RadioInv
<1> QED
  BY <1>1, RadioInvHolds, PTL

\* hass.py:77-83, 124-127: a report that is certain of the radio names the one
\* the link took, and it is certain whenever it was told the scanner itself.
THEOREM ViaHolds == RadioSpec => []ViaIsHonest
<1>1. RadioInv => ViaIsHonest
  BY DEF RadioInv, FactsStand, ViaIsHonest
<1> QED
  BY <1>1, RadioInvHolds, PTL

=============================================================================
