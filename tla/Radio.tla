-------------------------------- MODULE Radio --------------------------------
(***************************************************************************)
(* hass.py and link.py: which radio a session went through.  A route is     *)
(* looked up (ble_device_or_raise), the link taken over that radio or       *)
(* another, what the client says of it kept on the trace (probe_link), and  *)
(* turned into names when the report is built (radio_facts): later, when    *)
(* radios may have gone, come back as new objects, or lost the device.      *)
(*                                                                         *)
(* Home Assistant's Bluetooth manager, the scanners and the clients' ways   *)
(* of naming a scanner are external.                                        *)
(***************************************************************************)
EXTENDS Naturals

CONSTANTS
    Proxies, Adapters,  \* the radios, by source id, which is their name too
    MaxStarts           \* bound: how often a radio registers a scanner

ASSUME RadiosAssumption ==
    Proxies \cap Adapters = {} /\ {"none", "path"} \cap (Proxies \cup Adapters) = {}
ASSUME StartsAssumption == MaxStarts \in Nat \ {0}

VARIABLES
    up,       \* radios with a registered scanner
    starts,   \* scanner objects each radio has registered; the last is current
    hearing,  \* radios that see the device, connectable
    heard,    \* the radio of the device's last service info
    route,    \* the radio the looked-up handle names
    taken,    \* the radio the link took
    link,     \* trace.link
    facts,    \* what radio_facts() returned for the report
    pc        \* where the attempt is

radios == <<up, starts, hearing, heard>>
radioVars == <<radios, route, taken, link, facts, pc>>

Radios == Proxies \cup Adapters
Maybe == Radios \cup {"none"}

\* LinkInfo.via: a scanner object (its radio's start-th), a source id, a D-Bus
\* path, or None.
Via(r, kind, start) == [radio |-> r, kind |-> kind, start |-> start]
NoScanner == Via("none", "none", 0)
Vias == [radio : Maybe, kind : {"none", "scanner", "id", "path"}, start : 0 .. MaxStarts]
NoLink == [via |-> NoScanner, source |-> "none"]
NoFacts == [via |-> "none", unconfirmed |-> FALSE, advertised |-> "none"]

RadioTypeOK ==
    /\ up \subseteq Radios /\ hearing \subseteq up
    /\ starts \in [Radios -> 0 .. MaxStarts]
    /\ heard \in Maybe /\ route \in Maybe /\ taken \in Maybe
    /\ link \in [via : Vias, source : Proxies \cup {"none"}]
    /\ facts \in [via : Maybe \cup {"path"}, unconfirmed : BOOLEAN, advertised : Maybe]
    /\ pc \in {"looking", "connecting", "over", "reported"}

-----------------------------------------------------------------------------
(* The radios *)

Start(r) ==
    /\ r \notin up
    /\ starts[r] < MaxStarts
    /\ up' = up \cup {r}
    /\ starts' = [starts EXCEPT ![r] = @ + 1]
    /\ UNCHANGED <<hearing, heard, route, taken, link, facts, pc>>

Stop(r) ==
    /\ r \in up
    /\ up' = up \ {r}
    /\ hearing' = hearing \ {r}
    /\ UNCHANGED <<starts, heard, route, taken, link, facts, pc>>

Hear(r) ==
    /\ r \in up
    /\ hearing' = hearing \cup {r}
    /\ heard' = r
    /\ UNCHANGED <<up, starts, route, taken, link, facts, pc>>

\* The device is out of a radio's range; its last service info expires with
\* the last radio.
Fade(r) ==
    /\ r \in hearing
    /\ hearing' = hearing \ {r}
    /\ heard' \in {heard} \cup (IF hearing' = {} THEN {"none"} ELSE hearing')
    /\ UNCHANGED <<up, starts, route, taken, link, facts, pc>>

-----------------------------------------------------------------------------
(* One attempt *)

\* ble_device_or_raise(): Unreachable when no radio sees the device.
LookUp ==
    /\ pc = "looking"
    /\ IF hearing = {}
         THEN pc' = "over" /\ UNCHANGED route
         ELSE pc' = "connecting" /\ route' \in hearing
    /\ UNCHANGED <<radios, taken, link, facts>>

\* connected_via(): habluetooth's scanner object if there is one, else what the
\* backend of the client calls its radio.
ConnectedVia(r) ==
    {Via(r, "scanner", starts[r]), NoScanner,
     Via(r, IF r \in Proxies THEN "id" ELSE "path", 0)}

\* Mutant: a local adapter's details are taken for a source, too.
AnySource(handle) == handle

\* advertising_source(): only a proxy's route says where it came from.
AdvertisingSource(handle) == IF handle \in Proxies THEN handle ELSE "none"

\* The link comes up over any radio that sees the device, and probe_link() is
\* told of it; or it never comes up.
Connect ==
    /\ pc = "connecting"
    /\ pc' = "over"
    /\ \/ \E r \in hearing :
              /\ taken' = r
              /\ \E via \in ConnectedVia(r) :
                     link' = [via |-> via, source |-> AdvertisingSource(route)]
       \/ UNCHANGED <<taken, link>>
    /\ UNCHANGED <<radios, route, facts>>

\* async_scanner_by_source()
Current(r) == IF r \in up THEN Via(r, "scanner", starts[r]) ELSE NoScanner

\* scanner_for(): objects as they are, source ids by what is registered now.
ScannerFor(via) ==
    CASE via.kind = "id" -> Current(via.radio)
      [] via.kind = "path" -> NoScanner
      [] OTHER -> via

\* Mutant: the advertising radio is preferred to the one the link took.
AdvertisedFirst(took, advertised) == IF advertised # NoScanner THEN advertised ELSE took

\* took or advertised
Connected(took, advertised) == IF took # NoScanner THEN took ELSE advertised

\* The scanner of the route, or else of the last service info.
Advertised ==
    IF link.source # "none" /\ Current(link.source) # NoScanner THEN Current(link.source)
    ELSE IF heard # "none" THEN Current(heard) ELSE NoScanner

RadioFacts ==
    LET took == ScannerFor(link.via)
        connected == Connected(took, Advertised)
    IN  [via |-> IF connected # NoScanner THEN connected.radio
                 ELSE IF link.via.kind = "path" THEN "path" ELSE link.via.radio,
         unconfirmed |-> connected # NoScanner /\ took = NoScanner,
         advertised |-> IF Advertised # NoScanner /\ Advertised # connected
                          THEN Advertised.radio ELSE "none"]

\* The attempt is over, and its report built.
Report ==
    /\ pc = "over"
    /\ facts' = RadioFacts
    /\ pc' = "reported"
    /\ UNCHANGED <<radios, route, taken, link>>

NextAttempt ==
    /\ pc = "reported"
    /\ pc' = "looking"
    /\ route' = "none" /\ taken' = "none"
    /\ link' = NoLink /\ facts' = NoFacts
    /\ UNCHANGED radios

RadioInit ==
    /\ up = {} /\ hearing = {} /\ heard = "none"
    /\ starts = [r \in Radios |-> 0]
    /\ route = "none" /\ taken = "none"
    /\ link = NoLink /\ facts = NoFacts
    /\ pc = "looking"

RadioNext ==
    \/ \E r \in Radios : Start(r) \/ Stop(r) \/ Hear(r) \/ Fade(r)
    \/ LookUp \/ Connect \/ Report \/ NextAttempt

RadioSpec == RadioInit /\ [][RadioNext]_radioVars

-----------------------------------------------------------------------------
(* Properties *)

\* hass.py:77-83, 124-127: whatever became of the radios since, a report names
\* the radio the link took, or says that it is not certain of it; and it
\* is certain whenever the client's record of the link can still be resolved.
ViaIsHonest ==
    pc = "reported" =>
        /\ facts.via \in Radios /\ ~facts.unconfirmed => facts.via = taken
        /\ facts.unconfirmed => link.via.kind # "scanner"

\* hass.py:88-90: advertised_via is there "only when it is not the radio the
\* link took".
AdvertisedIsAnother == facts.advertised # "none" => facts.advertised # facts.via

=============================================================================
