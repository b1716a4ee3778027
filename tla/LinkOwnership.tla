---------------------------- MODULE LinkOwnership ----------------------------
(***************************************************************************)
(* What ble_session() promises about BLE links, and nothing about how: a   *)
(* link is always somebody's to close.  An adapter or a Bluetooth proxy    *)
(* has few connection slots, and only a disconnect request releases one,   *)
(* so a handle that leaves its owner's hands without a close is a slot     *)
(* lost until the proxy gives up by itself.                                *)
(*                                                                         *)
(* A client handle is owned by the connector (establish_connection is      *)
(* still working on it), by the session (its `finally` will close it), by  *)
(* the caller (a keep=True session handed it over) or by a close in        *)
(* progress.  "nobody" owns a handle before it is built and after its      *)
(* close has ended, whatever came of that close.                           *)
(***************************************************************************)
CONSTANT Clients

VARIABLES
    owner,  \* owner[c]: who has to close client c
    live    \* clients whose link an adapter or a proxy holds

vars == <<owner, live>>

Owners == {"nobody", "connector", "session", "caller", "closing"}

TypeOK == /\ owner \in [Clients -> Owners]
          /\ live \subseteq Clients

Owned == {c \in Clients : owner[c] # "nobody"}

Init == /\ owner = [c \in Clients |-> "nobody"]
        /\ live = {}

Move(c, from, to) == /\ owner[c] \in from
                     /\ owner' = [owner EXCEPT ![c] = to]

\* A connection is begun only when no other link is owned.
Connect(c) == /\ Owned = {}
              /\ c \notin live
              /\ Move(c, {"nobody"}, "connector")
              /\ UNCHANGED live

LinkUp(c) == /\ owner[c] = "connector"
             /\ live' = live \cup {c}
             /\ UNCHANGED owner

\* A connector that gives up leaves no link behind.
Abandon(c) == /\ Move(c, {"connector"}, "nobody")
              /\ live' = live \ {c}

HandOver(c) == /\ \E to \in {"session", "caller"} : Move(c, {"connector", "session"}, to)
               /\ UNCHANGED live

\* The caller runs another session on the link it kept.
Reuse(c) == /\ Move(c, {"caller"}, "session")
            /\ UNCHANGED live

\* A handle already given up may be closed again, while nothing else is owned.
StartClose(c) == /\ \/ Move(c, {"session", "caller"}, "closing")
                    \/ Owned = {} /\ Move(c, {"nobody"}, "closing")
                 /\ UNCHANGED live

\* A close may fail; either way nobody will close this handle by itself again.
EndClose(c) == /\ Move(c, {"closing"}, "nobody")
               /\ live' \in {live, live \ {c}}

\* A link may go away under any owner.
Lose(c) == /\ live' = live \ {c}
           /\ UNCHANGED owner

Next == \E c \in Clients :
            \/ Connect(c) \/ LinkUp(c) \/ Abandon(c) \/ HandOver(c)
            \/ Reuse(c) \/ StartClose(c) \/ EndClose(c) \/ Lose(c)

Spec == Init /\ [][Next]_vars

\* At most one link is in anybody's hands: a session never opens a second
\* link while the one it was given still waits to be closed.
OneOwned == \A c, d \in Owned : c = d

=============================================================================
