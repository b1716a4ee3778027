------------------------------ MODULE Listeners ------------------------------
(***************************************************************************)
(* The listeners of SessionReports (report.py): record() calls each of a    *)
(* copy of the list.  A listener may raise, register or remove a listener,  *)
(* itself included, and record a report of its own, which notifies them all *)
(* again before the first notification goes on.                             *)
(***************************************************************************)
EXTENDS Naturals, Sequences, SequencesExt

CONSTANTS
    Callables,     \* listener functions; each is registered at most once
    MaxRecursion   \* bound: record() calls running inside one another

VARIABLES
    listeners,  \* _listeners
    notifying,  \* each running _notify, the innermost last: the listeners it
                \* still has to call, and whether it is inside one
    told        \* history: who has been called since the last record(), or
                \* was registered since

registry == <<listeners, notifying, told>>

ListenersTypeOK ==
    /\ listeners \in Seq(Callables) /\ IsInjective(listeners)
    /\ notifying \in Seq([todo : Seq(Callables), inside : BOOLEAN])
    /\ told \subseteq Callables

ListenersInit == listeners = <<>> /\ notifying = <<>> /\ told = {}

Quiet == notifying = <<>>
Innermost == Last(notifying)
SetInnermost(n) == notifying' = Append(Front(notifying), n)

\* Code that may use the reports runs: outside them, or in a listener.
OthersRun == IF Quiet THEN TRUE ELSE Innermost.inside

\* record(), its slots aside (see SessionReports).
Notify ==
    /\ OthersRun
    /\ Len(notifying) < MaxRecursion
    /\ notifying' = Append(notifying, [todo |-> listeners, inside |-> FALSE])
    /\ told' = {}
    /\ UNCHANGED listeners

CallNext ==
    /\ ~OthersRun
    /\ Innermost.todo # <<>>
    /\ SetInnermost([todo |-> Tail(Innermost.todo), inside |-> TRUE])
    /\ told' = told \cup {Head(Innermost.todo)}
    /\ UNCHANGED listeners

\* Mutant: a listener that raises ends the loop over the others.
RaisingEndsLoop ==
    /\ ~Quiet /\ Innermost.inside
    /\ \E todo \in {Innermost.todo, <<>>} : SetInnermost([todo |-> todo, inside |-> FALSE])
    /\ UNCHANGED <<listeners, told>>

\* The listener returned, or raised: only logged.
ListenerEnds ==
    /\ ~Quiet /\ Innermost.inside
    /\ SetInnermost([Innermost EXCEPT !.inside = FALSE])
    /\ UNCHANGED <<listeners, told>>

NotifyEnds ==
    /\ ~OthersRun
    /\ Innermost.todo = <<>>
    /\ notifying' = Front(notifying)
    /\ UNCHANGED <<listeners, told>>

AddListener(c) ==
    /\ OthersRun
    /\ c \notin ToSet(listeners)
    /\ listeners' = Append(listeners, c)
    /\ told' = told \cup {c}
    /\ UNCHANGED notifying

\* The remover add_listener() returned.
RemoveListener(c) ==
    /\ OthersRun
    /\ \E i \in DOMAIN listeners : listeners[i] = c /\ listeners' = RemoveAt(listeners, i)
    /\ told' = told \ {c}
    /\ UNCHANGED notifying

ListenersNext ==
    \/ CallNext \/ ListenerEnds \/ NotifyEnds
    \/ ~Quiet /\ Notify
    \/ \E c \in Callables : AddListener(c) \/ RemoveListener(c)

-----------------------------------------------------------------------------
\* report.py:459-480: "after every `record`".  Once all notifications are
\* over, every listener has been called since the last report was recorded,
\* whoever was removed, raised or recorded meanwhile.
EveryoneIsTold == Quiet => ToSet(listeners) \subseteq told

=============================================================================
