-------------------------------- MODULE Report --------------------------------
(***************************************************************************)
(* From an attempt to the report an integration files of it: build_report() *)
(* of report.py with cause_key() of causes.py, and fallback_report() for    *)
(* when building one failed.  The attempt's trace is SessionTrace's, driven *)
(* through every nesting of failures; when nothing is open any more the     *)
(* attempt is reported, the report recorded (see Listeners), and the next   *)
(* attempt begins.                                                          *)
(*                                                                         *)
(* A report is a dict: a function on the keys it has.  Sentences are told   *)
(* apart only by who wrote them: "own" is the integration's, any other is   *)
(* this library's, by its key.  Error texts are the markers causes.py looks *)
(* for in them.                                                             *)
(***************************************************************************)
EXTENDS SessionTrace, Listeners

CONSTANT NoteNames  \* keys the integration gives to trace.note()

Keys == {"success", "skipped", "error", "failed_stage", "failed_detail", "likely_cause",
         "likely_cause_key", "timed_out", "retrying"}

\* A note goes over the report's own key of its name, which nothing prevents.
ASSUME NotesAssumption == NoteNames \cap Keys = {}

VARIABLES
    attempt,  \* the attempt that was reported, and the integration's part in it
    filed     \* the report of it; the empty dict while the attempt runs

vars == <<trace, attempt, filed, registry>>

\* What the text may say, of what the tables look for; "unprintable": str(exc)
\* raises.
Texts == {"other", "slot", "settle", "link dropped", "no response", "unprintable"}

\* What `cause` does: not given, says nothing, has a sentence, raises an
\* exception, raises a Warning.
Causes == {"absent", "silent", "own", "raises", "warns"}

NoError == [class |-> "none", stage |-> "none", detail |-> "none", text |-> "other"]

\* Errors of every class, with the stage, the detail and the texts it may
\* have; the attempt bound's carries what the trace says.
Raised ==
    LET Of(classes, stage, details, texts) ==
            [class : classes, stage : {stage}, detail : details, text : texts]
    IN  Of({"BleakError", "DeviceError"}, "none", {"none"}, Texts)
        \cup Of({"NotificationTimeout"}, "none", {"step"}, {"other", "no response"})
        \cup Of({"WriteTimeout"}, "none", {"step"}, {"other"})
        \cup Of({"Unreachable"}, "unreachable", {"none"}, {"other"})
        \cup Of({"ConnectFailed"}, "connect", {"none", "settle"}, Texts \ {"unprintable"})
        \cup Of({"SessionDropped", "GattMismatch"}, "session", {"none"}, {"other", "link dropped"})
        \cup Of({"AttemptTimedOut"}, FailedPrimary, {FailedDetail}, {"other"})

-----------------------------------------------------------------------------
(* causes.py *)

Unanswered(exc) == exc.class \in {"NotificationTimeout", "WriteTimeout"} \/ exc.text = "no response"
Lost(exc) == exc.class = "SessionDropped" \/ exc.text = "link dropped"

\* cause_key(): the first rule that applies gives the key.
Rules(stage, exc) ==
    <<<<exc.class = "AttemptTimedOut" /\ stage = "disconnect", "disconnect.timed_out">>,
      <<exc.class = "AttemptTimedOut", "attempt_timed_out">>,
      <<exc.class = "GattMismatch", "session.gatt_mismatch">>,
      <<exc.class = "WriteTimeout", "write_timeout">>,
      <<stage = "unreachable", "unreachable">>,
      <<stage = "connect" /\ exc.text = "slot", "connect.no_slot">>,
      <<stage = "connect" /\ "settle" \in {exc.detail, exc.text}, "connect.settle">>,
      <<stage = "connect", "connect.failed">>,
      <<Lost(exc) /\ stage # "disconnect", "link_lost">>,
      <<stage = "session", "session.refused">>,
      <<stage = "auth" /\ Unanswered(exc), "auth.no_answer">>,
      <<stage = "transfer" /\ Unanswered(exc), "transfer.no_answer">>,
      <<stage = "finish" /\ Unanswered(exc), "finish.no_answer">>,
      <<stage = "disconnect", "disconnect.close_failed">>,
      <<TRUE, "none">>>>

CauseKey(stage, exc) ==
    LET rules == Rules(stage, exc)
        first == CHOOSE i \in DOMAIN rules : rules[i][1] /\ \A k \in 1 .. i - 1 : ~rules[k][1]
    IN  rules[first][2]

-----------------------------------------------------------------------------
(* report.py *)

\* A key that is there or not, and {**later, **earlier}.
Entry(key, value) == [k \in IF value = "none" THEN {} ELSE {key} |-> value]
Flag(key, set) == [k \in IF set THEN {key} ELSE {} |-> TRUE]
later ++ earlier == [k \in DOMAIN later \cup DOMAIN earlier |->
                       IF k \in DOMAIN later THEN later[k] ELSE earlier[k]]

\* Mutant: the report's key is not the one classify() and its readers look for.
OutcomeMisspelt(a) ==
    [success |-> a.error = NoError /\ ~a.skipped]
        ++ Flag("skipped", a.skipped) ++ Flag("retried", a.retrying)

\* What both reports say, in the same words.
Outcome(a) ==
    [success |-> a.error = NoError /\ ~a.skipped]
        ++ Flag("skipped", a.skipped) ++ Flag("retrying", a.retrying)

Where(a) ==
    IF a.error = NoError THEN <<>>
    ELSE [error |-> TRUE] ++ Entry("failed_stage", FailedIn(a.error))
             ++ Entry("failed_detail", FailedAt(a.error))

\* Mutant: the integration's sentence comes first, also for the bound's error.
OwnFirst(a) == a.cause = "own"

\* The integration's sentence is asked for, and is one.
Owns(a) == a.error.class # "AttemptTimedOut" /\ a.cause = "own"

Likely(a) ==
    LET key == CauseKey(FailedIn(a.error), a.error)
    IN  IF a.error = NoError THEN <<>>
        ELSE (IF Owns(a) THEN [likely_cause |-> "own"]
              ELSE Entry("likely_cause", key) ++ Entry("likely_cause_key", key))
             ++ Flag("timed_out", a.error.class = "AttemptTimedOut")

\* The trace's facts go over everything before them.
BuildReport(a) == [n \in a.notes |-> TRUE] ++ Outcome(a) ++ Where(a) ++ Likely(a)

\* Mutant: the fallback is that of before there were retries.
FallbackForgetsRetry(a) == [k \in DOMAIN (Outcome(a) ++ Where(a)) \ {"retrying"} |->
                                (Outcome(a) ++ Where(a))[k]]

FallbackReport(a) == Outcome(a) ++ Where(a)

\* build_report() raises: an error without a text, or the Warning of a
\* callback that was asked.
BuildFails(a) ==
    \/ a.error.text = "unprintable"
    \/ a.error # NoError /\ a.error.class # "AttemptTimedOut" /\ a.cause = "warns"

\* classify(), from the facts in the report alone.
KindOf(r) == CASE "skipped" \in DOMAIN r -> "skipped"
               [] DOMAIN r \cap {"skipped", "error"} = {} -> "ok"
               [] {"error", "retrying"} \subseteq DOMAIN r /\ "skipped" \notin DOMAIN r -> "retried"
               [] OTHER -> "failure"

-----------------------------------------------------------------------------
Running == filed = <<>>

Nothing == [error |-> NoError, skipped |-> FALSE, retrying |-> FALSE,
            cause |-> "absent", notes |-> {}]

\* on_attempt(): the attempt is over, and the integration files its report.
File(a) ==
    /\ Running /\ Quiet /\ frames = <<>>
    /\ attempt' = a
    /\ filed' = IF BuildFails(a) THEN FallbackReport(a) ELSE BuildReport(a)
    /\ UNCHANGED <<trace, registry>>

\* A guard declined the attempt before it began.
FileSkipped == /\ flight = "none" /\ failedStage = "none"
               /\ File([Nothing EXCEPT !.skipped = TRUE])

FileResult == \E notes \in SUBSET NoteNames :
                  flight = "none" /\ File([Nothing EXCEPT !.notes = notes])

\* Whether the attempt is retried is the integration's to decide, of a timed-out
\* one too.
FileFailure ==
    /\ flight # "none"
    /\ \E e \in Raised, retry \in BOOLEAN, c \in Causes, notes \in SUBSET NoteNames :
           File([error |-> e, skipped |-> FALSE, retrying |-> retry, cause |-> c,
                 notes |-> notes])

\* SessionReports.record(filed): the listeners are told, and the next attempt
\* begins when they have been.
RecordFiled ==
    /\ ~Running
    /\ Notify
    /\ frames' = <<>> /\ flight' = "none" /\ failedStage' = "none"
    /\ attempt' = Nothing
    /\ filed' = <<>>

Init == TraceInit /\ ListenersInit /\ attempt = Nothing /\ filed = <<>>

Next ==
    \/ Running /\ Quiet /\ TraceNext /\ UNCHANGED <<attempt, filed, registry>>
    \/ FileSkipped \/ FileResult \/ FileFailure \/ RecordFiled
    \/ frames = <<>> /\ flight = "none" /\ Running /\ ListenersNext /\ UNCHANGED <<trace, attempt, filed>>

Spec == Init /\ [][Next]_vars

-----------------------------------------------------------------------------
(* Properties *)

TypeOK ==
    /\ TraceTypeOK /\ ListenersTypeOK
    /\ attempt.cause \in Causes /\ attempt.notes \subseteq NoteNames
    /\ DOMAIN filed \subseteq Keys \cup NoteNames

\* report.py:316-319: the kind a report is filed under, which classify() reads
\* from the report alone, is the kind of the attempt it was made of, whichever
\* of the two functions made it.
KindIsTheAttempts ==
    ~Running =>
        KindOf(filed) = CASE attempt.skipped -> "skipped"
                          [] ~attempt.skipped /\ attempt.error = NoError -> "ok"
                          [] attempt.error # NoError /\ attempt.retrying -> "retried"
                          [] OTHER -> "failure"

\* report.py:249-273, causes.py:68-104: the sentence of a report is true of
\* the attempt.  The attempt bound, and only it, is told as the library's own
\* cut, and the integration's sentence never stands in for it; a sentence of
\* the close, which says that the work was done, is given only if no failure
\* but that of a stage that counts as the close was left unforgiven, and to a
\* bound that cut such a close;
\* the integration's sentence has no key.  That the bound's error is never told
\* in the integration's words is what the code and its comment say; other
\* docs promise the opposite (see OwnComesFirst).
CauseIsTrue ==
    LET key == IF "likely_cause_key" \in DOMAIN filed THEN filed["likely_cause_key"] ELSE "none"
        cut == attempt.error.class = "AttemptTimedOut"
        closing == PrimaryOf(flight) = "disconnect"
    IN  /\ cut /\ ~Running <=> key \in {"attempt_timed_out", "disconnect.timed_out"}
        /\ key \in {"disconnect.timed_out", "disconnect.close_failed"} => closing
        /\ cut /\ closing => key = "disconnect.timed_out"
        /\ key # "none" => filed["likely_cause"] = key
        /\ key # "none" /\ attempt.cause = "own" => cut

\* causes.py:5-8: the integration's sentences come first, and the library's "fill
\* in when it has nothing to say".
OwnComesFirst ==
    attempt.cause = "own" /\ "likely_cause" \in DOMAIN filed => filed["likely_cause"] = "own"

=============================================================================
