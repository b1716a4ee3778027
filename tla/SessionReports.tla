--------------------------- MODULE SessionReports ---------------------------
(***************************************************************************)
(* SessionReports of report.py: the slots an integration publishes, and    *)
(* the rule classify() applies to sort a finished attempt into them.       *)
(*                                                                         *)
(* A report is what the rule reads of it, with the operation and attempt   *)
(* number it is told apart by.  Every actor of Attempts records here.      *)
(***************************************************************************)
EXTENDS Naturals

CONSTANTS Operations, MaxAttempts, NoReport

ASSUME AttemptsAssumption == MaxAttempts \in Nat \ {0}
ASSUME NoReportAssumption ==
    NoReport \notin [operation : Operations, attempt : 1 .. MaxAttempts,
                     skipped : BOOLEAN, error : BOOLEAN, retrying : BOOLEAN]

VARIABLES
    last,         \* the most recent report, whatever it was
    lastKind,     \* its kind
    lastFailure,  \* the latest final failure: survives the next success
    lastRetry,    \* the latest failure another attempt follows
    failures,     \* final failures recorded
    lastOf        \* by_operation_last: the latest report of each operation

reports == <<last, lastKind, lastFailure, lastRetry, failures, lastOf>>

Report == [operation : Operations, attempt : 1 .. MaxAttempts,
           skipped : BOOLEAN, error : BOOLEAN, retrying : BOOLEAN]
MaybeReport == Report \cup {NoReport}

ReportsTypeOK ==
    /\ last \in MaybeReport
    /\ lastKind \in {"none", "ok", "failure", "retried", "skipped"}
    /\ lastFailure \in MaybeReport
    /\ lastRetry \in MaybeReport
    /\ failures \in Nat
    /\ lastOf \in [Operations -> MaybeReport]

ReportsInit ==
    /\ last = NoReport
    /\ lastKind = "none"
    /\ lastFailure = NoReport
    /\ lastRetry = NoReport
    /\ failures = 0
    /\ lastOf = [o \in Operations |-> NoReport]

\* Mutant: every failed attempt counts, retried or not.
ClassifyRetriedAsFailure(r) == CASE r.skipped -> "skipped"
                                 [] ~r.skipped /\ ~r.error -> "ok"
                                 [] OTHER -> "failure"

\* The kind of a report, from the facts in it alone.
Classify(r) == CASE r.skipped -> "skipped"
                 [] ~r.skipped /\ ~r.error -> "ok"
                 [] ~r.skipped /\ r.error /\ r.retrying -> "retried"
                 [] OTHER -> "failure"

Record(r) ==
    LET kind == Classify(r) IN
    /\ lastKind' = kind
    /\ last' = r
    /\ lastOf' = [lastOf EXCEPT ![r.operation] = r]
    /\ IF kind = "failure"
         THEN lastFailure' = r /\ failures' = failures + 1
         ELSE UNCHANGED <<lastFailure, failures>>
    /\ IF kind = "retried" THEN lastRetry' = r ELSE UNCHANGED lastRetry

\* The device was removed, or the user reset its reports.
Clear ==
    /\ last' = NoReport
    /\ lastKind' = "none"
    /\ lastFailure' = NoReport
    /\ lastRetry' = NoReport
    /\ failures' = 0
    /\ lastOf' = [o \in Operations |-> NoReport]

=============================================================================
