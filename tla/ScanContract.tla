---------------------------- MODULE ScanContract ----------------------------
(***************************************************************************)
(* What a workflow may count on of one run of the scanner: it leaves at most*)
(* one report, once; it ends with 0 or 1; an end with 0 left the report.    *)
(* An end with 1 says nothing of the report: the threshold may have been    *)
(* met after it was written, and a failure may come before or after.        *)
(* Review implements it, and ReviewAttempts is built on its outcomes.       *)
(***************************************************************************)
CONSTANTS Reports, NoReport, Running

VARIABLES exit, written

\* What a run may end with: its exit and whether it left the report.
Outcomes == {[exit |-> 0, wrote |-> TRUE], [exit |-> 1, wrote |-> TRUE],
             [exit |-> 1, wrote |-> FALSE]}

Init == exit = Running /\ written = NoReport

Write ==
    /\ exit = Running /\ written = NoReport
    /\ written' \in Reports
    /\ UNCHANGED exit

Finish ==
    /\ exit = Running
    /\ exit' \in {o.exit : o \in {p \in Outcomes : p.wrote = (written # NoReport)}}
    /\ UNCHANGED written

Spec == Init /\ [][Write \/ Finish]_<<exit, written>>
=============================================================================
