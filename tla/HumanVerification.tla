-------------------------- MODULE HumanVerification --------------------------
(***************************************************************************)
(* What the dashboard derives from a report and records about it             *)
(* (dashboard/comparison.js, human-verification.js, verification-progress.js *)
(* and review-focus.js): findings, the plan of a session, user checks,       *)
(* runtime defects, the summary, and the evidence that is exported and       *)
(* validated when it is imported again.                                      *)
(*                                                                           *)
(* Texts are instructions of checks; the free text of notes, defects and     *)
(* metadata is left out, with the order of the plan and the wording.         *)
(***************************************************************************)
EXTENDS Integers, Sequences, SequencesExt

CONSTANTS
    Content,  \* the report of every digest
    None

Status == {"untested", "pass", "fail", "na"}

-----------------------------------------------------------------------------
(* Findings: comparison.js *)

\* findingPaths: the files a rule matched, else those that list it, else the whole repository.
FindingPaths(rule, report) ==
    LET listed == {file.path : file \in {f \in report.files : rule.id \in f.rules}}
    IN IF rule.matched # {} THEN rule.matched ELSE IF listed # {} THEN listed ELSE {None}

Identities(rule, report) == {<<rule.source, rule.id, path>> : path \in FindingPaths(rule, report)}

\* Mutant: a finding for every rule, of one identity or not.
Findings_All(report) ==
    UNION {{[identity |-> i, check |-> rule.check] : i \in Identities(rule, report)} :
           rule \in ToSet(report.rules)}

\* extractDashboardFindings: of the rules with one identity the first counts.
Findings(report) ==
    LET Of(n) == Identities(report.rules[n], report)
        First(n) == Of(n) \ UNION {Of(m) : m \in 1..(n - 1)}
    IN UNION {{[identity |-> i, check |-> report.rules[n].check] : i \in First(n)} :
              n \in DOMAIN report.rules}

FindingsOf == [digest \in DOMAIN Content |-> Findings(Content[digest])]

\* compareDashboardReports
NewFindings(previous, current) ==
    {f.identity : f \in FindingsOf[current]} \ {f.identity : f \in FindingsOf[previous]}

-----------------------------------------------------------------------------
(* Sessions: human-verification.js *)

Item(id, finding, instruction, state) ==
    [id |-> id, finding |-> finding, instruction |-> instruction, state |-> state,
     status |-> "untested"]

\* buildVerificationPlan: an item for every finding, and for every suggested check
\* that does not belong to one.
Plan(digest, new) ==
    LET findings == FindingsOf[digest]
        suggested == Content[digest].suggested
        associated == {f.check : f \in findings} \ {None}
    IN {Item(<<"finding", f.identity>>, f.identity,
             IF f.check = None THEN "exercise" ELSE f.check,
             IF f.identity \in new THEN "new" ELSE "current") : f \in findings}
       \cup {Item(<<"suggested", n>>, None, suggested[n], "current") :
             n \in {m \in DOMAIN suggested : suggested[m] \notin associated}}

\* reportIdentity, normalizePrNumber: the number of the pull request, if it is one.
PullRequest(digest) == IF Content[digest].number = "positive" THEN "positive" ELSE None

NewSession(digest, new) ==
    [items |-> Plan(digest, new), defects |-> {}, number |-> PullRequest(digest)]

\* createUserCheck, with an id of its own.
UserCheck(n) == Item(<<"user", n>>, None, "described", "current")

\* createRuntimeDefect
Defect(n, item, finding) == [id |-> n, item |-> item, finding |-> finding]

WithStatus(session, status) == {item \in session.items : item.status = status}

\* verificationSummary: "Verification complete - no failures recorded."
Complete(session) == WithStatus(session, "untested") = {} /\ WithStatus(session, "fail") = {}

\* buildReviewFocus: "Verification recorded for all findings".
Recorded(digest, session) ==
    \A f \in FindingsOf[digest] :
        \E item \in session.items : item.finding = f.identity /\ item.status # "untested"

-----------------------------------------------------------------------------
(* Evidence: verification-progress.js *)

\* createVerificationProgress: schema v2.
Progress(digest, session) ==
    [schema |-> 2, binding |-> digest, identity |-> PullRequest(digest), session |-> session]

\* What validateLegacy lets through: schema v1, the findings that are "completed".
LegacyProgress(digest, done) == [schema |-> 1, binding |-> digest, done |-> done]

HasUniqueIds(records) == \A x, y \in records : x.id = y.id => x = y

\* validateItem: no text is taken to exceed its limit.
ValidItem(item) == item.status \in Status /\ item.state \in {"new", "current"}

\* validateMetadata
ValidNumber(number) == number \in {None, "positive"}

\* validateVerificationProgress
Accepts(progress) ==
    progress.schema = 2 =>
        /\ ValidNumber(progress.identity) /\ ValidNumber(progress.session.number)
        /\ HasUniqueIds(progress.session.items) /\ HasUniqueIds(progress.session.defects)
        /\ \A item \in progress.session.items : ValidItem(item)

\* progressByFinding of schema v1 over a new session: "completed" becomes "pass".
Migrated(progress) ==
    LET session == NewSession(progress.binding, {})
        Migrate(item) == IF item.finding # None /\ item.finding \in progress.done
                         THEN [item EXCEPT !.status = "pass"] ELSE item
    IN [session EXCEPT !.items = {Migrate(item) : item \in @}]

\* applyVerificationProgress, once the report of the evidence is found.
Restored(progress) == IF progress.schema = 2 THEN progress.session ELSE Migrated(progress)
=============================================================================
