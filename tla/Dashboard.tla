------------------------------ MODULE Dashboard ------------------------------
(***************************************************************************)
(* The dashboard (dashboard/app.js): a person selects files, again and again *)
(* and without waiting; each selection is read, validated by a worker of its *)
(* own beside a timer, bound to SHA-256 digests and committed.  In between   *)
(* the person records the human verification of the report on the screen,    *)
(* exports it and imports it again.                                          *)
(***************************************************************************)
EXTENDS HumanVerification

CONSTANTS
    Import,     \* selections, later ones with larger numbers
    Report,     \* digests of reports
    Selection,  \* the sequences of at most two reports a person selects
    Legacy,     \* evidence an older dashboard exported
    Judgement,  \* the statuses a person chooses among
    MaxEdits    \* how often the person edits a session

ASSUME ConstantsAssumption ==
    /\ Import \subseteq Nat
    /\ DOMAIN Content = Report
    /\ \A r \in Report : DOMAIN Content[r].rules \subseteq Nat \ {0}
    /\ Selection \subseteq SeqOf(Report, 2)
    /\ \A e \in Legacy : e.schema = 1 /\ e.binding \in Report
    /\ Judgement \subseteq Status /\ MaxEdits \in Nat

VARIABLES
    imports,    \* the local state of every selection
    committed,  \* the reports of the selection in force
    earlier,    \* earlierReportIndex, from 1
    sessions,   \* verificationByBinding: a session for every report, or None
    draft,      \* defectDraft
    exported,   \* the evidence that was downloaded last, or None
    edits,      \* how often a session was edited; also the source of fresh ids
    given       \* history: <<report, id, status>> as a person recorded it

vars == <<imports, committed, earlier, sessions, draft, exported, edits, given>>

view == <<committed, earlier, sessions, draft>>
person == <<exported, edits, given>>

Goes(i, pc) == imports' = [imports EXCEPT ![i].pc = pc]

\* A selection that is over, loaded or not, is forgotten.
Ends(i, pc) == imports' = [imports EXCEPT ![i] = [pc |-> pc, batch |-> None]]

-----------------------------------------------------------------------------
(* importFiles *)

Selects(i) ==
    /\ imports[i].pc = "idle"
    /\ \A j \in Import : j < i => imports[j].pc # "idle"
    /\ Goes(i, "reading")
    /\ UNCHANGED <<view, person>>

\* The bytes of the files are there, the worker is started and its timer set: reports,
\* and at most one evidence, of an older dashboard or what was exported.  Or they are not.
Reads(i) ==
    /\ imports[i].pc = "reading"
    /\ \/ \E reports \in Selection, evidence \in Legacy \cup {None, exported} :
             imports' = [imports EXCEPT ![i] =
                 [pc |-> "validating", batch |-> [reports |-> reports, evidence |-> evidence]]]
       \/ Ends(i, "failed")
    /\ UNCHANGED <<view, person>>

\* Mutant: no timer.
Fires_Never(i) ==
    /\ imports[i].pc = "validating" /\ imports[i].batch = None
    /\ imports' = [imports EXCEPT ![i].pc = "failed"]
    /\ UNCHANGED <<view, person>>

\* Ten seconds without an answer: the worker is terminated.
Fires(i) ==
    /\ imports[i].pc = "validating"
    /\ Ends(i, "failed")
    /\ UNCHANGED <<view, person>>

\* The worker answers: worker.onmessage.  Evidence that is not valid refuses the
\* whole selection, and so does any other malformed or oversized file.
Hears(i) ==
    /\ imports[i].pc = "validating"
    /\ LET evidence == imports[i].batch.evidence
       IN \/ (evidence # None => Accepts(evidence)) /\ Goes(i, "binding")
          \/ Ends(i, "failed")
    /\ UNCHANGED <<view, person>>

\* Mutant: evidence goes to the first report.
Applied_First(batch) ==
    [r \in Report |->
        IF batch.evidence # None /\ batch.reports # <<>> /\ batch.reports[1] = r
        THEN Restored(batch.evidence) ELSE None]

\* applyVerificationProgress: only the evidence of an imported report survives.
Applied(batch) ==
    [r \in Report |->
        IF batch.evidence # None /\ batch.evidence.binding = r /\ r \in ToSet(batch.reports)
        THEN Restored(batch.evidence) ELSE None]

\* `render` throws at a report the validation accepts and it cannot draw.
Drawable(reports) == \A r \in ToSet(reports) : ~Content[r].hollow

\* The digests are there: all is committed and drawn in one step.
Commits(i) ==
    /\ imports[i].pc = "binding"
    /\ LET batch == imports[i].batch
       IN /\ committed' = batch.reports
          /\ sessions' = Applied(batch)
          /\ Ends(i, IF Drawable(batch.reports) THEN "loaded" ELSE "failed")
    /\ draft' = None /\ earlier' = 1
    /\ UNCHANGED person

\* crypto.subtle is missing or fails.
BindingFails(i) ==
    /\ imports[i].pc = "binding"
    /\ Ends(i, "failed")
    /\ UNCHANGED <<view, person>>

-----------------------------------------------------------------------------
(* The person *)

\* comparisonPair: the report under verification is the one that is not earlier.
Current == committed[IF Len(committed) = 2 THEN 3 - earlier ELSE 1]

New == IF Len(committed) = 2 THEN NewFindings(committed[earlier], Current) ELSE {}

\* The verification of the current report is drawn last.
Verifies == committed # <<>> /\ Drawable(committed)

InSession == Verifies /\ sessions[Current] # None

StartsVerification ==
    /\ Verifies /\ sessions[Current] = None
    /\ sessions' = [sessions EXCEPT ![Current] = NewSession(Current, New)]
    /\ draft' = None
    /\ UNCHANGED <<imports, committed, earlier, person>>

Shown == sessions[Current]

\* The session on the screen is edited; the number of the edit makes a fresh id.
Becomes(session) ==
    /\ edits < MaxEdits
    /\ edits' = edits + 1
    /\ sessions' = [sessions EXCEPT ![Current] = session]
    /\ UNCHANGED <<imports, committed, earlier, exported>>

Judges ==
    /\ InSession
    /\ \E item \in Shown.items, status \in Judgement :
          /\ Becomes([Shown EXCEPT !.items = (@ \ {item}) \cup {[item EXCEPT !.status = status]}])
          /\ given' = given \cup {<<Current, item.id, status>>}
    /\ UNCHANGED draft

AddsCheck ==
    /\ InSession
    /\ Becomes([Shown EXCEPT !.items = @ \cup {UserCheck(edits + 1)}])
    /\ UNCHANGED <<draft, given>>

RemovesCheck ==
    /\ InSession
    /\ \E item \in {x \in Shown.items : x.id[1] = "user"} :
          Becomes([Shown EXCEPT !.items = @ \ {item}])
    /\ UNCHANGED <<draft, given>>

\* The number field takes fractions and negative numbers.
Describes ==
    /\ InSession
    /\ Becomes([Shown EXCEPT !.number = "other"])
    /\ UNCHANGED <<draft, given>>

\* "Record runtime defect" of a failed check, or a standalone one.
DraftsDefect ==
    /\ InSession
    /\ \E about \in {[item |-> x.id, finding |-> x.finding] :
                        x \in WithStatus(Shown, "fail")}
                    \cup {[item |-> None, finding |-> None]} :
          draft' = [binding |-> Current, item |-> about.item, finding |-> about.finding]
    /\ UNCHANGED <<imports, committed, earlier, sessions, person>>

\* The form is drawn in the session of the report it was opened for.
Drafting == InSession /\ draft # None /\ draft.binding = Current

SavesDefect ==
    /\ Drafting
    /\ Becomes([Shown EXCEPT !.defects = @ \cup {Defect(edits + 1, draft.item, draft.finding)}])
    /\ draft' = None
    /\ UNCHANGED given

CancelsDefect ==
    /\ Drafting
    /\ draft' = None
    /\ UNCHANGED <<imports, committed, earlier, sessions, person>>

\* The JSON is downloaded.  Bound: once.
Exports ==
    /\ InSession /\ exported = None
    /\ exported' = Progress(Current, Shown)
    /\ UNCHANGED <<imports, view, edits, given>>

Clears ==
    /\ InSession
    /\ sessions' = [sessions EXCEPT ![Current] = None]
    /\ draft' = None
    /\ UNCHANGED <<imports, committed, earlier, person>>

\* The controls are drawn first, whatever follows.
Swaps ==
    /\ Len(committed) = 2
    /\ earlier' = 3 - earlier
    /\ draft' = None
    /\ UNCHANGED <<imports, committed, sessions, person>>

-----------------------------------------------------------------------------
Init ==
    /\ imports = [i \in Import |-> [pc |-> "idle", batch |-> None]]
    /\ committed = <<>> /\ earlier = 1
    /\ sessions = [r \in Report |-> None] /\ draft = None
    /\ exported = None /\ edits = 0
    /\ given = UNION {{<<e.binding, <<"finding", f>>, "pass">> : f \in e.done} : e \in Legacy}

ImportFiles(i) ==
    Selects(i) \/ Reads(i) \/ Fires(i) \/ Hears(i) \/ Commits(i) \/ BindingFails(i)

Next ==
    \/ \E i \in Import : ImportFiles(i)
    \/ StartsVerification \/ Judges \/ AddsCheck \/ RemovesCheck \/ Describes
    \/ DraftsDefect \/ SavesDefect \/ CancelsDefect \/ Exports \/ Clears \/ Swaps

Spec == Init /\ [][Next]_vars

\* The browser reads files, fires timers and settles digests.  Nothing is assumed
\* of a worker, which may compute for ever, or of the person.
Fairness == \A i \in Import :
    WF_vars(Reads(i)) /\ WF_vars(Fires(i)) /\ WF_vars(Commits(i) \/ BindingFails(i))

FairSpec == Spec /\ Fairness
-----------------------------------------------------------------------------
(* What the dashboard must guarantee *)

\* "Previous report evidence never carries forward as current Pass" (docs/
\* architecture/dashboard-architecture.md:75): whatever is selected, swapped, cleared,
\* exported and restored in between, every status of a session was recorded by a
\* person for that very check of that very report; a defect is about a finding that
\* person had failed; "no failures recorded" is said of findings each of which was
\* judged, and the review focus agrees; and no session outlives its selection.
PassIsBound ==
    \A r \in {x \in Report : sessions[x] # None} :
        LET session == sessions[r]
            Given(id, statuses) == \E status \in statuses : <<r, id, status>> \in given
        IN /\ r \in ToSet(committed)
           /\ \A item \in session.items :
                 item.status # "untested" => Given(item.id, {item.status})
           /\ \A defect \in session.defects :
                 defect.finding # None => Given(<<"finding", defect.finding>>, {"fail"})
           /\ Complete(session) =>
                 /\ Recorded(r, session)
                 /\ \A f \in FindingsOf[r] : Given(<<"finding", f.identity>>, {"pass", "na"})

Restorable(progress) ==
    /\ Accepts(progress)
    /\ \A reports \in {s \in Selection : progress.binding \in ToSet(s)} :
          Applied([reports |-> reports, evidence |-> progress])[progress.binding]
              = progress.session

\* "Durable state exists only when the user explicitly downloads [...] JSON and later
\* restores the JSON with the exact report" (dashboard/README.md:32): the evidence
\* that was downloaded is accepted and restores the session as it was, next to any
\* other report - unless the number typed for the pull request is no positive
\* integer (EveryExportRestores).
EvidenceSurvives ==
    exported # None => (exported.session.number # "other" => Restorable(exported))

\* The same without exception, as the sentence has it: this is not so.
EveryExportRestores == exported # None => Restorable(exported)

\* Every selection comes to an end, even if its worker does not.
ImportsEnd == \A i \in Import :
    imports[i].pc = "reading" ~> imports[i].pc \in {"loaded", "failed"}

\* "Drop [...] stale worker messages after completion" (docs/architecture/
\* dashboard-architecture.md:76): a selection is not replaced by an older one.
NewestStays == [][\A i, j \in Import :
    i < j /\ imports[j].pc = "loaded" /\ imports'[i].pc = "loaded" => imports[i].pc = "loaded"]_vars
=============================================================================
