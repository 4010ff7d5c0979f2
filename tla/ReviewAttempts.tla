---------------------------- MODULE ReviewAttempts ----------------------------
(***************************************************************************)
(* The reviews of one pull request, a job for each push: the steps of the   *)
(* Action (action.yml) inside a workflow that hands it the evidence of an   *)
(* earlier job and retains its own.  The scanner is ScanContract, the       *)
(* documents are those of Evidence, the comment is PrComment.  Jobs overlap;*)
(* any of them may be cancelled, and any may lose its runner.               *)
(***************************************************************************)
EXTENDS PrComment

CONSTANTS
    Unreadable, Error, Content,
    Workflows,  \* what the workflow asks of the Action
    Foreign,    \* evidence of other branches, and of an older release
    Texts,      \* of the policy file
    Packs       \* what each policy adds to the scanner's configuration: its packs

INSTANCE Evidence

Contract == INSTANCE ScanContract WITH
    Reports <- DOMAIN Content, NoReport <- None, Running <- None,
    exit <- None, written <- None

\* handoff   beside the jobs of pull requests, which look for the evidence of the push
\*           before, people dispatch some with evidence and expectations of their choice
\* queued    a job waits for the end of the one before it
\* checkout  "merge", what actions/checkout takes by default, or "head"
\* policy    "manifest", "starter" (one of the bundled policies), "none" or "both"
\* own       the Action runs from the repository under review
\* outputs, comment  annotations or SARIF, and the comment, are asked for
\* people    a bound: people write at the pull request
\* varied    a bound: the scan may end in every way and report everything, and any step
\*           may be cut off; else it ends with 0 and one report, and the comment may be
Workflow ==
    [handoff: BOOLEAN, queued: BOOLEAN, checkout: {"merge", "head"},
     policy: {"manifest", "starter", "none", "both"}, own: BOOLEAN,
     outputs: BOOLEAN, comment: BOOLEAN, people: BOOLEAN,
     varied: BOOLEAN]

ASSUME WorkflowsAssumption == Workflows \subseteq Workflow

VARIABLES
    workflow,
    base,      \* the policy file at the base of the pull request
    job,
    retained   \* the evidence each job left for the next one

attemptVars == <<workflow, base, job, retained>>
allVars == <<attemptVars, vars>>

Repository == "repository"
Branch == "branch"
BaseCommit == <<"base", 0>>
HeadCommit(r) == <<"head", r>>

\* A job people dispatch checks out the branch.
Tested(r, handed) == IF handed THEN HeadCommit(r) ELSE <<workflow.checkout, r>>
TestedCommit(r) == Tested(r, job[r].handed)

\* What may be evaluated: a text of the policy file, a bundled policy, or none.
Policies == Texts \cup {None, "bundled"}

ASSUME PacksAssumption == DOMAIN Packs = Policies

\* The scanner's configuration names the packs and their versions; the text they were
\* selected by is named, with its revision, by the policy evidence.
Configurations == {Packs[policy] : policy \in Policies}
PolicyEvidence ==
    [sha256: {None} \cup {Hash(policy) : policy \in Policies}, revision: {None, BaseCommit}]

\* A report of this release, and what a job says of it.
Report ==
    [schema: {1}, whole: {TRUE}, config: Configurations, policyEvidence: PolicyEvidence,
     content: DOMAIN Content]
ReportEvidence ==
    [repository: {Repository}, branch: {Branch}, commit: {"merge", "head"} \X Run,
     configuration: Configurations]

\* What a job may say it has put out.
Channel == {"skipped", "failed", "produced", "unavailable"}
Projection ==
    [status: {"incomplete", "failed", "degraded", "complete"},
     channels: [report: Channel, manifest: Channel, outputs: Channel,
                comparison: Channel, comment: Channel, threshold: Channel],
     threshold: {"passed", "failed"}]

\* None is what is not there.
ASSUME NoneAssumption ==
    /\ None \notin Report \cup Projection \cup {Repository, Branch}
    /\ \A report \in Report, evidence \in ReportEvidence :
          CreateArtifactManifest(report, evidence) # None

\* Foreign evidence is not of this branch, or not of this release.
ASSUME ForeignAssumption ==
    \A s \in Foreign : \/ ValidateInputs(s.manifest) # {}
                       \/ s.manifest.evidence.repository # Repository
                       \/ s.manifest.evidence.branch # Branch

Nothing == [report |-> None, manifest |-> None]
NoExpectation == [repository |-> None, branch |-> None, commit |-> None]

-----------------------------------------------------------------------------
(* Steps *)

\* What follows when every step so far went well.
NextStep == [find |-> "download", download |-> "prepare", prepare |-> "scan",
             scan |-> "manifest", manifest |-> "outputs", outputs |-> "compare",
             compare |-> "comment", comment |-> "project", project |-> "enforce",
             enforce |-> "retain", retain |-> "over"]

InAction == {"prepare", "scan", "manifest", "outputs", "compare", "comment"}

\* What still runs after a step that failed or was cancelled: before the Action,
\* nothing; in it, what runs always.
StepAfterFailure ==
    [step \in DOMAIN NextStep |->
        CASE step \in InAction -> "project"
          [] step \in {"project", "enforce"} -> "retain"
          [] OTHER -> "over"]

NoChange == <<>>

At(r, step) == job[r].pc = step

\* Job r enters step pc with these fields changed.
Enters(r, pc, changes) ==
    job' = [job EXCEPT ![r] = [f \in DOMAIN job[r] |->
               IF f = "pc" THEN pc
               ELSE IF f \in DOMAIN changes THEN changes[f] ELSE job[r][f]]]

ProceedsTo(r, pc, changes) ==
    /\ Enters(r, pc, changes)
    /\ UNCHANGED <<retained, vars>>

Proceeds(r, changes) == ProceedsTo(r, NextStep[job[r].pc], changes)

\* A comment that is not written is not waited for.
CommentEnds(r) ==
    CASE run[r].pc = "idle" -> Skips(r)
      [] run[r].pc \in {"listing", "writing"} -> Fails(r)
      [] OTHER -> UNCHANGED vars

WithoutSuccess(changes) ==
    [f \in DOMAIN changes \cup {"sound"} |-> IF f = "sound" THEN FALSE ELSE changes[f]]

StopsFor(r, pc, changes) ==
    /\ Enters(r, pc, WithoutSuccess(changes))
    /\ CommentEnds(r)
    /\ UNCHANGED retained

BreaksOff(r, changes) == StopsFor(r, StepAfterFailure[job[r].pc], changes)

Pushes(r) ==
    /\ At(r, "idle")
    /\ \A q \in Run : q < r => ~At(q, "idle") /\ (workflow.queued => At(q, "over"))
    /\ \E text \in (IF workflow.policy = "none" THEN {None} ELSE Texts \cup {None}) :
          ProceedsTo(r, "find", [head |-> text])

\* The run of the commit before the push, once it has completed; the query may fail.
FindsPrior(r) ==
    /\ At(r, "find")
    /\ \/ /\ LET found == {q \in Run : q = r - 1 /\ At(q, "over")}
             IN Proceeds(r, [sought |-> IF found = {} THEN None ELSE r - 1])
       \/ StopsFor(r, "over", NoChange)

\* What there is to download, or nothing: a download that fails stops no job.  Both
\* files must be there.
DownloadsPrior(r) ==
    /\ At(r, "download")
    /\ LET there == IF job[r].sought = None THEN None ELSE retained[job[r].sought]
       IN \E taken \in {there, None} :
             Proceeds(r, [prior |-> IF taken = None THEN Nothing ELSE taken,
                          compare |-> taken # None,
                         expected |-> IF job[r].sought = None
                                      THEN [repository |-> Repository, branch |-> Branch,
                                            commit |-> None]
                                      ELSE [repository |-> Repository, branch |-> Branch,
                                            commit |-> HeadCommit(job[r].sought)]])

\* A person hands over files of whatever was retained, here or elsewhere, and the
\* commit they should be of.  (A bound: only once this pull request has left some.)
HandsOver(r) ==
    /\ At(r, "find") /\ workflow.handoff /\ \E q \in Run : retained[q] # None
    /\ LET shelf == ({retained[q] : q \in Run} \cup Foreign) \ {None}
           commits == {s.manifest.evidence.commit : s \in shelf}
       IN \E previous \in {s.report : s \in shelf} \cup {None, Unreadable},
             manifest \in {s.manifest : s \in shelf} \cup {None},
             expected \in {NoExpectation} \cup
                 [repository: {Repository}, branch: {Branch}, commit: commits] :
             ProceedsTo(r, "prepare", [handed |-> TRUE, compare |-> TRUE, expected |-> expected,
                         prior |-> [report |-> previous, manifest |-> manifest]])

-----------------------------------------------------------------------------
(* The Action *)

Changed(r) == IF job[r].head = base THEN <<>> ELSE <<workflow.policy>>

\* The bundled policies are taken from the base too where the Action reviews its own
\* repository.
StartersAtBase == workflow.own /\ workflow.policy = "starter"

UsesManifest == workflow.policy \in {"manifest", "both"}

\* Mutant: the snapshot is taken of the pull request.
Snapshot_Head(r) == IF UsesManifest /\ base # None THEN job[r].head ELSE None

\* What evaluation_context puts out as the manifest to use.
Snapshot(r) == IF UsesManifest THEN base ELSE None

EvaluationContext(r) ==
    [base |-> BaseCommit,
     source |-> IF Snapshot(r) = None THEN None
                ELSE [revision |-> BaseCommit, digest |-> Hash(Snapshot(r))],
     starterRevision |-> IF workflow.own THEN BaseCommit ELSE None,
     changes |-> Changed(r)]

\* "Prepare trusted policy baseline" and the diff.  The base may not be in the
\* checkout, a bundled policy may not be at the base.  Only a pull request has a base:
\* a dispatched job gets no context, and without one its diff must have been handed
\* over too.
PreparesBaseline(r) ==
    /\ At(r, "prepare")
    /\ \/ /\ ~job[r].handed
          /\ StartersAtBase => base # None
          /\ ContextIsValid(EvaluationContext(r))
          /\ Proceeds(r, [snapshot |-> Snapshot(r)])
       \/ job[r].handed /\ Proceeds(r, NoChange)
       \/ BreaksOff(r, NoChange)

\* The policy the scan is given.  An empty output of the context gives way to the
\* input, the manifest of the checkout; an own Action's bundled policies too are those
\* of the checkout where no directory of the base's was prepared.
EffectivePolicy(r) ==
    CASE workflow.policy = "manifest" ->
             IF job[r].snapshot # None THEN job[r].snapshot ELSE job[r].head
      [] workflow.policy = "starter" ->
             IF ~workflow.own THEN "bundled" ELSE IF job[r].handed THEN job[r].head ELSE base
      [] workflow.policy = "none" -> None

\* A policy that is not in the checkout is fatal, as is a manifest the context does not
\* vouch for.
PolicyIsRefused(r) ==
    /\ workflow.policy # "none"
    /\ \/ EffectivePolicy(r) = None
       \/ /\ job[r].snapshot # None
          /\ Hash(EffectivePolicy(r)) # Hash(job[r].snapshot)

\* What a scan ends with.
Ends == {end \in Contract!Outcomes \X DOMAIN Content :
             workflow.varied \/ end = <<[exit |-> 0, wrote |-> TRUE], 1>>}

\* The digest of what was evaluated, and the revision the context says it is of.
PolicyEvidenceOf(r) ==
    [sha256 |-> IF workflow.policy = "none" THEN None ELSE Hash(EffectivePolicy(r)),
     revision |-> IF job[r].snapshot # None \/ (StartersAtBase /\ ~job[r].handed)
                  THEN BaseCommit ELSE None]

ReportOf(content, r) ==
    [schema |-> 1, whole |-> TRUE, config |-> Packs[EffectivePolicy(r)],
     policyEvidence |-> PolicyEvidenceOf(r), content |-> content]

\* "Run merge-guard".  It never fails by what the scan ends with, only where both
\* policy inputs are given.
Scans(r) ==
    /\ At(r, "scan")
    /\ \/ /\ workflow.policy = "both"
          /\ BreaksOff(r, NoChange)
       \/ /\ workflow.policy # "both" /\ PolicyIsRefused(r)
          /\ Proceeds(r, [exit |-> 1, named |-> TRUE])
       \/ /\ workflow.policy # "both" /\ ~PolicyIsRefused(r)
          /\ \E end \in Ends :
                Proceeds(r, [exit |-> end[1].exit, named |-> TRUE,
                             report |-> IF end[1].wrote THEN ReportOf(end[2], r) ELSE None])

\* Mutant: the manifest names the head of the pull request.
EvidenceOf_Head(r) ==
    [repository |-> Repository, branch |-> Branch, commit |-> HeadCommit(r),
     configuration |-> job[r].report.config]

EvidenceOf(r) ==
    [repository |-> Repository, branch |-> Branch, commit |-> TestedCommit(r),
     configuration |-> job[r].report.config]

\* "Generate immutable report artifact manifest"
Attests(r) ==
    /\ At(r, "manifest")
    /\ \/ job[r].report = None /\ Proceeds(r, NoChange)
       \/ /\ job[r].report # None
          /\ LET manifest == CreateArtifactManifest(job[r].report, EvidenceOf(r))
             IN manifest # Error /\ Proceeds(r, [manifest |-> manifest])
       \/ job[r].report # None /\ BreaksOff(r, NoChange)

\* "Generate optional GitHub review outputs"
Projects(r) ==
    /\ At(r, "outputs")
    /\ \/ /\ ~workflow.outputs \/ job[r].report = None
          /\ Proceeds(r, NoChange)
       \/ /\ workflow.outputs /\ job[r].report # None
          /\ Proceeds(r, [outputs |-> "produced"])
       \/ /\ workflow.outputs /\ job[r].report # None
          /\ BreaksOff(r, [outputs |-> "failed"])

Comparison(r) == CompareReports(job[r].prior.report, job[r].prior.manifest,
                                job[r].report, job[r].expected)

\* What the job summary and the comment show of it, also where the step fails.
ShownOf(r) == IF Comparison(r).document = None THEN {}
              ELSE FormatFindingComparisonMarkdown(Comparison(r).document)

\* "Compare findings with previous report".  Missing history is a warning; evidence of
\* another schema fails the step, and its document is not put out.
ComparesReports(r) ==
    /\ At(r, "compare")
    /\ \/ /\ ~job[r].compare \/ job[r].report = None
          /\ Proceeds(r, NoChange)
       \/ /\ job[r].compare /\ job[r].report # None /\ Comparison(r).exit # 1
          /\ Proceeds(r, [comparison |-> Comparison(r).document,
                          evidence |-> Comparison(r).evidence, shown |-> ShownOf(r)])
       \/ /\ job[r].compare /\ job[r].report # None /\ Comparison(r).exit = 1
          /\ BreaksOff(r, [compareFailed |-> TRUE, shown |-> ShownOf(r)])

\* Where there is a pull request to comment on.
CommentEligible(r) == ~job[r].handed

\* "Comment on pull request": PrComment takes its steps, and its end is the step's.
CommentsOnPull(r) ==
    /\ At(r, "comment")
    /\ \/ /\ ~workflow.comment
          /\ Proceeds(r, NoChange)
       \/ /\ workflow.comment /\ ~CommentEligible(r)
          /\ Enters(r, "project", NoChange)
          /\ CommentEnds(r)
          /\ UNCHANGED retained
       \/ /\ workflow.comment /\ CommentEligible(r) /\ ~Over(r)
          /\ Starts(r) \/ Lists(r) \/ Updates(r) \/ Creates(r) \/ Fails(r)
          /\ UNCHANGED <<job, retained>>
       \/ /\ workflow.comment /\ CommentEligible(r) /\ Over(r)
          /\ Proceeds(r, [commented |-> run[r].pc = "done"])

\* What create-review-projection.js finds.
ProjectionInput(r) ==
    [report |-> job[r].named /\ job[r].report # None,
     manifest |-> job[r].manifest # None,
     outputs |-> [requested |-> workflow.outputs, failed |-> job[r].outputs = "failed",
                  available |-> job[r].outputs = "produced"],
     comparison |-> [requested |-> job[r].compare, failed |-> job[r].compareFailed,
                     available |-> job[r].comparison # None],
     comment |-> [requested |-> workflow.comment, eligible |-> CommentEligible(r),
                  available |-> job[r].commented],
     exit |-> job[r].exit]

\* "Record review projection result", always.
RecordsProjection(r) ==
    /\ At(r, "project")
    /\ \/ ProceedsTo(r, IF job[r].sound THEN "enforce" ELSE "retain",
                      [projection |-> CreateReviewProjection(ProjectionInput(r))])
       \/ BreaksOff(r, NoChange)

\* Mutant: only where there is a report.
Enforces_Reported(r) ==
    /\ At(r, "enforce")
    /\ Proceeds(r, [sound |-> job[r].exit = 0 \/ job[r].report = None])

\* "Enforce merge-guard result"
Enforces(r) ==
    /\ At(r, "enforce")
    /\ Proceeds(r, [sound |-> job[r].exit = 0])

\* A job retains whatever was attested; one that was handed its evidence only where
\* all went well and the prior evidence was verified.
Retains(r) ==
    /\ At(r, "retain")
    /\ LET attested == job[r].named /\ job[r].manifest # None
           wanted == job[r].handed => job[r].sound /\ job[r].evidence = "verified"
       IN \/ /\ wanted /\ attested
             /\ retained' = [retained EXCEPT ![r] = [report |-> job[r].report,
                                                     manifest |-> job[r].manifest]]
             /\ Enters(r, "over", NoChange)
             /\ UNCHANGED vars
          \/ /\ ~(wanted /\ attested)
             /\ Proceeds(r, [sound |-> job[r].sound /\ ~job[r].handed])
          \/ BreaksOff(r, NoChange)

\* A person, or a newer push, cancels the job: what runs always still runs.
Cancelled(r) ==
    /\ job[r].pc \in {"find", "download", "enforce"} \cup InAction
    /\ workflow.varied \/ At(r, "comment")
    /\ BreaksOff(r, NoChange)

\* The runner is lost: nothing runs any more.
Lost(r) ==
    /\ job[r].pc \notin {"idle", "over"}
    /\ workflow.varied \/ At(r, "comment")
    /\ StopsFor(r, "over", NoChange)

\* People write while somebody lists or writes; at other times it is as if they had
\* written before.
PeopleAct ==
    /\ workflow.people /\ \E r \in Run : At(r, "comment")
    /\ Comments \/ Delete
    /\ UNCHANGED <<job, retained>>

-----------------------------------------------------------------------------
FreshJob ==
    [pc |-> "idle", sound |-> TRUE, head |-> None, sought |-> None, handed |-> FALSE, prior |-> Nothing,
     compare |-> FALSE, expected |-> NoExpectation, snapshot |-> None, exit |-> None,
     named |-> FALSE, report |-> None, manifest |-> None, outputs |-> "skipped",
     comparison |-> None, evidence |-> "none", compareFailed |-> FALSE, shown |-> {},
     commented |-> FALSE, projection |-> None]

AttemptsInit ==
    /\ Init
    /\ workflow \in Workflows
    /\ ~workflow.people => written = 0
    /\ base \in IF workflow.policy = "none" THEN {None} ELSE Texts \cup {None}
    /\ job = [r \in Run |-> FreshJob]
    /\ retained = [r \in Run |-> None]

Step(r) ==
    \/ FindsPrior(r) \/ DownloadsPrior(r) \/ HandsOver(r) \/ PreparesBaseline(r)
    \/ Scans(r) \/ Attests(r) \/ Projects(r) \/ ComparesReports(r) \/ CommentsOnPull(r)
    \/ RecordsProjection(r) \/ Enforces(r) \/ Retains(r)

AttemptsNext ==
    /\ \/ \E r \in Run : Pushes(r) \/ Step(r) \/ Cancelled(r) \/ Lost(r)
       \/ PeopleAct
    /\ UNCHANGED <<workflow, base>>

AttemptsSpec == AttemptsInit /\ [][AttemptsNext]_allVars
-----------------------------------------------------------------------------
(* What the reviews must be *)

AllIdentities(report) == UNION {Identities(rule, report) : rule \in ToSet(Rules(report))}

\* Findings are called new, unchanged or resolved only against the report of the very
\* commit that was expected, in this repository and branch, and then exactly; where
\* evidence is there but was not verified nothing is classified, and nothing shown.
ComparedIsPrior ==
    \A r \in Run :
        LET c == job[r].comparison
            classified == c # None /\ c.status = "compared"
        IN /\ job[r].shown # {} => classified
           /\ classified =>
                /\ job[r].prior.manifest # None \/ job[r].expected # NoExpectation
                       => job[r].evidence = "verified"
                /\ AllIdentities(job[r].report) = c.new \cup c.unchanged
                /\ AllIdentities(job[r].prior.report) = c.resolved \cup c.unchanged
                /\ c.resolved \cap AllIdentities(job[r].report) = {}
                /\ job[r].expected.commit # None =>
                       \E q \in Run : /\ job[r].expected.commit = TestedCommit(q)
                                      /\ job[q].report = job[r].prior.report

\* A projection that calls itself complete has everything that was asked for, but for a
\* comment where there is no pull request, and its threshold is the scan's; one that says
\* the comment was made is not behind the comment, when jobs comment in turn.
ProjectionIsTrue ==
    \A r \in Run : LET p == job[r].projection IN
        p # None =>
            /\ p.status = "complete" =>
                   /\ job[r].report # None /\ job[r].manifest # None
                   /\ workflow.outputs => job[r].outputs = "produced"
                   /\ job[r].compare => job[r].comparison # None
                   /\ workflow.comment /\ ~job[r].handed => run[r].pc = "done"
                   /\ p.threshold = "passed" <=> job[r].exit = 0
            /\ p.channels.comment = "produced" /\ ~overlap =>
                   \E c \in Marked : c.report >= r

\* A job succeeds only where the scan did, and with its report, its manifest, the
\* annotations or SARIF that were asked for and a projection, whichever steps were
\* skipped, failed or cancelled.  (Without a comment, or without history to compare
\* with, a job succeeds: the projection says so.)
SuccessIsEarned ==
    \A r \in Run : At(r, "over") /\ job[r].sound =>
        /\ job[r].exit = 0 /\ job[r].report # None /\ job[r].manifest # None
        /\ workflow.outputs => job[r].outputs = "produced"
        /\ job[r].projection # None

\* What a job retains is its own report under its own manifest: the pair verifies as the
\* evidence of the commit that was scanned, whichever steps failed after the scan.
RetainedIsVerifiable ==
    \A r \in Run : retained[r] # None =>
        /\ retained[r].report = job[r].report
        /\ SelectPriorEvidence(retained[r].report, retained[r].manifest,
               [repository |-> Repository, branch |-> Branch,
                commit |-> TestedCommit(r)]) = "verified"

\* Where the base has the policy its text is what a job of the pull request evaluates,
\* whatever the pull request makes of it, and the report's policy evidence has the digest
\* of that text.  And no job's evidence names the base's revision over any other text,
\* dispatched or not, whether or not the base has the policy.
BasePolicyGoverns ==
    \A r \in Run : LET evidence == job[r].report.policyEvidence IN
        job[r].report # None =>
            /\ base # None /\ ~job[r].handed =>
                   evidence.sha256 \in {Hash(base), Hash("bundled")}
            /\ evidence.revision # None => evidence.sha256 = Hash(base)

\* "A policy manifest or bundled starter pack added or edited by the pull request is
\* deferred until after merge; it cannot change the rules used for its own evaluation"
\* (docs/GITHUB_ACTIONS.md:111).
PolicyIsDeferred ==
    \A r \in Run : job[r].report # None /\ ~job[r].handed =>
        job[r].report.policyEvidence.sha256 \in {None, Hash(base), Hash("bundled")}
=============================================================================
