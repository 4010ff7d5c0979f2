------------------------ MODULE ReviewAttempts_proofs ------------------------
(***************************************************************************)
(* For any number of pushes, any workflows, reports, policies and foreign   *)
(* evidence, and whatever is cancelled or lost: what a job says of itself,  *)
(* what it retains and what it compares with is true; its comment is that   *)
(* of PrComment, and no run replaces what people wrote.                     *)
(***************************************************************************)
EXTENDS ReviewAttempts, SequenceTheorems, FiniteSetTheorems, TLAPS

-----------------------------------------------------------------------------
(* The inductive invariant *)

Field == DOMAIN FreshJob

AfterScan == {"manifest", "outputs", "compare", "comment", "project", "enforce", "retain", "over"}
AfterManifest == AfterScan \ {"manifest"}
AfterOutputs == AfterManifest \ {"outputs"}
AfterCompare == AfterOutputs \ {"compare"}
AfterComment == AfterCompare \ {"comment"}
AfterProject == AfterComment \ {"project"}
AfterEnforce == AfterProject \ {"enforce"}
AfterStop == AfterComment \ {"enforce"}

\* The shapes the argument needs.
StateShape ==
    /\ workflow \in Workflow
    /\ base \in Texts \cup {None} /\ (workflow.policy = "none" => base = None)
    /\ job = [r \in Run |-> job[r]]
    /\ \A r \in Run : job[r] = [f \in Field |-> job[r][f]]
    /\ retained = [r \in Run |-> retained[r]]

JobType(j) ==
    /\ j.pc \in DOMAIN NextStep \cup {"idle", "over"}
    /\ j.sound \in BOOLEAN /\ j.named \in BOOLEAN /\ j.commented \in BOOLEAN
    /\ j.compare \in BOOLEAN /\ j.compareFailed \in BOOLEAN
    /\ j.head \in Texts \cup {None}
    /\ j.exit \in {None, 0, 1}
    /\ j.report \in Report \cup {None}
    /\ \/ j.expected = NoExpectation
       \/ j.expected.repository = Repository /\ j.expected.branch = Branch

\* Nothing is there before the step that makes it.
NotYet(j) ==
    /\ j.report # None => j.pc \in AfterScan /\ j.exit \in {0, 1}
    /\ j.manifest # None => j.pc \in AfterManifest
    /\ j.comparison # None => j.pc \in AfterCompare
    /\ j.shown # {} => j.pc \in AfterCompare
    /\ j.projection # None => j.pc \in AfterProject

\* What the evidence of an evaluation promises of the base.
IsGoverned(handed, evidence) ==
    /\ base # None /\ ~handed => evidence.sha256 \in {Hash(base), Hash("bundled")}
    /\ evidence.revision # None => evidence.sha256 = Hash(base)

\* The scan of a pull request is given the policy of the base, where there is one.
PolicyOK(j) ==
    /\ j.snapshot # None => UsesManifest /\ j.snapshot = base
    /\ j.pc = "scan" /\ UsesManifest /\ ~j.handed => j.snapshot = base
    /\ j.report # None => IsGoverned(j.handed, j.report.policyEvidence)

\* What a job that did not fail has by now.
EarnedSoFar(j) ==
    /\ j.exit = 0 => j.report # None
    /\ j.pc = "enforce" => j.sound
    /\ j.sound =>
        /\ j.pc \in AfterManifest /\ j.report # None => j.manifest # None
        /\ j.pc \in AfterOutputs /\ j.report # None /\ workflow.outputs => j.outputs = "produced"
        /\ j.pc \in AfterProject => j.projection # None
        /\ j.pc \in AfterEnforce => j.exit = 0

\* The manifest of run r over a report.
ManifestOf(r, handed, report) ==
    CreateArtifactManifest(report,
        [repository |-> Repository, branch |-> Branch, commit |-> Tested(r, handed),
         configuration |-> report.config])

IsAttested(r, j) ==
    j.manifest # None =>
        /\ j.report \in Report
        /\ ManifestOf(r, j.handed, j.report) # Error
        /\ j.manifest = ManifestOf(r, j.handed, j.report)

\* What a comparison says when it classifies, and on which evidence.
IsCompared(j) ==
    LET c == j.comparison
        classified == c # None /\ c.status = "compared"
    IN /\ j.shown # {} => classified
       /\ classified =>
            /\ j.prior.manifest # None \/ j.expected # NoExpectation => j.evidence = "verified"
            /\ AllIdentities(j.report) = c.new \cup c.unchanged
            /\ AllIdentities(j.prior.report) = c.resolved \cup c.unchanged
            /\ c.resolved \cap AllIdentities(j.report) = {}
            /\ j.expected.commit # None =>
                 /\ j.prior.manifest # None
                 /\ ValidateArtifactManifest(j.prior.manifest, j.prior.report) = {}
                 /\ j.prior.manifest.evidence.repository = Repository
                 /\ j.prior.manifest.evidence.branch = Branch
                 /\ j.prior.manifest.evidence.commit = j.expected.commit

\* What a projection says.
IsProjected(j) ==
    j.projection # None =>
        /\ j.projection.status = "complete" =>
               /\ j.report # None /\ j.manifest # None
               /\ workflow.outputs => j.outputs = "produced"
               /\ j.compare => j.comparison # None
               /\ workflow.comment /\ ~j.handed => j.commented
               /\ j.projection.threshold = "passed" <=> j.exit = 0
        /\ j.projection.channels.comment = "produced" => j.commented

LocalInv(r, j) ==
    /\ JobType(j) /\ NotYet(j) /\ PolicyOK(j) /\ EarnedSoFar(j)
    /\ IsAttested(r, j) /\ IsCompared(j) /\ IsProjected(j)

JobsHold == \A r \in Run : LocalInv(r, job[r])

\* What is retained is what the job made, and the job is over.
RetainedIsOwn ==
    \A r \in Run : retained[r] # None =>
        /\ job[r].pc = "over" /\ job[r].manifest # None
        /\ retained[r] = [report |-> job[r].report, manifest |-> job[r].manifest]

\* Prior evidence is foreign or was retained here.
PriorIsKnown ==
    \A r \in Run : job[r].prior.manifest # None =>
        \/ \E s \in Foreign : s.manifest = job[r].prior.manifest
        \/ \E q \in Run : retained[q] # None /\ job[r].prior.manifest = retained[q].manifest

\* What a job looked for is an earlier job.
SoughtIsRun == \A r \in Run : job[r].sought \in Run \cup {None}

\* The comment of the last run that is done is there, as long as they run in turn.
CommentedIsDone == \A r \in Run : job[r].commented => run[r].pc = "done"

RunShape ==
    /\ run = [r \in Run |-> run[r]]
    /\ \A r \in Run : /\ run[r] = [pc |-> run[r].pc, page |-> run[r].page, listed |-> run[r].listed]
                      /\ run[r].pc \in {"idle", "listing", "writing", "done", "failed"}
CommentsShape == comments \in Seq(Comment) /\ written \in Nat

RunsInTurn ==
    ~overlap => \A r \in Run : run[r].pc \in {"listing", "writing", "done"} =>
                    \A q \in Run : q < r => Over(q)
LastIsThere ==
    ~overlap => \A r \in Run : run[r].pc = "done" =>
                    \E c \in Marked : c.report \in Run /\ c.report >= r

CommentInv == RunShape /\ CommentsShape /\ RunsInTurn /\ LastIsThere

AttemptsInv ==
    /\ StateShape /\ JobsHold /\ RetainedIsOwn /\ PriorIsKnown /\ SoughtIsRun
    /\ CommentedIsDone
    /\ CommentInv

-----------------------------------------------------------------------------
(* Evidence: what the pure functions promise *)

\* A report and its own manifest verify each other.
LEMMA OwnIsVerified ==
    ASSUME NEW report \in Report, NEW evidence,
           evidence.repository = Repository, evidence.branch = Branch,
           CreateArtifactManifest(report, evidence) # Error,
           CreateArtifactManifest(report, evidence) # None
    PROVE  SelectPriorEvidence(report, CreateArtifactManifest(report, evidence),
               [repository |-> Repository, branch |-> Branch, commit |-> evidence.commit])
                   = "verified"
<1> DEFINE manifest == CreateArtifactManifest(report, evidence)
<1>1. report.schema = 1 /\ report.whole = TRUE /\ report # None
    BY NoneAssumption DEF Report
<1>2. /\ ~(evidence.commit = None \/ evidence.repository = None)
      /\ manifest.schema = 1 /\ manifest.evidence = evidence /\ manifest.reportSchema = 1
      /\ manifest.hashes = ContentHashes(report, evidence)
      /\ manifest.id = Hash(IdentityPayload(manifest))
    BY <1>1 DEF CreateArtifactManifest, IdentityPayload
<1> HIDE DEF manifest
<1>3. ValidateArtifactManifest(manifest, report) = {}
    BY <1>2 DEF ValidateArtifactManifest, ValidateInputs
<1> QED
    BY <1>1, <1>2, <1>3 DEF SelectPriorEvidence, ReportIsValid, Differs, manifest

\* Evidence that is verified is whole and is of what was expected.
LEMMA VerifiedIsExpected ==
    ASSUME NEW previous, NEW manifest, NEW expected,
           SelectPriorEvidence(previous, manifest, expected) = "verified"
    PROVE  /\ previous # None /\ manifest # None
           /\ ValidateArtifactManifest(manifest, previous) = {}
           /\ expected.repository # None => manifest.evidence.repository = expected.repository
           /\ expected.branch # None => manifest.evidence.branch = expected.branch
           /\ expected.commit # None => manifest.evidence.commit = expected.commit
BY DEF SelectPriorEvidence, Differs

\* A manifest that is valid for a report was made of that very report.
LEMMA ValidIsOfReport ==
    ASSUME NEW report, NEW evidence, NEW manifest, NEW previous,
           manifest = CreateArtifactManifest(report, evidence), manifest # Error,
           ValidateArtifactManifest(manifest, previous) = {}
    PROVE  /\ manifest.evidence = evidence
           /\ previous = report
<1>1. /\ manifest.evidence = evidence
      /\ manifest.hashes = ContentHashes(report, evidence)
    BY DEF CreateArtifactManifest
<1>2. ContentHashes(previous, manifest.evidence) = manifest.hashes
    BY DEF ValidateArtifactManifest
<1>3. Hash(previous) = Hash(report)
    BY <1>1, <1>2 DEF ContentHashes
<1> QED
    BY <1>1, <1>3 DEF Hash

\* A comparison classifies only what it may, and then exactly.
LEMMA ComparedIsExact ==
    ASSUME NEW previous, NEW manifest, NEW current, NEW expected,
           CompareReports(previous, manifest, current, expected).document # None,
           CompareReports(previous, manifest, current, expected).document.status = "compared"
    PROVE  LET result == CompareReports(previous, manifest, current, expected)
               c == result.document
           IN /\ \/ manifest # None \/ expected.repository # None
                 \/ expected.branch # None \/ expected.commit # None
                 => /\ result.evidence = "verified"
                    /\ SelectPriorEvidence(previous, manifest, expected) = "verified"
              /\ AllIdentities(current) = c.new \cup c.unchanged
              /\ AllIdentities(previous) = c.resolved \cup c.unchanged
              /\ c.resolved \cap AllIdentities(current) = {}
<1> DEFINE strict == manifest # None \/ expected.repository # None
                         \/ expected.branch # None \/ expected.commit # None
           status == IF strict THEN SelectPriorEvidence(previous, manifest, expected) ELSE "none"
           used == IF strict /\ status # "verified" THEN None ELSE previous
           result == CompareReports(previous, manifest, current, expected)
<1>1. /\ result.document = CompareFindingReports(used, current)
      /\ result.document # Error /\ result.evidence = status
    BY DEF CompareReports, CompareWithPriorEvidence
<1>2. /\ used # None
      /\ result.document = Compared(ExtractStableFindings(used), ExtractStableFindings(current))
    BY <1>1 DEF CompareFindingReports, NoHistory
<1>3. used = previous /\ (strict => status = "verified")
    BY <1>2
<1>4. \A report : DOMAIN ExtractStableFindings(report) = AllIdentities(report)
    BY DEF ExtractStableFindings, AllIdentities
<1>5. result.document = Compared(ExtractStableFindings(previous), ExtractStableFindings(current))
    BY <1>2, <1>3
<1>6. /\ AllIdentities(current) = result.document.new \cup result.document.unchanged
      /\ AllIdentities(previous) = result.document.resolved \cup result.document.unchanged
      /\ result.document.resolved \cap AllIdentities(current) = {}
    <2> HIDE DEF result
    <2> QED
        BY <1>4, <1>5 DEF Compared
<1> QED
    BY <1>1, <1>3, <1>6

\* Where nothing is classified nothing is shown.
LEMMA ShownIsCompared ==
    ASSUME NEW previous, NEW manifest, NEW current, NEW expected
    PROVE  LET result == CompareReports(previous, manifest, current, expected)
           IN result.document # None =>
                 \/ result.document.status = "compared" /\ result.exit = 0
                 \/ result.document.status = "history-unavailable"
BY DEF CompareReports, CompareWithPriorEvidence, CompareFindingReports, NoHistory, Compared

-----------------------------------------------------------------------------
(* What a step changes of a job *)

\* The fields of a job, spelled out for the provers.
LEMMA FieldIs ==
    Field = {"pc", "sound", "head", "sought", "handed", "prior", "compare", "expected",
             "snapshot", "exit", "named", "report", "manifest", "outputs", "comparison",
             "evidence", "compareFailed", "shown", "commented", "projection"}
BY DEF Field, FreshJob

\* So are the steps, and where each goes after a failure.
LEMMA StepsAre ==
    /\ DOMAIN NextStep = {"find", "download", "prepare", "scan", "manifest", "outputs",
                          "compare", "comment", "project", "enforce", "retain"}
    /\ \A step \in InAction : StepAfterFailure[step] = "project"
    /\ StepAfterFailure["find"] = "over" /\ StepAfterFailure["download"] = "over"
    /\ StepAfterFailure["project"] = "retain" /\ StepAfterFailure["enforce"] = "retain"
    /\ StepAfterFailure["retain"] = "over"
BY DEF NextStep, StepAfterFailure, InAction

\* A job that enters a step has the changed fields, and keeps the others.
LEMMA EntersFields ==
    ASSUME StateShape, NEW r \in Run, NEW pc, NEW changes, Enters(r, pc, changes)
    PROVE  /\ job' = [q \in Run |-> job'[q]]
           /\ \A q \in Run : job'[q] = [f \in Field |-> job'[q][f]]
           /\ \A q \in Run \ {r} : job'[q] = job[q]
           /\ job'[r].pc = pc
           /\ \A f \in Field \ {"pc"} :
                 job'[r][f] = IF f \in DOMAIN changes THEN changes[f] ELSE job[r][f]
<1>1. \A q \in Run \ {r} : job'[q] = job[q]
    BY DEF Enters, StateShape
<1>2. DOMAIN job[r] = Field
    BY DEF StateShape
<1>3. job'[r] = [f \in Field |-> IF f = "pc" THEN pc
                                ELSE IF f \in DOMAIN changes THEN changes[f] ELSE job[r][f]]
    BY <1>2 DEF Enters, StateShape
<1>4. job'[r].pc = pc
    BY <1>3, FieldIs
<1>5. job' = [q \in Run |-> job'[q]]
    BY DEF Enters, StateShape
<1>6. \A q \in Run : job'[q] = [f \in Field |-> job'[q][f]]
    BY <1>1, <1>3 DEF StateShape
<1> QED
    BY <1>1, <1>3, <1>4, <1>5, <1>6

\* A job that stops for a failure is not sound.
LEMMA StopsFields ==
    ASSUME StateShape, NEW r \in Run, NEW pc, NEW changes, Enters(r, pc, WithoutSuccess(changes))
    PROVE  /\ job'[r].pc = pc
           /\ job'[r].sound = FALSE
           /\ \A f \in Field \ {"pc", "sound"} :
                 job'[r][f] = IF f \in DOMAIN changes THEN changes[f] ELSE job[r][f]
<1>1. /\ DOMAIN WithoutSuccess(changes) = DOMAIN changes \cup {"sound"}
      /\ WithoutSuccess(changes)["sound"] = FALSE
      /\ \A f \in DOMAIN changes \ {"sound"} : WithoutSuccess(changes)[f] = changes[f]
    BY DEF WithoutSuccess
<1>2. /\ job'[r].pc = pc
      /\ \A f \in Field \ {"pc"} :
            job'[r][f] = IF f \in DOMAIN WithoutSuccess(changes)
                         THEN WithoutSuccess(changes)[f] ELSE job[r][f]
    BY EntersFields
<1>3. job'[r]["sound"] = FALSE
    BY <1>1, <1>2, FieldIs
<1> QED
    BY <1>1, <1>2, <1>3

\* What a failing step may note before the job goes on to what always runs.
Noted == {"outputs", "compareFailed", "shown"}

\* A job that fails keeps the invariant: it has lost its success, and nothing is
\* claimed of it that was not there.
LEMMA FailureHolds ==
    ASSUME StateShape, NEW r \in Run, NEW j, LocalInv(r, j), NEW k,
           k.sound = FALSE, \A f \in Field \ ({"pc", "sound"} \cup Noted) : k[f] = j[f],
           k.pc \in AfterStop,
           j.pc \in AfterProject => k.pc \in AfterProject /\ k.outputs = j.outputs,
           k.compareFailed \in BOOLEAN,
           k.shown = j.shown \/ k.shown = {}
    PROVE  LocalInv(r, k)
<1>1. /\ k.named = j.named /\ k.head = j.head /\ k.prior = j.prior /\ k.compare = j.compare
      /\ k.handed = j.handed /\ k.snapshot = j.snapshot /\ k.expected = j.expected /\ k.exit = j.exit
      /\ k.report = j.report /\ k.manifest = j.manifest /\ k.comparison = j.comparison
      /\ k.evidence = j.evidence /\ k.commented = j.commented /\ k.projection = j.projection
    BY FieldIs DEF Noted
<1>2. k.pc \in {"project", "retain", "over"}
    BY DEF AfterStop, AfterComment, AfterCompare, AfterOutputs, AfterManifest, AfterScan
<1>3. JobType(k)
    BY <1>1, <1>2, StepsAre DEF LocalInv, JobType
<1>4. NotYet(k)
    BY <1>1, <1>2 DEF LocalInv, NotYet, AfterProject, AfterComment, AfterCompare, AfterOutputs,
        AfterManifest, AfterScan
<1>5. PolicyOK(k) /\ EarnedSoFar(k)
    BY <1>1, <1>2 DEF LocalInv, PolicyOK, EarnedSoFar
<1>6. IsAttested(r, k)
    BY <1>1 DEF LocalInv, IsAttested
<1>7. IsCompared(k)
    BY <1>1 DEF LocalInv, IsCompared
<1>8. IsProjected(k)
    BY <1>1 DEF LocalInv, NotYet, IsProjected
<1> QED
    BY <1>3, <1>4, <1>5, <1>6, <1>7, <1>8 DEF LocalInv

\* A job that is stopped keeps the invariant.
LEMMA StopsHolds ==
    ASSUME AttemptsInv, NEW r \in Run, NEW pc, NEW changes,
           StopsFor(r, pc, changes), DOMAIN changes \subseteq Noted,
           pc \in AfterStop,
           job[r].pc \in AfterProject => pc \in AfterProject /\ changes = NoChange,
           "compareFailed" \in DOMAIN changes => changes["compareFailed"] \in BOOLEAN,
           "shown" \in DOMAIN changes => changes["shown"] = {}
    PROVE  LocalInv(r, job'[r])
<1>0. StateShape /\ Enters(r, pc, WithoutSuccess(changes))
    BY DEF StopsFor, AttemptsInv
<1>1. /\ job'[r].pc = pc
      /\ job'[r].sound = FALSE
      /\ \A f \in Field \ {"pc", "sound"} :
            job'[r][f] = IF f \in DOMAIN changes THEN changes[f] ELSE job[r][f]
    BY <1>0, StopsFields
<1>2. LocalInv(r, job[r]) /\ job[r].compareFailed \in BOOLEAN
    BY DEF AttemptsInv, JobsHold, LocalInv, JobType
<1>3. \A f \in Field \ ({"pc", "sound"} \cup Noted) : job'[r][f] = job[r][f]
    BY <1>1
<1>4. /\ job'[r].compareFailed \in BOOLEAN
      /\ job'[r].shown = job[r].shown \/ job'[r].shown = {}
    BY <1>1, <1>2, FieldIs
<1>5. job[r].pc \in AfterProject => job'[r].pc \in AfterProject /\ job'[r].outputs = job[r].outputs
    BY <1>1, FieldIs DEF NoChange
<1> QED
    BY <1>1, <1>2, <1>3, <1>4, <1>5, FailureHolds DEF AttemptsInv

-----------------------------------------------------------------------------
(* Every step of a job keeps what holds of it *)

\* A step that breaks off a job where it is.
LEMMA BreaksOffHolds ==
    ASSUME AttemptsInv, NEW r \in Run, NEW changes, BreaksOff(r, changes),
           job[r].pc \in DOMAIN NextStep, DOMAIN changes \subseteq Noted,
           job[r].pc \in AfterProject => changes = NoChange,
           "compareFailed" \in DOMAIN changes => changes["compareFailed"] \in BOOLEAN,
           "shown" \in DOMAIN changes => changes["shown"] = {}
    PROVE  LocalInv(r, job'[r])
<1>1. /\ StepAfterFailure[job[r].pc] \in AfterStop
      /\ job[r].pc \in AfterProject => StepAfterFailure[job[r].pc] \in AfterProject
    BY StepsAre DEF InAction, AfterStop, AfterProject, AfterComment, AfterCompare,
        AfterOutputs, AfterManifest, AfterScan
<1> QED
    BY <1>1, StopsHolds DEF BreaksOff

\* Where a job was before its scan there is nothing to be true.
LEMMA EarlyHolds ==
    ASSUME NEW r \in Run, NEW j, LocalInv(r, j), NEW k, JobType(k),
           j.pc \in {"idle", "find", "download", "prepare"}, k.pc \in {"find", "download", "prepare", "scan"},
           k.pc = "scan" /\ UsesManifest /\ ~k.handed => k.snapshot = base,
           k.snapshot # None => UsesManifest /\ k.snapshot = base,
           k.exit = j.exit, k.report = j.report, k.manifest = j.manifest,
           k.comparison = j.comparison, k.shown = j.shown, k.projection = j.projection
    PROVE  LocalInv(r, k)
<1>1. /\ k.report = None /\ k.manifest = None /\ k.comparison = None /\ k.shown = {}
      /\ k.projection = None
    BY DEF LocalInv, NotYet, AfterProject, AfterComment, AfterCompare, AfterOutputs,
        AfterManifest, AfterScan
<1>2. k.exit # 0
    BY <1>1 DEF LocalInv, EarnedSoFar
<1> QED
    BY <1>1, <1>2 DEF LocalInv, NotYet, PolicyOK, EarnedSoFar, IsAttested, IsCompared, IsProjected,
        AfterEnforce, AfterProject, AfterComment, AfterCompare, AfterOutputs, AfterManifest, AfterScan

\* A step before the scan changes only what is found and handed over.
LEMMA EarlyEnters ==
    ASSUME AttemptsInv, NEW r \in Run, NEW pc, NEW changes, Enters(r, pc, changes),
           job[r].pc \in {"idle", "find", "download", "prepare"},
           pc \in {"find", "download", "prepare", "scan"},
           DOMAIN changes \subseteq
               {"head", "sought", "handed", "prior", "compare", "expected", "snapshot"},
           "head" \in DOMAIN changes => changes["head"] \in Texts \cup {None},
           "compare" \in DOMAIN changes => changes["compare"] \in BOOLEAN,
           "expected" \in DOMAIN changes =>
               \/ changes["expected"] = NoExpectation
               \/ changes["expected"].repository = Repository /\ changes["expected"].branch = Branch,
           "snapshot" \in DOMAIN changes =>
               changes["snapshot"] = IF UsesManifest THEN base ELSE None,
           pc = "scan" => "handed" \notin DOMAIN changes,
           pc = "scan" /\ UsesManifest /\ ~job[r].handed => "snapshot" \in DOMAIN changes
    PROVE  LocalInv(r, job'[r])
<1> DEFINE j == job[r]
           k == job'[r]
<1>1. /\ k.pc = pc
      /\ \A f \in Field \ {"pc"} : k[f] = IF f \in DOMAIN changes THEN changes[f] ELSE j[f]
    BY EntersFields DEF AttemptsInv
<1>2. LocalInv(r, j)
    BY DEF AttemptsInv, JobsHold
<1> HIDE DEF j, k
<1>3. /\ k.sound = j.sound /\ k.named = j.named /\ k.commented = j.commented
      /\ k.compareFailed = j.compareFailed /\ k.exit = j.exit /\ k.report = j.report
      /\ k.manifest = j.manifest /\ k.comparison = j.comparison /\ k.shown = j.shown
      /\ k.projection = j.projection
    BY <1>1, FieldIs
<1>4. /\ k.head = IF "head" \in DOMAIN changes THEN changes["head"] ELSE j.head
      /\ k.compare = IF "compare" \in DOMAIN changes THEN changes["compare"] ELSE j.compare
      /\ k.expected = IF "expected" \in DOMAIN changes THEN changes["expected"] ELSE j.expected
      /\ k.snapshot = IF "snapshot" \in DOMAIN changes THEN changes["snapshot"] ELSE j.snapshot
      /\ k.handed = IF "handed" \in DOMAIN changes THEN changes["handed"] ELSE j.handed
    BY <1>1, FieldIs
<1>5. JobType(k)
    BY <1>1, <1>2, <1>3, <1>4, StepsAre DEF LocalInv, JobType
<1>6. /\ k.snapshot # None => UsesManifest /\ k.snapshot = base
      /\ k.pc = "scan" /\ UsesManifest /\ ~k.handed => k.snapshot = base
    <2>1. j.snapshot # None => UsesManifest /\ j.snapshot = base
        BY <1>2 DEF LocalInv, PolicyOK
    <2> QED
        BY <1>1, <1>4, <2>1 DEF j
<1> QED
    BY <1>1, <1>2, <1>3, <1>4, <1>5, <1>6, EarlyHolds DEF j, k

\* The push: the head may have any text of the policy.
LEMMA PushesHolds == ASSUME AttemptsInv, NEW r \in Run, Pushes(r) PROVE LocalInv(r, job'[r])
<1>1. PICK text \in Texts \cup {None} : Enters(r, "find", [head |-> text])
    BY DEF Pushes, ProceedsTo
<1>2. job[r].pc = "idle"
    BY DEF Pushes, At
<1> QED
    BY <1>1, <1>2, EarlyEnters

\* The search for the job of the commit before.
LEMMA FindsPriorHolds ==
    ASSUME AttemptsInv, NEW r \in Run, FindsPrior(r) PROVE LocalInv(r, job'[r])
<1>0. job[r].pc = "find"
    BY DEF FindsPrior, At
<1>1. CASE StopsFor(r, "over", NoChange)
    <2>1. "over" \in AfterStop /\ DOMAIN NoChange = {} /\ job[r].pc \notin AfterProject
        BY <1>0 DEF NoChange, AfterStop, AfterProject, AfterComment, AfterCompare, AfterOutputs,
            AfterManifest, AfterScan
    <2> QED
        BY <1>1, <2>1, StopsHolds
<1>2. ASSUME NEW sought, Enters(r, "download", [sought |-> sought]) PROVE LocalInv(r, job'[r])
    BY <1>0, <1>2, EarlyEnters
<1>3. CASE \E sought : Proceeds(r, [sought |-> sought])
    BY <1>0, <1>2, <1>3 DEF Proceeds, ProceedsTo, NextStep
<1> QED
    BY <1>1, <1>3 DEF FindsPrior

\* The download of what it retained.
LEMMA DownloadsPriorHolds ==
    ASSUME AttemptsInv, NEW r \in Run, DownloadsPrior(r) PROVE LocalInv(r, job'[r])
<1> DEFINE sought == IF job[r].sought = None
                     THEN [repository |-> Repository, branch |-> Branch, commit |-> None]
                     ELSE [repository |-> Repository, branch |-> Branch,
                           commit |-> HeadCommit(job[r].sought)]
           prior(taken) == IF taken = None THEN Nothing ELSE taken
           changes(taken) == [prior |-> prior(taken), compare |-> taken # None,
                              expected |-> sought]
<1>1. PICK taken : Proceeds(r, changes(taken))
    BY Zenon DEF DownloadsPrior
<1>2. job[r].pc = "download"
    BY DEF DownloadsPrior, At
<1>3. /\ DOMAIN changes(taken) = {"prior", "compare", "expected"}
      /\ changes(taken)["compare"] \in BOOLEAN /\ changes(taken)["expected"] = sought
      /\ sought.repository = Repository /\ sought.branch = Branch
    OBVIOUS
<1> HIDE DEF sought, changes
<1>4. Enters(r, "prepare", changes(taken))
    BY <1>1, <1>2 DEF Proceeds, ProceedsTo, NextStep
<1> QED
    BY <1>2, <1>3, <1>4, EarlyEnters

\* What a person hands over instead.
LEMMA HandsOverHolds ==
    ASSUME AttemptsInv, NEW r \in Run, HandsOver(r) PROVE LocalInv(r, job'[r])
<1>1. PICK prior, expected :
          /\ Enters(r, "prepare", [handed |-> TRUE, compare |-> TRUE, expected |-> expected,
                                   prior |-> prior])
          /\ \/ expected = NoExpectation
             \/ expected.repository = Repository /\ expected.branch = Branch
    BY DEF HandsOver, ProceedsTo
<1>2. job[r].pc = "find"
    BY DEF HandsOver, At
<1> QED
    BY <1>1, <1>2, EarlyEnters

\* The snapshot of a policy manifest is what the base has.
LEMMA PreparesBaselineHolds ==
    ASSUME AttemptsInv, NEW r \in Run, PreparesBaseline(r) PROVE LocalInv(r, job'[r])
<1>0. job[r].pc = "prepare" /\ job[r].pc \in DOMAIN NextStep /\ job[r].pc \notin AfterProject
      /\ DOMAIN NoChange = {}
    BY StepsAre DEF PreparesBaseline, At, NoChange, AfterProject, AfterComment, AfterCompare,
        AfterOutputs, AfterManifest, AfterScan
<1>1. CASE Proceeds(r, [snapshot |-> Snapshot(r)])
    <2>1. Enters(r, "scan", [snapshot |-> Snapshot(r)])
        BY <1>0, <1>1 DEF Proceeds, ProceedsTo, NextStep
    <2>2. Snapshot(r) = IF UsesManifest THEN base ELSE None
        BY DEF Snapshot
    <2> QED
        BY <1>0, <2>1, <2>2, EarlyEnters
<1>2. CASE job[r].handed /\ Proceeds(r, NoChange)
    <2>1. Enters(r, "scan", NoChange)
        BY <1>0, <1>2 DEF Proceeds, ProceedsTo, NextStep
    <2> QED
        BY <1>0, <1>2, <2>1, EarlyEnters
<1>3. CASE BreaksOff(r, NoChange)
    BY <1>0, <1>3, BreaksOffHolds
<1> QED
    BY <1>1, <1>2, <1>3 DEF PreparesBaseline

\* After a scan there is its report or none; an end with 0 left one, and its evidence
\* is of the base's policy where it should be.
LEMMA ScannedHolds ==
    ASSUME NEW r \in Run, NEW j, LocalInv(r, j), NEW k, j.pc = "scan", k.pc = "manifest",
           \A f \in Field \ {"pc", "exit", "named", "report"} : k[f] = j[f],
           k.named = TRUE, k.exit \in {0, 1}, k.report \in Report \cup {None},
           k.exit = 0 => k.report # None,
           k.report # None => IsGoverned(j.handed, k.report.policyEvidence)
    PROVE  LocalInv(r, k)
<1>1. /\ k.sound = j.sound /\ k.head = j.head /\ k.compare = j.compare
      /\ k.handed = j.handed /\ k.snapshot = j.snapshot /\ k.expected = j.expected /\ k.compareFailed = j.compareFailed
      /\ k.commented = j.commented /\ k.manifest = j.manifest
      /\ k.comparison = j.comparison /\ k.shown = j.shown /\ k.projection = j.projection
    BY FieldIs
<1>2. /\ k.manifest = None /\ k.comparison = None /\ k.shown = {} /\ k.projection = None
    BY <1>1 DEF LocalInv, NotYet, AfterProject, AfterComment, AfterCompare, AfterOutputs,
        AfterManifest, AfterScan
<1>3. JobType(k)
    BY <1>1, StepsAre DEF LocalInv, JobType
<1>4. NotYet(k) /\ PolicyOK(k)
    <2>1. k.snapshot = j.snapshot /\ (j.snapshot # None => UsesManifest /\ j.snapshot = base)
        BY FieldIs DEF LocalInv, PolicyOK
    <2> QED
        BY <1>1, <1>2, <2>1 DEF NotYet, PolicyOK, AfterScan
<1>5. EarnedSoFar(k)
    BY <1>2 DEF EarnedSoFar, AfterEnforce, AfterProject, AfterComment, AfterCompare,
        AfterOutputs, AfterManifest, AfterScan
<1>6. IsAttested(r, k) /\ IsCompared(k) /\ IsProjected(k)
    BY <1>2 DEF IsAttested, IsCompared, IsProjected
<1> QED
    BY <1>3, <1>4, <1>5, <1>6 DEF LocalInv

\* The policy a scan is given is one of the texts, a bundled one or none; its evidence
\* is of the base's where it should be.
LEMMA PolicyIsOfBase ==
    ASSUME AttemptsInv, NEW r \in Run, job[r].pc = "scan", workflow.policy # "both"
    PROVE  /\ EffectivePolicy(r) \in Policies
           /\ PolicyEvidenceOf(r) \in PolicyEvidence
           /\ IsGoverned(job[r].handed, PolicyEvidenceOf(r))
<1>1. /\ workflow.policy \in {"manifest", "starter", "none"}
      /\ workflow.policy = "none" => base = None
      /\ base \in Texts \cup {None}
    BY DEF AttemptsInv, StateShape, Workflow
<1>2. /\ job[r].head \in Texts \cup {None}
      /\ job[r].snapshot # None => UsesManifest /\ job[r].snapshot = base
      /\ UsesManifest /\ ~job[r].handed => job[r].snapshot = base
    BY DEF AttemptsInv, JobsHold, LocalInv, JobType, PolicyOK
<1> DEFINE policy == EffectivePolicy(r)
           evidence == PolicyEvidenceOf(r)
<1>3. /\ policy \in Policies
      /\ workflow.policy # "none" /\ base # None /\ ~job[r].handed => policy \in {base, "bundled"}
      /\ job[r].snapshot # None => policy = base /\ workflow.policy # "none"
      /\ StartersAtBase /\ ~job[r].handed => policy = base /\ workflow.policy # "none"
    <2>1. CASE workflow.policy = "manifest"
        BY <1>1, <1>2, <2>1 DEF EffectivePolicy, UsesManifest, Policies, StartersAtBase
    <2>2. CASE workflow.policy = "starter"
        BY <1>1, <1>2, <2>2 DEF EffectivePolicy, UsesManifest, Policies, StartersAtBase
    <2>3. CASE workflow.policy = "none"
        BY <1>1, <1>2, <2>3 DEF EffectivePolicy, UsesManifest, Policies, StartersAtBase
    <2> QED
        BY <1>1, <2>1, <2>2, <2>3
<1> HIDE DEF policy
<1>4. /\ evidence.sha256 = IF workflow.policy = "none" THEN None ELSE Hash(policy)
      /\ evidence.revision = IF job[r].snapshot # None \/ (StartersAtBase /\ ~job[r].handed)
                             THEN BaseCommit ELSE None
    BY DEF PolicyEvidenceOf, policy
<1>5. evidence \in PolicyEvidence
    BY <1>3 DEF PolicyEvidenceOf, PolicyEvidence, policy
<1> QED
    BY <1>1, <1>2, <1>3, <1>4, <1>5 DEF IsGoverned, policy, evidence

\* The step of the scan: given two policies, given one it may not use, or scanning.
LEMMA ScansHolds == ASSUME AttemptsInv, NEW r \in Run, Scans(r) PROVE LocalInv(r, job'[r])
<1>0. job[r].pc = "scan" /\ LocalInv(r, job[r])
    BY DEF Scans, At, AttemptsInv, JobsHold
<1>1. CASE workflow.policy = "both" /\ BreaksOff(r, NoChange)
    <2>1. job[r].pc \in DOMAIN NextStep /\ job[r].pc \notin AfterProject /\ DOMAIN NoChange = {}
        BY <1>0, StepsAre DEF NoChange, AfterProject, AfterComment, AfterCompare,
            AfterOutputs, AfterManifest, AfterScan
    <2> QED
        BY <1>1, <2>1, BreaksOffHolds
<1>2. CASE workflow.policy # "both" /\ PolicyIsRefused(r)
           /\ Proceeds(r, [exit |-> 1, named |-> TRUE])
    <2> DEFINE changes == [exit |-> 1, named |-> TRUE]
    <2>1. Enters(r, "manifest", changes)
        BY <1>0, <1>2 DEF Proceeds, ProceedsTo, NextStep
    <2>2. DOMAIN changes = {"exit", "named"} /\ changes["exit"] = 1 /\ changes["named"] = TRUE
        OBVIOUS
    <2> HIDE DEF changes
    <2>3. /\ job'[r].pc = "manifest"
          /\ \A f \in Field \ {"pc"} :
                job'[r][f] = IF f \in DOMAIN changes THEN changes[f] ELSE job[r][f]
        BY <2>1, EntersFields DEF AttemptsInv
    <2>4. /\ job'[r].exit = 1 /\ job'[r].named = TRUE /\ job'[r].report = job[r].report
          /\ \A f \in Field \ {"pc", "exit", "named", "report"} : job'[r][f] = job[r][f]
        BY <2>2, <2>3, FieldIs
    <2>5. job[r].report = None
        BY <1>0 DEF LocalInv, NotYet, AfterScan
    <2>6. /\ job'[r].exit \in {0, 1} /\ job'[r].exit # 0
          /\ job'[r].report \in Report \cup {None} /\ job'[r].report = None
        BY <2>4, <2>5
    <2> QED
        BY <1>0, <2>3, <2>4, <2>6, ScannedHolds
<1>3. ASSUME NEW end \in Ends, workflow.policy # "both",
             Proceeds(r, [exit |-> end[1].exit, named |-> TRUE,
                          report |-> IF end[1].wrote THEN ReportOf(end[2], r) ELSE None])
      PROVE  LocalInv(r, job'[r])
    <2> DEFINE report == IF end[1].wrote THEN ReportOf(end[2], r) ELSE None
               changes == [exit |-> end[1].exit, named |-> TRUE, report |-> report]
    <2>1. Enters(r, "manifest", changes)
        BY <1>0, <1>3 DEF Proceeds, ProceedsTo, NextStep
    <2>2. /\ DOMAIN changes = {"exit", "named", "report"} /\ changes["exit"] = end[1].exit
          /\ changes["named"] = TRUE /\ changes["report"] = report
        OBVIOUS
    <2>3. /\ end[1].exit \in {0, 1} /\ end[2] \in DOMAIN Content
          /\ end[1].exit = 0 => end[1].wrote
        <3>1. end[1] \in Contract!Outcomes /\ end[2] \in DOMAIN Content
            BY DEF Ends
        <3>2. \A o \in Contract!Outcomes : o.exit \in {0, 1} /\ (o.exit = 0 => o.wrote = TRUE)
            BY DEF Contract!Outcomes
        <3> QED
            BY <3>1, <3>2
    <2>4. ReportOf(end[2], r) \in Report /\ ReportOf(end[2], r) # None
        <3>1. /\ Packs[EffectivePolicy(r)] \in Configurations
              /\ PolicyEvidenceOf(r) \in PolicyEvidence
            BY <1>0, <1>3, PolicyIsOfBase DEF Configurations
        <3>2. ReportOf(end[2], r) \in Report
            BY <2>3, <3>1 DEF ReportOf, Report
        <3> QED
            BY <3>2, NoneAssumption
    <2>5. /\ report \in Report \cup {None}
          /\ end[1].exit = 0 => report # None
          /\ report # None => IsGoverned(job[r].handed, report.policyEvidence)
        BY <1>0, <1>3, <2>3, <2>4, PolicyIsOfBase DEF ReportOf
    <2> HIDE DEF changes, report
    <2>6. /\ job'[r].pc = "manifest"
          /\ \A f \in Field \ {"pc"} :
                job'[r][f] = IF f \in DOMAIN changes THEN changes[f] ELSE job[r][f]
        BY <2>1, EntersFields DEF AttemptsInv
    <2>7. /\ job'[r].exit = end[1].exit /\ job'[r].named = TRUE /\ job'[r].report = report
          /\ \A f \in Field \ {"pc", "exit", "named", "report"} : job'[r][f] = job[r][f]
        BY <2>2, <2>6, FieldIs
    <2> QED
        BY <1>0, <2>3, <2>5, <2>6, <2>7, ScannedHolds
<1> QED
    BY <1>1, <1>2, <1>3 DEF Scans

\* A step after the scan leaves the report, its exit and what the job was given.
LEMMA LateHolds ==
    ASSUME NEW r \in Run, NEW j, LocalInv(r, j), NEW k,
           k.pc \in AfterManifest,
           k.sound \in BOOLEAN, k.commented \in BOOLEAN,
           k.named = j.named, k.compare = j.compare, k.compareFailed = j.compareFailed,
           k.head = j.head, k.exit = j.exit, k.report = j.report,
           k.handed = j.handed /\ k.snapshot = j.snapshot /\ k.expected = j.expected,
           NotYet(k), EarnedSoFar(k), IsAttested(r, k), IsCompared(k), IsProjected(k)
    PROVE  LocalInv(r, k)
<1>1. k.pc \in DOMAIN NextStep \cup {"over"} /\ k.pc # "scan"
    BY StepsAre DEF AfterManifest, AfterScan
<1>2. JobType(k)
    BY <1>1 DEF LocalInv, JobType
<1>3. PolicyOK(k)
    BY <1>1 DEF LocalInv, PolicyOK
<1> QED
    BY <1>2, <1>3 DEF LocalInv

\* The manifest of a job's report is there and is its own.
LEMMA AttestsHolds == ASSUME AttemptsInv, NEW r \in Run, Attests(r) PROVE LocalInv(r, job'[r])
<1> DEFINE j == job[r]
           k == job'[r]
<1>0. j.pc = "manifest" /\ LocalInv(r, j)
    BY DEF Attests, At, AttemptsInv, JobsHold
<1>1. ASSUME k.pc = "outputs", \A f \in Field \ {"pc", "manifest"} : k[f] = j[f],
             IsAttested(r, k), j.report # None => k.manifest # None
      PROVE  LocalInv(r, k)
    <2> HIDE DEF j, k
    <2>1. /\ k.sound = j.sound /\ k.commented = j.commented /\ k.named = j.named
          /\ k.compare = j.compare /\ k.compareFailed = j.compareFailed /\ k.head = j.head
          /\ k.exit = j.exit /\ k.report = j.report /\ k.handed = j.handed /\ k.snapshot = j.snapshot /\ k.expected = j.expected
          /\ k.comparison = j.comparison /\ k.shown = j.shown /\ k.projection = j.projection
        BY <1>1, FieldIs
    <2>2. k.comparison = None /\ k.shown = {} /\ k.projection = None
        BY <1>0, <2>1 DEF LocalInv, NotYet, AfterProject, AfterComment, AfterCompare,
            AfterOutputs, AfterManifest, AfterScan
    <2>3. NotYet(k)
        BY <1>0, <1>1, <2>1, <2>2 DEF LocalInv, NotYet, AfterManifest, AfterScan
    <2>4. EarnedSoFar(k)
        BY <1>0, <1>1, <2>1 DEF LocalInv, EarnedSoFar, AfterEnforce, AfterProject,
            AfterComment, AfterCompare, AfterOutputs, AfterManifest, AfterScan
    <2>5. IsCompared(k) /\ IsProjected(k)
        BY <2>2 DEF IsCompared, IsProjected
    <2>6. k.pc \in AfterManifest /\ k.sound \in BOOLEAN /\ k.commented \in BOOLEAN
        BY <1>0, <1>1, <2>1 DEF LocalInv, JobType, AfterManifest, AfterScan
    <2> QED
        BY <1>0, <1>1, <2>1, <2>3, <2>4, <2>5, <2>6, LateHolds
<1>2. CASE j.report = None /\ Proceeds(r, NoChange)
    <2>1. Enters(r, "outputs", NoChange) /\ DOMAIN NoChange = {}
        BY <1>0, <1>2 DEF Proceeds, ProceedsTo, NextStep, NoChange
    <2>2. k.pc = "outputs" /\ \A f \in Field \ {"pc"} : k[f] = j[f]
        BY <2>1, EntersFields DEF AttemptsInv
    <2>3. IsAttested(r, k)
        BY <1>0, <2>2, FieldIs DEF LocalInv, IsAttested
    <2> QED
        BY <1>1, <1>2, <2>2, <2>3
<1>3. CASE /\ j.report # None /\ ManifestOf(r, j.handed, j.report) # Error
           /\ Proceeds(r, [manifest |-> ManifestOf(r, j.handed, j.report)])
    <2>1. Enters(r, "outputs", [manifest |-> ManifestOf(r, j.handed, j.report)])
        BY <1>0, <1>3 DEF Proceeds, ProceedsTo, NextStep
    <2>2. /\ k.pc = "outputs" /\ k.manifest = ManifestOf(r, j.handed, j.report)
          /\ \A f \in Field \ {"pc", "manifest"} : k[f] = j[f]
        BY <2>1, EntersFields, FieldIs DEF AttemptsInv
    <2>3. j.report \in Report
        BY <1>0, <1>3 DEF LocalInv, JobType
    <2>4. ManifestOf(r, j.handed, j.report) # None
        <3>1. j.report.config \in Configurations
            BY <2>3 DEF Report
        <3>2. workflow.checkout \in {"merge", "head"}
            BY DEF AttemptsInv, StateShape, Workflow
        <3>3. Tested(r, j.handed) \in {"merge", "head"} \X Run
            BY <3>2 DEF Tested, HeadCommit
        <3>4. [repository |-> Repository, branch |-> Branch, commit |-> Tested(r, j.handed),
               configuration |-> j.report.config] \in ReportEvidence
            BY <3>1, <3>3 DEF ReportEvidence
        <3> QED
            BY <2>3, <3>4, NoneAssumption DEF ManifestOf
    <2>5. k.report = j.report /\ k.handed = j.handed
        BY <2>2, FieldIs
    <2>6. IsAttested(r, k)
        BY <1>3, <2>2, <2>3, <2>5 DEF IsAttested
    <2> QED
        BY <1>1, <2>2, <2>4, <2>6
<1>4. CASE BreaksOff(r, NoChange)
    <2>1. j.pc \in DOMAIN NextStep /\ j.pc \notin AfterProject /\ DOMAIN NoChange = {}
        BY <1>0, StepsAre DEF NoChange, AfterProject, AfterComment, AfterCompare,
            AfterOutputs, AfterManifest, AfterScan
    <2> QED
        BY <1>4, <2>1, BreaksOffHolds
<1> QED
    BY <1>2, <1>3, <1>4 DEF Attests, EvidenceOf, ManifestOf, TestedCommit

\* Outputs that were asked for are produced where there is a report, or the step fails.
LEMMA ProjectsHolds == ASSUME AttemptsInv, NEW r \in Run, Projects(r) PROVE LocalInv(r, job'[r])
<1> DEFINE j == job[r]
           k == job'[r]
<1>0. j.pc = "outputs" /\ LocalInv(r, j)
    BY DEF Projects, At, AttemptsInv, JobsHold
<1>1. ASSUME k.pc = "compare", \A f \in Field \ {"pc", "outputs"} : k[f] = j[f],
             workflow.outputs /\ j.report # None => k.outputs = "produced"
      PROVE  LocalInv(r, k)
    <2> HIDE DEF j, k
    <2>1. /\ k.sound = j.sound /\ k.commented = j.commented /\ k.named = j.named
          /\ k.compare = j.compare /\ k.compareFailed = j.compareFailed /\ k.head = j.head
          /\ k.exit = j.exit /\ k.report = j.report /\ k.handed = j.handed /\ k.snapshot = j.snapshot /\ k.expected = j.expected
          /\ k.manifest = j.manifest
          /\ k.comparison = j.comparison /\ k.shown = j.shown /\ k.projection = j.projection
        BY <1>1, FieldIs
    <2>2. k.comparison = None /\ k.shown = {} /\ k.projection = None
        BY <1>0, <2>1 DEF LocalInv, NotYet, AfterProject, AfterComment, AfterCompare,
            AfterOutputs, AfterManifest, AfterScan
    <2>3. NotYet(k)
        BY <1>0, <1>1, <2>1, <2>2 DEF LocalInv, NotYet, AfterManifest, AfterScan
    <2>4. EarnedSoFar(k)
        BY <1>0, <1>1, <2>1 DEF LocalInv, EarnedSoFar, AfterEnforce, AfterProject,
            AfterComment, AfterCompare, AfterOutputs, AfterManifest, AfterScan
    <2>5. IsAttested(r, k) /\ IsCompared(k) /\ IsProjected(k)
        BY <1>0, <2>1, <2>2 DEF LocalInv, IsAttested, IsCompared, IsProjected
    <2>6. k.pc \in AfterManifest /\ k.sound \in BOOLEAN /\ k.commented \in BOOLEAN
        BY <1>0, <1>1, <2>1 DEF LocalInv, JobType, AfterManifest, AfterScan
    <2> QED
        BY <1>0, <2>1, <2>3, <2>4, <2>5, <2>6, LateHolds
<1>2. CASE (~workflow.outputs \/ j.report = None) /\ Proceeds(r, NoChange)
    <2>1. Enters(r, "compare", NoChange) /\ DOMAIN NoChange = {}
        BY <1>0, <1>2 DEF Proceeds, ProceedsTo, NextStep, NoChange
    <2>2. k.pc = "compare" /\ \A f \in Field \ {"pc"} : k[f] = j[f]
        BY <2>1, EntersFields DEF AttemptsInv
    <2> QED
        BY <1>1, <1>2, <2>2
<1>3. CASE Proceeds(r, [outputs |-> "produced"])
    <2>1. Enters(r, "compare", [outputs |-> "produced"])
        BY <1>0, <1>3 DEF Proceeds, ProceedsTo, NextStep
    <2>2. /\ k.pc = "compare" /\ k.outputs = "produced"
          /\ \A f \in Field \ {"pc", "outputs"} : k[f] = j[f]
        BY <2>1, EntersFields, FieldIs DEF AttemptsInv
    <2> QED
        BY <1>1, <2>2
<1>4. CASE BreaksOff(r, [outputs |-> "failed"])
    <2>1. j.pc \in DOMAIN NextStep /\ j.pc \notin AfterProject
        BY <1>0, StepsAre DEF AfterProject, AfterComment, AfterCompare,
            AfterOutputs, AfterManifest, AfterScan
    <2> QED
        BY <1>4, <2>1, BreaksOffHolds DEF Noted
<1> QED
    BY <1>2, <1>3, <1>4 DEF Projects

\* A comparison that classifies was allowed to, and is exact; one that fails shows
\* nothing.
LEMMA ComparesReportsHolds ==
    ASSUME AttemptsInv, NEW r \in Run, ComparesReports(r) PROVE LocalInv(r, job'[r])
<1> DEFINE j == job[r]
           k == job'[r]
<1>0. j.pc = "compare" /\ LocalInv(r, j)
    BY DEF ComparesReports, At, AttemptsInv, JobsHold
<1>1. ASSUME k.pc = "comment",
             \A f \in Field \ {"pc", "comparison", "evidence", "shown"} : k[f] = j[f],
             IsCompared(k)
      PROVE  LocalInv(r, k)
    <2> HIDE DEF j, k
    <2>1. /\ k.sound = j.sound /\ k.commented = j.commented /\ k.named = j.named
          /\ k.compare = j.compare /\ k.compareFailed = j.compareFailed /\ k.head = j.head
          /\ k.exit = j.exit /\ k.report = j.report /\ k.handed = j.handed /\ k.snapshot = j.snapshot /\ k.expected = j.expected
          /\ k.manifest = j.manifest /\ k.outputs = j.outputs /\ k.projection = j.projection
        BY <1>1, FieldIs
    <2>2. k.projection = None
        BY <1>0, <2>1 DEF LocalInv, NotYet, AfterProject, AfterComment, AfterCompare,
            AfterOutputs, AfterManifest, AfterScan
    <2>3. NotYet(k)
        BY <1>0, <1>1, <2>1, <2>2 DEF LocalInv, NotYet, AfterCompare, AfterOutputs,
            AfterManifest, AfterScan
    <2>4. EarnedSoFar(k)
        BY <1>0, <1>1, <2>1 DEF LocalInv, EarnedSoFar, AfterEnforce, AfterProject,
            AfterComment, AfterCompare, AfterOutputs, AfterManifest, AfterScan
    <2>5. IsAttested(r, k) /\ IsProjected(k)
        BY <1>0, <2>1, <2>2 DEF LocalInv, IsAttested, IsProjected
    <2>6. k.pc \in AfterManifest /\ k.sound \in BOOLEAN /\ k.commented \in BOOLEAN
        BY <1>0, <1>1, <2>1 DEF LocalInv, JobType, AfterManifest, AfterScan
    <2> QED
        BY <1>0, <1>1, <2>1, <2>3, <2>4, <2>5, <2>6, LateHolds
<1>2. CASE Proceeds(r, NoChange)
    <2>1. Enters(r, "comment", NoChange) /\ DOMAIN NoChange = {}
        BY <1>0, <1>2 DEF Proceeds, ProceedsTo, NextStep, NoChange
    <2>2. k.pc = "comment" /\ \A f \in Field \ {"pc"} : k[f] = j[f]
        BY <2>1, EntersFields DEF AttemptsInv
    <2>3. IsCompared(k)
        BY <1>0, <2>2, FieldIs DEF LocalInv, IsCompared
    <2> QED
        BY <1>1, <2>2, <2>3
<1> DEFINE result == Comparison(r)
           document == Comparison(r).document
<1>3. CASE Proceeds(r, [comparison |-> document, evidence |-> result.evidence,
                        shown |-> ShownOf(r)])
    <2> DEFINE changes == [comparison |-> document, evidence |-> result.evidence,
                           shown |-> ShownOf(r)]
    <2>1. Enters(r, "comment", changes)
        BY <1>0, <1>3 DEF Proceeds, ProceedsTo, NextStep
    <2>2. /\ DOMAIN changes = {"comparison", "evidence", "shown"}
          /\ changes["comparison"] = document /\ changes["evidence"] = result.evidence
          /\ changes["shown"] = ShownOf(r)
        OBVIOUS
    <2> HIDE DEF changes, document, result
    <2>3. /\ k.pc = "comment"
          /\ \A f \in Field \ {"pc"} : k[f] = IF f \in DOMAIN changes THEN changes[f] ELSE j[f]
        BY <2>1, EntersFields DEF AttemptsInv
    <2>4. /\ k.comparison = document /\ k.evidence = result.evidence /\ k.shown = ShownOf(r)
          /\ \A f \in Field \ {"pc", "comparison", "evidence", "shown"} : k[f] = j[f]
        BY <2>2, <2>3, FieldIs
    <2>5. k.report = j.report /\ k.prior = j.prior /\ k.handed = j.handed /\ k.snapshot = j.snapshot /\ k.expected = j.expected
        BY <2>4, FieldIs
    <2>6. k.shown # {} => document # None /\ document.status = "compared"
        <3>1. ShownOf(r) # {} => document # None /\ document.status # "history-unavailable"
            BY DEF ShownOf, FormatFindingComparisonMarkdown, document
        <3>2. document # None =>
                  document.status = "compared" \/ document.status = "history-unavailable"
            BY ShownIsCompared DEF Comparison, document
        <3> HIDE DEF k
        <3> QED
            BY <2>4, <3>1, <3>2
    <2>7. ASSUME document # None, document.status = "compared"
          PROVE  /\ \/ j.prior.manifest # None \/ j.expected.repository # None
                    \/ j.expected.branch # None \/ j.expected.commit # None
                    => /\ result.evidence = "verified"
                       /\ SelectPriorEvidence(j.prior.report, j.prior.manifest, j.expected)
                              = "verified"
                 /\ AllIdentities(j.report) = document.new \cup document.unchanged
                 /\ AllIdentities(j.prior.report) = document.resolved \cup document.unchanged
                 /\ document.resolved \cap AllIdentities(j.report) = {}
        BY <2>7, ComparedIsExact DEF Comparison, document, result
    <2>8. \/ j.expected = NoExpectation
          \/ j.expected.repository = Repository /\ j.expected.branch = Branch
        BY <1>0 DEF LocalInv, JobType
    <2>9. Repository # None /\ Branch # None
        BY NoneAssumption
    <2>10. NoExpectation.repository = None /\ NoExpectation.commit = None
        BY DEF NoExpectation
    <2>11. ASSUME document # None, document.status = "compared"
           PROVE  /\ j.prior.manifest # None \/ j.expected # NoExpectation
                         => result.evidence = "verified"
                  /\ j.expected.commit # None =>
                       /\ j.prior.manifest # None
                       /\ ValidateArtifactManifest(j.prior.manifest, j.prior.report) = {}
                       /\ j.prior.manifest.evidence.repository = Repository
                       /\ j.prior.manifest.evidence.branch = Branch
                       /\ j.prior.manifest.evidence.commit = j.expected.commit
        <3> HIDE DEF j
        <3>1. j.prior.manifest # None \/ j.expected # NoExpectation => result.evidence = "verified"
            BY <2>7, <2>8, <2>9, <2>11
        <3>2. CASE j.expected.commit # None
            <4>1. SelectPriorEvidence(j.prior.report, j.prior.manifest, j.expected) = "verified"
                BY <2>7, <2>11, <3>2
            <4>2. j.expected.repository = Repository /\ j.expected.branch = Branch
                BY <2>8, <2>10, <3>2
            <4> QED
                BY <2>9, <3>1, <3>2, <4>1, <4>2, VerifiedIsExpected
        <3> QED
            BY <3>1, <3>2
    <2>12. IsCompared(k)
        <3> HIDE DEF j, k
        <3> QED
            BY <2>4, <2>5, <2>6, <2>7, <2>11 DEF IsCompared
    <2> QED
        BY <1>1, <2>3, <2>4, <2>12
<1>4. CASE result.exit = 1 /\ BreaksOff(r, [compareFailed |-> TRUE, shown |-> ShownOf(r)])
    <2>1. j.pc \in DOMAIN NextStep /\ j.pc \notin AfterProject
        BY <1>0, StepsAre DEF AfterProject, AfterComment, AfterCompare,
            AfterOutputs, AfterManifest, AfterScan
    <2>2. document # None => document.status = "history-unavailable"
        BY <1>4, ShownIsCompared DEF Comparison
    <2>3. ShownOf(r) = {}
        BY <2>2 DEF ShownOf, FormatFindingComparisonMarkdown
    <2> QED
        BY <1>4, <2>1, <2>3, BreaksOffHolds DEF Noted
<1> QED
    BY <1>2, <1>3, <1>4 DEF ComparesReports

\* Only the end of a comment that was made notes one, and the step goes on either way.
LEMMA CommentsOnPullHolds ==
    ASSUME AttemptsInv, NEW r \in Run, CommentsOnPull(r) PROVE LocalInv(r, job'[r])
<1> DEFINE j == job[r]
           k == job'[r]
<1>0. j.pc = "comment" /\ LocalInv(r, j)
    BY DEF CommentsOnPull, At, AttemptsInv, JobsHold
<1>1. ASSUME k.pc = "project", \A f \in Field \ {"pc", "commented"} : k[f] = j[f],
             k.commented \in BOOLEAN
      PROVE  LocalInv(r, k)
    <2> HIDE DEF j, k
    <2>1. /\ k.sound = j.sound /\ k.named = j.named /\ k.prior = j.prior
          /\ k.compare = j.compare /\ k.compareFailed = j.compareFailed /\ k.head = j.head
          /\ k.exit = j.exit /\ k.report = j.report /\ k.handed = j.handed /\ k.snapshot = j.snapshot /\ k.expected = j.expected
          /\ k.manifest = j.manifest /\ k.outputs = j.outputs /\ k.comparison = j.comparison
          /\ k.evidence = j.evidence /\ k.shown = j.shown /\ k.projection = j.projection
        BY <1>1, FieldIs
    <2>2. k.projection = None
        BY <1>0, <2>1 DEF LocalInv, NotYet, AfterProject, AfterComment, AfterCompare,
            AfterOutputs, AfterManifest, AfterScan
    <2>3. NotYet(k)
        BY <1>0, <1>1, <2>1, <2>2 DEF LocalInv, NotYet, AfterCompare, AfterOutputs,
            AfterManifest, AfterScan
    <2>4. EarnedSoFar(k)
        BY <1>0, <1>1, <2>1 DEF LocalInv, EarnedSoFar, AfterEnforce, AfterProject,
            AfterComment, AfterCompare, AfterOutputs, AfterManifest, AfterScan
    <2>5. IsAttested(r, k) /\ IsCompared(k) /\ IsProjected(k)
        BY <1>0, <2>1, <2>2 DEF LocalInv, IsAttested, IsCompared, IsProjected
    <2>6. k.pc \in AfterManifest /\ k.sound \in BOOLEAN
        BY <1>0, <1>1, <2>1 DEF LocalInv, JobType, AfterManifest, AfterScan
    <2> QED
        BY <1>0, <1>1, <2>1, <2>3, <2>4, <2>5, <2>6, LateHolds
<1>2. CASE Proceeds(r, NoChange)
    <2>1. Enters(r, "project", NoChange) /\ DOMAIN NoChange = {}
        BY <1>0, <1>2 DEF Proceeds, ProceedsTo, NextStep, NoChange
    <2>2. k.pc = "project" /\ \A f \in Field \ {"pc"} : k[f] = j[f]
        BY <2>1, EntersFields DEF AttemptsInv
    <2>3. k.commented \in BOOLEAN
        BY <1>0, <2>2, FieldIs DEF LocalInv, JobType
    <2> QED
        BY <1>1, <2>2, <2>3
<1>3. CASE UNCHANGED job
    BY <1>0, <1>3
<1>5. CASE Enters(r, "project", NoChange)
    <2>1. DOMAIN NoChange = {}
        BY DEF NoChange
    <2>2. k.pc = "project" /\ \A f \in Field \ {"pc"} : k[f] = j[f]
        BY <1>5, <2>1, EntersFields DEF AttemptsInv
    <2>3. k.commented \in BOOLEAN
        BY <1>0, <2>2, FieldIs DEF LocalInv, JobType
    <2> QED
        BY <1>1, <2>2, <2>3
<1>4. CASE Proceeds(r, [commented |-> run[r].pc = "done"])
    <2> DEFINE changes == [commented |-> run[r].pc = "done"]
    <2>1. Enters(r, "project", changes)
        BY <1>0, <1>4 DEF Proceeds, ProceedsTo, NextStep
    <2>2. DOMAIN changes = {"commented"} /\ changes["commented"] \in BOOLEAN
        OBVIOUS
    <2> HIDE DEF changes
    <2>3. /\ k.pc = "project" /\ k.commented = changes["commented"]
          /\ \A f \in Field \ {"pc", "commented"} : k[f] = j[f]
        BY <2>1, <2>2, EntersFields, FieldIs DEF AttemptsInv
    <2> QED
        BY <1>1, <2>2, <2>3
<1> QED
    BY <1>2, <1>3, <1>4, <1>5 DEF CommentsOnPull

\* A channel says what was found of it.
LEMMA RequestedIs ==
    ASSUME NEW requested \in BOOLEAN, NEW failed \in BOOLEAN, NEW available \in BOOLEAN
    PROVE  /\ Requested(requested, failed, available) \in Channel
           /\ Requested(requested, failed, available) = "produced" => requested /\ available
           /\ Requested(requested, failed, available) \in {"skipped", "produced"} /\ requested
                  => available
<1>1. CASE ~requested
    BY <1>1 DEF Requested, Channel
<1>2. CASE requested /\ failed
    BY <1>2 DEF Requested, Channel
<1>3. CASE requested /\ ~failed /\ available
    BY <1>3 DEF Requested, Channel
<1>4. CASE requested /\ ~failed /\ ~available
    BY <1>4 DEF Requested, Channel
<1> QED
    BY <1>1, <1>2, <1>3, <1>4

\* The whole is complete only where no channel failed or has nothing.
LEMMA StatusIs ==
    ASSUME NEW channels
    PROVE  /\ StatusOf(channels) \in {"incomplete", "failed", "degraded", "complete"}
           /\ StatusOf(channels) = "complete" =>
                  \A c \in DOMAIN channels :
                      channels[c] \notin {"incomplete", "failed", "unavailable"}
<1> DEFINE statuses == {channels[c] : c \in DOMAIN channels}
<1>1. CASE "incomplete" \in statuses
    BY <1>1 DEF StatusOf
<1>2. CASE "incomplete" \notin statuses /\ "failed" \in statuses
    BY <1>2 DEF StatusOf
<1>3. CASE statuses \cap {"incomplete", "failed"} = {} /\ "unavailable" \in statuses
    BY <1>3 DEF StatusOf
<1>4. CASE statuses \cap {"incomplete", "failed", "unavailable"} = {}
    BY <1>4 DEF StatusOf
<1> QED
    BY <1>1, <1>2, <1>3, <1>4

\* What the projection says of a job, and of nothing else.
LEMMA ProjectionSays ==
    ASSUME NEW r \in Run, LocalInv(r, job[r]), workflow \in Workflow
    PROVE  LET p == CreateReviewProjection(ProjectionInput(r)) IN
           /\ p \in Projection
           /\ p.status = "complete" =>
                  /\ job[r].report # None /\ job[r].manifest # None
                  /\ workflow.outputs => job[r].outputs = "produced"
                  /\ job[r].compare => job[r].comparison # None
                  /\ workflow.comment /\ ~job[r].handed => job[r].commented
           /\ p.threshold = "passed" <=> job[r].exit \in {None, 0}
           /\ p.channels.comment = "produced" => job[r].commented
<1> DEFINE in == ProjectionInput(r)
           outputs == Requested(in.outputs.requested, in.outputs.failed, in.outputs.available)
           comparison == Requested(in.comparison.requested, in.comparison.failed,
                                   in.comparison.available)
           comment == Requested(in.comment.requested /\ in.comment.eligible, FALSE,
                                in.comment.available)
           channels == [report |-> IF in.report THEN "produced" ELSE "failed",
                        manifest |-> IF in.manifest THEN "produced" ELSE "unavailable",
                        outputs |-> outputs, comparison |-> comparison, comment |-> comment,
                        threshold |-> "produced"]
           threshold == IF in.exit \in {None, 0} THEN "passed" ELSE "failed"
           p == CreateReviewProjection(in)
<1>1. p = [status |-> StatusOf(channels), channels |-> channels, threshold |-> threshold]
    BY DEF CreateReviewProjection
<1>2. /\ workflow.outputs \in BOOLEAN /\ workflow.comment \in BOOLEAN
      /\ job[r].compare \in BOOLEAN /\ job[r].compareFailed \in BOOLEAN
      /\ job[r].commented \in BOOLEAN
    BY DEF Workflow, LocalInv, JobType
<1>3. /\ in.outputs.requested = workflow.outputs /\ in.outputs.failed \in BOOLEAN
      /\ in.outputs.available \in BOOLEAN
      /\ in.outputs.available => job[r].outputs = "produced"
      /\ in.comparison.requested = job[r].compare
      /\ in.comparison.failed = job[r].compareFailed
      /\ in.comparison.available \in BOOLEAN
      /\ in.comparison.available => job[r].comparison # None
      /\ in.comment.requested = workflow.comment /\ in.comment.available = job[r].commented
      /\ in.comment.eligible = ~job[r].handed
      /\ in.report => job[r].report # None
      /\ in.manifest => job[r].manifest # None
      /\ in.exit = job[r].exit
    BY DEF ProjectionInput, CommentEligible
<1>4. /\ outputs \in Channel /\ comparison \in Channel /\ comment \in Channel
      /\ outputs \in {"skipped", "produced"} /\ workflow.outputs => job[r].outputs = "produced"
      /\ comparison \in {"skipped", "produced"} /\ job[r].compare => job[r].comparison # None
      /\ comment \in {"skipped", "produced"} /\ workflow.comment /\ ~job[r].handed => job[r].commented
      /\ comment = "produced" => job[r].commented
    <2> HIDE DEF in
    <2> QED
        BY <1>2, <1>3, RequestedIs
<1> HIDE DEF in, outputs, comparison, comment
<1>5. /\ DOMAIN channels = {"report", "manifest", "outputs", "comparison", "comment", "threshold"}
      /\ channels.report = (IF in.report THEN "produced" ELSE "failed")
      /\ channels.manifest = (IF in.manifest THEN "produced" ELSE "unavailable")
      /\ channels.outputs = outputs /\ channels.comparison = comparison
      /\ channels.comment = comment
    OBVIOUS
<1>6. channels \in [report: Channel, manifest: Channel, outputs: Channel,
                    comparison: Channel, comment: Channel, threshold: Channel]
    BY <1>4 DEF Channel
<1> HIDE DEF channels
<1>7. p \in Projection
    BY <1>1, <1>6, StatusIs DEF Projection
<1>8. ASSUME p.status = "complete"
      PROVE  /\ job[r].report # None /\ job[r].manifest # None
             /\ workflow.outputs => job[r].outputs = "produced"
             /\ job[r].compare => job[r].comparison # None
             /\ workflow.comment /\ ~job[r].handed => job[r].commented
    <2>1. \A c \in DOMAIN channels : channels[c] \notin {"incomplete", "failed", "unavailable"}
        BY <1>1, <1>8, StatusIs
    <2>2. in.report /\ in.manifest
        BY <1>5, <2>1
    <2>3. /\ outputs \in {"skipped", "produced"} /\ comparison \in {"skipped", "produced"}
          /\ comment \in {"skipped", "produced"}
        BY <1>4, <1>5, <2>1 DEF Channel
    <2> QED
        BY <1>3, <1>4, <2>2, <2>3
<1>9. /\ p.threshold = "passed" <=> job[r].exit \in {None, 0}
      /\ p.channels.comment = "produced" => job[r].commented
    BY <1>1, <1>3, <1>4, <1>5
<1> QED
    BY <1>7, <1>8, <1>9 DEF in, p

\* The projection is of the job as it is.
LEMMA RecordsProjectionHolds ==
    ASSUME AttemptsInv, NEW r \in Run, RecordsProjection(r) PROVE LocalInv(r, job'[r])
<1> DEFINE j == job[r]
           k == job'[r]
           projection == CreateReviewProjection(ProjectionInput(r))
           pc == IF j.sound THEN "enforce" ELSE "retain"
<1>0. j.pc = "project" /\ LocalInv(r, j) /\ workflow \in Workflow
    BY DEF RecordsProjection, At, AttemptsInv, JobsHold, StateShape
<1>1. CASE ProceedsTo(r, pc, [projection |-> projection])
    <2>1. Enters(r, pc, [projection |-> projection])
        BY <1>1 DEF ProceedsTo
    <2> HIDE DEF projection
    <2>2. /\ k.pc = pc /\ k.projection = projection
          /\ \A f \in Field \ {"pc", "projection"} : k[f] = j[f]
        BY <2>1, EntersFields, FieldIs DEF AttemptsInv
    <2>3. /\ projection \in Projection
          /\ projection.status = "complete" =>
                 /\ j.report # None /\ j.manifest # None
                 /\ workflow.outputs => j.outputs = "produced"
                 /\ j.compare => j.comparison # None
                 /\ workflow.comment /\ ~j.handed => j.commented
          /\ projection.threshold = "passed" <=> j.exit \in {None, 0}
          /\ projection.channels.comment = "produced" => j.commented
        BY <1>0, ProjectionSays DEF projection
    <2> HIDE DEF j, k
    <2>4. /\ k.sound = j.sound /\ k.named = j.named /\ k.prior = j.prior
          /\ k.compare = j.compare /\ k.compareFailed = j.compareFailed /\ k.head = j.head
          /\ k.exit = j.exit /\ k.report = j.report /\ k.handed = j.handed /\ k.snapshot = j.snapshot /\ k.expected = j.expected
          /\ k.manifest = j.manifest /\ k.outputs = j.outputs /\ k.comparison = j.comparison
          /\ k.evidence = j.evidence /\ k.shown = j.shown /\ k.commented = j.commented
        BY <2>2, FieldIs
    <2>5. k.pc \in {"enforce", "retain"} /\ (k.sound <=> k.pc = "enforce")
        BY <2>2, <2>4, <1>0 DEF LocalInv, JobType
    <2>6. k.projection # None
        BY <2>2, <2>3, NoneAssumption
    <2>7. NotYet(k)
        BY <1>0, <2>4, <2>5 DEF LocalInv, NotYet, AfterProject, AfterComment, AfterCompare,
            AfterOutputs, AfterManifest, AfterScan
    <2>8. EarnedSoFar(k)
        BY <1>0, <2>4, <2>5, <2>6 DEF LocalInv, EarnedSoFar, AfterEnforce, AfterProject,
            AfterComment, AfterCompare, AfterOutputs, AfterManifest, AfterScan
    <2>9. IsAttested(r, k) /\ IsCompared(k)
        BY <1>0, <2>4 DEF LocalInv, IsAttested, IsCompared
    <2>10. IsProjected(k)
        BY <1>0, <2>2, <2>3, <2>4, ConstantsAssumption DEF LocalInv, NotYet, IsProjected
    <2>11. k.pc \in AfterManifest /\ k.sound \in BOOLEAN /\ k.commented \in BOOLEAN
        BY <1>0, <2>4, <2>5 DEF LocalInv, JobType, AfterManifest, AfterScan
    <2>12. LocalInv(r, k)
        BY <1>0, <2>4, <2>7, <2>8, <2>9, <2>10, <2>11, LateHolds
    <2> QED
        BY <2>12 DEF k
<1>2. CASE BreaksOff(r, NoChange)
    <2>1. j.pc \in DOMAIN NextStep /\ j.pc \notin AfterProject /\ DOMAIN NoChange = {}
        BY <1>0, StepsAre DEF NoChange, AfterProject, AfterComment, AfterCompare,
            AfterOutputs, AfterManifest, AfterScan
    <2> QED
        BY <1>2, <2>1, BreaksOffHolds
<1> QED
    BY <1>1, <1>2 DEF RecordsProjection

\* A job stays sound past the threshold only where the scan ended with 0.
LEMMA EnforcesHolds == ASSUME AttemptsInv, NEW r \in Run, Enforces(r) PROVE LocalInv(r, job'[r])
<1> DEFINE j == job[r]
           k == job'[r]
           changes == [sound |-> j.exit = 0]
<1>0. j.pc = "enforce" /\ LocalInv(r, j)
    BY DEF Enforces, At, AttemptsInv, JobsHold
<1>1. Enters(r, "retain", changes)
    BY <1>0 DEF Enforces, Proceeds, ProceedsTo, NextStep
<1>2. DOMAIN changes = {"sound"} /\ changes["sound"] = (j.exit = 0)
    OBVIOUS
<1> HIDE DEF changes
<1>3. /\ k.pc = "retain" /\ k.sound = (j.exit = 0)
      /\ \A f \in Field \ {"pc", "sound"} : k[f] = j[f]
    BY <1>1, <1>2, EntersFields, FieldIs DEF AttemptsInv
<1>4. LocalInv(r, k)
    <2> HIDE DEF j, k
    <2>1. /\ k.named = j.named /\ k.prior = j.prior
          /\ k.compare = j.compare /\ k.compareFailed = j.compareFailed /\ k.head = j.head
          /\ k.exit = j.exit /\ k.report = j.report /\ k.handed = j.handed /\ k.snapshot = j.snapshot /\ k.expected = j.expected
          /\ k.manifest = j.manifest /\ k.outputs = j.outputs /\ k.comparison = j.comparison
          /\ k.evidence = j.evidence /\ k.shown = j.shown /\ k.commented = j.commented
          /\ k.projection = j.projection
        BY <1>3, FieldIs
    <2>2. NotYet(k)
        BY <1>0, <1>3, <2>1 DEF LocalInv, NotYet, AfterProject, AfterComment, AfterCompare,
            AfterOutputs, AfterManifest, AfterScan
    <2>3. k.sound => k.exit = 0
        BY <1>3, <2>1
    <2>4. EarnedSoFar(k)
        <3>1. j.sound
            BY <1>0 DEF LocalInv, EarnedSoFar
        <3>2. j.exit = 0 => j.report # None
            BY <1>0 DEF LocalInv, EarnedSoFar
        <3>3. /\ j.report # None => j.manifest # None
              /\ j.report # None /\ workflow.outputs => j.outputs = "produced"
            BY <1>0, <3>1 DEF LocalInv, EarnedSoFar, AfterOutputs, AfterManifest, AfterScan
        <3>4. j.projection # None
            BY <1>0, <3>1 DEF LocalInv, EarnedSoFar, AfterProject, AfterComment,
                AfterCompare, AfterOutputs, AfterManifest, AfterScan
        <3> QED
            BY <1>3, <2>1, <2>3, <3>1, <3>2, <3>3, <3>4 DEF EarnedSoFar
    <2>5. IsAttested(r, k) /\ IsCompared(k)
        BY <1>0, <2>1 DEF LocalInv, IsAttested, IsCompared
    <2>6. IsProjected(k)
        BY <1>0, <2>1 DEF LocalInv, IsProjected
    <2>7. k.pc \in AfterManifest /\ k.commented \in BOOLEAN /\ k.sound \in BOOLEAN
        BY <1>0, <1>3, <2>1 DEF LocalInv, JobType, AfterManifest, AfterScan
    <2> QED
        BY <1>0, <2>1, <2>2, <2>4, <2>5, <2>6, <2>7, LateHolds
<1> QED
    BY <1>4

\* A job that is over is no more sound than it was.
LEMMA RetainsHolds == ASSUME AttemptsInv, NEW r \in Run, Retains(r) PROVE LocalInv(r, job'[r])
<1> DEFINE j == job[r]
           k == job'[r]
<1>0. j.pc = "retain" /\ LocalInv(r, j)
    BY DEF Retains, At, AttemptsInv, JobsHold
<1>1. ASSUME k.pc = "over", \A f \in Field \ {"pc", "sound"} : k[f] = j[f],
             k.sound \in BOOLEAN, k.sound => j.sound
      PROVE  LocalInv(r, k)
    <2> HIDE DEF j, k
    <2>1. /\ k.named = j.named /\ k.prior = j.prior
          /\ k.compare = j.compare /\ k.compareFailed = j.compareFailed /\ k.head = j.head
          /\ k.exit = j.exit /\ k.report = j.report /\ k.handed = j.handed /\ k.snapshot = j.snapshot /\ k.expected = j.expected
          /\ k.manifest = j.manifest /\ k.outputs = j.outputs /\ k.comparison = j.comparison
          /\ k.evidence = j.evidence /\ k.shown = j.shown /\ k.commented = j.commented
          /\ k.projection = j.projection
        BY <1>1, FieldIs
    <2>2. NotYet(k)
        BY <1>0, <1>1, <2>1 DEF LocalInv, NotYet, AfterProject, AfterComment, AfterCompare,
            AfterOutputs, AfterManifest, AfterScan
    <2>3. EarnedSoFar(k)
        BY <1>0, <1>1, <2>1 DEF LocalInv, EarnedSoFar, AfterEnforce, AfterProject,
            AfterComment, AfterCompare, AfterOutputs, AfterManifest, AfterScan
    <2>4. IsAttested(r, k) /\ IsCompared(k)
        BY <1>0, <2>1 DEF LocalInv, IsAttested, IsCompared
    <2>5. IsProjected(k)
        BY <1>0, <2>1 DEF LocalInv, IsProjected
    <2>6. k.pc \in AfterManifest /\ k.commented \in BOOLEAN
        BY <1>0, <1>1, <2>1 DEF LocalInv, JobType, AfterManifest, AfterScan
    <2> QED
        BY <1>0, <1>1, <2>1, <2>2, <2>3, <2>4, <2>5, <2>6, LateHolds
<1>2. CASE Enters(r, "over", NoChange)
    <2>1. DOMAIN NoChange = {}
        BY DEF NoChange
    <2>2. k.pc = "over" /\ \A f \in Field \ {"pc"} : k[f] = j[f]
        BY <1>2, <2>1, EntersFields DEF AttemptsInv
    <2>3. k.sound = j.sound /\ j.sound \in BOOLEAN
        BY <1>0, <2>2, FieldIs DEF LocalInv, JobType
    <2> QED
        BY <1>1, <2>2, <2>3
<1>3. CASE Proceeds(r, [sound |-> j.sound /\ ~j.handed])
    <2> DEFINE changes == [sound |-> j.sound /\ ~j.handed]
    <2>1. Enters(r, "over", changes)
        BY <1>0, <1>3 DEF Proceeds, ProceedsTo, NextStep
    <2>2. /\ DOMAIN changes = {"sound"} /\ changes["sound"] \in BOOLEAN
          /\ changes["sound"] => j.sound
        OBVIOUS
    <2> HIDE DEF changes
    <2>3. /\ k.pc = "over" /\ k.sound = changes["sound"]
          /\ \A f \in Field \ {"pc", "sound"} : k[f] = j[f]
        BY <2>1, <2>2, EntersFields, FieldIs DEF AttemptsInv
    <2> QED
        BY <1>1, <2>2, <2>3
<1>4. CASE BreaksOff(r, NoChange)
    <2>1. j.pc \in DOMAIN NextStep /\ DOMAIN NoChange = {}
        BY <1>0, StepsAre DEF NoChange
    <2> QED
        BY <1>4, <2>1, BreaksOffHolds
<1> QED
    BY <1>2, <1>3, <1>4 DEF Retains

\* A job that is cancelled, or whose runner is lost.
LEMMA InterruptedHolds ==
    ASSUME AttemptsInv, NEW r \in Run, Cancelled(r) \/ Lost(r)
    PROVE  LocalInv(r, job'[r])
<1>1. DOMAIN NoChange = {}
    BY DEF NoChange
<1>2. CASE Cancelled(r)
    <2>1. BreaksOff(r, NoChange) /\ job[r].pc \in DOMAIN NextStep
        BY <1>2, StepsAre DEF Cancelled, InAction
    <2> QED
        BY <1>1, <2>1, BreaksOffHolds
<1>3. CASE Lost(r)
    <2>1. StopsFor(r, "over", NoChange) /\ "over" \in AfterProject
          /\ "over" \in AfterStop
        BY <1>3 DEF Lost, AfterStop, AfterProject, AfterComment, AfterCompare, AfterOutputs,
            AfterManifest, AfterScan
    <2> QED
        BY <1>1, <2>1, StopsHolds
<1> QED
    BY <1>2, <1>3

Acts(r) == Pushes(r) \/ Step(r) \/ Cancelled(r) \/ Lost(r)

\* What holds of a job in the old workflow holds in the new one, which is the same.
LEMMA HoldsStill ==
    ASSUME NEW r \in Run, LocalInv(r, job'[r]), UNCHANGED <<workflow, base>>
    PROVE  LocalInv(r, job[r])'
<1>1. JobType(job[r])' /\ NotYet(job[r])'
    BY DEF LocalInv, JobType, NotYet
<1>2. PolicyOK(job[r])'
    BY DEF LocalInv, PolicyOK, UsesManifest, IsGoverned
<1>3. EarnedSoFar(job[r])'
    BY DEF LocalInv, EarnedSoFar
<1>4. IsAttested(r, job[r])'
    BY DEF LocalInv, IsAttested, ManifestOf, Tested
<1>5. IsCompared(job[r])'
    BY DEF LocalInv, IsCompared
<1>6. IsProjected(job[r])'
    BY DEF LocalInv, IsProjected
<1> QED
    BY <1>1, <1>2, <1>3, <1>4, <1>5, <1>6 DEF LocalInv

\* The job that acts keeps what holds of it.
LEMMA ActsHolds == ASSUME AttemptsInv, NEW r \in Run, Acts(r) PROVE LocalInv(r, job'[r])
BY PushesHolds, FindsPriorHolds, DownloadsPriorHolds, HandsOverHolds, PreparesBaselineHolds,
   ScansHolds, AttestsHolds, ProjectsHolds, ComparesReportsHolds, CommentsOnPullHolds,
   RecordsProjectionHolds, EnforcesHolds, RetainsHolds, InterruptedHolds DEF Acts, Step

-----------------------------------------------------------------------------
(* What a step leaves alone *)

\* Only the job that acts changes, and it was not over.
LEMMA ActsAlone ==
    ASSUME AttemptsInv, NEW r \in Run, Acts(r)
    PROVE  /\ job[r].pc # "over"
           /\ UNCHANGED job \/ \E pc, changes : Enters(r, pc, changes)
<1>1. CASE Pushes(r)
    BY <1>1 DEF Pushes, At, ProceedsTo
<1>2. CASE FindsPrior(r)
    BY <1>2 DEF FindsPrior, At, Proceeds, ProceedsTo, StopsFor
<1>3. CASE DownloadsPrior(r)
    BY <1>3, Zenon DEF DownloadsPrior, At, Proceeds, ProceedsTo
<1>4. CASE HandsOver(r)
    BY <1>4, Zenon DEF HandsOver, At, ProceedsTo
<1>5. CASE PreparesBaseline(r)
    BY <1>5 DEF PreparesBaseline, At, Proceeds, ProceedsTo, BreaksOff, StopsFor
<1>6. CASE Scans(r)
    BY <1>6 DEF Scans, At, Proceeds, ProceedsTo, BreaksOff, StopsFor
<1>7. CASE Attests(r)
    BY <1>7 DEF Attests, At, Proceeds, ProceedsTo, BreaksOff, StopsFor
<1>8. CASE Projects(r)
    BY <1>8 DEF Projects, At, Proceeds, ProceedsTo, BreaksOff, StopsFor
<1>9. CASE ComparesReports(r)
    BY <1>9 DEF ComparesReports, At, Proceeds, ProceedsTo, BreaksOff, StopsFor
<1>10. CASE CommentsOnPull(r)
    BY <1>10 DEF CommentsOnPull, At, Proceeds, ProceedsTo
<1>11. CASE RecordsProjection(r)
    BY <1>11 DEF RecordsProjection, At, ProceedsTo, BreaksOff, StopsFor
<1>12. CASE Enforces(r)
    BY <1>12 DEF Enforces, At, Proceeds, ProceedsTo
<1>13. CASE Retains(r)
    BY <1>13 DEF Retains, At, Proceeds, ProceedsTo, BreaksOff, StopsFor
<1>14. CASE Cancelled(r)
    BY <1>14 DEF Cancelled, InAction, BreaksOff, StopsFor
<1>15. CASE Lost(r)
    BY <1>15 DEF Lost, StopsFor
<1> QED
    BY <1>1, <1>2, <1>3, <1>4, <1>5, <1>6, <1>7, <1>8, <1>9, <1>10, <1>11, <1>12, <1>13,
       <1>14, <1>15 DEF Acts, Step

PriorKnown(prior) ==
    prior.manifest # None =>
        \/ \E s \in Foreign : s.manifest = prior.manifest
        \/ \E q \in Run : retained[q] # None /\ prior.manifest = retained[q].manifest

\* Prior evidence comes from a download of what was retained, or from a person who
\* took retained or foreign evidence.  A comment is noted where its run is done.
Sourced(r, changes) ==
    /\ "prior" \in DOMAIN changes => PriorKnown(changes["prior"])
    /\ "sought" \in DOMAIN changes => changes["sought"] \in Run \cup {None}
    /\ "commented" \in DOMAIN changes =>
           changes["commented"] = (run[r].pc = "done") /\ UNCHANGED run

\* Every step takes its prior evidence from there.
LEMMA ActsSourced ==
    ASSUME AttemptsInv, NEW r \in Run, Acts(r)
    PROVE  \/ UNCHANGED job
           \/ \E pc, changes : Enters(r, pc, changes) /\ Sourced(r, changes)
<1>0. DOMAIN NoChange = {}
    BY DEF NoChange
<1>1. ASSUME NEW changes, "prior" \notin DOMAIN changes, "sought" \notin DOMAIN changes,
             "commented" \notin DOMAIN changes
      PROVE  Sourced(r, changes) /\ Sourced(r, WithoutSuccess(changes))
    BY <1>1 DEF Sourced, WithoutSuccess
<1>2. CASE Pushes(r)
    BY <1>1, <1>2 DEF Pushes, ProceedsTo
<1>3. CASE FindsPrior(r)
    <2>1. CASE StopsFor(r, "over", NoChange)
        BY <1>0, <1>1, <2>1 DEF StopsFor
    <2>2. CASE \E sought \in Run \cup {None} : Enters(r, "download", [sought |-> sought])
        BY <2>2 DEF Sourced
    <2> QED
        BY <1>3, <2>1, <2>2 DEF FindsPrior, At, Proceeds, ProceedsTo, NextStep
<1>4. CASE DownloadsPrior(r)
    <2> DEFINE there == IF job[r].sought = None THEN None ELSE retained[job[r].sought]
               prior(taken) == IF taken = None THEN Nothing ELSE taken
    <2>1. \A taken \in {there, None} : PriorKnown(prior(taken))
        <3>1. PriorKnown(Nothing)
            BY DEF PriorKnown, Nothing
        <3>2. there # None => PriorKnown(there)
            BY DEF AttemptsInv, SoughtIsRun, PriorKnown
        <3> QED
            BY <3>1, <3>2
    <2> HIDE DEF there
    <2>2. \A taken, compare, expected :
              LET changes == [prior |-> prior(taken), compare |-> compare, expected |-> expected]
              IN taken \in {there, None} => Sourced(r, changes)
        BY <2>1 DEF Sourced
    <2>3. \E pc, compare, expected : \E taken \in {there, None} :
              Enters(r, pc, [prior |-> prior(taken), compare |-> compare,
                             expected |-> expected])
        BY <1>4, Zenon DEF DownloadsPrior, Proceeds, ProceedsTo, there
    <2> QED
        BY <2>2, <2>3
<1>5. CASE HandsOver(r)
    <2>1. PICK previous, manifest, handed, compare, expected :
              /\ Enters(r, "prepare", [handed |-> handed, compare |-> compare,
                            expected |-> expected,
                            prior |-> [report |-> previous, manifest |-> manifest]])
              /\ manifest \in {s.manifest : s \in ({retained[q] : q \in Run} \cup Foreign) \ {None}}
                              \cup {None}
        BY <1>5, Zenon DEF HandsOver, ProceedsTo
    <2>2. PriorKnown([report |-> previous, manifest |-> manifest])
        BY <2>1 DEF PriorKnown
    <2> QED
        BY <2>1, <2>2 DEF Sourced
<1>6. CASE PreparesBaseline(r)
    BY <1>0, <1>1, <1>6 DEF PreparesBaseline, Proceeds, ProceedsTo, BreaksOff, StopsFor
<1>7. CASE Scans(r)
    BY <1>0, <1>1, <1>7 DEF Scans, Proceeds, ProceedsTo, BreaksOff, StopsFor
<1>8. CASE Attests(r)
    BY <1>0, <1>1, <1>8 DEF Attests, Proceeds, ProceedsTo, BreaksOff, StopsFor
<1>9. CASE Projects(r)
    BY <1>0, <1>1, <1>9 DEF Projects, Proceeds, ProceedsTo, BreaksOff, StopsFor
<1>10. CASE ComparesReports(r)
    BY <1>0, <1>1, <1>10 DEF ComparesReports, Proceeds, ProceedsTo, BreaksOff, StopsFor
<1>11. CASE CommentsOnPull(r)
    <2>1. CASE Proceeds(r, [commented |-> run[r].pc = "done"])
        BY <2>1 DEF Proceeds, ProceedsTo, Sourced, vars
    <2>2. CASE Proceeds(r, NoChange)
        BY <1>0, <1>1, <2>2 DEF Proceeds, ProceedsTo
    <2>3. CASE Enters(r, "project", NoChange)
        BY <1>0, <1>1, <2>3
    <2> QED
        BY <1>11, <2>1, <2>2, <2>3 DEF CommentsOnPull
<1>12. CASE RecordsProjection(r)
    BY <1>0, <1>1, <1>12 DEF RecordsProjection, ProceedsTo, BreaksOff, StopsFor
<1>13. CASE Enforces(r)
    BY <1>0, <1>1, <1>13 DEF Enforces, Proceeds, ProceedsTo
<1>14. CASE Retains(r)
    BY <1>0, <1>1, <1>14 DEF Retains, Proceeds, ProceedsTo, BreaksOff, StopsFor
<1>15. CASE Cancelled(r)
    BY <1>0, <1>1, <1>15 DEF Cancelled, BreaksOff, StopsFor
<1>16. CASE Lost(r)
    BY <1>0, <1>1, <1>16 DEF Lost, StopsFor
<1> QED
    BY <1>2, <1>3, <1>4, <1>5, <1>6, <1>7, <1>8, <1>9, <1>10, <1>11, <1>12, <1>13,
       <1>14, <1>15, <1>16 DEF Acts, Step

\* Only a job that is at its last step and attested its report retains it.
LEMMA ActsRetains ==
    ASSUME NEW r \in Run, Acts(r)
    PROVE  \/ UNCHANGED retained
           \/ /\ job[r].manifest # None /\ Enters(r, "over", NoChange)
              /\ retained' = [retained EXCEPT ![r] = [report |-> job[r].report,
                                                      manifest |-> job[r].manifest]]
<1>1. CASE Pushes(r)
    BY <1>1 DEF Pushes, ProceedsTo
<1>2. CASE FindsPrior(r)
    BY <1>2 DEF FindsPrior, Proceeds, ProceedsTo, StopsFor
<1>3. CASE DownloadsPrior(r)
    BY <1>3, Zenon DEF DownloadsPrior, Proceeds, ProceedsTo
<1>4. CASE HandsOver(r)
    BY <1>4, Zenon DEF HandsOver, ProceedsTo
<1>5. CASE PreparesBaseline(r)
    BY <1>5 DEF PreparesBaseline, Proceeds, ProceedsTo, BreaksOff, StopsFor
<1>6. CASE Scans(r)
    BY <1>6 DEF Scans, Proceeds, ProceedsTo, BreaksOff, StopsFor
<1>7. CASE Attests(r)
    BY <1>7 DEF Attests, Proceeds, ProceedsTo, BreaksOff, StopsFor
<1>8. CASE Projects(r)
    BY <1>8 DEF Projects, Proceeds, ProceedsTo, BreaksOff, StopsFor
<1>9. CASE ComparesReports(r)
    BY <1>9 DEF ComparesReports, Proceeds, ProceedsTo, BreaksOff, StopsFor
<1>10. CASE CommentsOnPull(r)
    BY <1>10 DEF CommentsOnPull, Proceeds, ProceedsTo
<1>11. CASE RecordsProjection(r)
    BY <1>11 DEF RecordsProjection, ProceedsTo, BreaksOff, StopsFor
<1>12. CASE Enforces(r)
    BY <1>12 DEF Enforces, Proceeds, ProceedsTo
<1>13. CASE Retains(r)
    BY <1>13 DEF Retains, Proceeds, ProceedsTo, BreaksOff, StopsFor
<1>14. CASE Cancelled(r)
    BY <1>14 DEF Cancelled, BreaksOff, StopsFor
<1>15. CASE Lost(r)
    BY <1>15 DEF Lost, StopsFor
<1> QED
    BY <1>1, <1>2, <1>3, <1>4, <1>5, <1>6, <1>7, <1>8, <1>9, <1>10, <1>11, <1>12, <1>13,
       <1>14, <1>15 DEF Acts, Step

\* Of the comment a job takes a step, or leaves it alone.
LEMMA ActsOnComment ==
    ASSUME NEW r \in Run, Acts(r)
    PROVE  Upsert(r) \/ UNCHANGED vars
<1>0. ASSUME CommentEnds(r) PROVE Upsert(r) \/ UNCHANGED vars
    BY <1>0 DEF CommentEnds, Upsert
<1>1. CASE Pushes(r)
    BY <1>1 DEF Pushes, ProceedsTo
<1>2. CASE FindsPrior(r)
    BY <1>0, <1>2 DEF FindsPrior, Proceeds, ProceedsTo, StopsFor
<1>3. CASE DownloadsPrior(r)
    BY <1>3, Zenon DEF DownloadsPrior, Proceeds, ProceedsTo
<1>4. CASE HandsOver(r)
    BY <1>4, Zenon DEF HandsOver, ProceedsTo
<1>5. CASE PreparesBaseline(r)
    BY <1>0, <1>5 DEF PreparesBaseline, Proceeds, ProceedsTo, BreaksOff, StopsFor
<1>6. CASE Scans(r)
    BY <1>0, <1>6 DEF Scans, Proceeds, ProceedsTo, BreaksOff, StopsFor
<1>7. CASE Attests(r)
    BY <1>0, <1>7 DEF Attests, Proceeds, ProceedsTo, BreaksOff, StopsFor
<1>8. CASE Projects(r)
    BY <1>0, <1>8 DEF Projects, Proceeds, ProceedsTo, BreaksOff, StopsFor
<1>9. CASE ComparesReports(r)
    BY <1>0, <1>9 DEF ComparesReports, Proceeds, ProceedsTo, BreaksOff, StopsFor
<1>10. CASE CommentsOnPull(r)
    BY <1>0, <1>10 DEF CommentsOnPull, Proceeds, ProceedsTo, Upsert
<1>11. CASE RecordsProjection(r)
    BY <1>0, <1>11 DEF RecordsProjection, ProceedsTo, BreaksOff, StopsFor
<1>12. CASE Enforces(r)
    BY <1>12 DEF Enforces, Proceeds, ProceedsTo
<1>13. CASE Retains(r)
    BY <1>0, <1>13 DEF Retains, Proceeds, ProceedsTo, BreaksOff, StopsFor
<1>14. CASE Cancelled(r)
    BY <1>0, <1>14 DEF Cancelled, BreaksOff, StopsFor
<1>15. CASE Lost(r)
    BY <1>0, <1>15 DEF Lost, StopsFor
<1> QED
    BY <1>1, <1>2, <1>3, <1>4, <1>5, <1>6, <1>7, <1>8, <1>9, <1>10, <1>11, <1>12, <1>13,
       <1>14, <1>15 DEF Acts, Step

-----------------------------------------------------------------------------
(* The comment *)

\* A run takes its step by itself, and what is over stays over.
LEMMA UpsertAlone ==
    ASSUME RunShape, NEW r \in Run, Upsert(r)
    PROVE  /\ RunShape'
           /\ ~Over(r)
           /\ \A q \in Run \ {r} : run'[q] = run[q]
           /\ overlap' = overlap \/ Starts(r)
<1>1. CASE Starts(r)
    <2>1. /\ run' = [run EXCEPT ![r] = [pc |-> "listing", page |-> 1, listed |-> <<>>]]
          /\ run[r].pc = "idle"
        BY <1>1 DEF Starts
    <2>2. RunShape' /\ ~Over(r) /\ \A q \in Run \ {r} : run'[q] = run[q]
        BY <2>1 DEF RunShape, Over
    <2> QED
        BY <1>1, <2>2
<1>2. CASE Lists(r)
    <2> DEFINE page == Page(run[r].page)
               pc == IF IsLast(page) THEN "writing" ELSE "listing"
               next == [pc |-> pc, page |-> run[r].page + 1, listed |-> run[r].listed \o page]
    <2>1. run[r].pc = "listing" /\ overlap' = overlap
          /\ run' = [run EXCEPT ![r].listed = @ \o page, ![r].page = @ + 1, ![r].pc = pc]
        BY <1>2, Zenon DEF Lists
    <2> HIDE DEF page
    <2>2. run[r] = [pc |-> run[r].pc, page |-> run[r].page, listed |-> run[r].listed]
        BY DEF RunShape
    <2>3. run'[r] = next
        BY <2>1, <2>2 DEF RunShape
    <2>4. /\ run' = [q \in Run |-> run'[q]]
          /\ \A q \in Run \ {r} : run'[q] = run[q]
        BY <2>1 DEF RunShape
    <2>5. pc \in {"writing", "listing"} /\ next.pc = pc
          /\ next = [pc |-> next.pc, page |-> next.page, listed |-> next.listed]
        OBVIOUS
    <2> HIDE DEF next, pc
    <2> QED
        BY <2>1, <2>3, <2>4, <2>5 DEF RunShape, Over
<1>3. CASE Updates(r)
    BY <1>3 DEF Updates, Goes, RunShape, Over
<1>4. CASE Creates(r)
    BY <1>4 DEF Creates, Goes, RunShape, Over
<1>5. CASE Fails(r)
    BY <1>5 DEF Fails, Goes, RunShape, Over
<1>6. CASE Skips(r)
    BY <1>6 DEF Skips, Goes, RunShape, Over
<1> QED
    BY <1>1, <1>2, <1>3, <1>4, <1>5, <1>6 DEF Upsert

\* A comment that is written is there with all the others.
LEMMA AppendKeeps ==
    ASSUME NEW S, NEW s \in Seq(S), NEW e \in S
    PROVE  /\ Append(s, e) \in Seq(S)
           /\ e \in ToSet(Append(s, e)) /\ ToSet(s) \subseteq ToSet(Append(s, e))
<1>1. /\ Append(s, e) \in Seq(S) /\ DOMAIN Append(s, e) = 1 .. Len(s) + 1
      /\ Append(s, e)[Len(s) + 1] = e
      /\ \A i \in DOMAIN s : i \in 1 .. Len(s) + 1 /\ Append(s, e)[i] = s[i]
    OBVIOUS
<1>2. Len(s) + 1 \in 1 .. Len(s) + 1
    OBVIOUS
<1> QED
    BY <1>1, <1>2 DEF ToSet

\* One that is deleted goes, and those behind it move up.
LEMMA RemoveIs ==
    ASSUME NEW S, NEW s \in Seq(S), NEW i \in 1 .. Len(s)
    PROVE  /\ RemoveAt(s, i) \in Seq(S) /\ DOMAIN RemoveAt(s, i) = 1 .. Len(s) - 1
           /\ \A k \in 1 .. Len(s) - 1 : RemoveAt(s, i)[k] = s[IF k < i THEN k ELSE k + 1]
<1> DEFINE before == SubSeq(s, 1, i - 1)
           after == SubSeq(s, i + 1, Len(s))
           rest == before \o after
<1>1. i \in 1 .. Len(s) /\ Len(s) \in Nat
    OBVIOUS
<1>2. /\ before \in Seq(S) /\ Len(before) = i - 1
      /\ \A k \in 1 .. i - 1 : before[k] = s[k]
    BY <1>1
<1>3. /\ after \in Seq(S) /\ Len(after) = Len(s) - i
      /\ \A k \in 1 .. Len(s) - i : after[k] = s[i + k]
    BY <1>1
<1>4. RemoveAt(s, i) = rest
    BY DEF RemoveAt
<1> HIDE DEF before, after
<1>5. /\ rest \in Seq(S) /\ Len(rest) = Len(before) + Len(after)
      /\ \A k \in 1 .. Len(before) + Len(after) :
            rest[k] = IF k <= Len(before) THEN before[k] ELSE after[k - Len(before)]
    BY <1>2, <1>3, ConcatProperties
<1> HIDE DEF rest
<1>6. DOMAIN rest = 1 .. Len(s) - 1
    BY <1>1, <1>2, <1>3, <1>5
<1>7. ASSUME NEW k \in 1 .. Len(s) - 1, k < i PROVE rest[k] = s[k]
    <2>1. k \in 1 .. Len(before) + Len(after) /\ k <= Len(before) /\ k \in 1 .. i - 1
        BY <1>1, <1>2, <1>3, <1>7
    <2> QED
        BY <1>2, <1>5, <2>1
<1>8. ASSUME NEW k \in 1 .. Len(s) - 1, ~(k < i) PROVE rest[k] = s[k + 1]
    <2>1. /\ k \in 1 .. Len(before) + Len(after) /\ ~(k <= Len(before))
          /\ k - Len(before) \in 1 .. Len(s) - i /\ i + (k - Len(before)) = k + 1
        BY <1>1, <1>2, <1>3, <1>8
    <2> QED
        BY <1>3, <1>5, <2>1
<1> QED
    BY <1>4, <1>5, <1>6, <1>7, <1>8

\* It is the only one that goes.
LEMMA RemoveKeeps ==
    ASSUME NEW S, NEW s \in Seq(S), NEW i \in DOMAIN s
    PROVE  /\ RemoveAt(s, i) \in Seq(S)
           /\ \A c \in ToSet(s) : c = s[i] \/ c \in ToSet(RemoveAt(s, i))
           /\ ToSet(RemoveAt(s, i)) \subseteq ToSet(s)
<1> DEFINE rest == RemoveAt(s, i)
<1>1. i \in 1 .. Len(s) /\ Len(s) \in Nat /\ DOMAIN s = 1 .. Len(s)
    OBVIOUS
<1>2. /\ rest \in Seq(S) /\ DOMAIN rest = 1 .. Len(s) - 1
      /\ \A k \in 1 .. Len(s) - 1 : rest[k] = s[IF k < i THEN k ELSE k + 1]
    BY <1>1, RemoveIs
<1> HIDE DEF rest
<1>3. ASSUME NEW k \in DOMAIN s, k # i
      PROVE  \E l \in DOMAIN rest : rest[l] = s[k]
    <2>1. CASE k < i
        BY <1>1, <1>2, <2>1
    <2>2. CASE k > i
        <3>1. k - 1 \in 1 .. Len(s) - 1 /\ ~(k - 1 < i) /\ (k - 1) + 1 = k
            BY <1>1, <2>2
        <3>2. rest[k - 1] = s[k]
            BY <1>2, <3>1
        <3> QED
            BY <1>2, <3>1, <3>2
    <2> QED
        BY <1>1, <1>3, <2>1, <2>2
<1>4. ASSUME NEW c \in ToSet(s), c # s[i]
      PROVE  c \in ToSet(rest)
    BY <1>3, <1>4 DEF ToSet
<1>5. ASSUME NEW l \in DOMAIN rest PROVE rest[l] \in ToSet(s)
    <2>1. (IF l < i THEN l ELSE l + 1) \in DOMAIN s
        BY <1>1, <1>2
    <2> QED
        BY <1>2, <2>1 DEF ToSet
<1>6. ToSet(rest) \subseteq ToSet(s)
    BY <1>5 DEF ToSet
<1> QED
    BY <1>2, <1>4, <1>6 DEF rest

\* The comment of the run that made it is there, and whatever is marked stays, or is
\* now that run's.
LEMMA MarkedStays ==
    ASSUME CommentsShape, RunShape, NEW r \in Run,
           Upsert(r) \/ Comments \/ Delete \/ UNCHANGED vars
    PROVE  /\ CommentsShape'
           /\ \A c \in Marked :
                 \/ c \in Marked'
                 \/ run[r].pc = "writing" /\ \E d \in Marked' : d.report = r
           /\ Upsert(r) /\ run'[r].pc = "done" => \E d \in Marked' : d.report = r
<1>0. ASSUME Upsert(r), UNCHANGED <<comments, written>>, run'[r].pc # "done"
      PROVE  /\ CommentsShape' /\ Marked' = Marked
             /\ Upsert(r) /\ run'[r].pc = "done" => \E d \in Marked' : d.report = r
    BY <1>0 DEF CommentsShape, Marked
<1>1. CASE Starts(r)
    <2>1. UNCHANGED <<comments, written>> /\ run'[r].pc # "done"
        BY <1>1 DEF Starts, RunShape
    <2> QED
        BY <1>0, <1>1, <2>1 DEF Upsert
<1>2. CASE Lists(r)
    <2>1. UNCHANGED <<comments, written>>
        BY <1>2 DEF Lists
    <2>2. run'[r].pc # "done"
        BY <1>2 DEF Lists, RunShape
    <2> QED
        BY <1>0, <1>2, <2>1, <2>2 DEF Upsert
<1>3. CASE Fails(r) \/ Skips(r)
    <2>1. UNCHANGED <<comments, written>> /\ run'[r].pc # "done"
        BY <1>3 DEF Fails, Skips, Goes, RunShape
    <2> QED
        BY <1>0, <1>3, <2>1 DEF Upsert
<1>4. CASE Creates(r)
    <2> DEFINE new == [id |-> written + 1, text |-> "marked", report |-> r]
    <2>1. new \in Comment /\ new.text = "marked" /\ new.report = r /\ written + 1 \in Nat
        BY DEF Comment, Text, CommentsShape
    <2>2. comments' = Append(comments, new) /\ written' = written + 1
        BY <1>4 DEF Creates, Appends
    <2> HIDE DEF new
    <2>3. /\ comments' \in Seq(Comment) /\ new \in ToSet(comments')
          /\ ToSet(comments) \subseteq ToSet(comments')
        BY <2>1, <2>2, AppendKeeps DEF CommentsShape
    <2> QED
        BY <2>1, <2>2, <2>3 DEF CommentsShape, Marked
<1>5. CASE Updates(r)
    <2>1. run[r].pc = "writing" /\ UNCHANGED written
        BY <1>5 DEF Updates
    <2>2. CASE UNCHANGED comments /\ Goes(r, "failed")
        <3>1. run'[r].pc # "done"
            BY <2>2 DEF Goes, RunShape
        <3> QED
            BY <1>0, <1>5, <2>1, <2>2, <3>1 DEF Upsert
    <2>3. ASSUME NEW own, NEW i \in DOMAIN comments, comments[i].id = own,
                 comments' = [k \in DOMAIN comments |->
                     IF comments[k].id = own THEN Body(r, comments[k]) ELSE comments[k]]
          PROVE  /\ CommentsShape'
                 /\ \E d \in Marked' : d.report = r
                 /\ \A c \in Marked : c \in Marked' \/ \E d \in Marked' : d.report = r
        <3>1. \A c \in Comment : /\ Body(r, c) \in Comment
                                 /\ Body(r, c).text = "marked" /\ Body(r, c).report = r
            BY DEF Body, Comment, Text
        <3>2. /\ comments \in Seq(Comment) /\ DOMAIN comments = 1 .. Len(comments)
              /\ Len(comments) \in Nat /\ \A k \in DOMAIN comments : comments[k] \in Comment
            BY DEF CommentsShape
        <3>3. /\ DOMAIN comments' = DOMAIN comments
              /\ \A k \in DOMAIN comments : comments'[k] \in Comment
              /\ comments'[i] = Body(r, comments[i])
            BY <2>3, <3>1, <3>2
        <3>4. comments' \in Seq(Comment)
            <4>1. comments' \in [1 .. Len(comments) -> Comment]
                BY <2>3, <3>2, <3>3
            <4> QED
                BY <3>2, <4>1
        <3>5. Body(r, comments[i]) \in Marked'
            BY <3>1, <3>2, <3>3 DEF Marked, ToSet
        <3> QED
            BY <2>1, <3>1, <3>2, <3>4, <3>5 DEF CommentsShape
    <2> QED
        BY <1>5, <2>1, <2>2, <2>3 DEF Updates
<1>6. CASE Comments
    <2>1. PICK text \in Text \ {"marked"} :
              /\ comments' = Append(comments, [id |-> written + 1, text |-> text, report |-> None])
              /\ written' = written + 1 /\ UNCHANGED run
        BY <1>6 DEF Comments, Appends, Text
    <2> DEFINE new == [id |-> written + 1, text |-> text, report |-> None]
    <2>2. new \in Comment /\ written + 1 \in Nat
        BY DEF Comment, CommentsShape
    <2> HIDE DEF new
    <2>3. /\ comments' \in Seq(Comment) /\ ToSet(comments) \subseteq ToSet(comments')
        BY <2>1, <2>2, AppendKeeps DEF CommentsShape, new
    <2> QED
        BY <2>1, <2>2, <2>3, UpsertAlone DEF CommentsShape, Marked, Over
<1>7. CASE Delete
    <2>1. PICK i \in DOMAIN comments :
              comments[i].text # "marked" /\ comments' = RemoveAt(comments, i)
        BY <1>7 DEF Delete
    <2>2. /\ comments' \in Seq(Comment)
          /\ \A c \in ToSet(comments) : c = comments[i] \/ c \in ToSet(comments')
        BY <2>1, RemoveKeeps DEF CommentsShape
    <2>3. UNCHANGED <<written, run>>
        BY <1>7 DEF Delete
    <2>4. ~(Upsert(r) /\ run'[r].pc = "done")
        BY <2>3, UpsertAlone DEF Over
    <2>5. Marked \subseteq Marked'
        BY <2>1, <2>2 DEF Marked
    <2> QED
        BY <2>2, <2>3, <2>4, <2>5 DEF CommentsShape
<1>8. CASE UNCHANGED vars
    <2>1. ~(Upsert(r) /\ run'[r].pc = "done")
        BY <1>8, UpsertAlone DEF Over, vars
    <2> QED
        BY <1>8, <2>1 DEF vars, CommentsShape, Marked
<1> QED
    BY <1>1, <1>2, <1>3, <1>4, <1>5, <1>6, <1>7, <1>8 DEF Upsert

\* While the runs go in turn the comment is that of the last one that is done.
LEMMA CommentStep ==
    ASSUME CommentInv, NEW r \in Run, Upsert(r) \/ Comments \/ Delete \/ UNCHANGED vars
    PROVE  /\ CommentInv'
           /\ \A q \in Run : Over(q) => run'[q] = run[q]
<1>1. CommentsShape'
    BY MarkedStays DEF CommentInv
<1>2. /\ RunShape'
      /\ \A q \in Run : Over(q) => run'[q] = run[q]
      /\ ~overlap' => ~overlap
      /\ \A q \in Run : run'[q] = run[q] \/ (Upsert(r) /\ q = r)
    <2>1. CASE Upsert(r)
        <3>1. /\ RunShape' /\ ~Over(r) /\ \A q \in Run \ {r} : run'[q] = run[q]
              /\ overlap' = overlap \/ Starts(r)
            BY <2>1, UpsertAlone DEF CommentInv
        <3>2. Starts(r) => overlap' = (overlap \/ \E q \in Run : q < r /\ ~Over(q))
            BY DEF Starts
        <3>3. ~overlap' => ~overlap
            BY <3>1, <3>2
        <3>4. \A q \in Run : /\ Over(q) => run'[q] = run[q]
                             /\ run'[q] = run[q] \/ (Upsert(r) /\ q = r)
            BY <2>1, <3>1
        <3> QED
            BY <3>1, <3>3, <3>4
    <2>2. CASE Comments \/ Delete \/ UNCHANGED vars
        <3>1. UNCHANGED <<run, overlap>>
            BY <2>2 DEF Comments, Delete, vars
        <3>2. RunShape'
            BY <3>1 DEF CommentInv, RunShape
        <3> QED
            BY <3>1, <3>2
    <2> QED
        BY <2>1, <2>2
<1>3. RunsInTurn'
    <2>1. SUFFICES ASSUME ~overlap', NEW p \in Run, run'[p].pc \in {"listing", "writing", "done"},
                          NEW q \in Run, q < p
                   PROVE  Over(q)'
        BY DEF RunsInTurn
    <2>2. Over(q)
        <3>1. CASE run[p].pc \in {"listing", "writing", "done"}
            BY <1>2, <2>1, <3>1 DEF CommentInv, RunsInTurn
        <3>2. CASE run[p].pc \notin {"listing", "writing", "done"}
            <4>1. Upsert(r) /\ p = r
                BY <1>2, <2>1, <3>2
            <4>2. CASE Starts(r)
                BY <2>1, <4>1, <4>2 DEF Starts
            <4>3. CASE Skips(r)
                BY <2>1, <4>1, <4>3 DEF Skips, Goes, CommentInv, RunShape
            <4> QED
                BY <3>2, <4>1, <4>2, <4>3 DEF Upsert, Lists, Updates, Creates, Fails
        <3> QED
            BY <3>1, <3>2
    <2> QED
        BY <1>2, <2>2 DEF Over
<1>4. LastIsThere'
    <2>1. SUFFICES ASSUME ~overlap', NEW p \in Run, run'[p].pc = "done"
                   PROVE  \E c \in Marked' : c.report \in Run /\ c.report >= p
        BY DEF LastIsThere
    <2>2. p \in Nat /\ r \in Nat
        BY ConstantsAssumption
    <2>3. CASE run[p].pc = "done"
        <3>1. PICK c \in Marked : c.report \in Run /\ c.report >= p
            BY <1>2, <2>1, <2>3 DEF CommentInv, LastIsThere
        <3>2. CASE c \in Marked'
            BY <3>1, <3>2
        <3>3. CASE run[r].pc = "writing" /\ \E d \in Marked' : d.report = r
            <4>1. ~(r < p)
                BY <1>2, <2>1, <2>3, <3>3 DEF CommentInv, RunsInTurn, Over
            <4> QED
                BY <2>2, <3>3, <4>1
        <3> QED
            BY <3>2, <3>3, MarkedStays DEF CommentInv
    <2>4. CASE run[p].pc # "done"
        <3>1. Upsert(r) /\ p = r
            BY <1>2, <2>1, <2>4
        <3>2. \E d \in Marked' : d.report = r
            BY <2>1, <3>1, MarkedStays DEF CommentInv
        <3> QED
            BY <2>2, <3>1, <3>2
    <2> QED
        BY <2>3, <2>4
<1> QED
    BY <1>1, <1>2, <1>3, <1>4 DEF CommentInv

-----------------------------------------------------------------------------
(* The invariant *)

\* Before the first push.
LEMMA AttemptsInitially == ASSUME AttemptsInit PROVE AttemptsInv
<1>1. /\ \A r \in Run : job[r] = FreshJob /\ retained[r] = None
      /\ job = [r \in Run |-> FreshJob] /\ retained = [r \in Run |-> None]
      /\ run = [r \in Run |-> [pc |-> "idle", page |-> 0, listed |-> <<>>]]
    BY DEF AttemptsInit, Init
<1>2. StateShape
    <2>1. workflow \in Workflow /\ base \in Texts \cup {None}
          /\ (workflow.policy = "none" => base = None)
        BY WorkflowsAssumption DEF AttemptsInit
    <2>2. FreshJob = [f \in Field |-> FreshJob[f]]
        BY DEF Field, FreshJob
    <2> QED
        BY <1>1, <2>1, <2>2 DEF StateShape
<1>3. ASSUME NEW r \in Run PROVE LocalInv(r, job[r])
    <2> DEFINE j == job[r]
    <2>1. /\ j.pc = "idle" /\ j.sound = TRUE /\ j.head = None /\ j.compare = FALSE
          /\ j.expected = NoExpectation /\ j.exit = None /\ j.named = FALSE
          /\ j.report = None /\ j.manifest = None /\ j.comparison = None
          /\ j.compareFailed = FALSE /\ j.shown = {} /\ j.commented = FALSE
          /\ j.projection = None /\ j.snapshot = None
        BY <1>1 DEF FreshJob
    <2> HIDE DEF j
    <2>2. JobType(j)
        BY <2>1 DEF JobType
    <2>3. NotYet(j) /\ PolicyOK(j)
        BY <2>1 DEF NotYet, PolicyOK
    <2>4. EarnedSoFar(j)
        BY <2>1, ConstantsAssumption DEF EarnedSoFar, AfterEnforce, AfterProject,
            AfterComment, AfterCompare, AfterOutputs, AfterManifest, AfterScan
    <2>5. IsAttested(r, j) /\ IsCompared(j) /\ IsProjected(j)
        BY <2>1 DEF IsAttested, IsCompared, IsProjected
    <2> QED
        BY <2>2, <2>3, <2>4, <2>5 DEF LocalInv, j
<1>4. RetainedIsOwn /\ PriorIsKnown /\ SoughtIsRun /\ CommentedIsDone
    BY <1>1 DEF RetainedIsOwn, PriorIsKnown, SoughtIsRun, CommentedIsDone, FreshJob, Nothing
<1>5. CommentsShape
    <2>1. written \in Nat
        BY ConstantsAssumption DEF AttemptsInit, Init
    <2>2. PICK text \in [1 .. written -> {"quoting", "plain"}] :
              comments = [i \in 1 .. written |-> [id |-> i, text |-> text[i], report |-> None]]
        BY DEF AttemptsInit, Init
    <2>3. \A i \in 1 .. written : [id |-> i, text |-> text[i], report |-> None] \in Comment
        BY <2>1 DEF Comment, Text
    <2>4. comments \in [1 .. written -> Comment]
        BY <2>2, <2>3
    <2> QED
        BY <2>1, <2>4 DEF CommentsShape
<1>6. RunShape /\ RunsInTurn /\ LastIsThere
    BY <1>1 DEF RunShape, RunsInTurn, LastIsThere
<1> QED
    BY <1>2, <1>3, <1>4, <1>5, <1>6 DEF AttemptsInv, JobsHold, CommentInv

\* A step of a job keeps the invariant.
LEMMA ActsKeeps ==
    ASSUME AttemptsInv, NEW r \in Run, Acts(r), UNCHANGED <<workflow, base>>
    PROVE  AttemptsInv'
<1>0. StateShape /\ JobsHold /\ RetainedIsOwn /\ PriorIsKnown /\ SoughtIsRun
      /\ CommentedIsDone /\ CommentInv
    BY DEF AttemptsInv
<1>1. /\ job[r].pc # "over"
      /\ UNCHANGED job \/ \E pc, changes : Enters(r, pc, changes)
    BY ActsAlone
<1>2. /\ job' = [q \in Run |-> job'[q]]
      /\ \A q \in Run : job'[q] = [f \in Field |-> job'[q][f]]
      /\ \A q \in Run \ {r} : job'[q] = job[q]
    <2>1. CASE UNCHANGED job
        BY <1>0, <2>1 DEF StateShape
    <2>2. CASE \E pc, changes : Enters(r, pc, changes)
        BY <1>0, <2>2, EntersFields
    <2> QED
        BY <1>1, <2>1, <2>2
<1>3. /\ retained' = [q \in Run |-> retained'[q]]
      /\ \A q \in Run \ {r} : retained'[q] = retained[q]
      /\ retained[r] = None
      /\ retained'[r] # None =>
             /\ job'[r].pc = "over" /\ job'[r].manifest # None
             /\ retained'[r] = [report |-> job'[r].report, manifest |-> job'[r].manifest]
    <2>1. retained[r] = None
        BY <1>0, <1>1 DEF RetainedIsOwn
    <2>2. CASE UNCHANGED retained
        BY <1>0, <2>1, <2>2 DEF StateShape
    <2>3. CASE /\ job[r].manifest # None /\ Enters(r, "over", NoChange)
               /\ retained' = [retained EXCEPT ![r] = [report |-> job[r].report,
                                                       manifest |-> job[r].manifest]]
        <3>1. DOMAIN NoChange = {}
            BY DEF NoChange
        <3>2. /\ job'[r].pc = "over" /\ job'[r].report = job[r].report
              /\ job'[r].manifest = job[r].manifest
            BY <1>0, <2>3, <3>1, EntersFields, FieldIs
        <3>3. /\ retained' = [q \in Run |-> retained'[q]]
              /\ \A q \in Run \ {r} : retained'[q] = retained[q]
              /\ retained'[r] = [report |-> job[r].report, manifest |-> job[r].manifest]
            BY <1>0, <2>3 DEF StateShape
        <3> QED
            BY <2>1, <2>3, <3>2, <3>3
    <2> QED
        BY <2>2, <2>3, ActsRetains
<1>4. StateShape'
    BY <1>0, <1>2, <1>3 DEF StateShape
<1>5. JobsHold'
    <2>1. SUFFICES ASSUME NEW q \in Run PROVE LocalInv(q, job[q])'
        BY DEF JobsHold
    <2>2. LocalInv(q, job'[q])
        BY <1>0, <1>2, ActsHolds DEF JobsHold
    <2> QED
        BY <2>2, HoldsStill
<1>6. RetainedIsOwn'
    BY <1>0, <1>2, <1>3 DEF RetainedIsOwn
<1>7. \A q \in Run : retained[q] # None => retained'[q] = retained[q]
    BY <1>3
<1>8. /\ job'[r].prior = job[r].prior \/ PriorKnown(job'[r].prior)
      /\ job'[r].sought \in Run \cup {None}
      /\ job'[r].commented = job[r].commented
             \/ (job'[r].commented = (run[r].pc = "done") /\ UNCHANGED run)
    <2>1. CASE UNCHANGED job
        BY <1>0, <2>1 DEF SoughtIsRun
    <2>2. ASSUME NEW pc, NEW changes, Enters(r, pc, changes), Sourced(r, changes)
          PROVE  /\ job'[r].prior = job[r].prior \/ PriorKnown(job'[r].prior)
                 /\ job'[r].sought \in Run \cup {None}
                 /\ job'[r].commented = job[r].commented
                        \/ (job'[r].commented = (run[r].pc = "done") /\ UNCHANGED run)
        <3>1. \A f \in Field \ {"pc"} :
                  job'[r][f] = IF f \in DOMAIN changes THEN changes[f] ELSE job[r][f]
            BY <1>0, <2>2, EntersFields
        <3>2. /\ job'[r].prior = IF "prior" \in DOMAIN changes THEN changes["prior"]
                                 ELSE job[r].prior
              /\ job'[r].sought = IF "sought" \in DOMAIN changes THEN changes["sought"]
                                  ELSE job[r].sought
              /\ job'[r].commented = IF "commented" \in DOMAIN changes THEN changes["commented"]
                                     ELSE job[r].commented
            BY <3>1, FieldIs
        <3> QED
            BY <1>0, <2>2, <3>2 DEF Sourced, SoughtIsRun
    <2> QED
        BY <2>1, <2>2, ActsSourced
<1>9. PriorIsKnown'
    <2>1. ASSUME NEW q \in Run, PriorKnown(job'[q].prior), job'[q].prior.manifest # None
          PROVE  \/ \E s \in Foreign : s.manifest = job'[q].prior.manifest
                 \/ \E p \in Run : retained'[p] # None
                                   /\ job'[q].prior.manifest = retained'[p].manifest
        BY <1>7, <2>1 DEF PriorKnown
    <2>2. \A q \in Run : PriorKnown(job[q].prior)
        BY <1>0 DEF PriorIsKnown, PriorKnown
    <2>3. \A q \in Run : PriorKnown(job'[q].prior)
        BY <1>2, <1>8, <2>2
    <2> QED
        BY <2>1, <2>3 DEF PriorIsKnown
<1>10. SoughtIsRun'
    BY <1>0, <1>2, <1>8 DEF SoughtIsRun
<1>11. CommentInv' /\ \A q \in Run : Over(q) => run'[q] = run[q]
    BY <1>0, ActsOnComment, CommentStep
<1>12. CommentedIsDone'
    <2>1. SUFFICES ASSUME NEW q \in Run, job'[q].commented PROVE run'[q].pc = "done"
        BY DEF CommentedIsDone
    <2>2. CASE job'[q].commented = job[q].commented
        BY <1>0, <1>11, <2>1, <2>2 DEF CommentedIsDone, Over
    <2>3. CASE q = r /\ job'[r].commented = (run[r].pc = "done") /\ UNCHANGED run
        BY <2>1, <2>3
    <2> QED
        BY <1>2, <1>8, <2>2, <2>3
<1> QED
    BY <1>4, <1>5, <1>6, <1>9, <1>10, <1>11, <1>12 DEF AttemptsInv

\* So do people who write, and a step that changes nothing.
LEMMA OthersKeep ==
    ASSUME AttemptsInv, UNCHANGED <<workflow, base, job, retained>>,
           (Run # {} /\ (Comments \/ Delete)) \/ UNCHANGED vars
    PROVE  AttemptsInv'
<1>1. \A q \in Run : LocalInv(q, job[q])'
    BY HoldsStill DEF AttemptsInv, JobsHold
<1>2. JobsHold'
    BY <1>1 DEF JobsHold
<1>3. StateShape' /\ RetainedIsOwn' /\ PriorIsKnown' /\ SoughtIsRun'
    BY DEF AttemptsInv, StateShape, RetainedIsOwn, PriorIsKnown, SoughtIsRun
<1>4. UNCHANGED <<run, overlap>>
    BY DEF Comments, Delete, vars
<1>5. CommentedIsDone'
    BY <1>4 DEF AttemptsInv, CommentedIsDone
<1>6. CommentInv'
    <2>1. CASE UNCHANGED vars
        BY <2>1 DEF AttemptsInv, CommentInv, RunShape, CommentsShape, RunsInTurn, LastIsThere,
            Marked, Over, vars
    <2>2. CASE \E r \in Run : Comments \/ Delete
        BY <2>2, CommentStep DEF AttemptsInv
    <2> QED
        BY <2>1, <2>2
<1> QED
    BY <1>2, <1>3, <1>5, <1>6 DEF AttemptsInv

\* Whatever the jobs do, and whichever of them fail, are cancelled or lost, the
\* invariant holds.
THEOREM AttemptsInvariant == AttemptsSpec => []AttemptsInv
<1>1. AttemptsInit => AttemptsInv
    BY AttemptsInitially
<1>2. AttemptsInv /\ [AttemptsNext]_allVars => AttemptsInv'
    <2>1. SUFFICES ASSUME AttemptsInv, [AttemptsNext]_allVars PROVE AttemptsInv'
        OBVIOUS
    <2>2. CASE UNCHANGED allVars
        BY <2>1, <2>2, OthersKeep DEF allVars, attemptVars
    <2>3. ASSUME NEW r \in Run, Acts(r), UNCHANGED <<workflow, base>> PROVE AttemptsInv'
        BY <2>1, <2>3, ActsKeeps
    <2>4. CASE PeopleAct /\ UNCHANGED <<workflow, base>>
        BY <2>1, <2>4, OthersKeep DEF PeopleAct
    <2> QED
        BY <2>1, <2>2, <2>3, <2>4 DEF AttemptsNext, Acts
<1> QED
    BY <1>1, <1>2, PTL DEF AttemptsSpec

-----------------------------------------------------------------------------
(* What the reviews must be *)

\* A job succeeds only where the scan did and with all that was asked for, whichever
\* steps of it were skipped, failed or cancelled.
THEOREM SuccessStaysEarned == AttemptsSpec => []SuccessIsEarned
<1>1. AttemptsInv => SuccessIsEarned
    <2>1. SUFFICES ASSUME AttemptsInv, NEW r \in Run, job[r].pc = "over", job[r].sound
                   PROVE  /\ job[r].exit = 0 /\ job[r].report # None /\ job[r].manifest # None
                          /\ workflow.outputs => job[r].outputs = "produced"
                          /\ job[r].projection # None
        BY DEF SuccessIsEarned, At
    <2>2. EarnedSoFar(job[r])
        BY <2>1 DEF AttemptsInv, JobsHold, LocalInv
    <2> QED
        BY <2>1, <2>2 DEF EarnedSoFar, AfterEnforce, AfterProject, AfterComment,
            AfterCompare, AfterOutputs, AfterManifest, AfterScan
<1> QED
    BY <1>1, AttemptsInvariant, PTL

\* Where the base has the policy its text is what a job of the pull request evaluates and
\* what its evidence names; and no job's evidence names the base over any other text.
THEOREM BaseStaysGoverning == AttemptsSpec => []BasePolicyGoverns
<1>1. AttemptsInv => BasePolicyGoverns
    BY DEF AttemptsInv, JobsHold, LocalInv, PolicyOK, IsGoverned, BasePolicyGoverns
<1> QED
    BY <1>1, AttemptsInvariant, PTL

\* What is retained, field by field.
LEMMA RetainedIs ==
    ASSUME AttemptsInv, NEW r \in Run, retained[r] # None
    PROVE  /\ job[r].manifest # None
           /\ retained[r].report = job[r].report /\ retained[r].manifest = job[r].manifest
<1>1. RetainedIsOwn
    BY DEF AttemptsInv
<1>2. /\ job[r].manifest # None
      /\ retained[r] = [report |-> job[r].report, manifest |-> job[r].manifest]
    BY <1>1 DEF RetainedIsOwn
<1> QED
    BY <1>2

\* What a job retains is its own report, which the next job can verify.
THEOREM RetainedStaysVerifiable == AttemptsSpec => []RetainedIsVerifiable
<1>1. AttemptsInv => RetainedIsVerifiable
    <2>1. SUFFICES ASSUME AttemptsInv, NEW r \in Run, retained[r] # None
                   PROVE  /\ retained[r].report = job[r].report
                          /\ SelectPriorEvidence(retained[r].report, retained[r].manifest,
                                 [repository |-> Repository, branch |-> Branch,
                                  commit |-> TestedCommit(r)]) = "verified"
        BY DEF RetainedIsVerifiable
    <2>2. /\ job[r].manifest # None
          /\ retained[r].report = job[r].report /\ retained[r].manifest = job[r].manifest
        BY <2>1, RetainedIs
    <2>3. /\ job[r].report \in Report /\ ManifestOf(r, job[r].handed, job[r].report) # Error
          /\ job[r].manifest = ManifestOf(r, job[r].handed, job[r].report)
        BY <2>1, <2>2 DEF AttemptsInv, JobsHold, LocalInv, IsAttested
    <2> DEFINE evidence == [repository |-> Repository, branch |-> Branch,
                            commit |-> TestedCommit(r), configuration |-> job[r].report.config]
    <2>4. CreateArtifactManifest(job[r].report, evidence) = job[r].manifest
        BY <2>3 DEF ManifestOf, TestedCommit
    <2>5. /\ evidence.repository = Repository /\ evidence.branch = Branch
          /\ evidence.commit = TestedCommit(r)
        OBVIOUS
    <2> HIDE DEF evidence
    <2> QED
        BY <2>2, <2>3, <2>4, <2>5, OwnIsVerified
<1> QED
    BY <1>1, AttemptsInvariant, PTL

\* Findings are classified only against the report of the very commit that was
\* expected, in this repository and branch, and then exactly.
THEOREM ComparedStaysPrior == AttemptsSpec => []ComparedIsPrior
<1>1. AttemptsInv => ComparedIsPrior
    <2>1. SUFFICES ASSUME AttemptsInv, NEW r \in Run
                   PROVE  LET c == job[r].comparison
                              classified == c # None /\ c.status = "compared"
                          IN classified /\ job[r].expected.commit # None =>
                                \E q \in Run : /\ job[r].expected.commit = TestedCommit(q)
                                               /\ job[q].report = job[r].prior.report
        BY DEF ComparedIsPrior, AttemptsInv, JobsHold, LocalInv, IsCompared
    <2>2. SUFFICES ASSUME job[r].comparison # None, job[r].comparison.status = "compared",
                          job[r].expected.commit # None
                   PROVE  \E q \in Run : /\ job[r].expected.commit = TestedCommit(q)
                                         /\ job[q].report = job[r].prior.report
        OBVIOUS
    <2> DEFINE prior == job[r].prior
               manifest == job[r].prior.manifest
    <2>3. /\ manifest # None /\ ValidateArtifactManifest(manifest, prior.report) = {}
          /\ manifest.evidence.repository = Repository /\ manifest.evidence.branch = Branch
          /\ manifest.evidence.commit = job[r].expected.commit
        BY <2>1, <2>2 DEF AttemptsInv, JobsHold, LocalInv, IsCompared
    <2>4. ValidateInputs(manifest) = {}
        BY <2>3 DEF ValidateArtifactManifest
    <2>5. \A s \in Foreign : s.manifest # manifest
        BY <2>3, <2>4, ForeignAssumption
    <2>6. PICK q \in Run : retained[q] # None /\ manifest = retained[q].manifest
        BY <2>1, <2>3, <2>5 DEF AttemptsInv, PriorIsKnown
    <2>7. job[q].manifest # None /\ manifest = job[q].manifest
        BY <2>1, <2>6, RetainedIs
    <2>8. ManifestOf(q, job[q].handed, job[q].report) # Error /\ manifest = ManifestOf(q, job[q].handed, job[q].report)
        BY <2>1, <2>7 DEF AttemptsInv, JobsHold, LocalInv, IsAttested
    <2> DEFINE evidence == [repository |-> Repository, branch |-> Branch,
                            commit |-> TestedCommit(q), configuration |-> job[q].report.config]
    <2>9. manifest = CreateArtifactManifest(job[q].report, evidence) /\ manifest # Error
        BY <2>8 DEF ManifestOf, TestedCommit
    <2>10. manifest.evidence = evidence /\ prior.report = job[q].report
        <3> HIDE DEF evidence, manifest, prior
        <3> QED
            BY <2>3, <2>9, ValidIsOfReport
    <2>11. manifest.evidence.commit = TestedCommit(q)
        BY <2>10
    <2> QED
        BY <2>3, <2>10, <2>11
<1> QED
    BY <1>1, AttemptsInvariant, PTL

\* A projection that calls itself complete has everything that was asked for, and one
\* that says the comment was made is not behind the comment while jobs go in turn.
THEOREM ProjectionStaysTrue == AttemptsSpec => []ProjectionIsTrue
<1>1. AttemptsInv => ProjectionIsTrue
    <2>1. SUFFICES ASSUME AttemptsInv, NEW r \in Run, job[r].projection # None
                   PROVE  LET p == job[r].projection IN
                          /\ p.status = "complete" =>
                                 /\ job[r].report # None /\ job[r].manifest # None
                                 /\ workflow.outputs => job[r].outputs = "produced"
                                 /\ job[r].compare => job[r].comparison # None
                                 /\ workflow.comment /\ ~job[r].handed => run[r].pc = "done"
                                 /\ p.threshold = "passed" <=> job[r].exit = 0
                          /\ p.channels.comment = "produced" /\ ~overlap =>
                                 \E c \in Marked : c.report >= r
        BY Zenon DEF ProjectionIsTrue
    <2>2. IsProjected(job[r])
        BY <2>1 DEF AttemptsInv, JobsHold, LocalInv
    <2>3. job[r].commented => run[r].pc = "done"
        BY <2>1 DEF AttemptsInv, CommentedIsDone
    <2>4. run[r].pc = "done" /\ ~overlap => \E c \in Marked : c.report >= r
        BY <2>1 DEF AttemptsInv, CommentInv, LastIsThere
    <2> QED
        BY <2>1, <2>2, <2>3, <2>4 DEF IsProjected
<1> QED
    BY <1>1, AttemptsInvariant, PTL

-----------------------------------------------------------------------------
(* The comment is kept *)

\* No two comments have one id, whatever is deleted.
IdsAreUnique ==
    /\ \A i \in DOMAIN comments : comments[i].id <= written
    /\ \A i, j \in DOMAIN comments : comments[i].id = comments[j].id => i = j

\* Only the runs' own comments hold a report.
OwnersMark == \A i \in DOMAIN comments : comments[i].report # None => IsOwn(comments[i])

\* What a run read as its own is no one else's, whatever became of it since.
OwnIsOwn(r) ==
    \A k \in DOMAIN run[r].listed :
        /\ run[r].listed[k].id <= written
        /\ IsOwn(run[r].listed[k]) =>
              \A i \in DOMAIN comments :
                  comments[i].id = run[r].listed[k].id => IsOwn(comments[i])

ListedShape(r) ==
    /\ run[r].listed \in Seq(Comment) /\ run[r].page \in Nat
    /\ run[r].pc = "listing" => run[r].page >= 1

\* Where nothing is deleted a run has read the comments from the first one on.
ListedIsPrefix(r) ==
    /\ Len(run[r].listed) <= Len(comments)
    /\ run[r].pc = "listing" => Len(run[r].listed) = (run[r].page - 1) * PageSize
    /\ \A k \in DOMAIN run[r].listed : IsOwn(run[r].listed[k]) <=> IsOwn(comments[k])

\* A run that started when an own comment was there finds one.
KnownIsFound(r) ==
    r \in known =>
        /\ run[r].pc # "idle"
        /\ run[r].pc = "listing" => \E i \in DOMAIN comments : IsOwn(comments[i])
        /\ run[r].pc = "writing" => Found(r) # {}

\* Where it has read everything, what came since is not its own, in turn.
RestIsOthers(r) ==
    run[r].pc = "writing" =>
        \A i \in DOMAIN comments : i > Len(run[r].listed) => ~IsOwn(comments[i])

OnlyOne == \A i, j \in DOMAIN comments : IsOwn(comments[i]) /\ IsOwn(comments[j]) => i = j

KeptInv ==
    /\ CommentInv
    /\ IdsAreUnique /\ OwnersMark /\ known \subseteq Run
    /\ \A r \in Run : ListedShape(r) /\ OwnIsOwn(r)
    /\ ~deleted => \A r \in Run : ListedIsPrefix(r) /\ KnownIsFound(r)
    /\ ~deleted /\ ~overlap => OnlyOne /\ \A r \in Run : RestIsOthers(r)

\* So many elements of a sequence behind the first ones, as far as there are any.
LEMMA WindowIs ==
    ASSUME NEW S, NEW s \in Seq(S), NEW before \in Nat, NEW size \in Nat, NEW last \in Nat,
           last <= Len(s), last <= before + size, last < before + size => last >= Len(s)
    PROVE  LET window == SubSeq(s, before + 1, last)
           IN /\ window \in Seq(S)
              /\ before <= Len(s) => before + Len(window) <= Len(s)
              /\ before <= Len(s) /\ Len(window) < size => before + Len(window) >= Len(s)
              /\ Len(window) <= size
              /\ \A k \in DOMAIN window :
                    before + k \in DOMAIN s /\ window[k] = s[before + k]
<1> DEFINE window == SubSeq(s, before + 1, last)
<1>1. Len(s) \in Nat /\ DOMAIN s = 1 .. Len(s) /\ \A i \in 1 .. Len(s) : s[i] \in S
    OBVIOUS
<1>2. \A i \in before + 1 .. last : s[i] \in S
    BY <1>1
<1>3. /\ window \in Seq(S)
      /\ Len(window) = IF before + 1 <= last THEN last - (before + 1) + 1 ELSE 0
      /\ \A i \in 1 .. last - (before + 1) + 1 : window[i] = s[before + 1 + i - 1]
    BY <1>1, <1>2, SubSeqProperties
<1> HIDE DEF window
<1>4. DOMAIN window = 1 .. Len(window) /\ Len(window) \in Nat
    BY <1>3
<1>5. ASSUME NEW k \in DOMAIN window
      PROVE  before + k \in DOMAIN s /\ window[k] = s[before + k]
    <2>1. /\ k \in 1 .. last - (before + 1) + 1 /\ before + 1 + k - 1 = before + k
          /\ before + k \in 1 .. Len(s)
        BY <1>1, <1>3, <1>4
    <2> QED
        BY <1>1, <1>3, <2>1
<1>6. /\ before <= Len(s) => before + Len(window) <= Len(s)
      /\ before <= Len(s) /\ Len(window) < size => before + Len(window) >= Len(s)
      /\ Len(window) <= size
    <2>1. CASE before + 1 <= last
        BY <1>1, <1>3, <2>1
    <2>2. CASE before + 1 > last
        BY <1>1, <1>3, <2>2
    <2> QED
        BY <2>1, <2>2
<1> QED
    BY <1>3, <1>5, <1>6 DEF window

\* A page holds the comments behind those of the pages before it, as far as there are
\* any, and is the last one where it is short.
LEMMA PageIs ==
    ASSUME CommentsShape, NEW n \in Nat \ {0}, NEW before, before = (n - 1) * PageSize
    PROVE  /\ before \in Nat /\ before + PageSize = n * PageSize
           /\ Page(n) \in Seq(Comment)
           /\ before <= Len(comments) => before + Len(Page(n)) <= Len(comments)
           /\ before <= Len(comments) /\ IsLast(Page(n)) => before + Len(Page(n)) >= Len(comments)
           /\ ~IsLast(Page(n)) => Len(Page(n)) = PageSize
           /\ \A k \in DOMAIN Page(n) :
                 before + k \in DOMAIN comments /\ Page(n)[k] = comments[before + k]
<1> DEFINE last == IF before + PageSize < Len(comments) THEN before + PageSize ELSE Len(comments)
<1>1. PageSize \in Nat \ {0} /\ comments \in Seq(Comment)
    BY ConstantsAssumption DEF CommentsShape
<1>2. before \in Nat /\ before + PageSize = n * PageSize
    BY <1>1
<1>3. Page(n) = SubSeq(comments, before + 1, last)
    BY <1>2 DEF Page
<1>4. /\ last \in Nat /\ last <= Len(comments) /\ last <= before + PageSize
      /\ last < before + PageSize => last >= Len(comments)
    BY <1>1, <1>2
<1> HIDE DEF last
<1> DEFINE page == Page(n)
<1>5. /\ page \in Seq(Comment)
      /\ before <= Len(comments) => before + Len(page) <= Len(comments)
      /\ before <= Len(comments) /\ Len(page) < PageSize => before + Len(page) >= Len(comments)
      /\ Len(page) <= PageSize
      /\ \A k \in DOMAIN page : before + k \in DOMAIN comments /\ page[k] = comments[before + k]
    BY <1>1, <1>2, <1>3, <1>4, WindowIs
<1> HIDE DEF page
<1>6. ~(Len(page) < PageSize) => Len(page) = PageSize
    BY <1>1, <1>5
<1> QED
    BY <1>2, <1>5, <1>6 DEF page, IsLast

\* The first of some numbers is one of them (finite sets are well-founded).
LEMMA MinIs == ASSUME NEW S \in SUBSET Nat, S # {} PROVE Min(S) \in S
<1> DEFINE T == {U \in SUBSET Nat : \E m \in S : U = 0 .. m}
<1>1. T \subseteq FiniteSubsetsOf(Nat)
    BY FS_Interval DEF FiniteSubsetsOf
<1>2. PICK k \in S : TRUE
    OBVIOUS
<1>3. 0 .. k \in T
    OBVIOUS
<1>4. PICK U \in T : \A V \in T : ~(<<V, U>> \in StrictSubsetOrdering(Nat))
    <2> HIDE DEF T
    <2> QED
        BY <1>1, <1>3, FS_StrictSubsetOrderingWellFounded, WFMin
<1>5. PICK m \in S : U = 0 .. m
    BY <1>4
<1>6. ASSUME NEW l \in S, l < m PROVE FALSE
    <2>1. 0 .. l \in T
        BY <1>6
    <2>2. 0 .. l \subseteq U /\ m \in U /\ m \notin 0 .. l
        BY <1>5, <1>6
    <2>3. 0 .. l \in SUBSET Nat /\ U \in SUBSET Nat
        BY <1>5
    <2>4. <<0 .. l, U>> \in StrictSubsetOrdering(Nat)
        BY <2>2, <2>3 DEF StrictSubsetOrdering
    <2> QED
        BY <1>4, <2>1, <2>4
<1>7. \A l \in S : m <= l
    BY <1>6
<1> QED
    BY <1>5, <1>7 DEF Min

\* A run updates a comment it read as its own.
LEMMA FoundIs ==
    ASSUME NEW r \in Run, ListedShape(r), Found(r) # {}
    PROVE  /\ Min(Found(r)) \in DOMAIN run[r].listed
           /\ IsOwn(run[r].listed[Min(Found(r))])
<1>1. Found(r) \in SUBSET Nat
    BY DEF Found, ListedShape
<1> QED
    BY <1>1, MinIs DEF Found

\* A comment that stands where another stood.
Same(c, d) == c.id = d.id /\ (c = d \/ (IsOwn(c) /\ IsOwn(d)))

\* One that was not there: people's, or the run's that creates its own.
IsNew(r, c) ==
    /\ c.id = written + 1
    /\ IsOwn(c) => c.report = r /\ Creates(r)
    /\ ~IsOwn(c) => c.report = None

\* What a step may do to the comments.
Kept(r) ==
    /\ IdsAreUnique' /\ OwnersMark' /\ written <= written'
    /\ \A i \in DOMAIN comments' :
          (\E j \in DOMAIN comments : Same(comments[j], comments'[i])) \/ IsNew(r, comments'[i])
    /\ ~deleted' =>
          /\ ~deleted /\ Len(comments) <= Len(comments')
          /\ \A i \in DOMAIN comments : IsOwn(comments'[i]) <=> IsOwn(comments[i])
          /\ \A i \in DOMAIN comments' :
                i > Len(comments) => i = Len(comments) + 1 /\ IsNew(r, comments'[i])

CommentsOK == CommentsShape /\ IdsAreUnique /\ OwnersMark

\* A comment that is written gets the next id.
LEMMA AppendIsKept ==
    ASSUME CommentsOK, NEW r \in Run, NEW new \in Comment, IsNew(r, new),
           comments' = Append(comments, new), written' = written + 1, UNCHANGED deleted
    PROVE  Kept(r)
<1> DEFINE n == Len(comments)
<1>1. /\ comments \in Seq(Comment) /\ n \in Nat /\ DOMAIN comments = 1 .. n
      /\ written \in Nat /\ written < written + 1
      /\ \A i \in 1 .. n : comments[i] \in Comment
    BY DEF CommentsOK, CommentsShape
<1>2. /\ DOMAIN comments' = 1 .. n + 1 /\ Len(comments') = n + 1
      /\ \A i \in 1 .. n : comments'[i] = comments[i]
      /\ comments'[n + 1] = new
    BY <1>1
<1>3. \A i \in 1 .. n + 1 : i \in 1 .. n \/ i = n + 1
    BY <1>1
<1> HIDE DEF n
<1>4. \A i \in 1 .. n : comments[i].id \in Nat /\ comments[i].id <= written
    BY <1>1 DEF CommentsOK, IdsAreUnique, Comment
<1>5. new.id = written + 1
    BY DEF IsNew
<1>6. IdsAreUnique'
    <2>1. \A i \in 1 .. n + 1 : comments'[i].id <= written + 1
        BY <1>1, <1>2, <1>3, <1>4, <1>5
    <2>2. ASSUME NEW i \in 1 .. n + 1, NEW j \in 1 .. n + 1, comments'[i].id = comments'[j].id
          PROVE  i = j
        <3>1. CASE i \in 1 .. n /\ j \in 1 .. n
            BY <1>1, <1>2, <2>2, <3>1 DEF CommentsOK, IdsAreUnique
        <3>2. ASSUME NEW k \in 1 .. n, comments[k].id = written + 1 PROVE FALSE
            BY <1>1, <1>4, <3>2
        <3>3. CASE i \in 1 .. n /\ j = n + 1
            BY <1>2, <1>5, <2>2, <3>2, <3>3
        <3>4. CASE i = n + 1 /\ j \in 1 .. n
            BY <1>2, <1>5, <2>2, <3>2, <3>4
        <3> QED
            BY <1>3, <3>1, <3>3, <3>4
    <2> QED
        BY <1>2, <2>1, <2>2 DEF IdsAreUnique
<1>7. OwnersMark'
    <2>1. \A i \in 1 .. n : comments[i].report # None => IsOwn(comments[i])
        BY <1>1 DEF CommentsOK, OwnersMark
    <2>2. new.report # None => IsOwn(new)
        BY DEF IsNew
    <2>3. \A i \in 1 .. n + 1 : comments'[i].report # None => IsOwn(comments'[i])
        BY <1>2, <1>3, <2>1, <2>2
    <2> QED
        BY <1>2, <2>3 DEF OwnersMark, IsOwn
<1>8. \A i \in 1 .. n : Same(comments[i], comments'[i])
    BY <1>2 DEF Same
<1>9. \A i \in 1 .. n + 1 : i > n => i = n + 1 /\ IsNew(r, comments'[i])
    BY <1>1, <1>2, <1>3
<1>10. \A i \in 1 .. n + 1 :
          (\E j \in 1 .. n : Same(comments[j], comments'[i])) \/ IsNew(r, comments'[i])
    BY <1>2, <1>3, <1>8
<1> QED
    BY <1>1, <1>2, <1>6, <1>7, <1>9, <1>10 DEF Kept, n

\* One that is deleted takes none of the others with it.
LEMMA RemoveIsKept ==
    ASSUME CommentsOK, NEW r \in Run, NEW i \in DOMAIN comments,
           comments' = RemoveAt(comments, i), UNCHANGED written, deleted' = TRUE
    PROVE  Kept(r)
<1> DEFINE n == Len(comments)
           old(k) == IF k < i THEN k ELSE k + 1
<1>1. /\ comments \in Seq(Comment) /\ n \in Nat /\ DOMAIN comments = 1 .. n /\ i \in 1 .. n
      /\ written \in Nat
    BY DEF CommentsOK, CommentsShape
<1>2. /\ DOMAIN comments' = 1 .. n - 1
      /\ \A k \in 1 .. n - 1 : comments'[k] = comments[old(k)]
    BY <1>1, RemoveIs
<1>3. /\ \A k \in 1 .. n - 1 : old(k) \in 1 .. n
      /\ \A k, l \in 1 .. n - 1 : old(k) = old(l) => k = l
    BY <1>1
<1> HIDE DEF n, old
<1>4. /\ \A k \in 1 .. n - 1 : comments'[k].id <= written'
      /\ \A k, l \in 1 .. n - 1 : comments'[k].id = comments'[l].id => k = l
      /\ \A k \in 1 .. n - 1 : comments'[k].report # None => IsOwn(comments'[k])
    <2>1. ASSUME NEW k \in 1 .. n - 1
          PROVE  /\ comments'[k] = comments[old(k)] /\ old(k) \in DOMAIN comments
                 /\ comments'[k].id <= written'
                 /\ comments'[k].report # None => IsOwn(comments'[k])
        <3>1. comments'[k] = comments[old(k)] /\ old(k) \in DOMAIN comments
            BY <1>1, <1>2, <1>3
        <3> QED
            BY <3>1 DEF CommentsOK, IdsAreUnique, OwnersMark
    <2>2. ASSUME NEW k \in 1 .. n - 1, NEW l \in 1 .. n - 1, comments'[k].id = comments'[l].id
          PROVE  k = l
        <3>1. old(k) = old(l)
            BY <2>1, <2>2 DEF CommentsOK, IdsAreUnique
        <3> QED
            BY <1>3, <3>1
    <2> QED
        BY <2>1, <2>2
<1>5. IdsAreUnique' /\ OwnersMark'
    BY <1>2, <1>4 DEF IdsAreUnique, OwnersMark, IsOwn
<1>6. \A k \in 1 .. n - 1 : \E j \in 1 .. n : Same(comments[j], comments'[k])
    BY <1>2, <1>3 DEF Same
<1> QED
    BY <1>1, <1>2, <1>5, <1>6 DEF Kept

\* A step that leaves the comments alone.
LEMMA UnchangedIsKept ==
    ASSUME CommentsOK, NEW r \in Run, UNCHANGED <<comments, written, deleted>>
    PROVE  Kept(r)
<1>1. IdsAreUnique' /\ OwnersMark'
    BY DEF CommentsOK, IdsAreUnique, OwnersMark
<1>2. \A i \in DOMAIN comments : Same(comments[i], comments'[i])
    BY DEF Same
<1>3. /\ written <= written' /\ Len(comments) <= Len(comments')
      /\ \A i \in DOMAIN comments : ~(i > Len(comments))
    BY DEF CommentsOK, CommentsShape
<1> QED
    BY <1>1, <1>2, <1>3 DEF Kept

\* An update writes over the run's own comment, whatever it read.
LEMMA UpdateIsKept ==
    ASSUME CommentsOK, NEW r \in Run, ListedShape(r), OwnIsOwn(r), Updates(r)
    PROVE  Kept(r)
<1> DEFINE own == run[r].listed[Min(Found(r))].id
           n == Len(comments)
<1>1. \A i \in DOMAIN comments : comments[i].id = own => IsOwn(comments[i])
    BY FoundIs DEF Updates, OwnIsOwn
<1>2. /\ UNCHANGED <<written, deleted>>
      /\ \/ UNCHANGED comments
         \/ comments' = [i \in DOMAIN comments |->
                            IF comments[i].id = own THEN Body(r, comments[i]) ELSE comments[i]]
    BY DEF Updates
<1> HIDE DEF own
<1>3. CASE UNCHANGED comments
    BY <1>2, <1>3, UnchangedIsKept
<1>4. ASSUME comments' = [i \in DOMAIN comments |->
                            IF comments[i].id = own THEN Body(r, comments[i]) ELSE comments[i]]
      PROVE  Kept(r)
    <2>1. /\ comments \in Seq(Comment) /\ n \in Nat /\ DOMAIN comments = 1 .. n
          /\ written \in Nat /\ \A i \in 1 .. n : comments[i] \in Comment
        BY DEF CommentsOK, CommentsShape
    <2>2. \A c \in Comment : Body(r, c).id = c.id /\ IsOwn(Body(r, c))
        BY DEF Body, Comment, IsOwn
    <2>3. /\ DOMAIN comments' = 1 .. n
          /\ \A i \in 1 .. n : comments'[i] = comments[i]
                               \/ (comments'[i] = Body(r, comments[i]) /\ IsOwn(comments[i]))
        BY <1>1, <1>4, <2>1
    <2>4. Len(comments') = n
        BY <2>1, <2>3
    <2> HIDE DEF n
    <2>5. \A i \in 1 .. n : /\ Same(comments[i], comments'[i]) /\ comments'[i].id = comments[i].id
                            /\ IsOwn(comments'[i]) <=> IsOwn(comments[i])
                            /\ comments'[i] = comments[i] \/ IsOwn(comments'[i])
        BY <2>1, <2>2, <2>3 DEF Same
    <2>6. /\ \A i \in 1 .. n : comments'[i].id <= written'
          /\ \A i, j \in 1 .. n : comments'[i].id = comments'[j].id => i = j
          /\ \A i \in 1 .. n : comments'[i].report # None => IsOwn(comments'[i])
        BY <1>2, <2>1, <2>5 DEF CommentsOK, IdsAreUnique, OwnersMark
    <2>7. IdsAreUnique' /\ OwnersMark'
        BY <2>3, <2>6 DEF IdsAreUnique, OwnersMark, IsOwn
    <2>8. \A i \in 1 .. n : ~(i > n)
        BY <2>1
    <2>9. written <= written' /\ n <= Len(comments')
        BY <1>2, <2>1, <2>4
    <2> QED
        BY <1>2, <2>1, <2>3, <2>5, <2>7, <2>8, <2>9 DEF Kept, n
<1> QED
    BY <1>2, <1>3, <1>4

\* Whatever a step is, it does no more to the comments.
LEMMA StepIsKept ==
    ASSUME CommentsOK, NEW r \in Run, ListedShape(r), OwnIsOwn(r),
           Upsert(r) \/ Comments \/ Delete \/ UNCHANGED vars
    PROVE  Kept(r)
<1>1. CASE Creates(r)
    <2> DEFINE new == [id |-> written + 1, text |-> "marked", report |-> r]
    <2>1. new \in Comment /\ IsNew(r, new)
        BY <1>1 DEF Comment, Text, CommentsOK, CommentsShape, IsNew, IsOwn
    <2>2. comments' = Append(comments, new) /\ written' = written + 1 /\ UNCHANGED deleted
        BY <1>1 DEF Creates, Appends
    <2> HIDE DEF new
    <2> QED
        BY <2>1, <2>2, AppendIsKept
<1>2. CASE Comments
    <2>1. PICK text \in {"quoting", "plain"} :
              Appends([id |-> written + 1, text |-> text, report |-> None])
        BY <1>2, Zenon DEF Comments
    <2> DEFINE new == [id |-> written + 1, text |-> text, report |-> None]
    <2>2. new \in Comment /\ IsNew(r, new)
        BY <1>2 DEF Comment, Text, CommentsOK, CommentsShape, IsNew, IsOwn
    <2>3. comments' = Append(comments, new) /\ written' = written + 1 /\ UNCHANGED deleted
        BY <1>2, <2>1 DEF Comments, Appends
    <2> HIDE DEF new
    <2> QED
        BY <2>2, <2>3, AppendIsKept
<1>3. CASE Delete
    <2>1. PICK i \in DOMAIN comments : comments' = RemoveAt(comments, i)
        BY <1>3 DEF Delete
    <2>2. UNCHANGED written /\ deleted' = TRUE
        BY <1>3 DEF Delete
    <2> QED
        BY <2>1, <2>2, RemoveIsKept
<1>4. CASE Updates(r)
    BY <1>4, UpdateIsKept
<1>5. CASE Starts(r) \/ Lists(r) \/ Fails(r) \/ Skips(r) \/ UNCHANGED vars
    BY <1>5, UnchangedIsKept DEF Starts, Lists, Fails, Skips, vars
<1> QED
    BY <1>1, <1>2, <1>3, <1>4, <1>5 DEF Upsert

\* A run that takes no request keeps what it read, until it is over.
Stands(q) ==
    /\ run'[q].listed = run[q].listed /\ run'[q].page = run[q].page
    /\ run'[q].pc = run[q].pc \/ run'[q].pc \in {"done", "failed"}
    /\ q \in known' => q \in known

\* A step concerns one run; every other one stands.
LEMMA RunIs ==
    ASSUME RunShape, NEW r \in Run, Upsert(r) \/ Comments \/ Delete \/ UNCHANGED vars,
           NEW q \in Run
    PROVE  \/ Stands(q) /\ (q = r /\ Creates(r) => run'[q].pc \in {"done", "failed"})
           \/ q = r /\ (Starts(r) \/ Lists(r))
<1>1. CASE Creates(r) \/ Updates(r) \/ Fails(r) \/ Skips(r)
    <2>1. known' = known /\ (Goes(r, "done") \/ Goes(r, "failed"))
        BY <1>1 DEF Creates, Updates, Fails, Skips
    <2>2. /\ q # r => run'[q] = run[q]
          /\ run'[r] = [run[r] EXCEPT !.pc = run'[r].pc]
          /\ run'[r].pc \in {"done", "failed"}
        BY <2>1 DEF Goes, RunShape
    <2>3. run'[r].listed = run[r].listed /\ run'[r].page = run[r].page
        BY <2>2 DEF RunShape
    <2> QED
        BY <2>1, <2>2, <2>3 DEF Stands
<1>2. CASE (Starts(r) \/ Lists(r)) /\ q # r
    <2>1. run'[q] = run[q]
        BY <1>2 DEF Starts, Lists, RunShape
    <2>2. q \in known' => q \in known
        BY <1>2 DEF Starts, Lists
    <2> QED
        BY <1>2, <2>1, <2>2 DEF Stands
<1>3. CASE ~Upsert(r)
    <2>1. run' = run /\ known' = known
        BY <1>3 DEF Comments, Delete, vars
    <2> QED
        BY <1>3, <2>1 DEF Stands, Upsert
<1> QED
    BY <1>1, <1>2, <1>3 DEF Upsert

\* What it read as its own stays its own.
LEMMA StandsOwn ==
    ASSUME CommentsOK, NEW r \in Run, Kept(r), NEW q \in Run, ListedShape(q), OwnIsOwn(q),
           run'[q].listed = run[q].listed, written' \in Nat
    PROVE  OwnIsOwn(q)'
<1>1. SUFFICES ASSUME NEW k \in DOMAIN run[q].listed
               PROVE  /\ run[q].listed[k].id <= written'
                      /\ IsOwn(run[q].listed[k]) =>
                            \A i \in DOMAIN comments' :
                                comments'[i].id = run[q].listed[k].id => IsOwn(comments'[i])
    BY DEF OwnIsOwn, IsOwn
<1> DEFINE c == run[q].listed[k]
<1>2. c.id \in Nat /\ c.id <= written /\ written \in Nat /\ written <= written'
    <2>1. c \in Comment
        BY DEF ListedShape
    <2>2. c.id \in Nat
        BY <2>1 DEF Comment
    <2>3. c.id <= written
        BY DEF OwnIsOwn
    <2> QED
        BY <2>2, <2>3 DEF CommentsOK, CommentsShape, Kept
<1>3. IsOwn(c) => \A j \in DOMAIN comments : comments[j].id = c.id => IsOwn(comments[j])
    BY DEF OwnIsOwn
<1> HIDE DEF c
<1>4. ASSUME IsOwn(c), NEW i \in DOMAIN comments', comments'[i].id = c.id
      PROVE  IsOwn(comments'[i])
    <2>1. ~IsNew(r, comments'[i])
        BY <1>2, <1>4 DEF IsNew
    <2>2. PICK j \in DOMAIN comments : Same(comments[j], comments'[i])
        BY <2>1 DEF Kept
    <2>3. comments[j].id = c.id
        BY <1>4, <2>2 DEF Same
    <2>4. IsOwn(comments[j])
        BY <1>3, <1>4, <2>3
    <2> QED
        BY <2>2, <2>4 DEF Same
<1>5. c.id <= written'
    BY <1>2
<1> QED
    BY <1>4, <1>5 DEF c

\* What it read is still the beginning of what is there.
LEMMA StandsPrefix ==
    ASSUME CommentsOK, CommentsShape', NEW r \in Run, Kept(r), ~deleted',
           NEW q \in Run, ListedShape(q), ListedIsPrefix(q), Stands(q)
    PROVE  ListedIsPrefix(q)'
<1> DEFINE listed == run[q].listed
<1>1. /\ Len(comments) \in Nat /\ Len(comments') \in Nat /\ Len(listed) \in Nat
      /\ DOMAIN comments = 1 .. Len(comments) /\ DOMAIN listed = 1 .. Len(listed)
    BY DEF CommentsOK, CommentsShape, ListedShape
<1>2. /\ Len(listed) <= Len(comments) /\ Len(comments) <= Len(comments')
      /\ \A k \in DOMAIN listed : IsOwn(listed[k]) <=> IsOwn(comments[k])
      /\ \A k \in DOMAIN comments : IsOwn(comments'[k]) <=> IsOwn(comments[k])
    BY DEF ListedIsPrefix, Kept
<1>3. run'[q].pc = "listing" => Len(listed) = (run[q].page - 1) * PageSize
    BY DEF ListedIsPrefix, Stands
<1>4. run'[q].listed = listed /\ run'[q].page = run[q].page
    BY DEF Stands
<1> HIDE DEF listed
<1>5. \A k \in DOMAIN listed : k \in DOMAIN comments
    BY <1>1, <1>2
<1>6. \A k \in DOMAIN listed : IsOwn(listed[k]) <=> IsOwn(comments'[k])
    BY <1>2, <1>5
<1>7. Len(listed) <= Len(comments')
    BY <1>1, <1>2
<1> QED
    BY <1>3, <1>4, <1>6, <1>7 DEF ListedIsPrefix, IsOwn

\* A comment it started with, or found, is still there or still found.
LEMMA StandsFound ==
    ASSUME CommentsOK, CommentsShape', NEW r \in Run, Kept(r), ~deleted',
           NEW q \in Run, KnownIsFound(q), Stands(q)
    PROVE  KnownIsFound(q)'
<1>1. SUFFICES ASSUME q \in known'
               PROVE  /\ run'[q].pc # "idle"
                      /\ run'[q].pc = "listing" => \E i \in DOMAIN comments' : IsOwn(comments'[i])
                      /\ run'[q].pc = "writing" => Found(q)' # {}
    BY DEF KnownIsFound, IsOwn
<1>2. /\ run[q].pc # "idle"
      /\ run[q].pc = "listing" => \E i \in DOMAIN comments : IsOwn(comments[i])
      /\ run[q].pc = "writing" => Found(q) # {}
    BY <1>1 DEF KnownIsFound, Stands
<1>3. \A i \in DOMAIN comments : i \in DOMAIN comments' /\ (IsOwn(comments'[i]) <=> IsOwn(comments[i]))
    BY DEF CommentsOK, CommentsShape, Kept
<1>4. Found(q)' = Found(q)
    BY DEF Found, Stands, IsOwn
<1> QED
    BY <1>2, <1>3, <1>4 DEF Stands

\* A run that starts has read nothing yet.
LEMMA StartsFrom ==
    ASSUME KeptInv, NEW r \in Run, Starts(r)
    PROVE  /\ ListedShape(r)' /\ OwnIsOwn(r)'
           /\ ~deleted => ListedIsPrefix(r)' /\ KnownIsFound(r)'
           /\ RestIsOthers(r)'
<1>1. /\ run'[r].pc = "listing" /\ run'[r].page = 1 /\ run'[r].listed = <<>>
      /\ UNCHANGED <<comments, written, deleted>>
      /\ known' = IF Marked # {} THEN known \cup {r} ELSE known
      /\ run[r].pc = "idle"
    BY DEF Starts, KeptInv, CommentInv, RunShape
<1>2. <<>> \in Seq(Comment) /\ Len(<<>>) = 0 /\ DOMAIN <<>> = {}
    OBVIOUS
<1>3. ListedShape(r)' /\ OwnIsOwn(r)' /\ RestIsOthers(r)'
    BY <1>1, <1>2 DEF ListedShape, OwnIsOwn, RestIsOthers
<1>4. ListedIsPrefix(r)'
    <2>1. Len(comments) \in Nat /\ PageSize \in Nat
        BY ConstantsAssumption DEF KeptInv, CommentInv, CommentsShape
    <2>2. 0 = (1 - 1) * PageSize
        BY <2>1
    <2> QED
        BY <1>1, <1>2, <2>1, <2>2 DEF ListedIsPrefix
<1>5. ~deleted => KnownIsFound(r)'
    <2>1. SUFFICES ASSUME ~deleted, r \in known' PROVE \E i \in DOMAIN comments : IsOwn(comments[i])
        BY <1>1 DEF KnownIsFound, IsOwn
    <2>2. r \notin known
        BY <1>1, <2>1 DEF KeptInv, KnownIsFound
    <2>3. PICK c \in ToSet(comments) : c.text = "marked"
        BY <1>1, <2>1, <2>2 DEF Marked
    <2> QED
        BY <2>3 DEF ToSet, IsOwn
<1> QED
    BY <1>3, <1>4, <1>5

\* One that lists a page has read as much more, and all there is at the last one.
LEMMA ListsFrom ==
    ASSUME KeptInv, NEW r \in Run, Lists(r)
    PROVE  /\ ListedShape(r)' /\ OwnIsOwn(r)'
           /\ ~deleted => ListedIsPrefix(r)' /\ KnownIsFound(r)' /\ RestIsOthers(r)'
<1> DEFINE page == Page(run[r].page)
           listed == run[r].listed
           before == (run[r].page - 1) * PageSize
           next == run'[r]
<1>1. /\ UNCHANGED <<comments, written, known, deleted>> /\ run[r].pc = "listing"
      /\ next.listed = listed \o page /\ next.page = run[r].page + 1
      /\ next.pc = IF IsLast(page) THEN "writing" ELSE "listing"
    <2>1. run' = [run EXCEPT ![r].listed = @ \o page, ![r].page = @ + 1,
                             ![r].pc = IF IsLast(page) THEN "writing" ELSE "listing"]
        BY Zenon DEF Lists
    <2> HIDE DEF page
    <2>2. run[r] = [pc |-> run[r].pc, page |-> run[r].page, listed |-> run[r].listed]
          /\ run = [q \in Run |-> run[q]]
        BY DEF KeptInv, CommentInv, RunShape
    <2>3. next = [pc |-> IF IsLast(page) THEN "writing" ELSE "listing",
                  page |-> run[r].page + 1, listed |-> run[r].listed \o page]
        BY <2>1, <2>2
    <2>4. UNCHANGED <<comments, written, known, deleted>> /\ run[r].pc = "listing"
        BY Zenon DEF Lists
    <2> HIDE DEF next
    <2> QED
        BY <2>3, <2>4
<1>2. /\ listed \in Seq(Comment) /\ run[r].page \in Nat \ {0} /\ CommentsShape
      /\ Len(listed) \in Nat /\ DOMAIN listed = 1 .. Len(listed)
      /\ Len(comments) \in Nat /\ DOMAIN comments = 1 .. Len(comments)
    BY <1>1 DEF KeptInv, CommentInv, CommentsShape, ListedShape
<1>3. /\ before \in Nat /\ before + PageSize = run[r].page * PageSize
      /\ page \in Seq(Comment)
      /\ before <= Len(comments) => before + Len(page) <= Len(comments)
      /\ before <= Len(comments) /\ IsLast(page) => before + Len(page) >= Len(comments)
      /\ ~IsLast(page) => Len(page) = PageSize
      /\ \A k \in DOMAIN page : before + k \in DOMAIN comments /\ page[k] = comments[before + k]
    BY <1>2, PageIs
<1>4. (next.page - 1) * PageSize = before + PageSize
    <2>1. next.page - 1 = run[r].page /\ PageSize \in Nat
        BY <1>1, <1>2, ConstantsAssumption
    <2>2. before + PageSize = run[r].page * PageSize
        BY <1>3
    <2> QED
        BY <2>1, <2>2
<1>5. ~deleted => Len(listed) = before
    BY <1>1 DEF KeptInv, ListedIsPrefix
<1> HIDE DEF page, listed, before, next
<1>6. /\ next.listed \in Seq(Comment) /\ Len(next.listed) = Len(listed) + Len(page)
      /\ Len(page) \in Nat
      /\ \A k \in 1 .. Len(listed) + Len(page) :
            next.listed[k] = IF k <= Len(listed) THEN listed[k] ELSE page[k - Len(listed)]
    BY <1>1, <1>2, <1>3, ConcatProperties
<1>7. DOMAIN next.listed = 1 .. Len(listed) + Len(page) /\ DOMAIN page = 1 .. Len(page)
    BY <1>3, <1>6
<1>8. \A k \in DOMAIN next.listed :
          \/ k \in DOMAIN listed /\ next.listed[k] = listed[k]
          \/ k - Len(listed) \in DOMAIN page /\ next.listed[k] = page[k - Len(listed)]
    BY <1>2, <1>6, <1>7
<1>9. ListedShape(r)'
    <2>1. run[r].page + 1 \in Nat /\ run[r].page + 1 >= 1
        BY <1>2
    <2> QED
        BY <1>1, <1>6, <2>1 DEF ListedShape, next
<1>10. OwnIsOwn(r)'
    <2>1. IdsAreUnique /\ OwnIsOwn(r)
        BY DEF KeptInv
    <2>2. ASSUME NEW k \in DOMAIN next.listed
          PROVE  /\ next.listed[k].id <= written
                 /\ IsOwn(next.listed[k]) =>
                       \A i \in DOMAIN comments :
                           comments[i].id = next.listed[k].id => IsOwn(comments[i])
        <3>1. CASE k \in DOMAIN listed /\ next.listed[k] = listed[k]
            BY <2>1, <3>1 DEF OwnIsOwn, listed
        <3>2. CASE \E j \in DOMAIN comments : next.listed[k] = comments[j]
            BY <2>1, <3>2 DEF IdsAreUnique
        <3> QED
            BY <1>3, <1>8, <3>1, <3>2
    <2> QED
        BY <1>1, <2>2 DEF OwnIsOwn, IsOwn, next
<1>11. ASSUME ~deleted
       PROVE  /\ Len(next.listed) <= Len(comments)
              /\ next.pc = "listing" => Len(next.listed) = (next.page - 1) * PageSize
              /\ next.pc = "writing" => Len(next.listed) >= Len(comments)
              /\ \A k \in DOMAIN next.listed : IsOwn(next.listed[k]) <=> IsOwn(comments[k])
    <2>1. Len(listed) = before /\ ListedIsPrefix(r) /\ before <= Len(comments)
        BY <1>5, <1>11 DEF KeptInv, ListedIsPrefix, listed
    <2>2. Len(next.listed) = before + Len(page)
        BY <1>6, <2>1
    <2>3. next.pc = "listing" => Len(next.listed) = (next.page - 1) * PageSize
        <3>1. (next.page - 1) * PageSize = before + PageSize
            BY <1>4
        <3>2. next.pc = "listing" => Len(page) = PageSize
            BY <1>1, <1>3
        <3> QED
            BY <2>2, <3>1, <3>2, Zenon
    <2>4. ASSUME NEW k \in DOMAIN next.listed
          PROVE  IsOwn(next.listed[k]) <=> IsOwn(comments[k])
        <3>1. CASE k \in DOMAIN listed /\ next.listed[k] = listed[k]
            BY <2>1, <3>1 DEF ListedIsPrefix, listed
        <3>2. CASE k - before \in DOMAIN page /\ next.listed[k] = page[k - before]
            <4>1. before + (k - before) = k
                BY <1>3, <1>7, <2>4
            <4> QED
                BY <1>3, <3>2, <4>1
        <3> QED
            BY <1>8, <2>1, <3>1, <3>2
    <2>5. Len(next.listed) <= Len(comments)
        BY <1>3, <2>1, <2>2
    <2>6. next.pc = "writing" => Len(next.listed) >= Len(comments)
        BY <1>1, <1>3, <2>1, <2>2
    <2> QED
        BY <2>3, <2>4, <2>5, <2>6
<1>12. ASSUME ~deleted PROVE ListedIsPrefix(r)'
    BY <1>1, <1>11, <1>12 DEF ListedIsPrefix, IsOwn, next
<1>13. ASSUME ~deleted PROVE RestIsOthers(r)'
    <2>1. next.pc = "writing" => \A i \in DOMAIN comments : ~(i > Len(next.listed))
        BY <1>2, <1>6, <1>11, <1>13
    <2> QED
        BY <1>1, <2>1 DEF RestIsOthers, next
<1>14. ASSUME ~deleted PROVE KnownIsFound(r)'
    <2>1. SUFFICES ASSUME r \in known
                   PROVE  /\ next.pc # "idle"
                          /\ \E i \in DOMAIN comments : IsOwn(comments[i])
                          /\ next.pc = "writing" => Found(r)' # {}
        BY <1>1 DEF KnownIsFound, IsOwn, next
    <2>2. PICK i \in DOMAIN comments : IsOwn(comments[i])
        BY <1>1, <1>14, <2>1 DEF KeptInv, KnownIsFound
    <2>3. ASSUME next.pc = "writing" PROVE Found(r)' # {}
        <3>1. i \in DOMAIN next.listed /\ IsOwn(next.listed[i])
            BY <1>2, <1>6, <1>7, <1>11, <1>14, <2>2, <2>3
        <3> QED
            BY <3>1 DEF Found, IsOwn, next
    <2> QED
        BY <1>1, <2>2, <2>3
<1> QED
    BY <1>9, <1>10, <1>12, <1>13, <1>14

\* While the runs go in turn at most one of them lists or writes.
LEMMA OneWrites ==
    ASSUME RunsInTurn, ~overlap, NEW q \in Run, NEW r \in Run,
           run[q].pc = "writing", run[r].pc = "writing"
    PROVE  q = r
<1>1. q \in Nat /\ r \in Nat
    BY ConstantsAssumption
<1>2. ~(q < r) /\ ~(r < q)
    BY DEF RunsInTurn, Over
<1> QED
    BY <1>1, <1>2

\* A run creates a comment only where there is none of its own, in turn.
LEMMA CreatesFirst ==
    ASSUME KeptInv, ~deleted, ~overlap, NEW r \in Run, Creates(r)
    PROVE  \A i \in DOMAIN comments : ~IsOwn(comments[i])
<1>1. /\ run[r].pc = "writing" /\ Found(r) = {}
      /\ ListedIsPrefix(r) /\ RestIsOthers(r) /\ ListedShape(r)
    BY DEF Creates, KeptInv
<1>2. /\ Len(run[r].listed) \in Nat /\ DOMAIN run[r].listed = 1 .. Len(run[r].listed)
      /\ Len(comments) \in Nat /\ DOMAIN comments = 1 .. Len(comments)
    BY <1>1 DEF ListedShape, KeptInv, CommentInv, CommentsShape
<1>3. \A k \in DOMAIN run[r].listed : ~IsOwn(comments[k])
    BY <1>1 DEF Found, ListedIsPrefix
<1>4. \A i \in DOMAIN comments : i > Len(run[r].listed) => ~IsOwn(comments[i])
    BY <1>1 DEF RestIsOthers
<1>5. \A i \in DOMAIN comments : i \in DOMAIN run[r].listed \/ i > Len(run[r].listed)
    BY <1>2
<1> QED
    BY <1>3, <1>4, <1>5

\* Every step of a run, and of people, keeps the invariant.
LEMMA KeptStep ==
    ASSUME KeptInv, NEW r \in Run, Upsert(r) \/ Comments \/ Delete \/ UNCHANGED vars
    PROVE  KeptInv' /\ Kept(r)
<1>0. /\ CommentInv /\ RunShape /\ RunsInTurn /\ CommentsOK
      /\ \A q \in Run : ListedShape(q) /\ OwnIsOwn(q)
    BY DEF KeptInv, CommentInv, CommentsOK
<1>1. Kept(r)
    BY <1>0, StepIsKept
<1>2. CommentInv'
    BY <1>0, CommentStep
<1>3. CommentsShape' /\ written' \in Nat
    BY <1>2 DEF CommentInv, CommentsShape
<1>4. \A q \in Run :
          \/ Stands(q) /\ (q = r /\ Creates(r) => run'[q].pc \in {"done", "failed"})
          \/ q = r /\ (Starts(r) \/ Lists(r))
    BY <1>0, RunIs
<1>5. ASSUME NEW q \in Run PROVE ListedShape(q)' /\ OwnIsOwn(q)'
    <2>1. CASE Stands(q)
        <3>1. ListedShape(q)'
            BY <1>0, <2>1 DEF ListedShape, Stands
        <3>2. OwnIsOwn(q)'
            BY <1>0, <1>1, <1>3, <2>1, StandsOwn DEF Stands
        <3> QED
            BY <3>1, <3>2
    <2> QED
        BY <1>4, <2>1, StartsFrom, ListsFrom
<1>6. ASSUME ~deleted' PROVE ~deleted /\ \A q \in Run : ListedIsPrefix(q)' /\ KnownIsFound(q)'
    <2>1. ~deleted
        BY <1>1, <1>6 DEF Kept
    <2>2. ASSUME NEW q \in Run PROVE ListedIsPrefix(q)' /\ KnownIsFound(q)'
        <3>1. CASE Stands(q)
            BY <1>0, <1>1, <1>3, <1>6, <2>1, <3>1, StandsPrefix, StandsFound DEF KeptInv
        <3> QED
            BY <1>4, <2>1, <3>1, StartsFrom, ListsFrom
    <2> QED
        BY <2>1, <2>2
<1>7. ~overlap' => ~overlap
    <2>1. CASE Upsert(r)
        BY <2>1 DEF Upsert, Starts, Lists, Updates, Creates, Fails, Skips
    <2>2. CASE Comments \/ Delete \/ UNCHANGED vars
        BY <2>2 DEF Comments, Delete, vars
    <2> QED
        BY <2>1, <2>2
<1>8. ASSUME ~deleted', ~overlap' PROVE OnlyOne' /\ \A q \in Run : RestIsOthers(q)'
    <2>1. ~deleted /\ ~overlap
        BY <1>6, <1>7, <1>8
    <2>2. /\ Len(comments) \in Nat /\ DOMAIN comments = 1 .. Len(comments)
          /\ Len(comments') \in Nat /\ DOMAIN comments' = 1 .. Len(comments')
          /\ Len(comments) <= Len(comments')
        BY <1>0, <1>1, <1>3, <1>8 DEF CommentsOK, CommentsShape, Kept
    <2>3. \A i \in DOMAIN comments : IsOwn(comments'[i]) <=> IsOwn(comments[i])
        BY <1>1, <1>8 DEF Kept
    <2>4. \A i \in DOMAIN comments' :
              i > Len(comments) /\ IsOwn(comments'[i]) => i = Len(comments) + 1 /\ Creates(r)
        BY <1>1, <1>8 DEF Kept, IsNew
    <2>5. \A i \in DOMAIN comments' : i \in DOMAIN comments \/ i > Len(comments)
        BY <2>2
    <2>6. OnlyOne'
        <3>1. SUFFICES ASSUME NEW i \in DOMAIN comments', NEW j \in DOMAIN comments',
                              IsOwn(comments'[i]), IsOwn(comments'[j])
                       PROVE  i = j
            BY DEF OnlyOne, IsOwn
        <3>2. CASE Creates(r)
            <4>1. \A k \in DOMAIN comments : ~IsOwn(comments[k])
                BY <2>1, <3>2, CreatesFirst
            <4>2. i \notin DOMAIN comments /\ j \notin DOMAIN comments
                BY <2>3, <3>1, <4>1
            <4> QED
                BY <2>4, <2>5, <3>1, <4>2
        <3>3. CASE ~Creates(r)
            <4>1. i \in DOMAIN comments /\ j \in DOMAIN comments
                BY <2>4, <2>5, <3>1, <3>3
            <4>2. IsOwn(comments[i]) /\ IsOwn(comments[j])
                BY <2>3, <3>1, <4>1
            <4> QED
                BY <2>1, <4>1, <4>2 DEF KeptInv, OnlyOne
        <3> QED
            BY <3>2, <3>3
    <2>7. ASSUME NEW q \in Run PROVE RestIsOthers(q)'
        <3>1. CASE q = r /\ (Starts(r) \/ Lists(r))
            BY <2>1, <3>1, StartsFrom, ListsFrom
        <3>2. CASE Stands(q) /\ (q = r /\ Creates(r) => run'[q].pc \in {"done", "failed"})
            <4>1. SUFFICES ASSUME run'[q].pc = "writing", NEW i \in DOMAIN comments',
                                  i > Len(run[q].listed), IsOwn(comments'[i])
                           PROVE  FALSE
                BY <3>2 DEF RestIsOthers, IsOwn, Stands
            <4>2. run[q].pc = "writing"
                BY <3>2, <4>1 DEF Stands
            <4>3. CASE i \in DOMAIN comments
                BY <2>1, <2>3, <4>1, <4>2, <4>3 DEF KeptInv, RestIsOthers
            <4>4. CASE i \notin DOMAIN comments
                <5>1. Creates(r) /\ run[r].pc = "writing"
                    BY <2>4, <2>5, <4>1, <4>4 DEF Creates
                <5>2. q = r
                    BY <1>0, <2>1, <4>2, <5>1, OneWrites
                <5> QED
                    BY <3>2, <4>1, <5>1, <5>2
            <4> QED
                BY <4>3, <4>4
        <3> QED
            BY <1>4, <3>1, <3>2
    <2> QED
        BY <2>6, <2>7
<1>9. known' \subseteq Run
    <2>1. known' \subseteq known \cup {r}
        BY DEF Upsert, Starts, Lists, Updates, Creates, Fails, Skips, Comments, Delete, vars
    <2> QED
        BY <2>1 DEF KeptInv
<1> QED
    BY <1>1, <1>2, <1>5, <1>6, <1>8, <1>9 DEF KeptInv, Kept

\* Nobody has read anything yet, and no comment is a run's.
LEMMA KeptInitially == ASSUME Init, CommentInv PROVE KeptInv
<1>1. /\ written \in Nat /\ deleted = FALSE /\ overlap = FALSE /\ known = {}
      /\ run = [r \in Run |-> [pc |-> "idle", page |-> 0, listed |-> <<>>]]
    BY ConstantsAssumption DEF Init
<1>2. PICK text \in [1 .. written -> {"quoting", "plain"}] :
          comments = [i \in 1 .. written |-> [id |-> i, text |-> text[i], report |-> None]]
    BY DEF Init
<1>3. /\ DOMAIN comments = 1 .. written
      /\ \A i \in 1 .. written :
            comments[i].id = i /\ comments[i].report = None /\ ~IsOwn(comments[i])
    BY <1>2 DEF IsOwn
<1>4. IdsAreUnique /\ OwnersMark /\ OnlyOne
    BY <1>1, <1>3 DEF IdsAreUnique, OwnersMark, OnlyOne
<1>5. ASSUME NEW r \in Run
      PROVE  /\ run[r].pc = "idle" /\ run[r].page = 0 /\ run[r].listed = <<>>
             /\ <<>> \in Seq(Comment) /\ DOMAIN <<>> = {} /\ Len(<<>>) = 0
    BY <1>1
<1>6. Len(comments) >= 0
    BY DEF CommentInv, CommentsShape
<1>7. ASSUME NEW r \in Run
      PROVE  ListedShape(r) /\ OwnIsOwn(r) /\ ListedIsPrefix(r) /\ KnownIsFound(r) /\ RestIsOthers(r)
    BY <1>1, <1>5, <1>6 DEF ListedShape, OwnIsOwn, ListedIsPrefix, KnownIsFound, RestIsOthers
<1> QED
    BY <1>1, <1>4, <1>7 DEF KeptInv

\* The jobs of a workflow write comments as PrComment says, and no other way: what
\* holds of PrComment holds of them.
THEOREM AttemptsImplementPrComment == AttemptsSpec => Spec
<1>1. AttemptsInit => Init
    BY DEF AttemptsInit
<1>2. [AttemptsNext]_allVars => [Next]_vars
    <2>1. SUFFICES ASSUME [AttemptsNext]_allVars PROVE [Next]_vars
        OBVIOUS
    <2>2. CASE UNCHANGED allVars
        BY <2>2 DEF allVars, vars
    <2>3. ASSUME NEW r \in Run, Acts(r) PROVE [Next]_vars
        BY <2>3, ActsOnComment DEF Next
    <2>4. CASE PeopleAct
        BY <2>4 DEF PeopleAct, Next
    <2> QED
        BY <2>1, <2>2, <2>3, <2>4 DEF AttemptsNext, Acts
<1> QED
    BY <1>1, <1>2, PTL DEF AttemptsSpec, Spec

\* What the comments are after a step.
LEMMA KeptSays ==
    ASSUME KeptInv, KeptInv', NEW p \in Run, Kept(p)
    PROVE  /\ ~overlap' /\ ~deleted' => OneComment'
           /\ ~deleted => \A r \in known, c \in ToSet(comments') :
                c.report = r => \E d \in Marked : d.id = c.id
           /\ \A c \in ToSet(comments) \ Marked, d \in ToSet(comments') : d.id = c.id => d = c
<1>1. /\ written \in Nat /\ IdsAreUnique /\ OwnersMark
      /\ \A i \in DOMAIN comments : comments[i].id \in Nat /\ comments[i].id <= written
    <2>1. written \in Nat /\ \A i \in DOMAIN comments : comments[i] \in Comment
        BY DEF KeptInv, CommentInv, CommentsShape
    <2> QED
        BY <2>1 DEF KeptInv, IdsAreUnique, Comment
<1>2. ASSUME ~overlap', ~deleted' PROVE Cardinality(Marked') <= 1
    <2>1. \A c, d \in Marked' : c = d
        BY <1>2 DEF KeptInv, OnlyOne, Marked, ToSet, IsOwn
    <2>2. CASE Marked' = {}
        BY <2>2, FS_EmptySet
    <2>3. ASSUME NEW c \in Marked' PROVE Cardinality(Marked') <= 1
        <3>1. Marked' = {c}
            BY <2>1, <2>3
        <3>2. Cardinality({c}) = 1
            BY FS_Singleton
        <3> QED
            BY <3>1, <3>2
    <2> QED
        BY <2>2, <2>3
<1>3. ASSUME ~deleted, NEW r \in known, NEW c \in ToSet(comments'), c.report = r, r \in Run
      PROVE  \E d \in Marked : d.id = c.id
    <2>1. PICK i \in DOMAIN comments' : c = comments'[i]
        BY <1>3 DEF ToSet
    <2>2. r # None
        BY <1>3, ConstantsAssumption
    <2>3. ~IsNew(p, c)
        <3>1. ASSUME IsNew(p, c) PROVE FALSE
            <4>1. p = r /\ Creates(p)
                BY <1>3, <2>2, <3>1 DEF IsNew
            <4> QED
                BY <1>3, <4>1 DEF Creates, KeptInv, KnownIsFound
        <3> QED
            BY <3>1
    <2>4. PICK j \in DOMAIN comments : Same(comments[j], c)
        BY <2>1, <2>3 DEF Kept
    <2>5. IsOwn(comments[j]) /\ comments[j].id = c.id
        BY <1>1, <1>3, <2>2, <2>4 DEF Same, OwnersMark
    <2> QED
        BY <2>5 DEF Marked, ToSet, IsOwn
<1>4. ASSUME NEW c \in ToSet(comments) \ Marked, NEW d \in ToSet(comments'), d.id = c.id
      PROVE  d = c
    <2>1. PICK k \in DOMAIN comments : c = comments[k]
        BY <1>4 DEF ToSet
    <2>2. PICK i \in DOMAIN comments' : d = comments'[i]
        BY <1>4 DEF ToSet
    <2>3. ~IsOwn(c)
        BY <1>4 DEF Marked, IsOwn
    <2>4. ~IsNew(p, d)
        BY <1>1, <1>4, <2>1 DEF IsNew
    <2>5. PICK j \in DOMAIN comments : Same(comments[j], d)
        BY <2>2, <2>4 DEF Kept
    <2>6. j = k
        BY <1>1, <1>4, <2>1, <2>5 DEF Same, IdsAreUnique
    <2> QED
        BY <2>1, <2>3, <2>5, <2>6 DEF Same
<1>5. known \subseteq Run
    BY DEF KeptInv
<1> QED
    BY <1>2, <1>3, <1>4, <1>5 DEF OneComment

\* Nor does a step of a job that is not about the comment.
LEMMA KeptStill == ASSUME KeptInv, UNCHANGED vars PROVE KeptInv'
<1>1. CommentInv'
    BY DEF KeptInv, CommentInv, RunShape, CommentsShape, RunsInTurn, LastIsThere, Marked, Over, vars
<1>2. IdsAreUnique' /\ OwnersMark' /\ known' \subseteq Run
    BY DEF KeptInv, IdsAreUnique, OwnersMark, vars
<1>3. ASSUME NEW r \in Run PROVE ListedShape(r)' /\ OwnIsOwn(r)'
    BY DEF KeptInv, ListedShape, OwnIsOwn, vars
<1>4. ASSUME ~deleted', NEW r \in Run PROVE ListedIsPrefix(r)' /\ KnownIsFound(r)'
    <2>1. ListedIsPrefix(r) /\ KnownIsFound(r)
        BY <1>4 DEF KeptInv, vars
    <2>2. Found(r)' = Found(r)
        BY DEF Found, vars
    <2> QED
        BY <2>1, <2>2 DEF ListedIsPrefix, KnownIsFound, vars
<1>5. ASSUME ~deleted', ~overlap' PROVE OnlyOne' /\ \A r \in Run : RestIsOthers(r)'
    BY <1>5 DEF KeptInv, OnlyOne, RestIsOthers, vars
<1> QED
    BY <1>1, <1>2, <1>3, <1>4, <1>5 DEF KeptInv

\* No run replaces what people wrote, or creates a comment where it found its own; and
\* there is one comment as long as no two runs overlap and none is deleted.
THEOREM CommentsStayKept == AttemptsSpec => CommentsAreKept
<1>1. AttemptsInit => KeptInv
    BY AttemptsInitially, KeptInitially DEF AttemptsInit, AttemptsInv
<1>2. KeptInv /\ [AttemptsNext]_allVars =>
          KeptInv' /\ (UNCHANGED vars \/ \E p \in Run : Kept(p))
    <2>1. SUFFICES ASSUME KeptInv, [AttemptsNext]_allVars
                   PROVE  KeptInv' /\ (UNCHANGED vars \/ \E p \in Run : Kept(p))
        OBVIOUS
    <2>2. CASE UNCHANGED vars
        BY <2>1, <2>2, KeptStill
    <2>3. ASSUME NEW p \in Run, Upsert(p) \/ Comments \/ Delete
          PROVE  KeptInv' /\ \E q \in Run : Kept(q)
        BY <2>1, <2>3, KeptStep
    <2>4. ASSUME NEW p \in Run, Acts(p)
          PROVE  KeptInv' /\ (UNCHANGED vars \/ \E q \in Run : Kept(q))
        BY <2>2, <2>3, <2>4, ActsOnComment
    <2>5. CASE PeopleAct
        BY <2>3, <2>5 DEF PeopleAct
    <2>6. UNCHANGED allVars => UNCHANGED vars
        BY DEF allVars, vars
    <2> QED
        BY <2>1, <2>2, <2>4, <2>5, <2>6 DEF AttemptsNext, Acts
<1>3. KeptInv /\ KeptInv' /\ (UNCHANGED vars \/ \E p \in Run : Kept(p)) =>
          [/\ ~overlap' /\ ~deleted' => OneComment'
           /\ ~deleted => \A r \in known, c \in ToSet(comments') :
                c.report = r => \E d \in Marked : d.id = c.id
           /\ \A c \in ToSet(comments) \ Marked, d \in ToSet(comments') :
                d.id = c.id => d = c]_vars
    BY KeptSays
<1> QED
    BY <1>1, <1>2, <1>3, PTL DEF AttemptsSpec, CommentsAreKept
=============================================================================
