------------------------------- MODULE Evidence -------------------------------
(***************************************************************************)
(* What a review leaves for the next one: a report, the manifest that binds *)
(* it to a commit, the choice of prior evidence, the comparison of findings *)
(* and the projection that says which of the outputs there are.  All of it  *)
(* is a function of its inputs; ReviewAttempts runs it.                     *)
(***************************************************************************)
EXTENDS Integers, Sequences, FiniteSets, SequencesExt

CONSTANTS
    None,        \* an input that was not given, a result that is not there
    Unreadable,  \* a file that is no JSON, a link, too large
    Error,       \* an error was thrown
    Content      \* the findings a report may hold: rules, and the rules of each file

\* canonicalJson and SHA-256: one digest for each value.
Hash(value) == <<"sha256", value>>

-----------------------------------------------------------------------------
(* Reports and their findings *)

\* A report of this schema with every field the comparison asks for.
ReportIsValid(report) == report.whole /\ report.schema = 1

Rules(report) == Content[report.content].rules

\* The paths of a rule: its own, else those of the files that name it; None is the
\* whole change.
FindingPaths(rule, report) ==
    LET files == Content[report.content].files
        named == {path \in DOMAIN files : rule.id \in files[path]}
        paths == IF rule.matched # {} THEN rule.matched ELSE named
    IN IF paths = {} THEN {None} ELSE paths

Identities(rule, report) ==
    {<<rule.source, rule.id, path>> : path \in FindingPaths(rule, report)}

\* The first rule with an identity says the rest.
ExtractStableFindings(report) ==
    LET names(identity) == {n \in DOMAIN Rules(report) :
                                identity \in Identities(Rules(report)[n], report)}
        first(identity) == CHOOSE n \in names(identity) : \A m \in names(identity) : n <= m
    IN [identity \in UNION {Identities(rule, report) : rule \in ToSet(Rules(report))} |->
            Rules(report)[first(identity)].details]

NoHistory == [status |-> "history-unavailable", new |-> {}, unchanged |-> {},
              changed |-> {}, resolved |-> {}]

Compared(previous, current) ==
    LET kept == DOMAIN previous \cap DOMAIN current
    IN [status |-> "compared",
        new |-> DOMAIN current \ DOMAIN previous,
        unchanged |-> kept,
        changed |-> {identity \in kept : previous[identity] # current[identity]},
        resolved |-> DOMAIN previous \ DOMAIN current]

\* The lists of identities a comment shows; without history, none.
FormatFindingComparisonMarkdown(document) ==
    IF document.status = "history-unavailable" THEN {}
    ELSE {<<"new", document.new>>, <<"resolved", document.resolved>>,
          <<"unchanged", document.unchanged>>}

CompareFindingReports(previous, current) ==
    IF ~ReportIsValid(current) THEN Error
    ELSE IF previous = None THEN NoHistory
    ELSE IF ~ReportIsValid(previous) THEN Error
    ELSE Compared(ExtractStableFindings(previous), ExtractStableFindings(current))

-----------------------------------------------------------------------------
(* The manifest *)

ContentHashes(report, evidence) ==
    [report |-> Hash(report), configuration |-> Hash(evidence.configuration),
     evidence |-> Hash(evidence)]

\* What the identity of a manifest is the digest of.
IdentityPayload(manifest) ==
    [schema |-> manifest.schema, evidence |-> manifest.evidence,
     hashes |-> manifest.hashes, reportSchema |-> manifest.reportSchema]

CreateArtifactManifest(report, evidence) ==
    IF report.schema # 1 \/ evidence.commit = None \/ evidence.repository = None THEN Error
    ELSE LET draft == [schema |-> 1, evidence |-> evidence,
                       hashes |-> ContentHashes(report, evidence),
                       reportSchema |-> report.schema]
         IN [schema |-> 1, evidence |-> evidence, hashes |-> draft.hashes,
             reportSchema |-> report.schema, id |-> Hash(draft)]

\* The diagnostics of a manifest by itself.
ValidateInputs(manifest) ==
    (IF manifest.schema # 1 THEN {"unsupported-schema"} ELSE {})
    \cup (IF manifest.evidence.commit = None \/ manifest.evidence.repository = None
          THEN {"incomplete-evidence"} ELSE {})
    \cup (IF manifest.reportSchema # 1 THEN {"invalid-report-reference"} ELSE {})

\* Mutant: the manifest is checked against itself only.
ValidateArtifactManifest_Alone(manifest, report) ==
    IF ValidateInputs(manifest) # {} THEN ValidateInputs(manifest)
    ELSE IF Hash(IdentityPayload(manifest)) # manifest.id THEN {"identity-mismatch"} ELSE {}

ValidateArtifactManifest(manifest, report) ==
    IF ValidateInputs(manifest) # {} THEN ValidateInputs(manifest)
    ELSE (IF ContentHashes(report, manifest.evidence) # manifest.hashes
          THEN {"hash-mismatch"} ELSE {})
         \cup (IF Hash(IdentityPayload(manifest)) # manifest.id
               THEN {"identity-mismatch"} ELSE {})

-----------------------------------------------------------------------------
(* The evaluation context *)

\* A policy source is of the base.
PolicySourceIsValid(source, baseCommit) == source # None => source.revision = baseCommit

\* No change is listed twice.
PolicyChangesAreValid(changes) == IsInjective(changes)

ContextIsValid(context) ==
    /\ PolicySourceIsValid(context.source, context.base)
    /\ context.starterRevision \in {None, context.base}
    /\ PolicyChangesAreValid(context.changes)

-----------------------------------------------------------------------------
(* The choice of prior evidence, and the comparison it allows *)

Differs(expected, actual) == expected # None /\ expected # actual

\* The status of what was handed over, and only a verified pair is used.
SelectPriorEvidence(previous, manifest, expected) ==
    CASE previous = None /\ manifest = None -> "missing"
      [] (previous = None) # (manifest = None) -> "unverifiable"
      [] OTHER ->
         IF ~ReportIsValid(previous) THEN "incompatible"
         ELSE LET codes == ValidateArtifactManifest(manifest, previous)
              IN CASE codes \cap {"unsupported-schema", "invalid-report-reference"} # {} ->
                        "incompatible"
                   [] codes # {} /\ codes \cap {"unsupported-schema",
                                                "invalid-report-reference"} = {} ->
                        "unverifiable"
                   [] codes = {} ->
                        IF \/ Differs(expected.repository, manifest.evidence.repository)
                           \/ Differs(expected.branch, manifest.evidence.branch)
                        THEN "cross-branch"
                        ELSE IF Differs(expected.commit, manifest.evidence.commit)
                             THEN "stale" ELSE "verified"

\* Without a verified pair nothing is classified.
CompareWithPriorEvidence(previous, current, status) ==
    CompareFindingReports(IF status = "verified" THEN previous ELSE None, current)

\* One run of the comparison: its exit, its document and the status of the evidence.
\* As soon as a manifest or an expectation is given only verified evidence counts.
CompareReports(previous, manifest, current, expected) ==
    LET strict == manifest # None \/ expected.repository # None
                      \/ expected.branch # None \/ expected.commit # None
        status == IF strict THEN SelectPriorEvidence(previous, manifest, expected) ELSE "none"
        document == IF strict THEN CompareWithPriorEvidence(previous, current, status)
                              ELSE CompareFindingReports(previous, current)
    IN IF previous = Unreadable \/ manifest = Unreadable \/ document = Error
       THEN [exit |-> 1, document |-> None, evidence |-> "none"]
       ELSE [exit |-> CASE document.status = "compared" -> 0
                        [] status = "incompatible" -> 1
                        [] OTHER -> 2,
             document |-> document, evidence |-> status]

-----------------------------------------------------------------------------
(* The projection: what there is of the outputs *)

Requested(requested, failed, available) ==
    CASE ~requested -> "skipped"
      [] requested /\ failed -> "failed"
      [] requested /\ ~failed /\ available -> "produced"
      [] requested /\ ~failed /\ ~available -> "unavailable"

\* Mutant: an output that could not be made does not degrade the whole.
StatusOf_Lenient(channels) ==
    LET statuses == {channels[c] : c \in DOMAIN channels}
    IN IF "failed" \in statuses THEN "failed" ELSE "complete"

\* The worst of the channels.
StatusOf(channels) ==
    LET statuses == {channels[c] : c \in DOMAIN channels}
    IN CASE "incomplete" \in statuses -> "incomplete"
         [] "incomplete" \notin statuses /\ "failed" \in statuses -> "failed"
         [] statuses \cap {"incomplete", "failed"} = {} /\ "unavailable" \in statuses -> "degraded"
         [] statuses \cap {"incomplete", "failed", "unavailable"} = {} -> "complete"

\* An exit that was never written counts as 0.
CreateReviewProjection(in) ==
    LET channels ==
            [report |-> IF in.report THEN "produced" ELSE "failed",
             manifest |-> IF in.manifest THEN "produced" ELSE "unavailable",
             outputs |-> Requested(in.outputs.requested, in.outputs.failed, in.outputs.available),
             comparison |-> Requested(in.comparison.requested, in.comparison.failed,
                                      in.comparison.available),
             comment |-> Requested(in.comment.requested /\ in.comment.eligible, FALSE,
                                   in.comment.available),
             threshold |-> "produced"]
    IN [status |-> StatusOf(channels), channels |-> channels,
        threshold |-> IF in.exit \in {None, 0} THEN "passed" ELSE "failed"]
=============================================================================
