--------------------------- MODULE MCReviewAttempts ---------------------------
(* Small instances of ReviewAttempts for TLC. *)
EXTENDS ReviewAttempts

\* Two rules with one identity, one of them with other details; a rule of a policy
\* with the name of a built-in one; a rule that names no file.
OneRule == [id |-> "auth", source |-> "builtin", matched |-> {"a"}, details |-> 1]
MCContent ==
    << [files |-> [a |-> {"auth"}, b |-> {"env"}],
        rules |-> <<OneRule, [OneRule EXCEPT !.details = 2],
                    [id |-> "env", source |-> "builtin", matched |-> {}, details |-> 1]>>],
       [files |-> [a |-> {"auth"}, b |-> {"env"}],
        rules |-> <<[OneRule EXCEPT !.details = 2], [OneRule EXCEPT !.source = "policy"],
                    [OneRule EXCEPT !.id = "size", !.matched = {}]>>] >>

\* The texts select the same packs.
MCPacks == [policy \in Policies |-> IF policy \in Texts THEN "packs" ELSE policy]

SomeReport == [schema |-> 1, whole |-> TRUE, config |-> None, content |-> 1,
               policyEvidence |-> [sha256 |-> None, revision |-> None]]

EvidenceAt(branch, commit) ==
    [repository |-> Repository, branch |-> branch, commit |-> commit, configuration |-> None]

EvidenceOfReport(report, branch, commit) ==
    [report |-> report,
     manifest |-> CreateArtifactManifest(report, EvidenceAt(branch, commit))]

\* Of another branch, and of this one as an older release would have written it.
MCForeign ==
    {EvidenceOfReport(SomeReport, "other", <<"head", 0>>),
     [EvidenceOfReport(SomeReport, Branch, <<"merge", 1>>) EXCEPT !.report.schema = 0,
                                                            !.manifest.schema = 0]}

Plain == [handoff |-> FALSE, queued |-> FALSE, checkout |-> "head", policy |-> "none", own |-> FALSE,
          outputs |-> FALSE, comment |-> FALSE, people |-> FALSE, varied |-> TRUE]

MCWorkflows ==
    {[Plain EXCEPT !.comment = TRUE],
     [Plain EXCEPT !.checkout = "merge", !.outputs = TRUE],
     [Plain EXCEPT !.handoff = TRUE, !.queued = TRUE, !.checkout = "merge"],
     [Plain EXCEPT !.comment = TRUE, !.people = TRUE, !.varied = FALSE],
     [Plain EXCEPT !.policy = "manifest", !.varied = FALSE],
     [Plain EXCEPT !.policy = "manifest", !.handoff = TRUE, !.queued = TRUE, !.comment = TRUE,
                   !.varied = FALSE],
     [Plain EXCEPT !.policy = "starter", !.own = TRUE, !.handoff = TRUE, !.varied = FALSE],
     [Plain EXCEPT !.policy = "both", !.varied = FALSE]}

\* For PolicyIsDeferred, which fails (README, section 5).
ManifestWorkflows == {[Plain EXCEPT !.policy = "manifest"]}
=============================================================================
