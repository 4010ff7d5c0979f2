------------------------------- MODULE Review -------------------------------
(***************************************************************************)
(* One run of the scanner, src/src/cli.js: it reads its input, its          *)
(* configuration and what the repository offers, scores, applies policy and *)
(* guidance, writes the JSON report, the step summary and its output, and   *)
(* ends.  Any of these may fail, and what was written before stays.         *)
(*                                                                          *)
(* Left out: help, version, the commercial commands and doctor, a terminal  *)
(* as input, the policy manifest (PolicyResolution), the impact graph       *)
(* (ImpactGraph), wording and the room a text has for warnings.             *)
(***************************************************************************)
EXTENDS ReviewOutputs

CONSTANTS
    Args,        \* [preset, failThreshold, ci, output], the first two may be None
    Diff,        \* diffs, <<>> for one that is empty or has an unusable header
    Document,    \* configuration files
    Project,     \* what detectProjectCheckDetails finds in the repository
    PackFile,    \* policy files, None when no policy was asked for
    Location,    \* the CODEOWNERS locations
    Today,
    Malformed    \* a value of the wrong type

\* What is given and the code parses: lists are lists, lines are counted, a complete rule
\* has a name, a preset is one of the three, not given, or refused, and so is a threshold
\* a number; a list of the wrong type, or with such an item, is Malformed as a whole.  The words a section says are those a pattern has an expression for: the
\* pattern of the tests has none.
IsSeq(s) == s \in Seq(ToSet(s))

ASSUME InputAssumption ==
    /\ None \notin {0, 1}
    /\ \A d \in Diff : IsSeq(d) /\ \A s \in ToSet(d) :
          s.path \in Path /\ s.added \in Nat /\ s.removed \in Nat /\ "test-change" \notin s.says
    /\ \A arguments \in Args : /\ arguments.preset \in DOMAIN Preset \cup {None, Malformed}
                               /\ arguments.failThreshold \in Int \cup {None, Malformed}
    /\ \A document \in Document \ {Malformed} :
          /\ {"preset", "failThreshold", "highRiskPaths", "customRules", "suppressions",
              "testCommands"} \subseteq DOMAIN document
          /\ document.preset \in DOMAIN Preset \cup {None, Malformed}
          /\ document.failThreshold \in Int \cup {None, Malformed}
          /\ IsSeq(document.customRules) /\ IsSeq(document.suppressions)
          /\ document.testCommands # Malformed => IsSeq(document.testCommands)
          /\ \A rule \in ToSet(document.customRules) :
                rule.complete => IsSeq(rule.id) /\ rule.id # <<>>
    /\ \A packFile \in PackFile \ {None} :
          /\ IsSeq(packFile.pack.rules) /\ IsSeq(packFile.pack.requiredChecks)
          /\ \A rule \in ToSet(packFile.pack.rules) : IsSeq(rule.id)
    /\ \A project \in Project :
          /\ IsSeq(project.scripts) /\ IsSeq(project.tools) /\ IsSeq(project.smoke)
          /\ IsSeq(project.readmes) /\ \A lines \in ToSet(project.readmes) : IsSeq(lines)
          /\ ToSet(DetectProjectChecks(project)) \subseteq PreferredCommand \cup DOMAIN CategoryPriority

VARIABLES
    stage,    \* the step to come, "ended" at last
    args, diff,
    config,   \* the configuration once resolved
    report,   \* the report so far
    file,     \* the JSON report on disk: "none", a "part" of it, or the "whole"
    summary,  \* the step summary, None before
    out,      \* what was printed, None before
    exit      \* None, 0 or 1

vars == <<stage, args, diff, config, report, file, summary, out, exit>>
written == <<file, summary, out>>

\* main().catch: whatever was written stays.
Fail == stage' = "ended" /\ exit' = 1

-----------------------------------------------------------------------------
(* resolveConfig *)

\* validateConfig: these stop the run, a malformed rule only warns.
FatalConfig(document) ==
    \/ document = Malformed \/ document.preset = Malformed
    \/ document.failThreshold = Malformed
    \/ document.failThreshold # None /\ document.failThreshold < 1
    \/ document.highRiskPaths = Malformed \/ document.testCommands = Malformed

\* resolveConfig refuses the same of the arguments.
RefusedArguments(arguments) ==
    \/ arguments.preset = Malformed \/ arguments.failThreshold = Malformed
    \/ arguments.failThreshold # None /\ arguments.failThreshold < 1

\* The rules a configuration is warned for; normalizeCustomRules warns of more.
ConfigDiagnostics(document) ==
    \E r \in ToSet(document.customRules) : ~r.complete \/ r.weight = Malformed

\* The configuration file is validated before the arguments override it.
ResolvedConfig(document, arguments) ==
    [document EXCEPT !.preset = IF arguments.preset # None THEN arguments.preset
                                ELSE IF @ = None THEN "standard" ELSE @,
                     !.failThreshold = IF arguments.failThreshold # None
                                       THEN arguments.failThreshold ELSE @]

-----------------------------------------------------------------------------
Init ==
    /\ stage = "input" /\ args \in Args
    /\ diff = <<>> /\ config = None /\ report = None
    /\ file = "none" /\ summary = None /\ out = None /\ exit = None

\* An empty diff, or one of whose headers one cannot be used, is refused whole.
ReadInput ==
    /\ stage = "input"
    /\ \E d \in Diff :
          IF d = <<>> THEN Fail /\ UNCHANGED diff
          ELSE stage' = "config" /\ diff' = d /\ UNCHANGED exit
    /\ UNCHANGED <<args, config, report, written>>

ResolveConfig ==
    /\ stage = "config"
    /\ \E document \in Document :
          IF FatalConfig(document) \/ RefusedArguments(args) THEN Fail /\ UNCHANGED config
          ELSE stage' = "analyze" /\ config' = ResolvedConfig(document, args) /\ UNCHANGED exit
    /\ UNCHANGED <<args, diff, report, written>>

\* analyzeDiff, applyCustomRules, applySuppressions and applyProjectChecks, in
\* this order: a suppression sees the findings of custom rules, not of policies.
Analyzed(d, c, project) ==
    LET built == AnalyzeDiff(d, c)
        ruled == ApplyCustomRules(built, d, c.customRules, <<"custom">>)
        extras == [customRuleWarnings |-> NormalizeCustomRules(c.customRules).warnings,
                   suppressionWarnings |-> SuppressionWarnings(c.suppressions, Today),
                   suppressedFindings |->
                       SuppressedFindings(ruled.rules, c.suppressions, Today),
                   configDiagnostics |-> ConfigDiagnostics(c),
                   policyRuleWarnings |-> {}, packs |-> <<>>, requiredChecks |-> <<>>,
                   saves |-> [status |-> "none", concerns |-> {}, checks |-> <<>>],
                   projectChecks |-> <<>>, guidance |-> None, primaryChecks |-> <<>>]
    IN ApplyProjectChecks(Extended(ruled, extras), project)

Analyze ==
    /\ stage = "analyze"
    /\ \E project \in Project : report' = Analyzed(diff, config, project)
    /\ stage' = "policy"
    /\ UNCHANGED <<args, diff, config, written, exit>>

\* A policy that cannot be loaded stops the run; there is none to fall back on.
\* Guidance follows, from the owners' file and the packs, and then the plan.
Governed(analyzed, d, pack, locations) ==
    LET policed == IF pack = None THEN analyzed ELSE ApplyPolicyPack(analyzed, d, pack)
        guided == [policed EXCEPT !.guidance =
                      InspectReviewGuidance(d, IF pack = None THEN {} ELSE {pack}, locations)]
    IN [guided EXCEPT !.primaryChecks = SelectPrimaryChecks(guided)]

ApplyPolicy ==
    /\ stage = "policy"
    /\ \E packFile \in PackFile, locations \in Location :
          IF packFile # None /\ ~LoadStarterPolicyPack(packFile)
          THEN Fail /\ UNCHANGED report
          ELSE /\ report' = Governed(report, diff, IF packFile = None THEN None ELSE packFile.pack,
                                    locations)
               /\ stage' = "write"
               /\ UNCHANGED exit
    /\ UNCHANGED <<args, diff, config, written>>

-----------------------------------------------------------------------------
(* Outputs *)

\* Mutant: a report that could not be written is passed over.
WriteReportJson_Ignores ==
    /\ stage = "write"
    /\ file' \in {"none", "part", "whole"} /\ stage' = "summary"
    /\ UNCHANGED <<args, diff, config, report, summary, out, exit>>

\* A path that is a symbolic link is refused, and the disk may refuse too, then or when
\* part of the report is written.
WriteReportJson ==
    /\ stage = "write"
    /\ \/ Fail /\ file' \in {"none", "part"}
       \/ file' = "whole" /\ stage' = "summary" /\ UNCHANGED exit
    /\ UNCHANGED <<args, diff, config, report, summary, out>>

\* Only a CI run has a step summary, and appending to it may fail.
WriteStepSummary ==
    /\ stage = "summary"
    /\ \/ args.ci /\ Fail /\ UNCHANGED summary
       \/ /\ summary' = IF args.ci THEN Shown(report) ELSE None
          /\ stage' = "print"
          /\ UNCHANGED exit
    /\ UNCHANGED <<args, diff, config, report, file, out>>

Output ==
    LET bundle == CreateAnnotationBundle(report, diff)
    IN CASE args.output = "json" -> report
         [] args.output = "annotations" -> bundle
         [] args.output = "sarif" -> CreateSarifLog(report, bundle)
         [] OTHER -> Shown(report)

\* The score decides the end of a CI run, and of no other.
Finish ==
    /\ stage = "print"
    /\ out' = Output
    /\ exit' = IF args.ci /\ report.score >= report.settings.failThreshold THEN 1 ELSE 0
    /\ stage' = "ended"
    /\ UNCHANGED <<args, diff, config, report, file, summary>>

Next == ReadInput \/ ResolveConfig \/ Analyze \/ ApplyPolicy
        \/ WriteReportJson \/ WriteStepSummary \/ Finish

Spec == Init /\ [][Next]_vars

-----------------------------------------------------------------------------
(* Properties *)

\* The built-in and custom part of a scan under some configuration.
Scan(d, c) ==
    ApplyCustomRules(AnalyzeDiff(d, c), d, c.customRules, <<"custom">>)

\* What the other sections of its file make of one's lines.
Others(d, i) == {d[j].lines : j \in {k \in DOMAIN d \ {i} : d[k].path = d[i].path}}

\* Of one diff and one configuration a stricter preset never makes less, neither of
\* the report's level nor of a file's (the three presets of analyzeDiff.js move
\* weights, thresholds and limits at once); and more change is not less risk: a
\* section that is not of a test never lowers the score, whatever it does to "docs
\* only", to the limits or to the re-exports.  The exception is a section added to a
\* file of which the others change no line, or comments alone: hasOnlyCommentChanges
\* wants a line, so that a comment beside a change of mode makes documentation of it,
\* and isPureAdditiveIndexReexport a re-export, so that one beside comments clears them.
VerdictIsMonotone ==
    stage = "analyze" =>
        LET As(preset) == Scan(diff, [config EXCEPT !.preset = preset])
            LevelOf(scan, path) == (CHOOSE f \in ToSet(scan.files) : f.path = path).level
        IN /\ \A pair \in {<<"safe", "standard">>, <<"standard", "strict">>} :
                LET lax == As(pair[1]) strict == As(pair[2])
                IN /\ Rank[lax.level] <= Rank[strict.level]
                   /\ \A p \in Files(diff) : Rank[LevelOf(lax, p)] <= Rank[LevelOf(strict, p)]
           /\ \A i \in {j \in DOMAIN diff : diff[j].path \notin TestPath} :
                Others(diff, i) = {} \/ ~(UNION Others(diff, i) \subseteq {"comment"}) =>
                    Scan(RemoveAt(diff, i), config).score <= Scan(diff, config).score

IsBuiltIn(hit) == Len(hit.id) = 1

\* The score the rules of a report or of one of its files add up to.
Tally(hits, docs) ==
    LET built == [i \in DOMAIN hits |-> IF IsBuiltIn(hits[i]) THEN hits[i].weight ELSE 0]
        added == [i \in DOMAIN hits |-> IF IsBuiltIn(hits[i]) THEN 0 ELSE hits[i].weight]
        marked == \E h \in ToSet(hits) : h.id = <<"configured-high-risk-path">>
    IN Capped(Total(built), docs, marked) + Total(added)

\* Score and level, of the report and of each file, the order of the files and the end
\* of a CI run all say the same of the rules listed, after the project's rules and a
\* policy's were added to a verdict that had been given without them.
VerdictFollowsRules ==
    /\ report # None =>
         /\ report.score = Tally(report.rules, report.docsOnly)
         /\ report.level = Level(report.score, report.settings)
         /\ Files(diff) = {f.path : f \in ToSet(report.files)}
         /\ \A i \in DOMAIN report.files :
              LET f == report.files[i]
              IN /\ \E c \in ToSet(ParseFileChanges(diff)) :
                       c.path = f.path /\ f.score = Tally(f.rules, IsDocsLike(c))
                 /\ f.level = Level(f.score, report.settings)
                 /\ {h.id : h \in {g \in ToSet(f.rules) : ~IsBuiltIn(g)}}
                     = {h.id : h \in {g \in ToSet(report.rules) :
                                         ~IsBuiltIn(g) /\ f.path \in g.matchedFiles}}
                 /\ \A j \in 1..(i - 1) : Riskier(report.files[j], f)
    /\ out # None => (exit = 1 <=> args.ci /\ report.level = "HIGH")

\* A finding is listed as suppressed for an entry that is complete, in force today
\* and about it, and it stays a finding.  An entry whose date is none of the calendar
\* suppresses like any other (DATE_PATTERN alone keeps it out), but never unwarned of;
\* and of a finding that is not a policy's, an entry complete, in force and about it is
\* passed over only with a warning, where an earlier complete one names the same rule and
\* expression: it may be one that expired, and this one its renewal.
SuppressedIsJustified ==
    report # None =>
        LET entries == config.suppressions
            Sound(e) == e.complete /\ e.path # Unsafe
            Due(e) == Sound(e) /\ e.expires >= Today
        IN /\ \A f \in report.suppressedFindings :
                 /\ f[1] \in ToSet(report.rules) /\ f[2] \in ToSet(entries)
                 /\ Due(f[2]) /\ Suppresses(f[2], f[1])
                 /\ ~f[2].real => \E i \in report.suppressionWarnings :
                                     i \in DOMAIN entries /\ entries[i] = f[2]
           /\ \A i \in DOMAIN entries, h \in ToSet(report.rules) :
                 Due(entries[i]) /\ Suppresses(entries[i], h) /\ h.id[1] # "policy" =>
                     \/ <<h, entries[i]>> \in report.suppressedFindings
                     \/ i \in report.suppressionWarnings
                        /\ \E j \in 1..(i - 1) :
                             /\ Sound(entries[j])
                             /\ entries[j].ruleId = entries[i].ruleId
                             /\ entries[j].path = entries[i].path

\* What docs/suppressions.md:43 says: entries with invalid dates are ignored.
InvalidDatesAreIgnored ==
    report # None => \A f \in report.suppressedFindings : f[2].real

\* Nothing a run leaves aside goes unsaid.  A rule of the project is applied or
\* warned of; a pack that was accepted has no rule that is not applied, though
\* validatePolicyPack and normalizeCustomRules each read it in their own way; a
\* finding is annotated or listed as not; a path has owners, none, or no line.
NothingIsDropped ==
    /\ report # None =>
         LET applied == NormalizeCustomRules(config.customRules).rules
         IN /\ Len(applied) + Cardinality(report.customRuleWarnings) = Len(config.customRules)
            /\ IsInjective([i \in DOMAIN applied |-> applied[i].id])
            /\ \A r \in ToSet(applied) :
                  \/ MatchCustomRule(r, ParseFileChanges(diff)) = {}
                  \/ \E h \in ToSet(report.rules) : h.id = <<"custom">> \o r.id
    /\ stage \in {"write", "summary", "print"} =>
         LET owners == report.guidance.codeOwners
             bundle == CreateAnnotationBundle(report, diff)
             suggested == {s[1] : s \in owners.suggestions}
         IN /\ report.policyRuleWarnings = {}
            /\ Files(diff) = suggested \cup owners.unowned \cup owners.unmatched
            /\ suggested \cap (owners.unowned \cup owners.unmatched) = {}
            /\ owners.unowned \cap owners.unmatched = {}
            /\ \A h \in ToSet(report.rules) :
                  \E found \in bundle.annotations \cup bundle.unsupported : found[1] = h.id

\* The three checks a reviewer is shown are distinct and none left out is more
\* urgent; what a save needs checked comes before everything.
PlanIsUrgent ==
    stage \in {"write", "summary", "print"} =>
        LET plan == report.primaryChecks
            all == Candidates(report)
            Urgency(check) == Max({c.priority : c \in {d \in ToSet(all) : d.check = check}})
            checks == {c.check : c \in ToSet(all)}
        IN /\ IsInjective(plan) /\ ToSet(plan) \subseteq checks
           /\ Len(plan) = Least(PrimaryCheckLimit, Cardinality(checks))
           /\ \A shown \in ToSet(plan), left \in checks \ ToSet(plan) :
                 Urgency(shown) >= Urgency(left)
           /\ \A i \in 1..Least(Len(report.saves.checks), Len(plan)) :
                 Contains(report.saves.checks, plan[i])

\* A run keeps the contract its callers count on.
Contract == INSTANCE ScanContract WITH
    Reports <- {TRUE}, NoReport <- FALSE, Running <- None, written <- file = "whole"
ImplementsContract == Contract!Spec
=============================================================================
