------------------------------- MODULE Scanner -------------------------------
(***************************************************************************)
(* What a scan makes of a diff: the risk rules of src/src/analyzeDiff.js,   *)
(* the project's own rules (src/src/customRules.js) and the suppressions    *)
(* (src/src/suppressions.js), as operators on values.  Review runs them.    *)
(*                                                                          *)
(* A path is known by what the expressions of the code make of its name, a  *)
(* line by what they find in it: a section of the diff is [path, added,     *)
(* removed, lines, says] where `lines' holds the kinds of its changed lines *)
(* and `says' the words that occur in its added lines.  A rule's identifier *)
(* is a sequence, <<"custom", "x">> for the source's "custom:x".            *)
(***************************************************************************)
EXTENDS Integers, SequencesExt, TLC

CONSTANTS
    PathOrder,   \* the paths, in the order of localeCompare
    TestPath,    \* those isTestFile accepts
    DocsPath,    \* those isDocsFile accepts
    DataPath,    \* fixtures, patches, JSON, YAML and TOML
    IndexPath,   \* index.js and its like
    NamedFor,    \* for every path, the patterns its name matches
    None, Unsafe \* no expression, and one compileSafeRegex refuses

Path == ToSet(PathOrder)

ASSUME PathAssumption ==
    /\ PathOrder \in Seq(Path) /\ IsInjective(PathOrder)
    /\ TestPath \subseteq Path /\ DocsPath \subseteq Path
    /\ DataPath \subseteq Path /\ IndexPath \subseteq Path
    /\ DOMAIN NamedFor = Path

Before(p, q) == \E i, j \in 1..Len(PathOrder) : i < j /\ PathOrder[i] = p /\ PathOrder[j] = q

\* The smaller and the larger of two numbers.
Least(a, b) == IF a < b THEN a ELSE b
Most(a, b) == IF a < b THEN b ELSE a

\* A record with fields beside its own.
Extended(r, fields) ==
    [x \in DOMAIN r \cup DOMAIN fields |-> IF x \in DOMAIN r THEN r[x] ELSE fields[x]]

\* The sum of a sequence of numbers.
Total(numbers) ==
    LET sum[n \in 0..Len(numbers)] == IF n = 0 THEN 0 ELSE sum[n - 1] + numbers[n]
    IN sum[Len(numbers)]

\* A set in the order of a relation: the place of an element is behind those before it.
InOrder(S, R) ==
    [n \in 1..Cardinality(S) |-> CHOOSE x \in S : Cardinality({y \in S : <<y, x>> \in R}) + 1 = n]

\* A sequence without its later duplicates: [...new Set(values)].
WithNew(kept, x) == IF Contains(kept, x) THEN kept ELSE Append(kept, x)
Uniq(s) ==
    LET kept[n \in 0..Len(s)] == IF n = 0 THEN <<>> ELSE WithNew(kept[n - 1], s[n])
    IN kept[Len(s)]

\* The elements of a sequence that are in a set, in their order.
Among(s, S) ==
    LET kept[n \in 0..Len(s)] ==
            IF n = 0 THEN <<>>
            ELSE IF s[n] \in S THEN Append(kept[n - 1], s[n]) ELSE kept[n - 1]
    IN kept[Len(s)]

-----------------------------------------------------------------------------
(* Presets *)

Preset ==
    [safe     |-> [failThreshold |-> 9, reviewThreshold |-> 4, lines |-> 160, files |-> 10,
                   delta |-> -1, highRisk |-> 3, missingTests |-> 1],
     standard |-> [failThreshold |-> 7, reviewThreshold |-> 3, lines |-> 120, files |-> 8,
                   delta |-> 0, highRisk |-> 4, missingTests |-> 2],
     strict   |-> [failThreshold |-> 5, reviewThreshold |-> 2, lines |-> 80, files |-> 5,
                   delta |-> 1, highRisk |-> 5, missingTests |-> 3]]
DocsOnlyScoreCap == 1

\* The settings of a scan: the preset's, with the project's threshold and paths.
NormalizeConfig(config) ==
    LET preset == Preset[config.preset]
    IN Extended([preset EXCEPT !.failThreshold = IF config.failThreshold = None THEN @
                                                 ELSE Most(1, config.failThreshold)],
                [preset |-> config.preset, highRiskPaths |-> config.highRiskPaths,
                 testCommands |-> config.testCommands])

Level(score, settings) ==
    IF score >= settings.failThreshold THEN "HIGH"
    ELSE IF score >= settings.reviewThreshold THEN "MEDIUM" ELSE "LOW"
Rank == [LOW |-> 1, MEDIUM |-> 2, HIGH |-> 3]

-----------------------------------------------------------------------------
(* Changes *)

\* The sections of one path are one change, in the place of the first.
ParseFileChanges(diff) ==
    LET paths == Uniq([i \in DOMAIN diff |-> diff[i].path])
        Of(p) == {s \in ToSet(diff) : s.path = p}
        Count(p, side) ==
            Total([i \in DOMAIN diff |-> IF diff[i].path = p THEN diff[i][side] ELSE 0])
        Merged(p) == [path |-> p, added |-> Count(p, "added"), removed |-> Count(p, "removed"),
                      lines |-> UNION {s.lines : s \in Of(p)},
                      says |-> UNION {s.says : s \in Of(p)}]
    IN [i \in DOMAIN paths |-> Merged(paths[i])]

Files(changes) == {changes[i].path : i \in DOMAIN changes}
ChangedLines(changes) == Total([i \in DOMAIN changes |-> changes[i].added + changes[i].removed])

IsImplementationFile(path) == path \notin DocsPath \cup TestPath
HasOnlyCommentChanges(c) == c.lines = {"comment"}
IsDocsLike(c) == c.path \in DocsPath \/ HasOnlyCommentChanges(c)

\* Mutant: one documentation file makes the change documentation.
IsDocsOnly_Some(changes) == \E i \in DOMAIN changes : IsDocsLike(changes[i])

IsDocsOnly(changes) == changes # <<>> /\ \A i \in DOMAIN changes : IsDocsLike(changes[i])

\* Only such a file's added lines are searched.
IsCoreAnalyzableFile(path) == IsImplementationFile(path) /\ path \notin DataPath

\* An index file that only gains re-exports moves no entry point.
IsPureAdditiveIndexReexport(c) ==
    c.path \in IndexPath /\ c.removed = 0 /\ c.lines \ {"comment"} = {"reexport"}

-----------------------------------------------------------------------------
(* Rules and scores *)

RiskPatterns ==
    <<[id |-> "state-or-persistence", weight |-> 3], [id |-> "dependency-or-config", weight |-> 2],
      [id |-> "routing-or-entry", weight |-> 2],     [id |-> "async-or-network", weight |-> 2],
      [id |-> "large-change", weight |-> 2],         [id |-> "test-change", weight |-> -1]>>

\* A check is known by the rule, command or policy that asks for it.
Check(kind, of) == [kind |-> kind, of |-> of]
RuleHit(id, weight, files, check) ==
    [id |-> id, weight |-> weight, matchedFiles |-> files, check |-> check]
BuiltIn(id, weight, files) == RuleHit(<<id>>, weight, files, Check("rule", <<id>>))

AdjustedWeight(weight, settings) ==
    IF weight <= 0 THEN weight ELSE Most(1, weight + settings.delta)

\* The files whose name a pattern matches.
PatternFiles(id, changes) ==
    {c.path : c \in {d \in ToSet(changes) :
        IF id = "test-change" THEN d.path \in TestPath
        ELSE /\ id \in NamedFor[d.path]
             /\ id = "routing-or-entry" => ~IsPureAdditiveIndexReexport(d)}}

MatchRiskPattern(id, changes, settings) ==
    IF id = "large-change"
    THEN ChangedLines(changes) >= settings.lines \/ Len(changes) >= settings.files
    ELSE \/ PatternFiles(id, changes) # {}
         \/ \E c \in ToSet(changes) : IsCoreAnalyzableFile(c.path) /\ id \in c.says

\* The built-in rules a change meets, those of `skipped' left aside.
PatternHits(changes, settings, skipped) ==
    LET Hit(p) == BuiltIn(p.id, AdjustedWeight(p.weight, settings), PatternFiles(p.id, changes))
        Met(p) == p.id \notin skipped /\ MatchRiskPattern(p.id, changes, settings)
        met[n \in 0..Len(RiskPatterns)] ==
            IF n = 0 THEN <<>>
            ELSE IF Met(RiskPatterns[n]) THEN Append(met[n - 1], Hit(RiskPatterns[n]))
            ELSE met[n - 1]
    IN met[Len(RiskPatterns)]

ConfiguredHighRiskHits(changes, settings) ==
    LET files == Files(changes) \cap settings.highRiskPaths
    IN IF files = {} THEN <<>>
       ELSE <<BuiltIn("configured-high-risk-path", settings.highRisk, files)>>

MissingTestsHits(changes, settings) ==
    LET files == {p \in Files(changes) : IsImplementationFile(p)}
    IN IF files = {} \/ Files(changes) \cap TestPath # {} \/ IsDocsOnly(changes) THEN <<>>
       ELSE <<BuiltIn("implementation-without-tests", settings.missingTests, files)>>

Weight(hits) == Total([i \in DOMAIN hits |-> hits[i].weight])

\* Documentation scores at most the cap, unless the project marked its paths.
Capped(score, docs, marked) ==
    Most(0, IF docs /\ ~marked THEN Least(score, DocsOnlyScoreCap) ELSE score)

\* [score, rules, checks, docsOnly] of the whole change.
ScoreRisk(changes, settings) ==
    LET docsOnly == IsDocsOnly(changes)
        patterns == {RiskPatterns[i].id : i \in DOMAIN RiskPatterns}
        configured == ConfiguredHighRiskHits(changes, settings)
        hits == PatternHits(changes, settings, IF docsOnly THEN patterns \ {"test-change"} ELSE {})
                \o configured \o MissingTestsHits(changes, settings)
        docs == IF docsOnly THEN <<BuiltIn("docs-only", 0, Files(changes))>> ELSE <<>>
        ruled == hits \o docs
    IN [score |-> Capped(Weight(hits), docsOnly, configured # <<>>), docsOnly |-> docsOnly,
        rules |-> docs \o hits,
        checks |-> Uniq([i \in DOMAIN ruled |-> ruled[i].check]
                        \o [i \in DOMAIN settings.testCommands |->
                               Check("configured", settings.testCommands[i])])]

\* [path, score, level, rules] of one file of it.
ScoreSingleFile(c, settings) ==
    LET configured == ConfiguredHighRiskHits(<<c>>, settings)
        hits == (IF IsDocsLike(c) THEN <<>> ELSE PatternHits(<<c>>, settings, {})) \o configured
        docs == IF IsDocsLike(c) /\ configured = <<>>
                THEN <<BuiltIn("docs-or-comment-only-file", 0, {c.path})>> ELSE <<>>
        score == Capped(Weight(hits), IsDocsLike(c), configured # <<>>)
    IN [path |-> c.path, score |-> score, level |-> Level(score, settings), rules |-> hits \o docs]

\* The order of the report, on the name in the end.
Riskier(f, g) ==
    \/ Rank[f.level] > Rank[g.level]
    \/ f.level = g.level /\ f.score > g.score
    \/ f.level = g.level /\ f.score = g.score /\ Before(f.path, g.path)
SortFilesByRisk(files) ==
    InOrder(files, {pair \in files \X files : Riskier(pair[1], pair[2])})

\* The report of the built-in rules.
AnalyzeDiff(diff, config) ==
    LET settings == NormalizeConfig(config)
        changes == ParseFileChanges(diff)
        risk == ScoreRisk(changes, settings)
    IN [score |-> risk.score, level |-> Level(risk.score, settings), docsOnly |-> risk.docsOnly,
        settings |-> settings, rules |-> risk.rules,
        files |-> SortFilesByRisk({ScoreSingleFile(c, settings) : c \in ToSet(changes)}),
        checks |-> IF risk.checks = <<>> THEN <<Check("default", <<>>)>> ELSE risk.checks]

-----------------------------------------------------------------------------
(* Rules of the project and of policy packs *)

\* The identifier of a candidate counts as taken before its expressions are read.
NormalizeRule(at, i, c) ==
    IF ~c.complete \/ c.id \in at.seen \/ c.weight \notin 0..10
    THEN [at EXCEPT !.warnings = @ \cup {i}]
    ELSE IF Unsafe \in {c.path, c.line} \/ {c.path, c.line} = {None}
    THEN [at EXCEPT !.seen = @ \cup {c.id}, !.warnings = @ \cup {i}]
    ELSE [at EXCEPT !.seen = @ \cup {c.id}, !.rules = Append(@, c)]

\* The candidates that become rules, and the places of those that do not.
NormalizeCustomRules(candidates) ==
    LET at[n \in 0..Len(candidates)] ==
            IF n = 0 THEN [seen |-> {}, rules |-> <<>>, warnings |-> {}]
            ELSE NormalizeRule(at[n - 1], n, candidates[n])
    IN at[Len(candidates)]

\* The changes a rule matches; the scope of a manifest is PolicyResolution's.
MatchCustomRule(rule, changes) ==
    {c.path : c \in {d \in ToSet(changes) :
        /\ rule.path # None => d.path \in rule.path
        /\ rule.line # None => rule.line \in d.says}}

\* A hit adds its weight to the files it matched, and the files are sorted anew.
UpdateFileBreakdown(files, hit, settings) ==
    SortFilesByRisk({IF f.path \in hit.matchedFiles
                     THEN [f EXCEPT !.score = @ + hit.weight,
                                    !.level = Level(f.score + hit.weight, settings),
                                    !.rules = Append(@, hit)]
                     ELSE f : f \in ToSet(files)})

\* Mutant: a level once given stays.
Reconsidered_Kept(report) == report

\* The verdict is given anew for the score as it is now.
Reconsidered(report) == [report EXCEPT !.level = Level(report.score, report.settings)]

\* A rule that matches no file leaves the report as it is.
ApplyRule(at, rule, changes, prefix) ==
    LET files == MatchCustomRule(rule, changes)
        hit == RuleHit(prefix \o rule.id, rule.weight, files, rule.check)
    IN IF files = {} THEN at
       ELSE [at EXCEPT !.rules = Append(@, hit), !.checks = Uniq(Append(@, rule.check)),
                       !.score = @ + rule.weight,
                       !.files = UpdateFileBreakdown(@, hit, at.settings)]

ApplyCustomRules(report, diff, candidates, prefix) ==
    LET changes == ParseFileChanges(diff)
        rules == NormalizeCustomRules(candidates).rules
        at[n \in 0..Len(rules)] ==
            IF n = 0 THEN report ELSE ApplyRule(at[n - 1], rules[n], changes, prefix)
    IN Reconsidered(at[Len(rules)])

-----------------------------------------------------------------------------
(* Suppressions *)

\* A pair of rule and expression counts as taken once an entry with it is accepted,
\* were it expired; a day that is in no calendar is warned of, and accepted.
NormalizeEntry(at, i, e) ==
    LET warned == [at EXCEPT !.warnings = @ \cup {i}]
        heard == IF e.complete /\ e.real THEN at ELSE warned
    IN IF <<e.ruleId, e.path>> \in at.seen \/ e.path = Unsafe THEN warned
       ELSE IF ~e.complete THEN heard
       ELSE [heard EXCEPT !.seen = @ \cup {<<e.ruleId, e.path>>}, !.kept = @ \cup {i}]

\* The places of the entries kept and of those warned of.
NormalizeSuppressions(entries) ==
    LET at[n \in 0..Len(entries)] ==
            IF n = 0 THEN [seen |-> {}, kept |-> {}, warnings |-> {}]
            ELSE NormalizeEntry(at[n - 1], n, entries[n])
    IN at[Len(entries)]

Suppresses(e, hit) ==
    /\ hit.id \in {e.ruleId, <<"custom">> \o e.ruleId}
    /\ e.path # None => hit.matchedFiles \cap e.path # {}

SuppressionWarnings(entries, today) ==
    LET at == NormalizeSuppressions(entries)
    IN at.warnings \cup {i \in at.kept : entries[i].expires < today}

\* Mutant: a suppression never expires.
SuppressedFindings_Forever(rules, entries, today) ==
    {f \in ToSet(rules) \X {entries[i] : i \in NormalizeSuppressions(entries).kept} :
        Suppresses(f[2], f[1])}

\* The findings copied, each with the entry it was copied for.
SuppressedFindings(rules, entries, today) ==
    {f \in ToSet(rules) \X {entries[i] : i \in NormalizeSuppressions(entries).kept} :
        f[2].expires >= today /\ Suppresses(f[2], f[1])}
=============================================================================
