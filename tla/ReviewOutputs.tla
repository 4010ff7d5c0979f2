---------------------------- MODULE ReviewOutputs ----------------------------
(***************************************************************************)
(* What a reviewer is shown of a report: the check plan                     *)
(* (src/src/projectChecks.js), owners and protected paths                   *)
(* (reviewGuidance.js), annotations and SARIF (githubReviewOutputs.js), and *)
(* the facts every text has of a report (analyzeDiff.js).                   *)
(***************************************************************************)
EXTENDS PolicyPack

CONSTANT CategoryPriority  \* for every command: 80 a test, 70 a lint, 60 a build, 50 another
ASSUME CategoryAssumption ==
    \A command \in DOMAIN CategoryPriority : CategoryPriority[command] \in {80, 70, 60, 50}

-----------------------------------------------------------------------------
(* Project checks: `project' is what the root of the repository holds.      *)

ScriptPriority ==
    <<"npm run smoke", "npm test", "npm run check", "npm run validate", "npm run lint",
      "npm run typecheck", "npm run build", "npm run migrate", "npm run migration",
      "npm run db", "npm run database", "npm run deploy">>

\* The scripts whose names speak of verification come in the order of their names,
\* after the preferred ones.
PackageScripts(project) ==
    Among(ScriptPriority, ToSet(project.scripts)) \o project.scripts

\* A directory of tests hides test files in the root, and needs a configuration.
PythonMetadata(project) ==
    LET discovered == \/ project.tests = "directory" /\ project.python
                      \/ project.tests = "files"
    IN project.tools
       \o IF discovered /\ ~Contains(project.tools, "pytest") THEN <<"unittest">> ELSE <<>>

\* Of the root's smoke files the regular ones.
RootSmoke(project) ==
    LET files == Among(project.smoke, {e \in ToSet(project.smoke) : e.kind = "file"})
    IN [i \in DOMAIN files |-> files[i].command]

\* The commands among the lines of every README there is.
ReadmeCommands(project) ==
    LET lines == FlattenSeq(project.readmes)
    IN Among(lines, ToSet(lines) \ {"prose"})

DetectProjectChecks(project) ==
    Uniq(PackageScripts(project) \o PythonMetadata(project) \o RootSmoke(project)
         \o ReadmeCommands(project))

ProjectCheck(command) == Check("project", command)

\* Detected commands go before what the rules suggest.
ApplyProjectChecks(report, project) ==
    LET detected == DetectProjectChecks(project)
    IN [report EXCEPT !.projectChecks = detected,
                      !.checks = IF detected = <<>> THEN @
                                 ELSE Uniq([i \in DOMAIN detected |-> ProjectCheck(detected[i])] \o @)]

PrimaryCheckLimit == 3

PreferredCommand == {"npm run smoke", "npm test", "npm run check", "npm run release:check"}
ProjectPriority(command) ==
    CASE command = "npm run smoke" -> 100
      [] command = "npm test" -> 95
      [] command = "npm run check" -> 90
      [] command = "npm run release:check" -> 85
      [] OTHER -> CategoryPriority[command]

\* Every check with its priority, in the order they are added.
Candidates(report) ==
    LET Ranked(checks, priority) ==
            [i \in DOMAIN checks |-> [check |-> checks[i], priority |-> priority]]
        ruled == Among(report.rules, {r \in ToSet(report.rules) : r.weight > 0})
    IN Ranked(report.saves.checks, 110)
       \o Ranked([i \in DOMAIN ruled |-> ruled[i].check], 100)
       \o Ranked(report.requiredChecks, 90)
       \o [i \in DOMAIN report.projectChecks |->
              [check |-> ProjectCheck(report.projectChecks[i]),
               priority |-> ProjectPriority(report.projectChecks[i])]]
       \o Ranked(report.checks, 20)

\* Mutant: the plan is cut before the more urgent checks are brought forward.
SelectPrimaryChecks_Unsorted(report) ==
    LET distinct == Uniq([i \in DOMAIN Candidates(report) |-> Candidates(report)[i].check])
    IN SubSeq(distinct, 1, Least(PrimaryCheckLimit, Len(distinct)))

\* The distinct checks among candidates, by priority, then by order.
ByPriority(all) ==
    LET places == DOMAIN all
        Sooner(i, j) == \/ all[i].priority > all[j].priority
                        \/ all[i].priority = all[j].priority /\ i < j
        order == InOrder(places, {p \in places \X places : Sooner(p[1], p[2])})
    IN Uniq([i \in DOMAIN order |-> all[order[i]].check])

\* The first three.
SelectPrimaryChecks(report) ==
    LET distinct == ByPriority(Candidates(report))
    IN SubSeq(distinct, 1, Least(PrimaryCheckLimit, Len(distinct)))

-----------------------------------------------------------------------------
(* Review guidance: a location holds [kind, small, lines], a line is        *)
(* [pattern, owners, valid].                                                *)

\* What parseCodeOwners keeps of a file, in order.
CodeOwnersEntries(lines) == SelectSeq(lines, LAMBDA l : l.valid)

\* The first location that holds a file is the one read; one too large is not
\* read, and no other is tried.
FindCodeOwners(locations) ==
    LET files == SelectSeq(locations, LAMBDA l : l.kind = "file")
        links == \E i \in DOMAIN locations :
                    /\ locations[i].kind = "link"
                    /\ \A j \in 1..i : locations[j].kind # "file"
        invalid == \E l \in ToSet(Head(files).lines) : ~l.valid
    IN IF files = <<>> THEN [entries |-> <<>>, warned |-> links]
       ELSE IF ~Head(files).small THEN [entries |-> <<>>, warned |-> TRUE]
       ELSE [entries |-> CodeOwnersEntries(Head(files).lines), warned |-> links \/ invalid]

\* The last entry that matches a path decides, one without owners too.
MatchCodeOwners(paths, entries) ==
    LET Deciding(p) == SelectLastInSeq(entries, LAMBDA e : p \in e.pattern)
        Owners(p) == entries[Deciding(p)].owners
    IN [suggestions |-> {<<p, Owners(p)>> : p \in {q \in paths : Deciding(q) # 0 /\ Owners(q) # {}}},
        unowned |-> {p \in paths : Deciding(p) # 0 /\ Owners(p) = {}},
        unmatched |-> {p \in paths : Deciding(p) = 0}]

\* The paths of a pack that ask for a closer look, each with its checks.
MatchProtectedPaths(paths, packs) ==
    LET Checks(pack, g) == {c.command : c \in {d \in ToSet(pack.requiredChecks) :
                                                  d.id \in g.requiredCheckIds}}
        Met(pack, g) == {[path |-> p, pack |-> pack.id, id |-> g.id, checks |-> Checks(pack, g)] :
                            p \in paths \cap g.pattern}
    IN UNION {UNION {Met(pack, g) : g \in ToSet(pack.protectedPaths)} : pack \in packs}

InspectReviewGuidance(diff, packs, locations) ==
    LET paths == {c.path : c \in ToSet(diff)}
        owners == FindCodeOwners(locations)
    IN [protectedPaths |-> MatchProtectedPaths(paths, packs), warned |-> owners.warned,
        codeOwners |-> MatchCodeOwners(paths, owners.entries)]

-----------------------------------------------------------------------------
(* Annotations *)

\* The files a finding is about, or that list it.
CandidatePaths(hit, report) ==
    hit.matchedFiles \cup {f.path : f \in {g \in ToSet(report.files) :
                                              hit.id \in {r.id : r \in ToSet(g.rules)}}}

\* The first added line of every path that has one.
Anchored(diff) == {c.path : c \in {d \in ToSet(diff) : d.added > 0}}

\* Mutant: what cannot be anchored is left out in silence.
CreateAnnotationBundle_Drops(report, diff) ==
    LET found == UNION {{<<h.id, p>> : p \in CandidatePaths(h, report)} : h \in ToSet(report.rules)}
    IN [annotations |-> {f \in found : f[2] \in Anchored(diff)}, unsupported |-> {}]

\* A finding is annotated at a path, or listed as one that cannot be.
CreateAnnotationBundle(report, diff) ==
    LET found == UNION {{<<h.id, p>> : p \in CandidatePaths(h, report)} : h \in ToSet(report.rules)}
        nowhere == {h.id : h \in {g \in ToSet(report.rules) : CandidatePaths(g, report) = {}}}
    IN [annotations |-> {f \in found : f[2] \in Anchored(diff)},
        unsupported |-> {f \in found : f[2] \notin Anchored(diff)} \cup {<<id, None>> : id \in nowhere}]

\* SARIF describes every rule and locates every annotation.
CreateSarifLog(report, bundle) ==
    [rules |-> {h.id : h \in ToSet(report.rules)}, results |-> bundle.annotations,
     unsupportedFindings |-> Cardinality(bundle.unsupported), score |-> report.score]

-----------------------------------------------------------------------------
\* What the text, the Markdown report and the pull-request summary say alike.
Shown(report) ==
    [score |-> report.score, level |-> report.level, checks |-> report.primaryChecks,
     rules |-> ToSet(report.rules), files |-> report.files]
=============================================================================
