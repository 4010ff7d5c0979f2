------------------------------ MODULE MCReview ------------------------------
(* A small instance of Review for TLC. *)
EXTENDS Review

Async == "async-or-network"

MCPathOrder == <<"app", "docs", "index", "package", "state", "test">>
MCNamedFor == [p \in ToSet(MCPathOrder) |->
                 CASE p = "index" -> {"routing-or-entry"}
                   [] p = "package" -> {"dependency-or-config"}
                   [] p = "state" -> {"state-or-persistence"}
                   [] OTHER -> {}]

Section(path, added, removed, lines, says) ==
    [path |-> path, added |-> added, removed |-> removed, lines |-> lines, says |-> says,
     saves |-> {}]
Saved(what, value, kind) == [what |-> what, value |-> value, kind |-> kind]

MCSection ==
    <<Section("app", 1, 0, {"other"}, {Async}),
      Section("app", 0, 0, {}, {}),
      [Section("app", 1, 1, {"other"}, {}) EXCEPT
          !.saves = {Saved("version", 1, "removed"), Saved("version", 2, "added")}],
      Section("docs", 1, 0, {"other"}, {Async}),
      Section("app", 1, 0, {"comment"}, {}),
      Section("index", 1, 0, {"comment"}, {}),
      Section("index", 1, 0, {"reexport"}, {}),
      [Section("index", 0, 1, {"other"}, {}) EXCEPT !.saves = {Saved("key", "k", "removed")}],
      Section("package", 1, 0, {"other"}, {Async}),
      Section("state", 100, 0, {"comment"}, {}),
      Section("state", 30, 0, {"other"}, {"migrate()"}),
      Section("test", 1, 0, {"other"}, {}),
      Section("test", 0, 1, {"comment"}, {})>>

\* Every diff of one or two sections, two of one path among them.
MCDiff ==
    {<<>>} \cup {<<MCSection[i]>> : i \in DOMAIN MCSection}
    \cup {<<MCSection[r[1]], MCSection[r[2]]>> :
            r \in {s \in (DOMAIN MCSection) \X (DOMAIN MCSection) : s[1] < s[2]}}

Rule(name, complete, weight, path, line) ==
    [id |-> <<name>>, complete |-> complete, weight |-> weight, path |-> path, line |-> line,
     check |-> Check("text", name)]

\* Two of one name, the first of them unsafe or not; one without an expression.
MCRules ==
    {<<>>,
     <<Rule("x", TRUE, 3, {"app", "docs"}, None), Rule("x", TRUE, 9, {"state"}, None)>>,
     <<Rule("x", TRUE, 3, Unsafe, None), Rule("x", TRUE, 9, {"state"}, None),
       Rule("y", TRUE, 2, None, Async), Rule("z", FALSE, Malformed, None, Async)>>,
     <<Rule("y", TRUE, 11, None, Async), Rule("y", TRUE, 0, {"test", "index"}, None),
       Rule("z", TRUE, 1, None, None)>>}

Entry(rule, path, expires, real, complete) ==
    [ruleId |-> <<rule>>, path |-> path, expires |-> expires, real |-> real, complete |-> complete]

\* An expired entry and its renewal; a policy's rule; a day in no calendar; entries to
\* ignore.
MCSuppressions ==
    {<<Entry("x", None, 0, TRUE, TRUE), Entry("x", None, 2, TRUE, TRUE),
       Entry("state-or-persistence", {"state"}, 1, TRUE, TRUE),
       [Entry("x", None, 2, TRUE, TRUE) EXCEPT !.ruleId = <<"policy", "game", "x">>]>>,
     <<Entry("x", None, 2, TRUE, FALSE), Entry("x", None, 2, FALSE, TRUE),
       Entry("state-or-persistence", Unsafe, 2, TRUE, TRUE),
       Entry("state-or-persistence", {"app"}, 2, TRUE, TRUE)>>}

MCDocument ==
    {Malformed}
    \cup {[preset |-> "safe", failThreshold |-> threshold, highRiskPaths |-> {},
           testCommands |-> Malformed, customRules |-> <<>>, suppressions |-> <<>>] :
              threshold \in {0, 1, Malformed}}
    \cup {[preset |-> c[1], failThreshold |-> c[2], highRiskPaths |-> c[3], testCommands |-> c[4],
           customRules |-> rules, suppressions |-> c[5]] :
            rules \in MCRules,
            c \in {<<None, None, {}, <<>>, CHOOSE e \in MCSuppressions : TRUE>>,
                   <<"safe", 1, {"docs", "index"}, <<"npm test">>,
                     CHOOSE e \in MCSuppressions : e # CHOOSE f \in MCSuppressions : TRUE>>,
                   <<"strict", None, {"test"}, <<>>, <<>>>>}}

MCProject ==
    {[scripts |-> <<>>, tools |-> <<>>, tests |-> "none", python |-> FALSE, smoke |-> <<>>,
      readmes |-> <<>>],
     [scripts |-> <<"npm run build", "npm run smoke", "npm test">>, tools |-> <<"ruff">>,
      tests |-> "directory", python |-> TRUE, smoke |-> <<[kind |-> "link", command |-> "node smoke.js"]>>,
      readmes |-> <<<<"prose", "npm test">>>>]}
MCCategoryPriority == [c \in {"npm run build", "ruff", "unittest", "pytest"} |->
    CASE c = "npm run build" -> 60 [] c = "ruff" -> 70 [] OTHER -> 80]

Pack(minimum, rules, checks) ==
    [schemaVersion |-> 1, id |-> "game", complete |-> TRUE,
     minimum |-> [release |-> minimum, pre |-> FALSE], maximum |-> [release |-> 3, pre |-> FALSE],
     reportSchema |-> 1, rules |-> rules,
     requiredChecks |-> [i \in DOMAIN checks |-> [id |-> checks[i], command |-> checks[i], complete |-> TRUE]],
     protectedPaths |-> <<[id |-> "g", pattern |-> {"state"}, complete |-> TRUE, requiredCheckIds |-> {"c"}]>>]
PackIn(kind, pack) == [kind |-> kind, small |-> TRUE, pack |-> pack]

MCPackFile ==
    {None,
     PackIn("file", Pack(1, <<Rule("x", TRUE, 4, {"state", "docs"}, None)>>, <<"c", "d">>)),
     PackIn("file", Pack(1, <<Rule("x", TRUE, 4, {"state"}, None), Rule("x", TRUE, 4, {"app"}, None)>>, <<"c">>)),
     PackIn("file", Pack(3, <<>>, <<"c">>)),
     PackIn("file", Pack(1, <<>>, <<>>)),
     PackIn("link", Pack(1, <<>>, <<"c">>))}

OwnerLine(pattern, owners, valid) == [pattern |-> pattern, owners |-> owners, valid |-> valid]
Owners == <<OwnerLine(ToSet(MCPathOrder) \ {"docs"}, {"a"}, TRUE), OwnerLine({"app"}, {}, TRUE),
            OwnerLine({"docs"}, {"?"}, FALSE)>>
Place(kind, small, lines) == [kind |-> kind, small |-> small, lines |-> lines]
MCLocation ==
    {<<Place("none", TRUE, <<>>), Place("file", TRUE, Owners), Place("file", TRUE, <<>>)>>,
     <<Place("link", TRUE, <<>>), Place("file", FALSE, Owners), Place("file", TRUE, Owners)>>}

MCArgs ==
    {[preset |-> None, failThreshold |-> None, ci |-> TRUE, output |-> "text"],
     [preset |-> "standard", failThreshold |-> 3, ci |-> FALSE, output |-> "annotations"],
     [preset |-> "strict", failThreshold |-> 0, ci |-> TRUE, output |-> "text"],
     [preset |-> None, failThreshold |-> None, ci |-> FALSE, output |-> "sarif"]}
MCRuntime == [version |-> [release |-> 2, pre |-> TRUE], reportSchema |-> 1]
=============================================================================
