------------------------- MODULE MCPolicyResolution -------------------------
(* A small instance of PolicyResolution for TLC. *)
EXTENDS PolicyResolution

CONSTANTS A, B

\* `^x$` and `x$`, for the names there are; the second matches from every scope.
Anchored == {<<"x">>}
Trailing == {<<"x">>, <<"p", "x">>, <<"q", "x">>, <<"p", "q", "x">>}

MCFile == Trailing \cup {<<"p">>}
MCRoot == {<<"p">>, <<"p", "q">>, <<"q">>}

\* One file, or one renamed, or two.
MCDiff ==
    {{[path |-> f, previous |-> g]} : <<f, g>> \in {r \in MCFile \X (MCFile \cup {None}) : r[1] # r[2]}}
        \cup {{[path |-> f, previous |-> None] : f \in {g, h}} : g, h \in Trailing}
MCPattern == {Anchored, Trailing}

\* B has no rule.
MCPack ==
    [policy \in {A, B} |->
        [target \in Target |->
            CASE target = "rule" -> IF policy = A THEN Anchored ELSE None
              [] target = "protectedPath" -> IF policy = A THEN Trailing ELSE Anchored \cup {<<"p">>}
              [] OTHER -> Trailing]]
=============================================================================
