----------------------------- MODULE MCDashboard -----------------------------
(* Small instances of Dashboard for TLC. *)
EXTENDS Dashboard

CONSTANTS before, after

\* Two rules of one identity, a rule that matched no file, a check of a finding that
\* is suggested again, and one that belongs to none.
Auth == [source |-> "builtin", id |-> "auth", matched |-> {"a.js"}, check |-> "login"]
AuthAgain == [Auth EXCEPT !.check = "logout"]
Wide == [source |-> "custom", id |-> "wide", matched |-> {}, check |-> None]

Before ==
    [rules |-> <<Auth, Wide>>, files |-> {[path |-> "b.js", rules |-> {"wide"}]},
     suggested |-> <<"login">>, number |-> "positive", hollow |-> FALSE]
After ==
    [rules |-> <<Auth, AuthAgain>>, files |-> {},
     suggested |-> <<"login", "smoke">>, number |-> "other", hollow |-> FALSE]

MCReport == {before, after}
MCContent == [r \in MCReport |-> IF r = before THEN Before ELSE After]
MCSelection == {<<after>>, <<before, after>>}

\* Schema v1: a finding of the report, and one it does not have.
MCLegacy == {LegacyProgress(after, {<<"builtin", "auth", "a.js">>, <<"builtin", "auth", "c.js">>})}
=============================================================================
