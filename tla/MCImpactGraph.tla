---------------------------- MODULE MCImpactGraph ----------------------------
(* Small instances of ImpactGraph for TLC. *)
EXTENDS ImpactGraph

Packages == 1 .. 3

\* Every kind of match, alone and under one that goes before it.
Matches == [wide: BOOLEAN, generated: {<<>>, <<1>>, <<2, 2>>},
            owners: {{}, {{3}}, {{1, 3}}, {{1}, {2}}}, root: {None, 2}]
=============================================================================
