------------------------------ MODULE MCLicense ------------------------------
(* Small instances of License for TLC. *)
EXTENDS License, TLC

CONSTANT k2

\* No process overrides the stored key.
NoOverride == [p \in Proc |-> None]

\* Every process runs with MERGE_GUARD_LICENSE_KEY = k2.
Override == [p \in Proc |-> k2]

Granted(benefit, expires) == [status |-> "granted", benefit |-> benefit, expires |-> expires]
Refused == [status |-> "refused", benefit |-> "pro", expires |-> Never]

\* A granted Pro license, one that does not pay, or none.
OnePlan == [k \in Key |-> {Granted("pro", Never), Refused, None}]

\* A Team license that may become a Pro one.
TwoPlans == [k \in Key |-> {Granted("pro", Never), Granted("team", Never)}]

\* Calls, and where EnvKey is uniform processes, are interchangeable.
CallSymmetry == Permutations(Call)
Symmetric == CallSymmetry \cup Permutations(Proc)
=============================================================================
