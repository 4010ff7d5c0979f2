------------------------------ MODULE MCProClient ------------------------------
(* A small instance of ProClient for TLC. *)
EXTENDS ProClient

CONSTANT k2

\* The process overrides whatever key the file holds.
Overriding == [p \in Proc |-> k2]

\* The overriding key's license expires, or is withdrawn; the other is for ever.
Licenses == [k \in Key |->
    IF k = k2 THEN {[status |-> "granted", benefit |-> "pro", expires |-> 2], None}
              ELSE {[status |-> "granted", benefit |-> "team", expires |-> Never]}]
=============================================================================
