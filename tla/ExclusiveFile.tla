---------------------------- MODULE ExclusiveFile ----------------------------
(***************************************************************************)
(* What `merge-guard init` promises (docs/public-contracts.md): a file that   *)
(* many may ask for and one gets.  A request is answered in the instant it    *)
(* takes effect, whole or not at all; only people replace or remove a file.   *)
(***************************************************************************)
CONSTANTS Proc, Absent, Foreign

VARIABLES
    file,      \* Absent, Foreign, or the process whose complete file it is
    verdict    \* what every process was told

fileVars == <<file, verdict>>

Told(p, answer) == verdict[p] = "none" /\ verdict' = [verdict EXCEPT ![p] = answer]

Creates(p) == file = Absent /\ file' = p /\ Told(p, "created")

FindsIt(p) == file # Absent /\ UNCHANGED file /\ Told(p, "exists")

Fails(p) == UNCHANGED file /\ Told(p, "failed")

PeopleEdit == file' \in {Absent, Foreign} /\ UNCHANGED verdict

FileInit == file \in {Absent, Foreign} /\ verdict = [p \in Proc |-> "none"]

FileNext == (\E p \in Proc : Creates(p) \/ FindsIt(p) \/ Fails(p)) \/ PeopleEdit

FileSpec == FileInit /\ [][FileNext]_fileVars
=============================================================================
