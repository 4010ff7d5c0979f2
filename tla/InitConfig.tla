----------------------------- MODULE InitConfig -----------------------------
(***************************************************************************)
(* `merge-guard init` (src/src/initializeConfig.js): several processes, and  *)
(* people, create the configuration of one directory.  A process fills a     *)
(* temporary file of its own and then links it under the final name.  Any    *)
(* file operation may fail, a process may be killed between any two, and     *)
(* the power may go.                                                         *)
(*                                                                           *)
(* Arguments, --dry-run and the wording of the answer are left out.          *)
(***************************************************************************)
EXTENDS Naturals

CONSTANTS
    Proc,     \* processes that run init, once each
    Absent,   \* there is no configuration
    Foreign   \* a configuration init did not write

\* What a process has put into its file: nothing yet, a part, all of it, and all
\* of it on the disk.
Data == {"none", "empty", "part", "cached", "synced"}

ASSUME SetupAssumption == Absent # Foreign /\ {Absent, Foreign} \cap Proc = {}

VARIABLES
    finalName,  \* Absent, Foreign, or the process whose file it is
    temp,       \* processes whose temporary name exists
    data,       \* the content of every process's file
    pc,
    outcome,    \* "none", "created", "exists" or "failed"
    created,    \* processes whose fstat gave them their file's identity
    published,  \* history: processes whose link was made
    stuck       \* history: processes whose fstat or unlink failed

setupVars == <<finalName, temp, data, pc, outcome, created, published, stuck>>

Pc == {"idle", "looked", "opened", "written", "synced", "cleaning", "done", "dead"}

Live(p) == pc[p] \notin {"idle", "done", "dead"}

Goes(p, to) == pc' = [pc EXCEPT ![p] = to]

\* The catch block, then the finally block.
Concludes(p, result) ==
    /\ outcome' = [outcome EXCEPT ![p] = result]
    /\ Goes(p, "cleaning")

-----------------------------------------------------------------------------

\* lstat of the final name.
Looks(p) ==
    /\ pc[p] = "idle"
    /\ \/ finalName = Absent /\ Goes(p, "looked") /\ UNCHANGED outcome
       \/ finalName # Absent /\ Concludes(p, "exists")
       \/ Concludes(p, "failed")
    /\ UNCHANGED <<finalName, temp, data, created, published, stuck>>

\* open with wx under a random name, then fstat.
Opens(p) ==
    /\ pc[p] = "looked"
    /\ \/ Concludes(p, "failed") /\ UNCHANGED <<temp, data, created, stuck>>
       \/ /\ temp' = temp \cup {p}
          /\ data' = [data EXCEPT ![p] = "empty"]
          /\ \/ created' = created \cup {p} /\ Goes(p, "opened") /\ UNCHANGED <<outcome, stuck>>
             \/ stuck' = stuck \cup {p} /\ Concludes(p, "failed") /\ UNCHANGED created
    /\ UNCHANGED <<finalName, published>>

Writes(p) ==
    /\ pc[p] = "opened"
    /\ \/ data' = [data EXCEPT ![p] = "cached"] /\ Goes(p, "written") /\ UNCHANGED outcome
       \/ data' = [data EXCEPT ![p] = "part"] /\ Concludes(p, "failed")
    /\ UNCHANGED <<finalName, temp, created, published, stuck>>

\* Mutant: fsync is left out.
Syncs_Not(p) ==
    /\ pc[p] = "written"
    /\ Goes(p, "synced")
    /\ UNCHANGED <<finalName, temp, data, outcome, created, published, stuck>>

\* fsync and close.
Syncs(p) ==
    /\ pc[p] = "written"
    /\ \/ data' = [data EXCEPT ![p] = "synced"] /\ Goes(p, "synced") /\ UNCHANGED outcome
       \/ Concludes(p, "failed") /\ UNCHANGED data
    /\ UNCHANGED <<finalName, temp, created, published, stuck>>

\* link never replaces.
Links(p) ==
    /\ pc[p] = "synced"
    /\ \/ /\ finalName = Absent
          /\ finalName' = p
          /\ published' = published \cup {p}
          /\ Concludes(p, "created")
       \/ finalName # Absent /\ Concludes(p, "exists") /\ UNCHANGED <<finalName, published>>
       \/ Concludes(p, "failed") /\ UNCHANGED <<finalName, published>>
    /\ UNCHANGED <<temp, data, created, stuck>>

\* Mutant: the temporary name is removed after a success only.
Cleans_Published(p) ==
    /\ pc[p] = "cleaning"
    /\ Goes(p, "done")
    /\ IF p \in published
       THEN \/ temp' = temp \ {p} /\ UNCHANGED stuck
            \/ stuck' = stuck \cup {p} /\ UNCHANGED temp
       ELSE UNCHANGED <<temp, stuck>>
    /\ UNCHANGED <<finalName, data, outcome, created, published>>

\* The finally block: unlink what is known to be the process's own.
Cleans(p) ==
    /\ pc[p] = "cleaning"
    /\ Goes(p, "done")
    /\ IF p \in created
       THEN \/ temp' = temp \ {p} /\ UNCHANGED stuck
            \/ stuck' = stuck \cup {p} /\ UNCHANGED temp
       ELSE UNCHANGED <<temp, stuck>>
    /\ UNCHANGED <<finalName, data, outcome, created, published>>

Killed(p) ==
    /\ Live(p)
    /\ Goes(p, "dead")
    /\ UNCHANGED <<finalName, temp, data, outcome, created, published, stuck>>

-----------------------------------------------------------------------------
(* The surroundings *)

\* Every process dies, and what was not synced may be lost.
PowerLoss ==
    /\ \E p \in Proc : Live(p)
    /\ pc' = [p \in Proc |-> IF Live(p) THEN "dead" ELSE pc[p]]
    /\ \E lost \in SUBSET {p \in Proc : data[p] = "cached"} :
          data' = [p \in Proc |-> IF p \in lost THEN "part" ELSE data[p]]
    /\ UNCHANGED <<finalName, temp, outcome, created, published, stuck>>

\* People write, replace or remove the configuration.
PeopleWrite ==
    /\ finalName' = Foreign
    /\ UNCHANGED <<temp, data, pc, outcome, created, published, stuck>>

PeopleRemove ==
    /\ finalName # Absent
    /\ finalName' = Absent
    /\ UNCHANGED <<temp, data, pc, outcome, created, published, stuck>>

-----------------------------------------------------------------------------
SetupInit ==
    /\ finalName \in {Absent, Foreign}
    /\ temp = {} /\ created = {} /\ published = {} /\ stuck = {}
    /\ data = [p \in Proc |-> "none"]
    /\ pc = [p \in Proc |-> "idle"]
    /\ outcome = [p \in Proc |-> "none"]

InitializeConfig(p) ==
    Looks(p) \/ Opens(p) \/ Writes(p) \/ Syncs(p) \/ Links(p) \/ Cleans(p)

People == PeopleWrite \/ PeopleRemove

SetupNext == (\E p \in Proc : InitializeConfig(p) \/ Killed(p)) \/ PowerLoss \/ People

SetupSpec == SetupInit /\ [][SetupNext]_setupVars
-----------------------------------------------------------------------------
(* What init must guarantee *)

\* Every variable has its type.
SetupTypeOK ==
    /\ finalName \in Proc \cup {Absent, Foreign}
    /\ temp \subseteq Proc /\ created \subseteq Proc
    /\ published \subseteq Proc /\ stuck \subseteq Proc
    /\ data \in [Proc -> Data]
    /\ pc \in [Proc -> Pc]
    /\ outcome \in [Proc -> {"none", "created", "exists", "failed"}]

\* The final name as a reader after a crash finds it: a file that was linked before
\* its content reached the disk may be torn.
File == IF finalName \in Proc /\ data[finalName] # "synced" THEN "torn" ELSE finalName

Exclusive == INSTANCE ExclusiveFile WITH file <- File, verdict <- outcome

\* init behaves as if each process asked once and were answered in one instant: it
\* gets the name only while nobody has it ("init never overwrites it",
\* initializeConfig.js:60), what appears there is complete whatever the power does,
\* and the answer is the truth of that instant and is never taken back, also when
\* the cleaning after it fails.
ImplementsExclusiveFile == Exclusive!FileSpec

\* A process that came to its end leaves no temporary file, on the failing paths as
\* well, unless fstat or unlink failed ("removes its temporary name",
\* docs/public-contracts.md:3).
LeavesNoTemp == \A p \in Proc : pc[p] = "done" /\ p \notin stuck => p \notin temp
=============================================================================
