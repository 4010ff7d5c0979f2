----------------------------- MODULE ImpactGraph -----------------------------
(***************************************************************************)
(* buildImpactGraph of src/src/impactGraph.js: which packages a diff         *)
(* concerns, given the declared metadata of impactMetadata.js.              *)
(*                                                                          *)
(* Three loops in a row: a depth-first search for dependency cycles, the    *)
(* classification of every changed file, and a breadth-first walk from the  *)
(* directly changed packages to their dependents.  Sorting is modelled by   *)
(* the order of Nat: package ids are numbers.                               *)
(***************************************************************************)
EXTENDS Naturals, Sequences, FiniteSets

CONSTANTS
    Package,   \* the declared packages
    File,      \* endpoints of the diff: a role and a path, each listed once
    Match,     \* which declarations may match a path
    None       \* null

Reason == [origin: Package, through: Package]

\* What loadImpactMetadata says of the file, and the dependencies it accepts: declared
\* packages only, and none on itself.
MetadataStatus == {"valid", "invalid", "not-provided"}
Dependencies == {g \in [Package -> SUBSET Package] : \A p \in Package : p \notin g[p]}

\* The validated declarations, as far as they concern one path.
\* wide: a repository-wide pattern matches; generated: the packages of the
\* generated-path records that match; owners: the different package sets of the
\* ownership records that match; root: the package with the longest root around it.
MatchRecord == [wide: BOOLEAN, generated: Seq(Package),
                owners: SUBSET ((SUBSET Package) \ {{}}), root: Package \cup {None}]

ASSUME ConstantsAssumption ==
    /\ Package \subseteq Nat /\ IsFiniteSet(Package)
    /\ Match \subseteq MatchRecord
    /\ None \notin Package \cup Reason

VARIABLES
    metadata,    \* metadata.status
    dependsOn,   \* the declared dependencies
    pc, status,
    roots, mark, stack, cycles,                   \* cycleDiagnostics
    changed, seen, gap, direct, wide, unknown, ambiguous,  \* the changed files
    seeds, queue, index, todo, visited, edges, transitive  \* the walk

cycleVars == <<roots, mark, stack, cycles>>
fileVars == <<changed, seen, gap, direct, wide, unknown, ambiguous>>
walkVars == <<seeds, queue, index, todo, visited, edges, transitive>>
vars == <<metadata, dependsOn, pc, status, cycleVars, fileVars, walkVars>>

Least(p, S) == p \in S /\ \A q \in S : p <= q

\* The packages of a set of <<package, file>> evidence, and its files.
Ids(evidence) == {e[1] : e \in evidence}
Files(evidence) == {e[2] : e \in evidence}

\* The packages that depend on p when g gives the dependencies.
Dependents(g, p) == {q \in Package : p \in g[q]}

-----------------------------------------------------------------------------
(* cycleDiagnostics *)

Entered(p) == [id |-> p, todo |-> dependsOn[p]]

VisitRoot ==
    /\ pc = "cycles" /\ stack = <<>>
    /\ \E p \in roots :
         /\ Least(p, roots)
         /\ roots' = roots \ {p}
         /\ \/ mark[p] = "done" /\ UNCHANGED <<mark, stack>>
            \/ /\ mark[p] = "new"
               /\ mark' = [mark EXCEPT ![p] = "active"]
               /\ stack' = <<Entered(p)>>
    /\ UNCHANGED <<metadata, dependsOn, pc, status, cycles, fileVars, walkVars>>

Top == stack[Len(stack)]

\* The part of the stack from p on, closed by p.
CycleTo(p) ==
    LET start == CHOOSE i \in 1 .. Len(stack) : stack[i].id = p
    IN  Append([i \in 1 .. Len(stack) - start + 1 |-> stack[start + i - 1].id], p)

\* Mutant: a package counts as finished when it is entered.
VisitDependency_Early ==
    /\ pc = "cycles" /\ stack # <<>>
    /\ \E d \in Top.todo :
         LET rest == [stack EXCEPT ![Len(stack)].todo = @ \ {d}] IN
         /\ Least(d, Top.todo)
         /\ IF mark[d] = "new"
            THEN stack' = Append(rest, Entered(d)) /\ mark' = [mark EXCEPT ![d] = "done"]
            ELSE stack' = rest /\ UNCHANGED mark
    /\ UNCHANGED <<metadata, dependsOn, pc, status, roots, cycles, fileVars, walkVars>>

VisitDependency ==
    /\ pc = "cycles" /\ stack # <<>>
    /\ \E d \in Top.todo :
         LET rest == [stack EXCEPT ![Len(stack)].todo = @ \ {d}] IN
         /\ Least(d, Top.todo)
         /\ \/ mark[d] = "done" /\ stack' = rest /\ UNCHANGED <<mark, cycles>>
            \/ /\ mark[d] = "active"
               /\ stack' = rest
               /\ cycles' = cycles \cup {CycleTo(d)}
               /\ UNCHANGED mark
            \/ /\ mark[d] = "new"
               /\ stack' = Append(rest, Entered(d))
               /\ mark' = [mark EXCEPT ![d] = "active"]
               /\ UNCHANGED cycles
    /\ UNCHANGED <<metadata, dependsOn, pc, status, roots, fileVars, walkVars>>

LeaveVisit ==
    /\ pc = "cycles" /\ stack # <<>>
    /\ Top.todo = {}
    /\ stack' = SubSeq(stack, 1, Len(stack) - 1)
    /\ mark' = [mark EXCEPT ![Top.id] = "done"]
    /\ UNCHANGED <<metadata, dependsOn, pc, status, roots, cycles, fileVars, walkVars>>

\* parseDiffEvidence: too large a diff, or one without headers, is a gap and
\* yields no file.
DiffEvidence ==
    {[changed |-> files, gap |-> FALSE] : files \in SUBSET File} \cup {[changed |-> {}, gap |-> TRUE]}

ParseDiff ==
    /\ pc = "cycles" /\ stack = <<>> /\ roots = {}
    /\ pc' = "files"
    /\ \E diff \in DiffEvidence : changed' = diff.changed /\ gap' = diff.gap
    /\ UNCHANGED <<metadata, dependsOn, status, cycleVars, seen, direct, wide, unknown, ambiguous, walkVars>>

-----------------------------------------------------------------------------
(* The changed files: repository-wide, then generated, owned, under a root *)

\* The owners of a file with match m, when its declarations agree.
Owners(m) ==
    {p \in Package :
       \/ m.generated = <<p>>
       \/ m.generated = <<>> /\ Cardinality(m.owners) = 1 /\ p \in UNION m.owners
       \/ m.generated = <<>> /\ m.owners = {} /\ m.root = p}

Ambiguous(m) == Len(m.generated) > 1 \/ (m.generated = <<>> /\ Cardinality(m.owners) > 1)

\* Mutant: an ambiguous file is reported and then goes to its owners anyway.
Classify_FallsThrough(f, m) ==
    /\ pc = "files" /\ f \in changed \ seen
    /\ seen' = seen \cup {f}
    /\ wide' = IF m.wide THEN wide \cup (Package \X {f}) ELSE wide
    /\ direct' = IF m.wide THEN direct ELSE direct \cup ((Owners(m) \cup UNION m.owners) \X {f})
    /\ unknown' = IF ~m.wide /\ Owners(m) = {} THEN unknown \cup {f} ELSE unknown
    /\ ambiguous' = IF ~m.wide /\ Ambiguous(m) THEN ambiguous \cup {f} ELSE ambiguous
    /\ UNCHANGED <<metadata, dependsOn, pc, status, changed, gap, cycleVars, walkVars>>

Classify(f, m) ==
    /\ pc = "files" /\ f \in changed \ seen
    /\ seen' = seen \cup {f}
    /\ \/ /\ m.wide
          /\ wide' = wide \cup (Package \X {f})
          /\ UNCHANGED <<direct, unknown, ambiguous>>
       \/ /\ ~m.wide /\ Owners(m) # {}
          /\ direct' = direct \cup (Owners(m) \X {f})
          /\ UNCHANGED <<wide, unknown, ambiguous>>
       \/ /\ ~m.wide /\ Owners(m) = {}
          /\ unknown' = unknown \cup {f}
          /\ ambiguous' = IF Ambiguous(m) THEN ambiguous \cup {f} ELSE ambiguous
          /\ UNCHANGED <<direct, wide>>
    /\ UNCHANGED <<metadata, dependsOn, pc, status, changed, gap, cycleVars, walkVars>>

FilesEnd ==
    /\ pc = "files" /\ changed \subseteq seen
    /\ pc' = "seeding" /\ seeds' = Ids(direct)
    /\ UNCHANGED <<metadata, dependsOn, status, cycleVars, fileVars,
                   queue, index, todo, visited, edges, transitive>>

-----------------------------------------------------------------------------
(* The walk over reverse dependencies *)

Seed ==
    /\ pc = "seeding"
    /\ \E p \in seeds :
         /\ Least(p, seeds)
         /\ seeds' = seeds \ {p}
         /\ queue' = Append(queue, [id |-> p, origin |-> p])
    /\ UNCHANGED <<metadata, dependsOn, pc, status, cycleVars, fileVars,
                   index, todo, visited, edges, transitive>>

StartWalk ==
    /\ pc = "seeding" /\ seeds = {}
    /\ pc' = "walking"
    /\ UNCHANGED <<metadata, dependsOn, status, cycleVars, fileVars, walkVars>>

Dequeue ==
    /\ pc = "walking" /\ todo = {} /\ index < Len(queue)
    /\ index' = index + 1
    /\ todo' = Dependents(dependsOn, queue[index + 1].id)
    /\ UNCHANGED <<metadata, dependsOn, pc, status, cycleVars, fileVars,
                   seeds, queue, visited, edges, transitive>>

\* The first reason stays.  Mutant: wide packages are transitive as well.
Explained_Wide(d, current) ==
    IF d \in Ids(direct) \/ transitive[d] # None
    THEN transitive
    ELSE [transitive EXCEPT ![d] = [origin |-> current.origin, through |-> current.id]]

Explained(d, current) ==
    IF d \in Ids(direct) \cup Ids(wide) \/ transitive[d] # None
    THEN transitive
    ELSE [transitive EXCEPT ![d] = [origin |-> current.origin, through |-> current.id]]

IsFresh(d, current) == <<current.origin, d>> \notin visited

Visit ==
    /\ pc = "walking"
    /\ \E d \in todo :
         LET current == queue[index] IN
         /\ Least(d, todo)
         /\ todo' = todo \ {d}
         /\ edges' = edges \cup {<<d, current.id>>}
         /\ transitive' = Explained(d, current)
         /\ IF IsFresh(d, current)
            THEN /\ visited' = visited \cup {<<current.origin, d>>}
                 /\ queue' = Append(queue, [id |-> d, origin |-> current.origin])
            ELSE UNCHANGED <<visited, queue>>
    /\ UNCHANGED <<metadata, dependsOn, pc, status, cycleVars, fileVars, seeds, index>>

Conclude ==
    /\ pc = "walking" /\ todo = {} /\ index = Len(queue)
    /\ pc' = "done"
    /\ status' = IF unknown = {} /\ ambiguous = {} /\ cycles = {} /\ ~gap
                 THEN "complete" ELSE "partial"
    /\ UNCHANGED <<metadata, dependsOn, cycleVars, fileVars, walkVars>>

\* Without valid metadata the graph is empty.
EmptyGraph ==
    /\ pc = "empty"
    /\ pc' = "done"
    /\ status' = IF metadata = "invalid" THEN "unknown" ELSE "not-provided"
    /\ UNCHANGED <<metadata, dependsOn, cycleVars, fileVars, walkVars>>

-----------------------------------------------------------------------------
Init ==
    /\ metadata \in MetadataStatus
    /\ dependsOn \in Dependencies
    /\ pc = IF metadata = "valid" THEN "cycles" ELSE "empty"
    /\ status = "none"
    /\ roots = Package /\ mark = [p \in Package |-> "new"] /\ stack = <<>> /\ cycles = {}
    /\ changed = {} /\ seen = {} /\ gap = FALSE
    /\ direct = {} /\ wide = {} /\ unknown = {} /\ ambiguous = {}
    /\ seeds = {} /\ queue = <<>> /\ index = 0 /\ todo = {} /\ visited = {} /\ edges = {}
    /\ transitive = [p \in Package |-> None]

Next ==
    \/ VisitRoot \/ VisitDependency \/ LeaveVisit \/ ParseDiff
    \/ \E f \in File, m \in Match : Classify(f, m)
    \/ FilesEnd \/ Seed \/ StartWalk \/ Dequeue \/ Visit \/ Conclude \/ EmptyGraph

Spec == Init /\ [][Next]_vars

-----------------------------------------------------------------------------
(* What the graph must be *)

\* Every variable of the files and of the walk has its type.
TypeOK ==
    /\ dependsOn \in [Package -> SUBSET Package]
    /\ pc \in {"empty", "cycles", "files", "seeding", "walking", "done"}
    /\ changed \subseteq File /\ seen \subseteq File /\ unknown \subseteq File
    /\ direct \subseteq Package \X File /\ wide \subseteq Package \X File
    /\ seeds \subseteq Package /\ todo \subseteq Package
    /\ queue \in Seq([id: Package, origin: Package]) /\ index \in 0 .. Len(queue)
    /\ todo # {} => index # 0
    /\ visited \subseteq Package \X Package /\ edges \subseteq Package \X Package
    /\ transitive \in [Package -> Reason \cup {None}]

ClosedUp(g, C) == \A p \in C : Dependents(g, p) \subseteq C

\* The least set of packages that contains S and the dependents of its members.
Reachable(g, S) ==
    {p \in Package : \A C \in SUBSET Package : S \subseteq C /\ ClosedUp(g, C) => p \in C}

\* "depends transitively on directly impacted package A through B" is true of A and
\* of B: A changed, B is A or one of its dependents, and the package depends on B.
ReasonsAreTrue ==
    \A p \in Package : transitive[p] # None =>
        /\ transitive[p].origin \in Ids(direct)
        /\ transitive[p].through \in Reachable(dependsOn, {transitive[p].origin})
        /\ p \in Dependents(dependsOn, transitive[p].through)

\* docs/impact-metadata.md, "Transitive packages are reverse dependents reached only
\* through declared dependsOn edges": when the walk ends it has found exactly the
\* packages that depend on a directly changed one, over any number of steps and
\* through cycles, direct and repository-wide ones listed apart, and exactly the
\* dependencies between them as edges; and whatever it has found, at any step, it
\* has found for a true reason.
ImpactIsExact ==
    /\ ReasonsAreTrue
    /\ pc = "done" =>
        /\ {p \in Package : transitive[p] # None} =
             Reachable(dependsOn, Ids(direct)) \ (Ids(direct) \cup Ids(wide))
        /\ edges = {e \in Package \X Package :
                      e[2] \in Reachable(dependsOn, Ids(direct)) /\ e[1] \in Dependents(dependsOn, e[2])}

\* The walk is bounded: no package is queued twice for one origin, the origin itself
\* once more at most, when a cycle leads back to it.
QueueIsBounded ==
    \A i, j \in 1 .. Len(queue) :
        queue[i] = queue[j] /\ i < j => i <= Cardinality(Ids(direct)) /\ queue[i].id = queue[i].origin

\* "Conflicting ownership or generated-path matches remain unknown": every changed file
\* ends up in exactly one place, unknown, evidence of direct packages or of every
\* package (if there is any), and a "complete" graph has placed the whole diff.
EveryFileIsPlaced ==
    /\ unknown \cap (Files(direct) \cup Files(wide)) = {}
    /\ Files(direct) \cap Files(wide) = {}
    /\ ambiguous \subseteq unknown
    /\ Package # {} => seen = unknown \cup Files(direct) \cup Files(wide)
    /\ pc = "done" => changed \subseteq seen
    /\ status = "complete" => unknown = {} /\ ~gap

\* The dependency that closes a reported cycle.
Closes(c, p, d) == p = c[Len(c) - 1] /\ d = c[Len(c)]

\* Every reported cycle is one, and none goes unreported: without the dependencies
\* that close the reported ones no cycle is left.
CyclesAreFound ==
    pc \in {"files", "seeding", "walking"} \/ (pc = "done" /\ metadata = "valid") =>
        /\ \A c \in cycles : /\ c[1] = c[Len(c)]
                             /\ \A i \in 1 .. Len(c) - 1 : c[i + 1] \in dependsOn[c[i]]
        /\ \A S \in (SUBSET Package) \ {{}} : \E p \in S : \A d \in dependsOn[p] \cap S :
               \E c \in cycles : Closes(c, p, d)
=============================================================================
