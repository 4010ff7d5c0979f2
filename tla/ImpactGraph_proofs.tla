-------------------------- MODULE ImpactGraph_proofs --------------------------
(***************************************************************************)
(* For every set of packages, files and declarations: the graph finds       *)
(* exactly the dependents of the directly changed packages, for true        *)
(* reasons, places every changed file once, queues no package twice for one *)
(* origin and reports every cycle.                                          *)
(***************************************************************************)
EXTENDS ImpactGraph, FiniteSetTheorems, TLAPS

-----------------------------------------------------------------------------
(* Reachable *)

\* A set reaches itself.
LEMMA ReachesItself == ASSUME NEW g, NEW S \in SUBSET Package PROVE S \subseteq Reachable(g, S)
BY DEF Reachable

\* What depends on a reachable package is reachable.
LEMMA ReachesDependents ==
    ASSUME NEW g, NEW S \in SUBSET Package, NEW p \in Reachable(g, S), NEW q \in Dependents(g, p)
    PROVE  q \in Reachable(g, S)
BY DEF Reachable, ClosedUp, Dependents

\* More reaches more.
LEMMA ReachesMore ==
    ASSUME NEW g, NEW S \in SUBSET Package, NEW T \in SUBSET Package, S \subseteq T
    PROVE  Reachable(g, S) \subseteq Reachable(g, T)
BY DEF Reachable

\* A closed set that contains S contains all that S reaches.
LEMMA ReachesNoMore ==
    ASSUME NEW g, NEW S \in SUBSET Package, NEW C \in SUBSET Package, S \subseteq C, ClosedUp(g, C)
    PROVE  Reachable(g, S) \subseteq C
BY DEF Reachable

-----------------------------------------------------------------------------
(* The inductive invariant *)

Queued(q, p) == \E i \in 1 .. Len(q) : q[i].id = p

Before == pc \in {"empty", "cycles", "files"}

\* Nothing is walked before the files are classified.
WalkIsFresh ==
    /\ Before \/ pc = "seeding" =>
         /\ index = 0 /\ todo = {} /\ visited = {} /\ edges = {}
         /\ transitive = [p \in Package |-> None]
    /\ Before => queue = <<>> /\ seeds = {}
    /\ pc \in {"empty", "cycles"} => direct = {} /\ wide = {}

\* Direct packages wait in seeds or in the queue.
SeedsAreQueued ==
    /\ pc = "seeding" => seeds \subseteq Ids(direct) /\ \A p \in Ids(direct) : p \in seeds \/ Queued(queue, p)
    /\ pc \in {"walking", "done"} => \A p \in Ids(direct) : Queued(queue, p)

\* Whatever is queued was reached from its origin, and is accounted for.
QueueIsReached ==
    \A i \in 1 .. Len(queue) :
        /\ queue[i].origin \in Ids(direct)
        /\ queue[i].id \in Reachable(dependsOn, {queue[i].origin})
        /\ queue[i].id \in Ids(direct) \cup Ids(wide) \/ transitive[queue[i].id] # None

TransitiveIsApart == \A p \in Package : transitive[p] # None => p \notin Ids(direct) \cup Ids(wide)

VisitedIsQueued == \A o, d \in Package : <<o, d>> \in visited => Queued(queue, d)

EdgesAreTrue == \A p, q \in Package : <<q, p>> \in edges => q \in Dependents(dependsOn, p) /\ Queued(queue, p)

\* A dependent of a package the walk has passed is still to do, or an edge and queued.
PassedIsDone ==
    \A i \in 1 .. index, d \in Package :
        d \in Dependents(dependsOn, queue[i].id) =>
            \/ i = index /\ d \in todo
            \/ <<d, queue[i].id>> \in edges /\ Queued(queue, d)

TodoIsCurrent ==
    /\ todo # {} => pc = "walking" /\ index # 0 /\ todo \subseteq Dependents(dependsOn, queue[index].id)
    /\ pc = "done" => todo = {} /\ index = Len(queue)

WalkInv ==
    /\ TypeOK
    /\ WalkIsFresh /\ SeedsAreQueued /\ QueueIsReached /\ TransitiveIsApart /\ ReasonsAreTrue
    /\ VisitedIsQueued /\ EdgesAreTrue /\ PassedIsDone /\ TodoIsCurrent

LEMMA InitEstablishes == Init => WalkInv
<1> SUFFICES ASSUME Init PROVE WalkInv
  OBVIOUS
<1>1. TypeOK BY DEF Init, TypeOK, Dependencies, MetadataStatus
<1>2. WalkIsFresh /\ SeedsAreQueued /\ QueueIsReached /\ TransitiveIsApart /\ ReasonsAreTrue
  BY DEF Init, MetadataStatus, WalkIsFresh, Before, SeedsAreQueued, QueueIsReached, TransitiveIsApart, ReasonsAreTrue
<1>3. VisitedIsQueued /\ EdgesAreTrue /\ PassedIsDone /\ TodoIsCurrent
  BY DEF Init, MetadataStatus, VisitedIsQueued, EdgesAreTrue, PassedIsDone, TodoIsCurrent
<1> QED BY <1>1, <1>2, <1>3 DEF WalkInv

-----------------------------------------------------------------------------
(* Types *)

\* The owners of a file are declared packages.
LEMMA OwnersAreDeclared == ASSUME NEW m \in Match PROVE Owners(m) \subseteq Package
BY DEF Owners

LEMMA TypeStep == TypeOK /\ [Next]_vars => TypeOK'
<1> SUFFICES ASSUME TypeOK, [Next]_vars PROVE TypeOK'
  OBVIOUS
<1> USE DEF TypeOK
<1>1. CASE VisitRoot BY <1>1 DEF VisitRoot, fileVars, walkVars
<1>2. CASE VisitDependency BY <1>2 DEF VisitDependency, fileVars, walkVars
<1>3. CASE LeaveVisit BY <1>3 DEF LeaveVisit, fileVars, walkVars
<1>4. CASE ParseDiff
  <2>1. \A diff \in DiffEvidence : diff.changed \subseteq File BY DEF DiffEvidence
  <2> QED BY <1>4, <2>1 DEF ParseDiff, walkVars
<1>5. ASSUME NEW f \in File, NEW m \in Match, Classify(f, m) PROVE TypeOK'
  <2>1. Owners(m) \subseteq Package BY OwnersAreDeclared
  <2> QED BY <1>5, <2>1 DEF Classify, walkVars
<1>6. CASE FilesEnd BY <1>6 DEF FilesEnd, fileVars, Ids
<1>7. CASE Seed
  <2>1. \A p \in Package : Append(queue, [id |-> p, origin |-> p]) \in Seq([id: Package, origin: Package])
    OBVIOUS
  <2>2. index \in 0 .. Len(queue') BY <1>7 DEF Seed
  <2> QED BY <1>7, <2>1, <2>2 DEF Seed, fileVars
<1>8. CASE StartWalk BY <1>8 DEF StartWalk, fileVars, walkVars
<1>9. CASE Dequeue
  <2>1. index' \in 0 .. Len(queue') BY <1>9 DEF Dequeue
  <2> QED BY <1>9, <2>1 DEF Dequeue, fileVars, Dependents
<1>10. CASE Visit
  <2> PICK d \in todo :
        /\ todo' = todo \ {d}
        /\ edges' = edges \cup {<<d, queue[index].id>>}
        /\ transitive' = Explained(d, queue[index])
        /\ IF IsFresh(d, queue[index])
           THEN /\ visited' = visited \cup {<<queue[index].origin, d>>}
                /\ queue' = Append(queue, [id |-> d, origin |-> queue[index].origin])
           ELSE UNCHANGED <<visited, queue>>
    BY <1>10 DEF Visit
  <2>0. index \in 1 .. Len(queue)
    <3>1. index # 0 OBVIOUS
    <3>2. index \in 0 .. Len(queue) /\ Len(queue) \in Nat OBVIOUS
    <3> HIDE DEF TypeOK
    <3> QED BY <3>1, <3>2
  <2>1. queue[index] \in [id: Package, origin: Package]
    <3>1. queue \in Seq([id: Package, origin: Package]) OBVIOUS
    <3>2. ASSUME NEW S, NEW q \in Seq(S), NEW i \in 1 .. Len(q) PROVE q[i] \in S OBVIOUS
    <3> QED BY <2>0, <3>1, <3>2, Zenon
  <2>2. transitive' \in [Package -> Reason \cup {None}] BY <2>1 DEF Explained, Reason
  <2>3. visited' \subseteq Package \X Package
    <3>1. <<queue[index].origin, d>> \in Package \X Package BY <2>1
    <3> QED BY <3>1
  <2>4. Append(queue, [id |-> d, origin |-> queue[index].origin]) \in Seq([id: Package, origin: Package])
    BY <2>1
  <2>5. queue' \in Seq([id: Package, origin: Package]) /\ index \in 0 .. Len(queue')
    <3>1. CASE IsFresh(d, queue[index])
      <4>1. queue' = Append(queue, [id |-> d, origin |-> queue[index].origin]) BY <3>1
      <4>2. Len(queue') = Len(queue) + 1 BY <4>1
      <4> QED BY <2>0, <2>4, <4>1, <4>2
    <3>2. CASE ~IsFresh(d, queue[index]) BY <3>2
    <3> QED BY <3>1, <3>2
  <2>6. edges' \subseteq Package \X Package BY <2>1
  <2> QED BY <1>10, <2>2, <2>3, <2>5, <2>6 DEF Visit, fileVars
<1>11. CASE Conclude BY <1>11 DEF Conclude, fileVars, walkVars
<1>12. CASE EmptyGraph BY <1>12 DEF EmptyGraph, fileVars, walkVars
<1>13. CASE UNCHANGED vars BY <1>13 DEF vars, fileVars, walkVars
<1> QED BY <1>1, <1>2, <1>3, <1>4, <1>5, <1>6, <1>7, <1>8, <1>9, <1>10, <1>11, <1>12, <1>13 DEF Next

-----------------------------------------------------------------------------
(* The steps *)

\* A step that leaves the walk alone keeps its invariant.
LEMMA QuietStep ==
    ASSUME WalkInv, TypeOK', UNCHANGED <<dependsOn, direct, wide, walkVars>>,
           \/ pc' = pc
           \/ pc = "cycles" /\ pc' = "files"
           \/ pc = "empty" /\ pc' = "done"
           \/ pc = "seeding" /\ seeds = {} /\ pc' = "walking"
           \/ pc = "walking" /\ todo = {} /\ index = Len(queue) /\ pc' = "done"
    PROVE  WalkInv'
<1> USE DEF WalkInv, walkVars
<1>1. WalkIsFresh' BY DEF WalkIsFresh, Before
<1>2. SeedsAreQueued' BY DEF SeedsAreQueued, WalkIsFresh, Before, Ids
<1>3. QueueIsReached' BY DEF QueueIsReached
<1>4. TransitiveIsApart' BY DEF TransitiveIsApart
<1>5. ReasonsAreTrue' BY DEF ReasonsAreTrue
<1>6. VisitedIsQueued' BY DEF VisitedIsQueued
<1>7. EdgesAreTrue' BY DEF EdgesAreTrue
<1>8. PassedIsDone' BY DEF PassedIsDone
<1>9. TodoIsCurrent' BY DEF TodoIsCurrent, WalkIsFresh, Before
<1> QED BY <1>1, <1>2, <1>3, <1>4, <1>5, <1>6, <1>7, <1>8, <1>9

\* A queue entry is a pair of packages.
LEMMA QueueEntry ==
    ASSUME TypeOK, NEW i \in 1 .. Len(queue)
    PROVE  queue[i] \in [id: Package, origin: Package]
<1>1. queue \in Seq([id: Package, origin: Package]) BY DEF TypeOK
<1>2. ASSUME NEW S, NEW q \in Seq(S), NEW j \in 1 .. Len(q) PROVE q[j] \in S OBVIOUS
<1> QED BY <1>1, <1>2, Zenon

\* Appending keeps what is queued, and queues the new entry.
LEMMA AppendQueues ==
    ASSUME NEW S, NEW q \in Seq(S), NEW e \in S
    PROVE  /\ Len(Append(q, e)) = Len(q) + 1
           /\ Append(q, e)[Len(q) + 1] = e
           /\ \A i \in 1 .. Len(q) : Append(q, e)[i] = q[i]
           /\ \A p : Queued(q, p) => Queued(Append(q, e), p)
           /\ Queued(Append(q, e), e.id)
<1>1. /\ Len(Append(q, e)) = Len(q) + 1
      /\ Append(q, e)[Len(q) + 1] = e
      /\ \A i \in 1 .. Len(q) : Append(q, e)[i] = q[i]
  OBVIOUS
<1>2. Len(q) \in Nat OBVIOUS
<1> QED BY <1>1, <1>2 DEF Queued

LEMMA ClassifyStep ==
    ASSUME WalkInv, TypeOK', NEW f \in File, NEW m \in Match, Classify(f, m)
    PROVE  WalkInv'
<1> USE DEF WalkInv, walkVars, Classify
<1>1. WalkIsFresh' BY DEF WalkIsFresh, Before
<1>2. queue' = <<>> /\ visited' = {} /\ edges' = {} /\ index' = 0 /\ todo' = {} /\ pc' = "files"
      /\ transitive' = [p \in Package |-> None]
  BY DEF WalkIsFresh, Before
<1>3. SeedsAreQueued' BY <1>2 DEF SeedsAreQueued
<1>4. QueueIsReached' BY <1>2 DEF QueueIsReached
<1>5. TransitiveIsApart' /\ ReasonsAreTrue' BY <1>2 DEF TransitiveIsApart, ReasonsAreTrue
<1>6. VisitedIsQueued' /\ EdgesAreTrue' BY <1>2 DEF VisitedIsQueued, EdgesAreTrue
<1>7. PassedIsDone' /\ TodoIsCurrent' BY <1>2 DEF PassedIsDone, TodoIsCurrent
<1> QED BY <1>1, <1>3, <1>4, <1>5, <1>6, <1>7

LEMMA FilesEndStep == ASSUME WalkInv, TypeOK', FilesEnd PROVE WalkInv'
<1> USE DEF WalkInv, fileVars, FilesEnd
<1>1. WalkIsFresh' BY DEF WalkIsFresh, Before
<1>2. SeedsAreQueued' BY DEF SeedsAreQueued
<1>3. QueueIsReached' BY DEF QueueIsReached
<1>4. TransitiveIsApart' /\ ReasonsAreTrue' BY DEF TransitiveIsApart, ReasonsAreTrue
<1>5. VisitedIsQueued' /\ EdgesAreTrue' BY DEF VisitedIsQueued, EdgesAreTrue
<1>6. PassedIsDone' BY DEF PassedIsDone
<1>7. TodoIsCurrent' BY DEF TodoIsCurrent
<1> QED BY <1>1, <1>2, <1>3, <1>4, <1>5, <1>6, <1>7

LEMMA SeedStep == ASSUME WalkInv, TypeOK', Seed PROVE WalkInv'
<1> USE DEF WalkInv, fileVars
<1> PICK p \in seeds : seeds' = seeds \ {p} /\ queue' = Append(queue, [id |-> p, origin |-> p])
  BY DEF Seed
<1> DEFINE e == [id |-> p, origin |-> p]
<1>0. p \in Ids(direct) /\ p \in Package BY DEF Seed, SeedsAreQueued, TypeOK
<1>1. queue \in Seq([id: Package, origin: Package]) /\ e \in [id: Package, origin: Package]
  BY <1>0 DEF TypeOK
<1>2. /\ Len(queue') = Len(queue) + 1
      /\ queue'[Len(queue) + 1] = e
      /\ \A i \in 1 .. Len(queue) : queue'[i] = queue[i]
      /\ \A q : Queued(queue, q) => Queued(queue', q)
      /\ Queued(queue', p)
  <2>1. queue' = Append(queue, e) /\ e.id = p OBVIOUS
  <2> HIDE DEF e, WalkInv
  <2>2. Queued(Append(queue, e), e.id) BY <1>1, AppendQueues
  <2>3. \A q : Queued(queue, q) => Queued(Append(queue, e), q) BY <1>1, AppendQueues
  <2>4. Len(Append(queue, e)) = Len(queue) + 1 /\ Append(queue, e)[Len(queue) + 1] = e
    BY <1>1, AppendQueues
  <2>5. \A i \in 1 .. Len(queue) : Append(queue, e)[i] = queue[i] BY <1>1, AppendQueues
  <2> QED BY <2>1, <2>2, <2>3, <2>4, <2>5
<1>3. Len(queue) \in Nat BY <1>1
<1>4. WalkIsFresh' BY DEF Seed, WalkIsFresh, Before
<1>5. SeedsAreQueued' BY <1>2 DEF Seed, SeedsAreQueued
<1>6. QueueIsReached'
  <2>1. p \in Reachable(dependsOn, {p}) BY <1>0, ReachesItself
  <2>2. UNCHANGED <<dependsOn, direct, wide, transitive>> BY DEF Seed
  <2>3. ASSUME NEW i \in 1 .. Len(queue') PROVE i \in 1 .. Len(queue) \/ i = Len(queue) + 1
    BY <1>2, <1>3
  <2>4. queue'[Len(queue) + 1].origin = p /\ queue'[Len(queue) + 1].id = p BY <1>2
  <2>5. QueueIsReached OBVIOUS
  <2> HIDE DEF WalkInv, e
  <2> QED BY <1>0, <1>2, <2>1, <2>2, <2>3, <2>4, <2>5 DEF QueueIsReached
<1>7. TransitiveIsApart' /\ ReasonsAreTrue' BY DEF Seed, TransitiveIsApart, ReasonsAreTrue
<1>8. VisitedIsQueued' /\ EdgesAreTrue' BY <1>2 DEF Seed, VisitedIsQueued, EdgesAreTrue
<1>9. PassedIsDone' BY DEF Seed, PassedIsDone, WalkIsFresh
<1>10. TodoIsCurrent' BY DEF Seed, TodoIsCurrent, WalkIsFresh
<1> QED BY <1>4, <1>5, <1>6, <1>7, <1>8, <1>9, <1>10

LEMMA DequeueStep == ASSUME WalkInv, TypeOK', Dequeue PROVE WalkInv'
<1> USE DEF WalkInv, fileVars, Dequeue
<1>1. WalkIsFresh' BY DEF WalkIsFresh, Before
<1>2. SeedsAreQueued' BY DEF SeedsAreQueued
<1>3. QueueIsReached' BY DEF QueueIsReached
<1>4. TransitiveIsApart' /\ ReasonsAreTrue' BY DEF TransitiveIsApart, ReasonsAreTrue
<1>5. VisitedIsQueued' /\ EdgesAreTrue' BY DEF VisitedIsQueued, EdgesAreTrue
<1>6. index \in Nat /\ Len(queue) \in Nat BY DEF TypeOK
<1>7. PassedIsDone'
  <2>1. ASSUME NEW i \in 1 .. index' PROVE i \in 1 .. index \/ i = index'
    BY <1>6
  <2> QED BY <2>1 DEF PassedIsDone
<1>8. TodoIsCurrent' BY <1>6 DEF TodoIsCurrent
<1> QED BY <1>1, <1>2, <1>3, <1>4, <1>5, <1>7, <1>8

LEMMA VisitStep == ASSUME WalkInv, TypeOK', Visit PROVE WalkInv'
<1> DEFINE c == queue[index]
<1> PICK d \in todo :
      /\ todo' = todo \ {d}
      /\ edges' = edges \cup {<<d, c.id>>}
      /\ transitive' = Explained(d, c)
      /\ IF IsFresh(d, c)
         THEN /\ visited' = visited \cup {<<c.origin, d>>}
              /\ queue' = Append(queue, [id |-> d, origin |-> c.origin])
         ELSE UNCHANGED <<visited, queue>>
  BY DEF Visit
<1>1. TypeOK /\ UNCHANGED <<dependsOn, pc, direct, wide, seeds, index>> /\ pc = "walking"
  BY DEF Visit, WalkInv, fileVars
<1>2. index \in 1 .. Len(queue) /\ Len(queue) \in Nat
  <2>1. index # 0 /\ index \in 0 .. Len(queue) /\ Len(queue) \in Nat BY <1>1 DEF TypeOK
  <2> QED BY <2>1
<1>3. c \in [id: Package, origin: Package] BY <1>1, <1>2, QueueEntry
<1>4. d \in Package /\ d \in Dependents(dependsOn, c.id)
  BY <1>1 DEF WalkInv, TodoIsCurrent, TypeOK
<1>5. c.origin \in Ids(direct) /\ c.id \in Reachable(dependsOn, {c.origin})
  BY <1>2 DEF WalkInv, QueueIsReached
<1>6. d \in Reachable(dependsOn, {c.origin})
  BY <1>3, <1>4, <1>5, ReachesDependents
<1>7. /\ \A i \in 1 .. Len(queue) : queue'[i] = queue[i]
      /\ \A q : Queued(queue, q) => Queued(queue', q)
      /\ Queued(queue', d)
      /\ \A i \in 1 .. Len(queue') :
            i \in 1 .. Len(queue) \/ (queue'[i].id = d /\ queue'[i].origin = c.origin)
      /\ \A o, q \in Package : <<o, q>> \in visited' => Queued(queue', q)
  <2> DEFINE e == [id |-> d, origin |-> c.origin]
  <2>0. VisitedIsQueued BY DEF WalkInv
  <2>1. CASE IsFresh(d, c)
    <3>1. queue' = Append(queue, e) /\ visited' = visited \cup {<<c.origin, d>>} BY <2>1
    <3>2. e \in [id: Package, origin: Package] BY <1>3, <1>4
    <3>3. e.id = d /\ e.origin = c.origin OBVIOUS
    <3>4. queue \in Seq([id: Package, origin: Package]) BY <1>1 DEF TypeOK
    <3> HIDE DEF e, c
    <3>5. Queued(Append(queue, e), e.id) BY <3>2, <3>4, AppendQueues
    <3>6. \A q : Queued(queue, q) => Queued(Append(queue, e), q) BY <3>2, <3>4, AppendQueues
    <3>7. Len(Append(queue, e)) = Len(queue) + 1 /\ Append(queue, e)[Len(queue) + 1] = e
      BY <3>2, <3>4, AppendQueues
    <3>8. \A i \in 1 .. Len(queue) : Append(queue, e)[i] = queue[i] BY <3>2, <3>4, AppendQueues
    <3>9. ASSUME NEW i \in 1 .. Len(queue')
          PROVE  i \in 1 .. Len(queue) \/ (queue'[i].id = d /\ queue'[i].origin = c.origin)
      <4>1. i \in 1 .. Len(queue) \/ i = Len(queue) + 1 BY <1>2, <3>1, <3>7
      <4> QED BY <4>1, <3>1, <3>3, <3>7
    <3>10. ASSUME NEW o \in Package, NEW q \in Package, <<o, q>> \in visited' PROVE Queued(queue', q)
      <4>1. CASE <<o, q>> \in visited BY <4>1, <2>0, <3>1, <3>6 DEF VisitedIsQueued
      <4>2. CASE <<o, q>> = <<c.origin, d>> BY <4>2, <3>1, <3>3, <3>5
      <4> QED BY <3>1, <3>10, <4>1, <4>2
    <3> QED BY <3>1, <3>3, <3>5, <3>6, <3>8, <3>9, <3>10
  <2>2. CASE ~IsFresh(d, c)
    <3>1. queue' = queue /\ visited' = visited BY <2>2
    <3>2. <<c.origin, d>> \in visited BY <2>2 DEF IsFresh
    <3>3. Queued(queue, d) BY <1>3, <1>4, <2>0, <3>2 DEF VisitedIsQueued
    <3> QED BY <2>0, <3>1, <3>3 DEF VisitedIsQueued
  <2> QED BY <2>1, <2>2
<1>8. /\ \A p \in Package : p # d \/ transitive[p] # None => transitive'[p] = transitive[p]
      /\ d \in Ids(direct) \cup Ids(wide) \/ transitive'[d] # None
      /\ transitive[d] = None /\ transitive'[d] # None =>
           /\ d \notin Ids(direct) \cup Ids(wide)
           /\ transitive'[d].origin = c.origin /\ transitive'[d].through = c.id
  <2>1. transitive \in [Package -> Reason \cup {None}] BY <1>1 DEF TypeOK
  <2>2. [origin |-> c.origin, through |-> c.id] # None BY <1>3, ConstantsAssumption DEF Reason
  <2> QED BY <1>4, <2>1, <2>2 DEF Explained
<1>9. WalkIsFresh' BY <1>1 DEF WalkIsFresh, Before
<1>10. SeedsAreQueued' BY <1>1, <1>7 DEF WalkInv, SeedsAreQueued
<1>11. QueueIsReached'
  <2>1. ASSUME NEW i \in 1 .. Len(queue), QueueIsReached
        PROVE  /\ queue[i].origin \in Ids(direct)
               /\ queue[i].id \in Reachable(dependsOn, {queue[i].origin})
               /\ queue[i].id \in Ids(direct) \cup Ids(wide) \/ transitive'[queue[i].id] # None
    <3>1. queue[i].id \in Package BY <1>1, QueueEntry
    <3> QED BY <1>8, <2>1, <3>1 DEF QueueIsReached
  <2>2. QueueIsReached BY DEF WalkInv
  <2> HIDE DEF c
  <2> QED BY <1>1, <1>5, <1>6, <1>7, <1>8, <2>1, <2>2 DEF QueueIsReached
<1>12. TransitiveIsApart' BY <1>1, <1>4, <1>8 DEF WalkInv, TransitiveIsApart
<1>13. ReasonsAreTrue' BY <1>1, <1>4, <1>5, <1>8 DEF WalkInv, ReasonsAreTrue
<1>14. VisitedIsQueued' BY <1>7 DEF VisitedIsQueued
<1>15. EdgesAreTrue'
  <2>1. Queued(queue, c.id) BY <1>2 DEF Queued
  <2>2. EdgesAreTrue BY DEF WalkInv
  <2> HIDE DEF c
  <2> QED BY <1>1, <1>4, <1>7, <2>1, <2>2 DEF EdgesAreTrue
<1>16. PassedIsDone'
  <2>1. PassedIsDone BY DEF WalkInv
  <2> SUFFICES ASSUME NEW i \in 1 .. index, NEW q \in Package, q \in Dependents(dependsOn, queue[i].id)
               PROVE  \/ i = index /\ q \in todo'
                      \/ <<q, queue[i].id>> \in edges' /\ Queued(queue', q)
    <3>1. \A i \in 1 .. index : queue'[i] = queue[i] BY <1>2, <1>7
    <3> QED BY <1>1, <3>1 DEF PassedIsDone
  <2>2. CASE i = index /\ q = d BY <1>7, <2>2
  <2>3. CASE i = index /\ q \in todo /\ q # d BY <2>3
  <2>4. CASE <<q, queue[i].id>> \in edges /\ Queued(queue, q) BY <1>7, <2>4
  <2> QED BY <2>1, <2>2, <2>3, <2>4 DEF PassedIsDone
<1>17. TodoIsCurrent' BY <1>1, <1>2, <1>7 DEF WalkInv, TodoIsCurrent
<1> QED BY <1>9, <1>10, <1>11, <1>12, <1>13, <1>14, <1>15, <1>16, <1>17 DEF WalkInv

LEMMA WalkStep == WalkInv /\ [Next]_vars => WalkInv'
<1> SUFFICES ASSUME WalkInv, [Next]_vars PROVE WalkInv'
  OBVIOUS
<1>0. TypeOK' BY TypeStep DEF WalkInv
<1>1. CASE VisitRoot BY <1>0, <1>1, QuietStep DEF VisitRoot, fileVars
<1>2. CASE VisitDependency BY <1>0, <1>2, QuietStep DEF VisitDependency, fileVars
<1>3. CASE LeaveVisit BY <1>0, <1>3, QuietStep DEF LeaveVisit, fileVars
<1>4. CASE ParseDiff BY <1>0, <1>4, QuietStep DEF ParseDiff
<1>5. ASSUME NEW f \in File, NEW m \in Match, Classify(f, m) PROVE WalkInv'
  BY <1>0, <1>5, ClassifyStep
<1>6. CASE FilesEnd BY <1>0, <1>6, FilesEndStep
<1>7. CASE Seed BY <1>0, <1>7, SeedStep
<1>8. CASE StartWalk BY <1>0, <1>8, QuietStep DEF StartWalk, fileVars
<1>9. CASE Dequeue BY <1>0, <1>9, DequeueStep
<1>10. CASE Visit BY <1>0, <1>10, VisitStep
<1>11. CASE Conclude BY <1>0, <1>11, QuietStep DEF Conclude, fileVars
<1>12. CASE EmptyGraph BY <1>0, <1>12, QuietStep DEF EmptyGraph, fileVars
<1>13. CASE UNCHANGED vars BY <1>0, <1>13, QuietStep DEF vars, fileVars
<1> QED BY <1>1, <1>2, <1>3, <1>4, <1>5, <1>6, <1>7, <1>8, <1>9, <1>10, <1>11, <1>12, <1>13 DEF Next

LEMMA WalkInvariant == Spec => []WalkInv
<1>1. Init => WalkInv BY InitEstablishes
<1>2. WalkInv /\ [Next]_vars => WalkInv' BY WalkStep
<1> QED BY <1>1, <1>2, PTL DEF Spec

-----------------------------------------------------------------------------
(* What follows *)

\* When the walk ends, the queued packages are those the direct ones reach: they
\* are closed under dependents, and each was reached from a direct package.
LEMMA QueuedIsReachable ==
    ASSUME WalkInv, pc = "done"
    PROVE  \A p \in Package : Queued(queue, p) <=> p \in Reachable(dependsOn, Ids(direct))
<1> DEFINE C == {p \in Package : Queued(queue, p)}
<1>1. TypeOK /\ todo = {} /\ index = Len(queue) BY DEF WalkInv, TodoIsCurrent
<1>2. Ids(direct) \in SUBSET Package BY <1>1 DEF TypeOK, Ids
<1>3. Ids(direct) \subseteq C BY <1>2 DEF WalkInv, SeedsAreQueued
<1>4. ClosedUp(dependsOn, C)
  <2> SUFFICES ASSUME NEW p \in C, NEW q \in Dependents(dependsOn, p) PROVE q \in C
    BY DEF ClosedUp
  <2>1. PICK i \in 1 .. Len(queue) : queue[i].id = p BY DEF Queued
  <2>2. q \in Package BY DEF Dependents
  <2> QED BY <1>1, <2>1, <2>2 DEF WalkInv, PassedIsDone
<1>5. ASSUME NEW p \in Package, Queued(queue, p) PROVE p \in Reachable(dependsOn, Ids(direct))
  <2>1. PICK i \in 1 .. Len(queue) : queue[i].id = p BY <1>5 DEF Queued
  <2>2. queue[i].origin \in Ids(direct) /\ p \in Reachable(dependsOn, {queue[i].origin})
    BY <2>1 DEF WalkInv, QueueIsReached
  <2>3. Reachable(dependsOn, {queue[i].origin}) \subseteq Reachable(dependsOn, Ids(direct))
    BY <1>2, <2>2, ReachesMore
  <2> QED BY <2>2, <2>3
<1>6. Reachable(dependsOn, Ids(direct)) \subseteq C BY <1>2, <1>3, <1>4, ReachesNoMore
<1> QED BY <1>5, <1>6

LEMMA WalkIsExact == WalkInv => ImpactIsExact
<1> SUFFICES ASSUME WalkInv, pc = "done" PROVE ImpactIsExact
  BY DEF ImpactIsExact, WalkInv
<1> DEFINE R == Reachable(dependsOn, Ids(direct))
           apart == Ids(direct) \cup Ids(wide)
<1>1. TypeOK /\ TransitiveIsApart /\ ReasonsAreTrue /\ EdgesAreTrue BY DEF WalkInv
<1>2. Ids(direct) \in SUBSET Package BY <1>1 DEF TypeOK, Ids
<1>3. \A p \in Package : Queued(queue, p) <=> p \in R BY QueuedIsReachable
<1>4. R \subseteq Package BY DEF Reachable
<1>5. {p \in Package : transitive[p] # None} = R \ apart
  <2>1. ASSUME NEW p \in Package, transitive[p] # None PROVE p \in R \ apart
    <3>1. p \notin apart BY <1>1, <2>1 DEF TransitiveIsApart
    <3> DEFINE o == transitive[p].origin
    <3>2. /\ o \in Ids(direct)
          /\ transitive[p].through \in Reachable(dependsOn, {o})
          /\ p \in Dependents(dependsOn, transitive[p].through)
      BY <1>1, <2>1 DEF ReasonsAreTrue
    <3>3. {o} \in SUBSET Package BY <1>2, <3>2
    <3> HIDE DEF o
    <3>4. p \in Reachable(dependsOn, {o}) BY <3>2, <3>3, ReachesDependents
    <3>5. Reachable(dependsOn, {o}) \subseteq R BY <1>2, <3>2, <3>3, ReachesMore
    <3> QED BY <3>1, <3>4, <3>5
  <2>2. ASSUME NEW p \in R \ apart PROVE transitive[p] # None
    <3>1. Queued(queue, p) BY <1>3, <1>4
    <3>2. PICK i \in 1 .. Len(queue) : queue[i].id = p BY <3>1 DEF Queued
    <3> QED BY <3>2 DEF WalkInv, QueueIsReached
  <2> HIDE DEF R, apart
  <2> QED BY <1>4, <2>1, <2>2
<1>6. edges = {e \in Package \X Package : e[2] \in R /\ e[1] \in Dependents(dependsOn, e[2])}
  <2>1. edges \subseteq Package \X Package BY <1>1 DEF TypeOK
  <2>2. ASSUME NEW q \in Package, NEW p \in Package, <<q, p>> \in edges
        PROVE  p \in R /\ q \in Dependents(dependsOn, p)
    BY <1>1, <1>3, <2>2 DEF EdgesAreTrue
  <2>3. ASSUME NEW q \in Package, NEW p \in Package, p \in R, q \in Dependents(dependsOn, p)
        PROVE  <<q, p>> \in edges
    <3>1. PICK i \in 1 .. Len(queue) : queue[i].id = p BY <1>3, <2>3 DEF Queued
    <3>2. todo = {} /\ index = Len(queue) BY DEF WalkInv, TodoIsCurrent
    <3> QED BY <2>3, <3>1, <3>2 DEF WalkInv, PassedIsDone
  <2> HIDE DEF R
  <2> QED BY <2>1, <2>2, <2>3
<1> QED BY <1>1, <1>5, <1>6 DEF ImpactIsExact

\* Whatever the graph, cyclic or not, and whatever changed: the transitive packages are
\* exactly the dependents of the direct ones that are listed nowhere else, and the edges
\* exactly the dependencies among them, and every reason given is true
\* (buildImpactGraph, the walk).
THEOREM ImpactExact == Spec => []ImpactIsExact
BY WalkInvariant, WalkIsExact, PTL

-----------------------------------------------------------------------------
(* The files *)

\* Nothing is placed before it is seen, and the walk begins when all is seen.
FilesInv ==
    /\ TypeOK
    /\ unknown \cup Files(direct) \cup Files(wide) \subseteq seen
    /\ pc \in {"empty", "cycles"} => changed = {}
    /\ pc \in {"seeding", "walking", "done"} => changed \subseteq seen
    /\ pc # "done" => status # "complete"
    /\ EveryFileIsPlaced

LEMMA FilesStep == FilesInv /\ [Next]_vars => FilesInv'
<1> SUFFICES ASSUME FilesInv, [Next]_vars PROVE FilesInv'
  OBVIOUS
<1>0. TypeOK' BY TypeStep DEF FilesInv
<1> USE <1>0 DEF FilesInv, EveryFileIsPlaced
<1>1. CASE VisitRoot BY <1>1 DEF VisitRoot, fileVars
<1>2. CASE VisitDependency BY <1>2 DEF VisitDependency, fileVars
<1>3. CASE LeaveVisit BY <1>3 DEF LeaveVisit, fileVars
<1>4. CASE ParseDiff BY <1>4 DEF ParseDiff
<1>5. ASSUME NEW f \in File, NEW m \in Match, Classify(f, m) PROVE FilesInv'
  <2>1. \A S : Files(S \X {f}) \subseteq {f} /\ (S # {} => f \in Files(S \X {f}))
    <3> SUFFICES ASSUME NEW S PROVE Files(S \X {f}) \subseteq {f} /\ (S # {} => f \in Files(S \X {f}))
      OBVIOUS
    <3>1. \A e \in S \X {f} : e[2] = f OBVIOUS
    <3>2. \A s \in S : <<s, f>> \in S \X {f} /\ <<s, f>>[2] = f OBVIOUS
    <3> QED BY <3>1, <3>2 DEF Files
  <2>2. \A S, T : Files(S \cup T) = Files(S) \cup Files(T) BY DEF Files
  <2>3. CASE m.wide
    <3>1. UNCHANGED <<pc, status, changed, gap, direct, unknown, ambiguous>> /\ seen' = seen \cup {f}
          /\ f \notin seen /\ pc = "files" /\ wide' = wide \cup (Package \X {f})
      BY <1>5, <2>3 DEF Classify
    <3>2. Files(wide') = Files(wide) \cup Files(Package \X {f}) BY <2>2, <3>1
    <3>3. Files(direct') = Files(direct) BY <3>1
    <3> DEFINE N == Files(Package \X {f})
    <3>4. N \subseteq {f} /\ (Package # {} => f \in N) BY <2>1
    <3> HIDE DEF N
    <3>5. Files(wide') = Files(wide) \cup N BY <3>2 DEF N
    <3> QED BY <3>1, <3>3, <3>4, <3>5
  <2>4. CASE ~m.wide /\ Owners(m) # {}
    <3>1. UNCHANGED <<pc, status, changed, gap, wide, unknown, ambiguous>> /\ seen' = seen \cup {f}
          /\ f \notin seen /\ pc = "files" /\ direct' = direct \cup (Owners(m) \X {f})
      BY <1>5, <2>4 DEF Classify
    <3>2. Files(direct') = Files(direct) \cup Files(Owners(m) \X {f}) BY <2>2, <3>1
    <3>3. Files(wide') = Files(wide) BY <3>1
    <3> DEFINE N == Files(Owners(m) \X {f})
    <3>4. N = {f} BY <2>1, <2>4
    <3> HIDE DEF N
    <3>5. Files(direct') = Files(direct) \cup N BY <3>2 DEF N
    <3> QED BY <3>1, <3>3, <3>4, <3>5
  <2>5. CASE ~m.wide /\ Owners(m) = {}
    <3>1. UNCHANGED <<pc, status, changed, gap, wide, direct>> /\ seen' = seen \cup {f}
          /\ f \notin seen /\ pc = "files" /\ unknown' = unknown \cup {f}
          /\ ambiguous' \subseteq ambiguous \cup {f}
      BY <1>5, <2>5 DEF Classify
    <3>2. Files(direct') = Files(direct) /\ Files(wide') = Files(wide) BY <3>1
    <3> QED BY <3>1, <3>2
  <2> QED BY <2>3, <2>4, <2>5
<1>6. CASE FilesEnd BY <1>6 DEF FilesEnd, fileVars
<1>7. CASE Seed BY <1>7 DEF Seed, fileVars
<1>8. CASE StartWalk BY <1>8 DEF StartWalk, fileVars
<1>9. CASE Dequeue BY <1>9 DEF Dequeue, fileVars
<1>10. CASE Visit BY <1>10 DEF Visit, fileVars
<1>11. CASE Conclude BY <1>11 DEF Conclude, fileVars
<1>12. CASE EmptyGraph BY <1>12 DEF EmptyGraph, fileVars
<1>13. CASE UNCHANGED vars BY <1>13 DEF vars, fileVars
<1> QED BY <1>1, <1>2, <1>3, <1>4, <1>5, <1>6, <1>7, <1>8, <1>9, <1>10, <1>11, <1>12, <1>13 DEF Next

\* Whatever the declarations: every changed file is placed exactly once, and a
\* "complete" graph has placed the whole diff (buildImpactGraph, the classification).
THEOREM FilesPlaced == Spec => []EveryFileIsPlaced
<1>1. Init => FilesInv
  <2>1. Init => TypeOK BY InitEstablishes DEF WalkInv
  <2> QED BY <2>1 DEF Init, FilesInv, EveryFileIsPlaced, Files, MetadataStatus
<1>2. FilesInv /\ [Next]_vars => FilesInv' BY FilesStep
<1>3. FilesInv => EveryFileIsPlaced BY DEF FilesInv
<1> QED BY <1>1, <1>2, <1>3, PTL DEF Spec

-----------------------------------------------------------------------------
(* The bound of the queue *)

Seeded == Cardinality(Ids(direct))

\* The first entries are the direct packages; every later one was put on the list of
\* visits when it was queued, and never before.
BoundInv ==
    /\ pc = "seeding" =>
         /\ Len(queue) + Cardinality(seeds) = Seeded
         /\ \A i \in 1 .. Len(queue) : queue[i].id = queue[i].origin
    /\ pc \in {"walking", "done"} =>
         /\ Seeded <= Len(queue)
         /\ \A i \in 1 .. Seeded : queue[i].id = queue[i].origin
         /\ \A i \in 1 .. Len(queue) : i > Seeded => <<queue[i].origin, queue[i].id>> \in visited
         /\ \A i, j \in 1 .. Len(queue) : Seeded < i /\ i < j => queue[i] # queue[j]

LEMMA DirectIsFinite == ASSUME TypeOK PROVE IsFiniteSet(Ids(direct)) /\ Seeded \in Nat
<1>1. Ids(direct) \subseteq Package BY DEF TypeOK, Ids
<1>2. IsFiniteSet(Package) BY ConstantsAssumption
<1> QED BY <1>1, <1>2, FS_Subset, FS_CardinalityType DEF Seeded

LEMMA BoundStep == WalkInv /\ BoundInv /\ [Next]_vars => BoundInv'
<1> SUFFICES ASSUME WalkInv, BoundInv, [Next]_vars PROVE BoundInv'
  OBVIOUS
<1>0. /\ TypeOK /\ WalkIsFresh /\ SeedsAreQueued
      /\ IsFiniteSet(Ids(direct)) /\ Seeded \in Nat /\ Len(queue) \in Nat
      /\ queue \in Seq([id: Package, origin: Package])
  BY DirectIsFinite DEF WalkInv, TypeOK
<1> DEFINE Quiet == UNCHANGED <<direct, seeds, queue, visited>>
<1>1. ASSUME Quiet, pc' = pc \/ pc' \notin {"seeding", "walking", "done"} PROVE BoundInv'
  BY <1>1 DEF BoundInv, Seeded
<1>2. CASE VisitRoot BY <1>1, <1>2 DEF VisitRoot, fileVars, walkVars
<1>3. CASE VisitDependency BY <1>1, <1>3 DEF VisitDependency, fileVars, walkVars
<1>4. CASE LeaveVisit BY <1>1, <1>4 DEF LeaveVisit, fileVars, walkVars
<1>5. CASE ParseDiff BY <1>1, <1>5 DEF ParseDiff, walkVars
<1>6. ASSUME NEW f \in File, NEW m \in Match, Classify(f, m) PROVE BoundInv'
  BY <1>6 DEF Classify, BoundInv
<1>7. CASE FilesEnd
  <2>1. queue' = <<>> /\ pc' = "seeding" /\ seeds' = Ids(direct) /\ direct' = direct
    BY <1>0, <1>7 DEF FilesEnd, WalkIsFresh, Before, fileVars
  <2>2. Len(queue') = 0 BY <2>1
  <2> QED BY <1>0, <2>1, <2>2 DEF BoundInv, Seeded
<1>8. CASE Seed
  <2> PICK p \in seeds : seeds' = seeds \ {p} /\ queue' = Append(queue, [id |-> p, origin |-> p])
    BY <1>8 DEF Seed
  <2>1. pc = "seeding" /\ pc' = pc /\ direct' = direct BY <1>8 DEF Seed, fileVars
  <2>2. seeds \subseteq Ids(direct) BY <1>0, <2>1 DEF SeedsAreQueued
  <2>3. IsFiniteSet(seeds) BY <1>0, <2>2, FS_Subset
  <2>4. Cardinality(seeds') = Cardinality(seeds) - 1 /\ Cardinality(seeds) \in Nat
    BY <2>3, FS_RemoveElement, FS_CardinalityType
  <2>5. [id |-> p, origin |-> p] \in [id: Package, origin: Package] BY <1>0 DEF TypeOK
  <2>6. Len(queue') = Len(queue) + 1 BY <1>0, <2>5
  <2>7. ASSUME NEW i \in 1 .. Len(queue') PROVE queue'[i].id = queue'[i].origin
    <3>1. CASE i \in 1 .. Len(queue) BY <1>0, <2>1, <2>5, <3>1 DEF BoundInv
    <3>2. CASE i = Len(queue) + 1 BY <1>0, <2>5, <3>2
    <3> QED BY <1>0, <2>6, <3>1, <3>2
  <2>8. Len(queue') + Cardinality(seeds') = Seeded
    BY <1>0, <2>1, <2>4, <2>6 DEF BoundInv
  <2> QED BY <2>1, <2>7, <2>8 DEF BoundInv, Seeded
<1>9. CASE StartWalk
  <2>1. pc = "seeding" /\ seeds = {} /\ pc' = "walking" /\ Quiet BY <1>9 DEF StartWalk, fileVars, walkVars
  <2>2. Len(queue) = Seeded BY <1>0, <2>1, FS_EmptySet DEF BoundInv
  <2> QED BY <1>0, <2>1, <2>2 DEF BoundInv, Seeded
<1>10. CASE Dequeue BY <1>1, <1>10 DEF Dequeue, fileVars
<1>11. CASE Visit
  <2> DEFINE c == queue[index]
  <2> PICK d \in todo :
        IF IsFresh(d, c)
        THEN /\ visited' = visited \cup {<<c.origin, d>>}
             /\ queue' = Append(queue, [id |-> d, origin |-> c.origin])
        ELSE UNCHANGED <<visited, queue>>
    BY <1>11 DEF Visit
  <2>1. pc = "walking" /\ pc' = pc /\ UNCHANGED <<direct, seeds, index>> BY <1>11 DEF Visit, fileVars
  <2>2. CASE ~IsFresh(d, c) BY <1>1, <2>1, <2>2
  <2>3. CASE IsFresh(d, c)
    <3> DEFINE e == [id |-> d, origin |-> c.origin]
    <3>1. <<c.origin, d>> \notin visited BY <2>3 DEF IsFresh
    <3>2. index \in 1 .. Len(queue) BY <1>0 DEF TypeOK
    <3>3. e \in [id: Package, origin: Package] BY <1>0, <3>2, QueueEntry DEF TypeOK
    <3>4. /\ Len(queue') = Len(queue) + 1
          /\ queue'[Len(queue) + 1] = e
          /\ \A i \in 1 .. Len(queue) : queue'[i] = queue[i]
      BY <1>0, <2>3, <3>3
    <3>5. visited' = visited \cup {<<e.origin, e.id>>} /\ <<e.origin, e.id>> \notin visited
      BY <2>3, <3>1
    <3> HIDE DEF c, e
    <3>6. /\ Seeded <= Len(queue)
          /\ \A i \in 1 .. Seeded : queue[i].id = queue[i].origin
          /\ \A i \in 1 .. Len(queue) : i > Seeded => <<queue[i].origin, queue[i].id>> \in visited
          /\ \A i, j \in 1 .. Len(queue) : Seeded < i /\ i < j => queue[i] # queue[j]
      BY <2>1 DEF BoundInv
    <3>7. ASSUME NEW i \in 1 .. Len(queue') PROVE i \in 1 .. Len(queue) \/ i = Len(queue) + 1
      BY <1>0, <3>4
    <3>8. \A i \in 1 .. Seeded : queue'[i].id = queue'[i].origin BY <1>0, <3>4, <3>6
    <3>9. ASSUME NEW i \in 1 .. Len(queue'), i > Seeded
          PROVE  <<queue'[i].origin, queue'[i].id>> \in visited'
      BY <3>4, <3>5, <3>6, <3>7, <3>9
    <3>10. ASSUME NEW i \in 1 .. Len(queue'), NEW j \in 1 .. Len(queue'), Seeded < i, i < j
           PROVE  queue'[i] # queue'[j]
      <4>1. i \in 1 .. Len(queue) BY <1>0, <3>4, <3>10
      <4>2. CASE j \in 1 .. Len(queue) BY <3>4, <3>6, <3>10, <4>1, <4>2
      <4>3. CASE j = Len(queue) + 1
        <5>1. <<queue[i].origin, queue[i].id>> \in visited BY <3>6, <3>10, <4>1
        <5>2. queue[i] # e BY <3>5, <5>1
        <5> QED BY <3>4, <4>1, <4>3, <5>2
      <4> QED BY <3>7, <4>2, <4>3
    <3>11. Seeded' = Seeded BY <2>1 DEF Seeded
    <3>12. Seeded <= Len(queue') BY <1>0, <3>4, <3>6
    <3> QED BY <2>1, <3>8, <3>9, <3>10, <3>11, <3>12 DEF BoundInv
  <2> QED BY <2>2, <2>3
<1>12. CASE Conclude BY <1>12 DEF Conclude, fileVars, walkVars, BoundInv, Seeded
<1>13. CASE EmptyGraph
  <2>1. Quiet /\ pc = "empty" /\ queue = <<>> /\ direct = {}
    BY <1>0, <1>13 DEF EmptyGraph, fileVars, walkVars, WalkIsFresh, Before
  <2>2. Len(queue') = 0 /\ Seeded' = 0 BY <2>1, FS_EmptySet DEF Seeded, Ids
  <2>3. pc' = "done" BY <1>13 DEF EmptyGraph
  <2> QED BY <2>2, <2>3 DEF BoundInv
<1>14. CASE UNCHANGED vars BY <1>1, <1>14 DEF vars, fileVars, walkVars
<1> QED BY <1>2, <1>3, <1>4, <1>5, <1>6, <1>7, <1>8, <1>9, <1>10, <1>11, <1>12, <1>13, <1>14 DEF Next

\* Whatever the graph: the walk queues no package twice for one origin, but for an
\* origin a cycle leads back to (buildImpactGraph, the visit key).
THEOREM QueueBounded == Spec => []QueueIsBounded
<1>1. Init => BoundInv BY DEF Init, BoundInv, MetadataStatus
<1>2. WalkInv /\ BoundInv /\ [Next]_vars => BoundInv' BY BoundStep
<1>3. WalkInv /\ BoundInv => QueueIsBounded
  <2> SUFFICES ASSUME WalkInv, BoundInv, NEW i \in 1 .. Len(queue), NEW j \in 1 .. Len(queue),
                      queue[i] = queue[j], i < j
               PROVE  i <= Seeded /\ queue[i].id = queue[i].origin
    BY DEF QueueIsBounded, Seeded
  <2>1. Seeded \in Nat BY DirectIsFinite DEF WalkInv
  <2>2. queue # <<>> OBVIOUS
  <2>3. pc \in {"seeding", "walking", "done"} BY <2>2 DEF WalkInv, TypeOK, WalkIsFresh, Before
  <2>4. CASE pc = "seeding"
    <3>1. IsFiniteSet(seeds) BY DirectIsFinite, FS_Subset, <2>4 DEF WalkInv, SeedsAreQueued
    <3>2. Cardinality(seeds) \in Nat BY <3>1, FS_CardinalityType
    <3> QED BY <2>1, <2>4, <3>2 DEF BoundInv
  <2>5. CASE pc \in {"walking", "done"} BY <2>1, <2>5 DEF BoundInv
  <2> QED BY <2>3, <2>4, <2>5
<1> QED BY <1>1, <1>2, <1>3, WalkInvariant, PTL DEF Spec

-----------------------------------------------------------------------------
(* The cycles *)

Entry == [id: Package, todo: SUBSET Package]

\* The dependency of p on d closes a reported cycle.
Closed(p, d) == \E c \in cycles : Closes(c, p, d)

\* The search is through with the dependency of p on d.
Handled(p, d) == mark[d] = "done" \/ Closed(p, d)

IsCycle(c) ==
    /\ c \in Seq(Package) /\ Len(c) >= 2
    /\ c[1] = c[Len(c)]
    /\ \A i \in 1 .. Len(c) - 1 : c[i + 1] \in dependsOn[c[i]]

\* The variables of the search have their types, and every reported cycle is one.
SearchIsTyped ==
    /\ dependsOn \in [Package -> SUBSET Package]
    /\ roots \subseteq Package
    /\ mark \in [Package -> {"new", "active", "done"}]
    /\ stack \in Seq(Entry)
    /\ \A c \in cycles : IsCycle(c)

\* The stack is a path along dependencies, and holds exactly the active packages.
StackIsPath ==
    /\ \A i \in 1 .. Len(stack) : mark[stack[i].id] = "active" /\ stack[i].todo \subseteq dependsOn[stack[i].id]
    /\ \A i, j \in 1 .. Len(stack) : stack[i].id = stack[j].id => i = j
    /\ \A i \in 1 .. Len(stack) - 1 : stack[i + 1].id \in dependsOn[stack[i].id]
    /\ \A p \in Package : mark[p] = "active" => \E i \in 1 .. Len(stack) : stack[i].id = p

\* What a package on the stack no longer has to do is handled, or next on the stack.
PathIsHandled ==
    \A i \in 1 .. Len(stack) : \A d \in dependsOn[stack[i].id] \ stack[i].todo :
        Handled(stack[i].id, d) \/ (i < Len(stack) /\ d = stack[i + 1].id)

DoneIsHandled == \A p \in Package : mark[p] = "done" => \A d \in dependsOn[p] : Handled(p, d)

Finished == {p \in Package : mark[p] = "done"}

\* No cycle is left among a set of packages.
CutIn(S) == \E p \in S : \A d \in dependsOn[p] \cap S : Closed(p, d)

FinishedIsCut == \A S \in (SUBSET Finished) \ {{}} : CutIn(S)

Searched == pc \in {"files", "seeding", "walking"} \/ (pc = "done" /\ metadata = "valid")

SearchEnds ==
    /\ \A p \in Package : mark[p] = "new" => p \in roots
    /\ pc = "empty" => metadata # "valid"
    /\ Searched => stack = <<>> /\ roots = {}

CycleInv ==
    /\ SearchIsTyped /\ StackIsPath /\ PathIsHandled
    /\ DoneIsHandled /\ FinishedIsCut /\ SearchEnds

\* An entry of the stack.
LEMMA StackEntry ==
    ASSUME NEW s \in Seq(Entry), NEW i \in 1 .. Len(s)
    PROVE  s[i].id \in Package /\ s[i].todo \subseteq Package
<1>1. ASSUME NEW S, NEW q \in Seq(S), NEW j \in 1 .. Len(q) PROVE q[j] \in S OBVIOUS
<1>2. s[i] \in Entry BY <1>1, Zenon
<1> QED BY <1>2 DEF Entry

\* Taking a dependency off the top changes the top's list only.
LEMMA TakeOff ==
    ASSUME NEW s \in Seq(Entry), s # <<>>, NEW d, NEW r, r = [s EXCEPT ![Len(s)].todo = @ \ {d}]
    PROVE  /\ r \in Seq(Entry) /\ Len(r) = Len(s)
           /\ \A i \in 1 .. Len(s) : r[i].id = s[i].id
           /\ \A i \in 1 .. Len(s) : i # Len(s) => r[i].todo = s[i].todo
           /\ r[Len(s)].todo = s[Len(s)].todo \ {d}
<1>1. Len(s) \in Nat /\ Len(s) \in 1 .. Len(s) OBVIOUS
<1>2. s[Len(s)] \in Entry
  <2>1. ASSUME NEW S, NEW q \in Seq(S), NEW j \in 1 .. Len(q) PROVE q[j] \in S OBVIOUS
  <2> QED BY <1>1, <2>1, Zenon
<1> DEFINE e == [s[Len(s)] EXCEPT !.todo = @ \ {d}]
<1>3. e \in Entry /\ e.id = s[Len(s)].id /\ e.todo = s[Len(s)].todo \ {d} BY <1>2 DEF Entry
<1>4. r = [s EXCEPT ![Len(s)] = e] OBVIOUS
<1> HIDE DEF e
<1>5. DOMAIN s = 1 .. Len(s) OBVIOUS
<1>6. \A i \in 1 .. Len(s) : r[i] = IF i = Len(s) THEN e ELSE s[i] BY <1>4, <1>5
<1>7. r \in Seq(Entry) /\ Len(r) = Len(s)
  <2>1. s \in [1 .. Len(s) -> Entry] OBVIOUS
  <2>2. r \in [1 .. Len(s) -> Entry] BY <1>3, <1>4, <2>1
  <2>3. ASSUME NEW S, NEW n \in Nat, NEW q \in [1 .. n -> S] PROVE q \in Seq(S) /\ Len(q) = n OBVIOUS
  <2> QED BY <1>1, <2>2, <2>3
<1> QED BY <1>1, <1>3, <1>6, <1>7

\* Entering a package puts it on top.
LEMMA PutOn ==
    ASSUME NEW s \in Seq(Entry), NEW e \in Entry, NEW r, r = Append(s, e)
    PROVE  /\ r \in Seq(Entry) /\ Len(r) = Len(s) + 1 /\ r[Len(s) + 1] = e
           /\ \A i \in 1 .. Len(s) : r[i] = s[i]
OBVIOUS

\* Leaving takes the top off.
LEMMA TakeTop ==
    ASSUME NEW s \in Seq(Entry), s # <<>>, NEW r, r = SubSeq(s, 1, Len(s) - 1)
    PROVE  r \in Seq(Entry) /\ Len(r) = Len(s) - 1 /\ \A i \in 1 .. Len(s) - 1 : r[i] = s[i]
<1>1. Len(s) \in Nat /\ Len(s) # 0 /\ Len(s) - 1 \in Nat OBVIOUS
<1>2. ASSUME NEW S, NEW q \in Seq(S), NEW n \in Nat, n <= Len(q)
      PROVE  /\ SubSeq(q, 1, n) \in Seq(S) /\ Len(SubSeq(q, 1, n)) = n
             /\ \A i \in 1 .. n : SubSeq(q, 1, n)[i] = q[i]
  BY <1>2
<1>3. Len(s) - 1 <= Len(s) BY <1>1
<1> QED BY <1>1, <1>2, <1>3

\* The part of the stack from an active package on is a cycle, closed by the
\* dependency of the top on it.
LEMMA CycleToIsCycle ==
    ASSUME SearchIsTyped, StackIsPath, stack # <<>>,
           NEW d \in Top.todo, d \in Package, mark[d] = "active"
    PROVE  IsCycle(CycleTo(d)) /\ Closes(CycleTo(d), Top.id, d)
<1> DEFINE k == CHOOSE i \in 1 .. Len(stack) : stack[i].id = d
           n == Len(stack) - k + 1
           body == [i \in 1 .. n |-> stack[k + i - 1].id]
<1>1. stack \in Seq(Entry) /\ Len(stack) \in Nat /\ Len(stack) \in 1 .. Len(stack) BY DEF SearchIsTyped
<1>2. k \in 1 .. Len(stack) /\ stack[k].id = d
  <2>1. \E i \in 1 .. Len(stack) : stack[i].id = d BY DEF StackIsPath
  <2> QED BY <2>1
<1>3. CycleTo(d) = Append(body, d) BY DEF CycleTo
<1> HIDE DEF k
<1>4. n \in Nat /\ n >= 1 /\ \A i \in 1 .. n : k + i - 1 \in 1 .. Len(stack) BY <1>1, <1>2
<1>5. body \in Seq(Package) /\ Len(body) = n
  <2>1. \A i \in 1 .. n : stack[k + i - 1].id \in Package BY <1>1, <1>4, StackEntry
  <2>2. body \in [1 .. n -> Package] BY <2>1
  <2>3. ASSUME NEW S, NEW m \in Nat, NEW q \in [1 .. m -> S] PROVE q \in Seq(S) /\ Len(q) = m OBVIOUS
  <2> HIDE DEF n, body
  <2> QED BY <1>4, <2>2, <2>3
<1>6. \A i \in 1 .. n : body[i] = stack[k + i - 1].id OBVIOUS
<1>7. k + n - 1 = Len(stack) /\ k + 1 - 1 = k BY <1>1, <1>2
<1> HIDE DEF n, body
<1>8. body[1] = d /\ body[n] = Top.id BY <1>2, <1>4, <1>6, <1>7 DEF Top
<1>9. \A i \in 1 .. n - 1 : body[i + 1] \in dependsOn[body[i]]
  <2> TAKE i \in 1 .. n - 1
  <2>1. i \in 1 .. n /\ i + 1 \in 1 .. n /\ k + (i + 1) - 1 = (k + i - 1) + 1 BY <1>2, <1>4
  <2>2. k + i - 1 \in 1 .. Len(stack) - 1 BY <1>1, <1>2, <1>4, <2>1
  <2>3. stack[(k + i - 1) + 1].id \in dependsOn[stack[k + i - 1].id] BY <2>2 DEF StackIsPath
  <2> QED BY <1>6, <2>1, <2>3
<1>10. d \in dependsOn[Top.id] BY <1>1 DEF StackIsPath, Top
<1> DEFINE c == Append(body, d)
<1>11. /\ c \in Seq(Package) /\ Len(c) = n + 1 /\ c[n + 1] = d
       /\ \A i \in 1 .. n : c[i] = body[i]
  BY <1>4, <1>5
<1> HIDE DEF c
<1>12. c[1] = c[Len(c)] /\ Len(c) >= 2 BY <1>4, <1>8, <1>11
<1>13. \A i \in 1 .. Len(c) - 1 : c[i + 1] \in dependsOn[c[i]]
  <2> TAKE i \in 1 .. Len(c) - 1
  <2>1. i \in 1 .. n BY <1>4, <1>11
  <2>2. CASE i = n BY <1>8, <1>10, <1>11, <2>1, <2>2
  <2>3. CASE i # n
    <3>1. i \in 1 .. n - 1 /\ i + 1 \in 1 .. n BY <1>4, <2>1, <2>3
    <3> QED BY <1>9, <1>11, <2>1, <3>1
  <2> QED BY <2>2, <2>3
<1>14. Closes(c, Top.id, d)
  <2>1. Len(c) - 1 = n /\ n \in 1 .. n BY <1>4, <1>11
  <2> QED BY <1>8, <1>11, <2>1 DEF Closes
<1> QED BY <1>3, <1>11, <1>12, <1>13, <1>14 DEF c, IsCycle

LEMMA SearchBegins == Init => CycleInv
<1> SUFFICES ASSUME Init PROVE CycleInv
  OBVIOUS
<1>1. SearchIsTyped /\ SearchEnds BY DEF Init, SearchIsTyped, SearchEnds, Searched, Dependencies, MetadataStatus
<1>2. StackIsPath /\ PathIsHandled BY DEF Init, StackIsPath, PathIsHandled
<1>3. DoneIsHandled /\ Finished = {} BY DEF Init, DoneIsHandled, Finished
<1>4. FinishedIsCut BY <1>3 DEF FinishedIsCut
<1> QED BY <1>1, <1>2, <1>3, <1>4 DEF CycleInv

LEMMA VisitRootSearches == CycleInv /\ VisitRoot => CycleInv'
<1> SUFFICES ASSUME CycleInv, VisitRoot PROVE CycleInv'
  OBVIOUS
<1>0. /\ SearchIsTyped /\ StackIsPath /\ PathIsHandled /\ DoneIsHandled /\ FinishedIsCut /\ SearchEnds
      /\ stack = <<>> /\ pc = "cycles"
      /\ UNCHANGED <<metadata, dependsOn, pc, cycles>>
  BY DEF CycleInv, VisitRoot
<1> PICK p \in roots : /\ roots' = roots \ {p}
                       /\ \/ mark[p] = "done" /\ UNCHANGED <<mark, stack>>
                          \/ /\ mark[p] = "new"
                             /\ mark' = [mark EXCEPT ![p] = "active"]
                             /\ stack' = <<Entered(p)>>
  BY DEF VisitRoot
<1>1. CASE mark[p] = "done" /\ UNCHANGED <<mark, stack>>
  <2>1. SearchIsTyped' BY <1>0, <1>1 DEF SearchIsTyped, IsCycle
  <2>2. StackIsPath' /\ PathIsHandled' BY <1>0, <1>1 DEF StackIsPath, PathIsHandled
  <2>3. DoneIsHandled' BY <1>0, <1>1 DEF DoneIsHandled, Handled, Closed
  <2>4. FinishedIsCut' BY <1>0, <1>1 DEF FinishedIsCut, Finished, CutIn, Closed
  <2>5. SearchEnds' BY <1>0, <1>1 DEF SearchEnds, Searched
  <2> QED BY <2>1, <2>2, <2>3, <2>4, <2>5 DEF CycleInv
<1>2. CASE mark[p] = "new" /\ mark' = [mark EXCEPT ![p] = "active"] /\ stack' = <<Entered(p)>>
  <2>0. p \in Package BY <1>0 DEF SearchIsTyped
  <2>1. mark' \in [Package -> {"new", "active", "done"}] BY <1>0, <1>2 DEF SearchIsTyped
  <2>2. \A q \in Package : mark'[q] = IF q = p THEN "active" ELSE mark[q] BY <1>0, <1>2 DEF SearchIsTyped
  <2>3. Entered(p) \in Entry /\ Entered(p).id = p /\ Entered(p).todo = dependsOn[p]
    BY <1>0, <2>0 DEF SearchIsTyped, Entered, Entry
  <2>4. stack' \in Seq(Entry) /\ Len(stack') = 1 /\ stack'[1] = Entered(p) BY <1>2, <2>3
  <2>5. SearchIsTyped' BY <1>0, <2>1, <2>4 DEF SearchIsTyped, IsCycle
  <2>6. \A q \in Package : mark[q] # "active" BY <1>0 DEF StackIsPath
  <2>7. StackIsPath'
    <3>1. \A i \in 1 .. Len(stack') : i = 1 BY <2>4
    <3>2. \A i \in 1 .. Len(stack') - 1 : FALSE BY <2>4
    <3>3. \A q \in Package : mark'[q] = "active" => q = p BY <2>2, <2>6
    <3>4. 1 \in 1 .. Len(stack') BY <2>4
    <3> QED BY <1>0, <2>0, <2>2, <2>3, <2>4, <3>1, <3>2, <3>3, <3>4 DEF StackIsPath
  <2>8. PathIsHandled'
    <3>1. \A i \in 1 .. Len(stack') : stack'[i] = Entered(p) BY <2>4
    <3> QED BY <1>0, <2>3, <3>1 DEF PathIsHandled
  <2>9. Finished' = Finished BY <1>2, <2>0, <2>2 DEF Finished
  <2>10. DoneIsHandled'
    <3> SUFFICES ASSUME NEW q \in Package, mark'[q] = "done", NEW d \in dependsOn[q] PROVE Handled(q, d)'
      BY <1>0 DEF DoneIsHandled
    <3>1. d \in Package BY <1>0 DEF SearchIsTyped
    <3>2. mark[q] = "done" BY <2>2
    <3>3. Handled(q, d) BY <1>0, <3>2 DEF DoneIsHandled
    <3> QED BY <1>0, <1>2, <2>2, <3>1, <3>3 DEF Handled, Closed
  <2>11. FinishedIsCut' BY <1>0, <2>9 DEF FinishedIsCut, CutIn, Closed
  <2>12. SearchEnds' BY <1>0, <2>2 DEF SearchEnds, Searched
  <2> QED BY <2>5, <2>7, <2>8, <2>10, <2>11, <2>12 DEF CycleInv
<1> QED BY <1>1, <1>2

\* More is handled as the search goes on.
LEMMA DoneStaysHandled ==
    ASSUME SearchIsTyped, DoneIsHandled, FinishedIsCut, dependsOn' = dependsOn,
           cycles \subseteq cycles', Finished' = Finished,
           \A p \in Package : mark'[p] = "done" <=> mark[p] = "done"
    PROVE  /\ DoneIsHandled' /\ FinishedIsCut'
           /\ \A p, d \in Package : Handled(p, d) => Handled(p, d)'
<1>1. \A p, d \in Package : Closed(p, d) => Closed(p, d)' BY DEF Closed
<1>2. \A p, d \in Package : Handled(p, d) => Handled(p, d)' BY <1>1 DEF Handled
<1>3. \A p \in Package : dependsOn[p] \subseteq Package BY DEF SearchIsTyped
<1>4. DoneIsHandled' BY <1>2, <1>3 DEF DoneIsHandled
<1>5. ASSUME NEW S \in SUBSET Package, CutIn(S) PROVE CutIn(S)'
  <2> PICK p \in S : \A d \in dependsOn[p] \cap S : Closed(p, d) BY <1>5 DEF CutIn
  <2> QED BY <1>1 DEF CutIn
<1>6. FinishedIsCut' BY <1>5 DEF FinishedIsCut, Finished
<1> QED BY <1>2, <1>4, <1>6

LEMMA VisitDependencySearches == CycleInv /\ VisitDependency => CycleInv'
<1> SUFFICES ASSUME CycleInv, VisitDependency PROVE CycleInv'
  OBVIOUS
<1>0. /\ SearchIsTyped /\ StackIsPath /\ PathIsHandled /\ DoneIsHandled /\ FinishedIsCut /\ SearchEnds
      /\ stack # <<>> /\ pc = "cycles"
      /\ UNCHANGED <<metadata, dependsOn, pc, roots>>
  BY DEF CycleInv, VisitDependency
<1> PICK d \in Top.todo :
      LET rest == [stack EXCEPT ![Len(stack)].todo = @ \ {d}] IN
      \/ mark[d] = "done" /\ stack' = rest /\ UNCHANGED <<mark, cycles>>
      \/ /\ mark[d] = "active"
         /\ stack' = rest
         /\ cycles' = cycles \cup {CycleTo(d)}
         /\ UNCHANGED mark
      \/ /\ mark[d] = "new"
         /\ stack' = Append(rest, Entered(d))
         /\ mark' = [mark EXCEPT ![d] = "active"]
         /\ UNCHANGED cycles
  BY DEF VisitDependency
<1> DEFINE n == Len(stack)
           rest == [stack EXCEPT ![n].todo = @ \ {d}]
<1>1. stack \in Seq(Entry) /\ n \in Nat /\ n \in 1 .. n /\ n >= 1 BY <1>0 DEF SearchIsTyped
<1>2. d \in Package /\ d \in dependsOn[stack[n].id] /\ d \in stack[n].todo
  BY <1>0, <1>1, StackEntry DEF Top, StackIsPath
<1>3. /\ rest \in Seq(Entry) /\ Len(rest) = n
      /\ \A i \in 1 .. n : rest[i].id = stack[i].id
      /\ \A i \in 1 .. n : i # n => rest[i].todo = stack[i].todo
      /\ rest[n].todo = stack[n].todo \ {d}
  BY <1>0, <1>1, TakeOff
<1>4. \A i \in 1 .. n : stack[i].id \in Package /\ stack[i].todo \subseteq Package BY <1>1, StackEntry
<1>5. \A i \in 1 .. n : rest[i].todo \subseteq dependsOn[rest[i].id]
  BY <1>0, <1>3 DEF StackIsPath
<1>6. \A p \in Package : dependsOn[p] \subseteq Package BY <1>0 DEF SearchIsTyped
<1>7. /\ \/ mark[d] = "done" /\ stack' = rest /\ UNCHANGED <<mark, cycles>>
         \/ mark[d] = "active" /\ stack' = rest /\ cycles' = cycles \cup {CycleTo(d)} /\ UNCHANGED mark
         \/ /\ mark[d] = "new" /\ stack' = Append(rest, Entered(d))
            /\ mark' = [mark EXCEPT ![d] = "active"] /\ UNCHANGED cycles
  OBVIOUS
<1> HIDE DEF rest, n
<1> PICK t \in Package : t = stack[n].id BY <1>1, <1>4
<1>8. ASSUME stack' = rest, mark' = mark, cycles \subseteq cycles', \A c \in cycles' : IsCycle(c),
             Handled(t, d)'
      PROVE  CycleInv'
  <2>1. SearchIsTyped' BY <1>0, <1>3, <1>8 DEF SearchIsTyped, IsCycle
  <2>2. StackIsPath'
    <3>1. Len(stack') = n /\ (\A i \in 1 .. n : stack'[i].id = stack[i].id) BY <1>3, <1>8
    <3>2. \A i \in 1 .. n : stack'[i].todo \subseteq dependsOn[stack'[i].id] BY <1>5, <1>8
    <3>3. \A i \in 1 .. n - 1 : i \in 1 .. n /\ i + 1 \in 1 .. n BY <1>1
    <3> QED BY <1>0, <1>8, <3>1, <3>2, <3>3 DEF StackIsPath, n
  <2>3. Finished' = Finished BY <1>8 DEF Finished
  <2>4. /\ DoneIsHandled' /\ FinishedIsCut'
        /\ \A p, q \in Package : Handled(p, q) => Handled(p, q)'
    BY <1>0, <1>8, <2>3, DoneStaysHandled
  <2>5. PathIsHandled'
    <3>1. ASSUME NEW i \in 1 .. n, NEW p, p = stack'[i].id, NEW q \in dependsOn[p] \ stack'[i].todo
          PROVE  Handled(p, q)' \/ (i < n /\ q = stack'[i + 1].id)
      <4>1. p = stack[i].id BY <1>3, <1>8, <3>1
      <4>2. q \in Package /\ p \in Package BY <1>4, <1>6, <4>1
      <4>3. CASE i = n /\ q = d BY <1>8, <4>1, <4>3
      <4>4. CASE ~(i = n /\ q = d)
        <5>1. q \notin stack[i].todo BY <1>1, <1>3, <1>8, <3>1, <4>4
        <5>2. Handled(p, q) \/ (i < n /\ q = stack[i + 1].id)
          BY <1>0, <3>1, <4>1, <5>1 DEF PathIsHandled, n
        <5>3. i < n => i + 1 \in 1 .. n BY <1>1
        <5> QED BY <1>3, <1>8, <2>4, <4>2, <5>2, <5>3
      <4> QED BY <4>3, <4>4
    <3>2. Len(stack') = n BY <1>3, <1>8
    <3> SUFFICES ASSUME NEW i \in 1 .. n, NEW p, p = stack'[i].id, NEW q \in dependsOn[p] \ stack'[i].todo
                 PROVE  Handled(p, q)' \/ (i < n /\ q = stack'[i + 1].id)
      <4>1. dependsOn' = dependsOn BY <1>0
      <4> QED BY <3>2, <4>1 DEF PathIsHandled, Handled, Closed
    <3> QED BY <3>1
  <2>6. SearchEnds' BY <1>0, <1>8 DEF SearchEnds, Searched
  <2> QED BY <2>1, <2>2, <2>4, <2>5, <2>6 DEF CycleInv
<1>9. CASE mark[d] = "done" /\ stack' = rest /\ UNCHANGED <<mark, cycles>>
  <2>1. Handled(t, d)' BY <1>9 DEF Handled
  <2>2. \A c \in cycles' : IsCycle(c) BY <1>0, <1>9 DEF SearchIsTyped
  <2> QED BY <1>8, <1>9, <2>1, <2>2
<1>10. CASE mark[d] = "active" /\ stack' = rest /\ cycles' = cycles \cup {CycleTo(d)} /\ UNCHANGED mark
  <2>1. IsCycle(CycleTo(d)) /\ Closes(CycleTo(d), Top.id, d)
    BY <1>0, <1>2, <1>10, CycleToIsCycle
  <2>2. \A c \in cycles' : IsCycle(c) BY <1>0, <1>10, <2>1 DEF SearchIsTyped
  <2>3. \E c \in cycles' : Closes(c, stack[n].id, d) BY <1>10, <2>1 DEF Top, n
  <2>4. Handled(t, d)' BY <2>3 DEF Handled, Closed, Closes
  <2> QED BY <1>8, <1>10, <2>2, <2>4
<1>11. CASE /\ mark[d] = "new" /\ stack' = Append(rest, Entered(d))
            /\ mark' = [mark EXCEPT ![d] = "active"] /\ UNCHANGED cycles
  <2>1. Entered(d) \in Entry /\ Entered(d).id = d /\ Entered(d).todo = dependsOn[d]
    BY <1>0, <1>2 DEF SearchIsTyped, Entered, Entry
  <2>2. /\ stack' \in Seq(Entry) /\ Len(stack') = n + 1 /\ stack'[n + 1] = Entered(d)
        /\ \A i \in 1 .. n : stack'[i] = rest[i]
    BY <1>3, <1>11, <2>1, PutOn
  <2>3. /\ mark' \in [Package -> {"new", "active", "done"}]
        /\ \A q \in Package : mark'[q] = IF q = d THEN "active" ELSE mark[q]
    BY <1>0, <1>2, <1>11 DEF SearchIsTyped
  <2>4. SearchIsTyped' BY <1>0, <1>11, <2>2, <2>3 DEF SearchIsTyped, IsCycle
  <2>5. \A i \in 1 .. n + 1 : i \in 1 .. n \/ i = n + 1 BY <1>1
  <2>6. \A i \in 1 .. n : stack'[i].id = stack[i].id /\ stack'[i].todo = rest[i].todo BY <1>3, <2>2
  <2>7. stack'[n + 1].id = d /\ stack'[n + 1].todo = dependsOn[d] BY <2>1, <2>2
  <2>8. \A i \in 1 .. n : stack[i].id # d BY <1>0, <1>11 DEF StackIsPath, n
  <2>9. n + 1 \in 1 .. n + 1 /\ n \in 1 .. n /\ (\A i \in 1 .. n : i \in 1 .. n + 1) BY <1>1
  <2>10. StackIsPath'
    <3>1. \A i \in 1 .. n + 1 : /\ mark'[stack'[i].id] = "active"
                                /\ stack'[i].todo \subseteq dependsOn'[stack'[i].id]
      BY <1>0, <1>2, <1>3, <1>4, <1>5, <2>3, <2>5, <2>6, <2>7 DEF StackIsPath, n
    <3>2. \A i, j \in 1 .. n + 1 : stack'[i].id = stack'[j].id => i = j
      BY <1>0, <2>5, <2>6, <2>7, <2>8 DEF StackIsPath, n
    <3>3. \A i \in 1 .. (n + 1) - 1 : stack'[i + 1].id \in dependsOn'[stack'[i].id]
      <4> TAKE i \in 1 .. (n + 1) - 1
      <4>1. i \in 1 .. n BY <1>1
      <4>2. CASE i = n BY <1>0, <1>2, <2>6, <2>7, <2>9, <4>2
      <4>3. CASE i # n
        <5>1. i \in 1 .. n - 1 /\ i + 1 \in 1 .. n BY <1>1, <4>1, <4>3
        <5> QED BY <1>0, <2>6, <4>1, <5>1 DEF StackIsPath, n
      <4> QED BY <4>2, <4>3
    <3>4. \A q \in Package : mark'[q] = "active" => \E i \in 1 .. n + 1 : stack'[i].id = q
      <4> TAKE q \in Package
      <4> HAVE mark'[q] = "active"
      <4>1. CASE q = d BY <2>7, <2>9, <4>1
      <4>2. CASE q # d
        <5>1. \E i \in 1 .. n : stack[i].id = q BY <1>0, <2>3, <4>2 DEF StackIsPath, n
        <5> QED BY <2>6, <2>9, <5>1
      <4> QED BY <4>1, <4>2
    <3> QED BY <2>2, <3>1, <3>2, <3>3, <3>4 DEF StackIsPath
  <2>11. \A p \in Package : mark'[p] = "done" <=> mark[p] = "done" BY <1>11, <2>3
  <2>12. Finished' = Finished BY <2>11 DEF Finished
  <2>13. /\ DoneIsHandled' /\ FinishedIsCut'
         /\ \A p, q \in Package : Handled(p, q) => Handled(p, q)'
    BY <1>0, <1>11, <2>11, <2>12, DoneStaysHandled
  <2>14. ASSUME NEW i \in 1 .. n + 1, NEW p, p = stack'[i].id, NEW q \in dependsOn[p] \ stack'[i].todo
         PROVE  Handled(p, q)' \/ (i < n + 1 /\ q = stack'[i + 1].id)
    <3>1. i # n + 1 BY <2>7, <2>14
    <3>2. i \in 1 .. n /\ p = stack[i].id BY <2>5, <2>6, <2>14, <3>1
    <3>3. q \in Package /\ p \in Package BY <1>4, <1>6, <3>2
    <3>4. CASE i = n /\ q = d BY <1>1, <2>7, <3>4
    <3>5. CASE ~(i = n /\ q = d)
      <4>1. q \notin stack[i].todo BY <1>1, <1>3, <2>6, <2>14, <3>2, <3>5
      <4>2. Handled(p, q) \/ (i < n /\ q = stack[i + 1].id)
        BY <1>0, <2>14, <3>2, <4>1 DEF PathIsHandled, n
      <4>3. i < n => i + 1 \in 1 .. n BY <1>1
      <4>4. i < n + 1 BY <1>1, <3>2
      <4> QED BY <2>6, <2>13, <3>3, <4>2, <4>3, <4>4
    <3> QED BY <3>4, <3>5
  <2>15. PathIsHandled'
    <3> SUFFICES ASSUME NEW i \in 1 .. n + 1, NEW p, p = stack'[i].id, NEW q \in dependsOn[p] \ stack'[i].todo
                 PROVE  Handled(p, q)' \/ (i < n + 1 /\ q = stack'[i + 1].id)
      <4>1. dependsOn' = dependsOn BY <1>0
      <4> QED BY <2>2, <4>1 DEF PathIsHandled, Handled, Closed
    <3> QED BY <2>14
  <2>16. SearchEnds' BY <1>0, <2>3 DEF SearchEnds, Searched
  <2> QED BY <2>4, <2>10, <2>13, <2>15, <2>16 DEF CycleInv
<1> QED BY <1>7, <1>9, <1>10, <1>11

\* A finished package takes no cycle with it: all it depends on was finished before
\* it or closes a reported cycle.
LEMMA LeaveVisitSearches == CycleInv /\ LeaveVisit => CycleInv'
<1> SUFFICES ASSUME CycleInv, LeaveVisit PROVE CycleInv'
  OBVIOUS
<1>0. /\ SearchIsTyped /\ StackIsPath /\ PathIsHandled /\ DoneIsHandled /\ FinishedIsCut /\ SearchEnds
      /\ stack # <<>> /\ pc = "cycles" /\ Top.todo = {}
      /\ stack' = SubSeq(stack, 1, Len(stack) - 1)
      /\ mark' = [mark EXCEPT ![Top.id] = "done"]
      /\ UNCHANGED <<metadata, dependsOn, pc, roots, cycles>>
  BY DEF CycleInv, LeaveVisit
<1> DEFINE n == Len(stack)
<1>1. stack \in Seq(Entry) /\ n \in Nat /\ n \in 1 .. n /\ n >= 1 BY <1>0 DEF SearchIsTyped
<1>2. \A i \in 1 .. n : stack[i].id \in Package /\ stack[i].todo \subseteq Package BY <1>1, StackEntry
<1> PICK t \in Package : t = stack[n].id BY <1>1, <1>2
<1>3. stack[n].todo = {} /\ mark' = [mark EXCEPT ![t] = "done"] /\ mark[t] = "active"
  BY <1>0, <1>1 DEF Top, StackIsPath
<1>4. /\ mark' \in [Package -> {"new", "active", "done"}]
      /\ \A q \in Package : mark'[q] = IF q = t THEN "done" ELSE mark[q]
  BY <1>0, <1>3 DEF SearchIsTyped
<1>5. /\ stack' \in Seq(Entry) /\ Len(stack') = n - 1
      /\ \A i \in 1 .. n - 1 : stack'[i] = stack[i]
  BY <1>0, <1>1, TakeTop
<1> HIDE DEF n
<1>6. \A p \in Package : dependsOn[p] \subseteq Package BY <1>0 DEF SearchIsTyped
<1>7. \A i \in 1 .. n - 1 : i \in 1 .. n /\ i < n /\ i + 1 \in 1 .. n BY <1>1
<1>8. \A p, d : Closed(p, d)' <=> Closed(p, d) BY <1>0 DEF Closed
<1>9. \A p, d \in Package : Handled(p, d) => Handled(p, d)' BY <1>4, <1>8 DEF Handled
<1>10. SearchIsTyped' BY <1>0, <1>4, <1>5 DEF SearchIsTyped, IsCycle
<1>11. StackIsPath'
  <2>1. \A i \in 1 .. n - 1 : stack[i].id # t BY <1>0, <1>1, <1>7 DEF StackIsPath, n
  <2>2. \A i \in 1 .. n - 1 : /\ mark'[stack'[i].id] = "active"
                              /\ stack'[i].todo \subseteq dependsOn'[stack'[i].id]
    BY <1>0, <1>2, <1>4, <1>5, <1>7, <2>1 DEF StackIsPath, n
  <2>3. \A i, j \in 1 .. n - 1 : stack'[i].id = stack'[j].id => i = j
    BY <1>0, <1>5, <1>7 DEF StackIsPath, n
  <2>4. \A i \in 1 .. (n - 1) - 1 : stack'[i + 1].id \in dependsOn'[stack'[i].id]
    <3> TAKE i \in 1 .. (n - 1) - 1
    <3>1. i \in 1 .. n - 1 /\ i + 1 \in 1 .. n - 1 BY <1>1
    <3> QED BY <1>0, <1>5, <3>1 DEF StackIsPath, n
  <2>5. \A q \in Package : mark'[q] = "active" => \E i \in 1 .. n - 1 : stack'[i].id = q
    <3> TAKE q \in Package
    <3> HAVE mark'[q] = "active"
    <3>1. q # t /\ mark[q] = "active" BY <1>4
    <3>2. PICK i \in 1 .. n : stack[i].id = q BY <1>0, <3>1 DEF StackIsPath, n
    <3>3. i \in 1 .. n - 1 BY <1>1, <3>1, <3>2
    <3> QED BY <1>5, <3>2, <3>3
  <2> QED BY <1>5, <2>2, <2>3, <2>4, <2>5 DEF StackIsPath
<1>12. PathIsHandled'
  <2>1. ASSUME NEW i \in 1 .. n - 1, NEW p, p = stack'[i].id, NEW q \in dependsOn[p] \ stack'[i].todo
        PROVE  Handled(p, q)' \/ (i < n - 1 /\ q = stack'[i + 1].id)
    <3>1. p = stack[i].id /\ q \notin stack[i].todo BY <1>5, <2>1
    <3>2. q \in Package /\ p \in Package BY <1>2, <1>6, <1>7, <3>1
    <3>3. Handled(p, q) \/ q = stack[i + 1].id
      BY <1>0, <1>7, <2>1, <3>1 DEF PathIsHandled, n
    <3>4. CASE Handled(p, q) BY <1>9, <3>2, <3>4
    <3>5. CASE q = stack[i + 1].id
      <4>1. CASE i = n - 1
        <5>1. i + 1 = n BY <1>1, <4>1
        <5>2. q = t BY <3>5, <5>1
        <5> QED BY <1>4, <5>2 DEF Handled
      <4>2. CASE i # n - 1
        <5>1. i < n - 1 /\ i + 1 \in 1 .. n - 1 BY <1>1, <4>2
        <5> QED BY <1>5, <3>5, <5>1
      <4> QED BY <4>1, <4>2
    <3> QED BY <3>3, <3>4, <3>5
  <2> SUFFICES ASSUME NEW i \in 1 .. n - 1, NEW p, p = stack'[i].id, NEW q \in dependsOn[p] \ stack'[i].todo
               PROVE  Handled(p, q)' \/ (i < n - 1 /\ q = stack'[i + 1].id)
    <3>1. dependsOn' = dependsOn BY <1>0
    <3> QED BY <1>5, <3>1 DEF PathIsHandled, Handled, Closed
  <2> QED BY <2>1
<1>13. \A d \in dependsOn[t] : Handled(t, d)
  <2>1. ~(n < n) BY <1>1
  <2> QED BY <1>0, <1>1, <1>3, <2>1 DEF PathIsHandled, n
<1>14. DoneIsHandled'
  <2> SUFFICES ASSUME NEW p \in Package, mark'[p] = "done", NEW d \in dependsOn[p] PROVE Handled(p, d)'
    BY <1>0 DEF DoneIsHandled
  <2>1. Handled(p, d) BY <1>0, <1>4, <1>13 DEF DoneIsHandled
  <2> QED BY <1>6, <1>9, <2>1
<1>15. ASSUME NEW S \in SUBSET Package, S # {}, \A p \in S : p # t => mark[p] = "done"
       PROVE  CutIn(S)
  <2>1. \A p \in S : t \in dependsOn[p] => Closed(p, t)
    <3> TAKE p \in S
    <3> HAVE t \in dependsOn[p]
    <3>1. Handled(p, t) BY <1>0, <1>13, <1>15 DEF DoneIsHandled
    <3> QED BY <1>3, <3>1 DEF Handled
  <2>2. CASE S \ {t} = {}
    <3>1. S = {t} BY <1>15, <2>2
    <3> QED BY <2>1, <3>1 DEF CutIn
  <2>3. CASE S \ {t} # {}
    <3>1. S \ {t} \in SUBSET Finished BY <1>15 DEF Finished
    <3>2. CutIn(S \ {t}) BY <1>0, <2>3, <3>1 DEF FinishedIsCut
    <3>3. PICK p \in S \ {t} : \A d \in dependsOn[p] \cap (S \ {t}) : Closed(p, d) BY <3>2 DEF CutIn
    <3>4. \A d \in dependsOn[p] \cap S : Closed(p, d) BY <2>1, <3>3
    <3> QED BY <3>4 DEF CutIn
  <2> QED BY <2>2, <2>3
<1>16. FinishedIsCut'
  <2>1. \A S \in SUBSET Finished' : S \in SUBSET Package /\ \A p \in S : p # t => mark[p] = "done"
    BY <1>4 DEF Finished
  <2>2. \A S \in SUBSET Package : CutIn(S) => CutIn(S)' BY <1>0, <1>8 DEF CutIn
  <2> QED BY <1>15, <2>1, <2>2 DEF FinishedIsCut
<1>17. SearchEnds' BY <1>0, <1>4 DEF SearchEnds, Searched
<1> QED BY <1>10, <1>11, <1>12, <1>14, <1>16, <1>17 DEF CycleInv

\* The other steps find the search over and leave it so.
LEMMA QuietSearches ==
    ASSUME CycleInv, UNCHANGED <<metadata, dependsOn, cycleVars>>,
           \/ pc' = pc
           \/ pc = "cycles" /\ stack = <<>> /\ roots = {} /\ pc' = "files"
           \/ pc \in {"files", "seeding", "walking"} /\ pc' \in {"files", "seeding", "walking", "done"}
           \/ pc = "empty" /\ pc' = "done"
    PROVE  CycleInv'
<1> USE DEF CycleInv, cycleVars
<1>1. SearchIsTyped' BY DEF SearchIsTyped, IsCycle
<1>2. StackIsPath' BY DEF StackIsPath
<1>3. PathIsHandled' BY DEF PathIsHandled, Handled, Closed
<1>4. DoneIsHandled' BY DEF DoneIsHandled, Handled, Closed
<1>5. FinishedIsCut' BY DEF FinishedIsCut, Finished, CutIn, Closed
<1>6. SearchEnds' BY DEF SearchEnds, Searched
<1> QED BY <1>1, <1>2, <1>3, <1>4, <1>5, <1>6

LEMMA SearchStep == CycleInv /\ [Next]_vars => CycleInv'
<1> SUFFICES ASSUME CycleInv, [Next]_vars PROVE CycleInv'
  OBVIOUS
<1>1. CASE VisitRoot BY <1>1, VisitRootSearches
<1>2. CASE VisitDependency BY <1>2, VisitDependencySearches
<1>3. CASE LeaveVisit BY <1>3, LeaveVisitSearches
<1>4. CASE ParseDiff BY <1>4, QuietSearches DEF ParseDiff
<1>5. ASSUME NEW f \in File, NEW m \in Match, Classify(f, m) PROVE CycleInv'
  BY <1>5, QuietSearches DEF Classify
<1>6. CASE FilesEnd BY <1>6, QuietSearches DEF FilesEnd
<1>7. CASE Seed BY <1>7, QuietSearches DEF Seed
<1>8. CASE StartWalk BY <1>8, QuietSearches DEF StartWalk
<1>9. CASE Dequeue BY <1>9, QuietSearches DEF Dequeue
<1>10. CASE Visit BY <1>10, QuietSearches DEF Visit
<1>11. CASE Conclude BY <1>11, QuietSearches DEF Conclude
<1>12. CASE EmptyGraph BY <1>12, QuietSearches DEF EmptyGraph
<1>13. CASE UNCHANGED vars BY <1>13, QuietSearches DEF vars
<1> QED BY <1>1, <1>2, <1>3, <1>4, <1>5, <1>6, <1>7, <1>8, <1>9, <1>10, <1>11, <1>12, <1>13 DEF Next

\* When the search is over every package is finished.
LEMMA AllFinish == CycleInv /\ Searched => Finished = Package
<1> SUFFICES ASSUME CycleInv, Searched PROVE Finished = Package
  OBVIOUS
<1>1. stack = <<>> /\ \A p \in Package : mark[p] # "new" BY DEF CycleInv, SearchEnds
<1>2. \A p \in Package : mark[p] # "active" BY <1>1 DEF CycleInv, StackIsPath
<1>3. \A p \in Package : mark[p] \in {"new", "active", "done"} BY DEF CycleInv, SearchIsTyped
<1> QED BY <1>1, <1>2, <1>3 DEF Finished

\* Whatever the declared dependencies: every cycle the graph reports is one, and when
\* the dependencies that close the reported cycles are taken away no set of packages
\* is left in which each depends on another (cycleDiagnostics).
THEOREM CyclesFound == Spec => []CyclesAreFound
<1>1. CycleInv => CyclesAreFound
  <2> SUFFICES ASSUME CycleInv, Searched PROVE CyclesAreFound
    BY DEF CyclesAreFound, Searched
  <2>1. \A c \in cycles : c[1] = c[Len(c)] /\ \A i \in 1 .. Len(c) - 1 : c[i + 1] \in dependsOn[c[i]]
    BY DEF CycleInv, SearchIsTyped, IsCycle
  <2>2. \A S \in (SUBSET Package) \ {{}} : CutIn(S) BY AllFinish DEF CycleInv, FinishedIsCut
  <2> QED BY <2>1, <2>2 DEF CyclesAreFound, CutIn, Closed
<1>2. Init => CycleInv BY SearchBegins
<1>3. CycleInv /\ [Next]_vars => CycleInv' BY SearchStep
<1> QED BY <1>1, <1>2, <1>3, PTL DEF Spec
=============================================================================
