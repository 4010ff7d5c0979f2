---------------------- MODULE PolicyResolution_proofs ----------------------
(***************************************************************************)
(* Proofs about PolicyResolution, for any manifest, any diff and any packs. *)
(*                                                                          *)
(* The two recursive functions, the policies validation finds and the       *)
(* assignments resolution makes on the way down a path, are shown to exist  *)
(* by induction on the depth (PoliciesAreGiven, AssignmentsAreGiven).  At   *)
(* every depth the assignment is that of the deepest scope so far that      *)
(* decides (NearestDown), and its policy the one validation gives the last  *)
(* package entered (AgreesDown).  The invariant of a run says that every    *)
(* stage leaves what it computed from what was there (StagesFollow).        *)
(***************************************************************************)
EXTENDS PolicyResolution, FiniteSetTheorems, TLAPS

-----------------------------------------------------------------------------
(* Walking down a path *)

\* What holds of 0 and passes from one number to the next holds of every one.
LEMMA Induct ==
    ASSUME NEW S, 0 \in S, \A n \in Nat : n \in S => n + 1 \in S
    PROVE  Nat \subseteq S
<1> SUFFICES ASSUME NEW k \in Nat, k \notin S PROVE FALSE
  OBVIOUS
<1> DEFINE Gaps == {U \in SUBSET Nat : \E m \in Nat \ S : U = 0 .. m}
<1>1. Gaps \subseteq FiniteSubsetsOf(Nat) BY FS_Interval DEF FiniteSubsetsOf
<1>2. 0 .. k \in Gaps OBVIOUS
<1>3. PICK U \in Gaps : \A V \in Gaps : ~(<<V, U>> \in StrictSubsetOrdering(Nat))
  <2> HIDE DEF Gaps
  <2> QED BY <1>1, <1>2, FS_StrictSubsetOrderingWellFounded, WFMin
<1>4. PICK m \in Nat \ S : U = 0 .. m BY <1>3
<1>5. m - 1 \in Nat \ S BY <1>4
<1>6. 0 .. m - 1 \in Gaps BY <1>5
<1>7. <<0 .. m - 1, U>> \in StrictSubsetOrdering(Nat)
  <2>1. 0 .. m - 1 \subseteq U /\ m \in U /\ m \notin 0 .. m - 1 BY <1>4, <1>5
  <2>2. 0 .. m - 1 \in SUBSET Nat /\ U \in SUBSET Nat BY <1>4
  <2> QED BY <2>1, <2>2 DEF StrictSubsetOrdering
<1> QED BY <1>3, <1>6, <1>7

\* The policy at a depth is given by the one before.
PolicyAt(path, down, n) ==
    IF n = 0 THEN manifest.policy
    ELSE IF At(path, n) = {} THEN down[n - 1]
    ELSE Inherits(down[n - 1], PackageAt(path, n))

LEMMA PoliciesAreGiven ==
    ASSUME NEW path, Len(path) \in Nat
    PROVE  Policies(path) = [n \in 0 .. Len(path) |-> PolicyAt(path, Policies(path), n)]
<1> DEFINE Is(down, k) == down = [n \in 0 .. k |-> PolicyAt(path, down, n)]
           S == {k \in Nat : \E down : Is(down, k)}
<1>1. Nat \subseteq S
  <2>1. 0 \in S
    <3> DEFINE d == [n \in 0 .. 0 |-> manifest.policy]
    <3>1. Is(d, 0) BY DEF PolicyAt
    <3> QED BY <3>1
  <2>2. ASSUME NEW k \in Nat, k \in S PROVE k + 1 \in S
    <3> PICK down : Is(down, k) BY <2>2
    <3> DEFINE more == [n \in 0 .. k + 1 |-> PolicyAt(path, down, n)]
    <3>1. \A n \in 0 .. k : more[n] = down[n] OBVIOUS
    <3>2. \A n \in 0 .. k + 1 : n = 0 \/ n - 1 \in 0 .. k OBVIOUS
    <3>3. \A n \in 0 .. k + 1 : PolicyAt(path, down, n) = PolicyAt(path, more, n)
      BY <3>1, <3>2 DEF PolicyAt
    <3>4. Is(more, k + 1) BY <3>3
    <3> HIDE DEF more, Is
    <3>5. \E d : Is(d, k + 1) BY <3>4
    <3> QED BY <3>5
  <2> HIDE DEF S
  <2> QED BY <2>1, <2>2, Induct
<1>2. Policies(path) = CHOOSE down : Is(down, Len(path)) BY DEF Policies, PolicyAt
<1>3. \E down : Is(down, Len(path)) BY <1>1
<1> HIDE DEF Is
<1>4. Is(Policies(path), Len(path)) BY <1>2, <1>3
<1> QED BY <1>4 DEF Is

\* The assignment at a depth is given by the one before.
AssignmentAt(path, down, n) ==
    IF n = 0
    THEN [policy |-> manifest.policy,
          source |-> IF manifest.policy = None THEN None ELSE Dot, evaluationRoot |-> Dot]
    ELSE IF At(path, n) = {} THEN down[n - 1]
    ELSE Enters(down[n - 1], PackageAt(path, n))

LEMMA AssignmentsAreGiven ==
    ASSUME NEW path, Len(path) \in Nat
    PROVE  Assignments(path) = [n \in 0 .. Len(path) |-> AssignmentAt(path, Assignments(path), n)]
<1> DEFINE Is(down, k) == down = [n \in 0 .. k |-> AssignmentAt(path, down, n)]
           S == {k \in Nat : \E down : Is(down, k)}
<1>1. Nat \subseteq S
  <2>1. 0 \in S
    <3> DEFINE d == [n \in 0 .. 0 |-> AssignmentAt(path, <<>>, 0)]
    <3>1. Is(d, 0) BY DEF AssignmentAt
    <3> QED BY <3>1
  <2>2. ASSUME NEW k \in Nat, k \in S PROVE k + 1 \in S
    <3> PICK down : Is(down, k) BY <2>2
    <3> DEFINE more == [n \in 0 .. k + 1 |-> AssignmentAt(path, down, n)]
    <3>1. \A n \in 0 .. k : more[n] = down[n] OBVIOUS
    <3>2. \A n \in 0 .. k + 1 : n = 0 \/ n - 1 \in 0 .. k OBVIOUS
    <3>3. \A n \in 0 .. k + 1 : AssignmentAt(path, down, n) = AssignmentAt(path, more, n)
      BY <3>1, <3>2 DEF AssignmentAt
    <3>4. Is(more, k + 1) BY <3>3
    <3> HIDE DEF more, Is
    <3>5. \E d : Is(d, k + 1) BY <3>4
    <3> QED BY <3>5
  <2> HIDE DEF S
  <2> QED BY <2>1, <2>2, Induct
<1>2. Assignments(path) = CHOOSE down : Is(down, Len(path)) BY DEF Assignments, AssignmentAt
<1>3. \E down : Is(down, Len(path)) BY <1>1
<1> HIDE DEF Is
<1>4. Is(Assignments(path), Len(path)) BY <1>2, <1>3
<1> QED BY <1>4 DEF Is

\* What holds at no depth yet and passes down holds all the way.
LEMMA GoDown ==
    ASSUME NEW k \in Nat, NEW S, 0 \in S, \A n \in 1 .. k : n - 1 \in S => n \in S
    PROVE  0 .. k \subseteq S
<1> DEFINE N == {n \in Nat : n <= k => n \in S}
<1>1. 0 \in N OBVIOUS
<1>2. ASSUME NEW n \in Nat, n \in N PROVE n + 1 \in N
  <2>1. n + 1 <= k => n + 1 \in 1 .. k /\ (n + 1) - 1 = n OBVIOUS
  <2> QED BY <1>2, <2>1
<1>3. Nat \subseteq N
  <2> HIDE DEF N
  <2> QED BY <1>1, <1>2, Induct
<1> QED BY <1>3

\* A scope is a prefix of a path where it is the beginning of it.
LEMMA PrefixBegins ==
    ASSUME NEW s \in Path, NEW t \in Path
    PROVE  IsPrefix(s, t) <=> Len(s) <= Len(t) /\ s = SubSeq(t, 1, Len(s))
<1>1. SubSeq(s, 1, Len(s)) = s BY DEF Path
<1> QED BY <1>1 DEF IsPrefix

LEMMA BeginningIsPath ==
    ASSUME NEW t \in Path, NEW n \in 0 .. Len(t)
    PROVE  SubSeq(t, 1, n) \in Path /\ Len(SubSeq(t, 1, n)) = n
<1>1. ASSUME NEW T, NEW q \in Seq(T), NEW m \in Nat, m <= Len(q)
      PROVE  SubSeq(q, 1, m) \in Seq(T) /\ Len(SubSeq(q, 1, m)) = m
  BY <1>1
<1> QED BY <1>1 DEF Path

\* The beginning of a beginning.
LEMMA BeginsAgain ==
    ASSUME NEW t \in Path, NEW n \in 0 .. Len(t), NEW m \in 0 .. n
    PROVE  SubSeq(SubSeq(t, 1, n), 1, m) = SubSeq(t, 1, m)
<1>1. ASSUME NEW T, NEW q \in Seq(T), NEW k \in Nat, k <= Len(q), NEW j \in Nat, j <= k
      PROVE  SubSeq(SubSeq(q, 1, k), 1, j) = SubSeq(q, 1, j)
  <2> DEFINE r == SubSeq(q, 1, k)
  <2>1. r \in Seq(T) /\ Len(r) = k /\ \A i \in 1 .. k : r[i] = q[i] BY <1>1
  <2>2. SubSeq(q, 1, j) \in Seq(T) /\ Len(SubSeq(q, 1, j)) = j /\ \A i \in 1 .. j : SubSeq(q, 1, j)[i] = q[i]
    BY <1>1
  <2> HIDE DEF r
  <2>3. SubSeq(r, 1, j) \in Seq(T) /\ Len(SubSeq(r, 1, j)) = j /\ \A i \in 1 .. j : SubSeq(r, 1, j)[i] = r[i]
    BY <1>1, <2>1
  <2>4. \A i \in 1 .. j : SubSeq(r, 1, j)[i] = SubSeq(q, 1, j)[i] BY <1>1, <2>1, <2>2, <2>3
  <2>5. ASSUME NEW u \in Seq(T), NEW v \in Seq(T), Len(u) = j, Len(v) = j, \A i \in 1 .. j : u[i] = v[i]
        PROVE  u = v
    BY <2>5
  <2> QED BY <2>2, <2>3, <2>4, <2>5 DEF r
<1> QED BY <1>1 DEF Path

\* What validation knows of a manifest it accepts.
Sound(packages) ==
    /\ packages \subseteq Package
    /\ \A e, f \in packages : e.root = f.root => e = f

LEMMA RootIsPath ==
    ASSUME NEW packages, Sound(packages), NEW e \in packages
    PROVE  e.root \in Path /\ Len(e.root) \in Nat /\ Len(e.root) # 0
<1>1. e.root \in PackageRoot BY DEF Sound, Package
<1>2. e.root \in Path /\ e.root # <<>> BY <1>1, ConstantsAssumption DEF Dot
<1> QED BY <1>2 DEF Path

\* The package at a depth is the one whose root begins the path there.
LEMMA PackageIsThere ==
    ASSUME Sound(manifest.packages), NEW path \in Path, NEW n \in 1 .. Len(path)
    PROVE  /\ \A e \in manifest.packages :
                e \in At(path, n) <=> IsPrefix(e.root, path) /\ Len(e.root) = n
           /\ At(path, n) # {} =>
                /\ PackageAt(path, n) \in At(path, n)
                /\ \A e \in At(path, n) : e = PackageAt(path, n)
<1>1. ASSUME NEW e \in manifest.packages
      PROVE  e \in At(path, n) <=> IsPrefix(e.root, path) /\ Len(e.root) = n
  <2>1. e.root \in Path /\ Len(e.root) \in Nat BY RootIsPath
  <2>2. IsPrefix(e.root, path) <=> Len(e.root) <= Len(path) /\ e.root = SubSeq(path, 1, Len(e.root))
    BY <2>1, PrefixBegins
  <2>3. Len(SubSeq(path, 1, n)) = n /\ n <= Len(path) BY BeginningIsPath
  <2> QED BY <2>1, <2>2, <2>3 DEF At
<1>2. At(path, n) # {} => PackageAt(path, n) \in At(path, n) BY DEF PackageAt
<1>3. \A e, f \in At(path, n) : e = f BY DEF At, Sound
<1> QED BY <1>1, <1>2, <1>3

Assignment == [policy: Policy \cup {None}, source: PackageRoot \cup {Dot, None},
               evaluationRoot: PackageRoot \cup {Dot}]

Decides(e) == e.policy # None \/ ~e.inherit

\* The packages around a path that decide, down to a depth.
Deciding(path, n) ==
    {e \in manifest.packages : IsPrefix(e.root, path) /\ Decides(e) /\ Len(e.root) <= n}

\* An assignment is that of the scope that decides last.
IsFrom(at, policy, root) == at.policy = policy /\ at.source = IF policy = None THEN None ELSE root

IsNearest(at, deciding) ==
    IF deciding = {}
    THEN IsFrom(at, manifest.policy, Dot)
    ELSE \E e \in deciding :
            (\A d \in deciding : Len(d.root) <= Len(e.root)) /\ IsFrom(at, e.policy, e.root)

\* Entering a package decides, or changes neither policy nor source.
LEMMA EntersDecides ==
    ASSUME NEW at \in Assignment, NEW e \in Package
    PROVE  /\ Enters(at, e) \in Assignment /\ Enters(at, e).evaluationRoot = e.root
           /\ IF Decides(e) THEN IsFrom(Enters(at, e), e.policy, e.root)
              ELSE Enters(at, e).policy = at.policy /\ Enters(at, e).source = at.source
BY DEF Enters, Decides, IsFrom, Assignment, Package

LEMMA NearestDown ==
    ASSUME Sound(manifest.packages), manifest.policy \in Policy \cup {None}, NEW path \in Path
    PROVE  \A n \in 0 .. Len(path) : /\ Assignments(path)[n] \in Assignment
                                     /\ IsNearest(Assignments(path)[n], Deciding(path, n))
<1> DEFINE A == Assignments(path)
           Holds(n) == A[n] \in Assignment /\ IsNearest(A[n], Deciding(path, n))
           S == {n \in Nat : Holds(n)}
<1>0. Len(path) \in Nat BY DEF Path
<1>1. \A n \in 0 .. Len(path) : A[n] = AssignmentAt(path, A, n)
  <2> HIDE DEF A
  <2>1. A = [n \in 0 .. Len(path) |-> AssignmentAt(path, A, n)] BY <1>0, AssignmentsAreGiven DEF A
  <2> QED BY <2>1
<1>2. \A e \in manifest.packages : e.root \in Path /\ Len(e.root) \in Nat /\ Len(e.root) # 0
  BY RootIsPath
<1> HIDE DEF A
<1>3. Holds(0)
  <2>1. A[0] = [policy |-> manifest.policy,
                source |-> IF manifest.policy = None THEN None ELSE Dot, evaluationRoot |-> Dot]
    BY <1>0, <1>1 DEF AssignmentAt
  <2>2. Deciding(path, 0) = {} BY <1>2 DEF Deciding
  <2>3. IsFrom(A[0], manifest.policy, Dot) BY <2>1 DEF IsFrom
  <2>4. A[0] \in Assignment BY <2>1 DEF Assignment
  <2> QED BY <2>2, <2>3, <2>4 DEF IsNearest
<1>4. ASSUME NEW n \in 1 .. Len(path), Holds(n - 1) PROVE Holds(n)
  <2>0. n \in Nat /\ n - 1 \in Nat /\ n \in 0 .. Len(path) /\ n # 0 BY <1>0
  <2>1. A[n] = IF At(path, n) = {} THEN A[n - 1] ELSE Enters(A[n - 1], PackageAt(path, n))
    BY <1>1, <2>0 DEF AssignmentAt
  <2>2. \A e \in manifest.packages : e \in At(path, n) <=> IsPrefix(e.root, path) /\ Len(e.root) = n
    BY PackageIsThere
  <2>3. ASSUME NEW e \in manifest.packages
        PROVE  e \in Deciding(path, n) <=> e \in Deciding(path, n - 1) \/ (e \in At(path, n) /\ Decides(e))
    <3>1. Len(e.root) \in Nat BY <1>2
    <3>2. Len(e.root) <= n <=> Len(e.root) <= n - 1 \/ Len(e.root) = n BY <2>0, <3>1
    <3> QED BY <2>2, <3>2 DEF Deciding
  <2>4. \A m : Deciding(path, m) \subseteq manifest.packages BY DEF Deciding
  <2>5. CASE At(path, n) = {}
    <3>1. Deciding(path, n) = Deciding(path, n - 1) BY <2>3, <2>4, <2>5
    <3> QED BY <1>4, <2>1, <2>5, <3>1
  <2>6. CASE At(path, n) # {}
    <3> PICK p \in At(path, n) : p = PackageAt(path, n) BY <2>6, PackageIsThere
    <3>1. \A e \in At(path, n) : e = p BY PackageIsThere
    <3>2. p \in manifest.packages /\ p \in Package BY DEF At, Sound
    <3>3. A[n] = Enters(A[n - 1], p) BY <2>1, <2>6
    <3>4. /\ A[n] \in Assignment
          /\ IF Decides(p) THEN IsFrom(A[n], p.policy, p.root)
             ELSE A[n].policy = A[n - 1].policy /\ A[n].source = A[n - 1].source
      BY <1>4, <3>2, <3>3, EntersDecides
    <3>5. CASE Decides(p)
      <4>1. p \in Deciding(path, n) BY <2>3, <3>2, <3>5
      <4>2. Len(p.root) = n BY <2>2, <3>2
      <4>3. \A d \in Deciding(path, n) : Len(d.root) <= Len(p.root) BY <4>2 DEF Deciding
      <4>4. IsFrom(A[n], p.policy, p.root) BY <3>4, <3>5
      <4> QED BY <3>4, <4>1, <4>3, <4>4 DEF IsNearest
    <3>6. CASE ~Decides(p)
      <4>1. Deciding(path, n) = Deciding(path, n - 1)
        <5>1. \A e \in At(path, n) : ~Decides(e) BY <3>1, <3>6
        <5> QED BY <2>3, <2>4, <5>1
      <4>2. \A q, r : IsFrom(A[n - 1], q, r) => IsFrom(A[n], q, r) BY <3>4, <3>6 DEF IsFrom
      <4>3. IsNearest(A[n - 1], Deciding(path, n - 1)) BY <1>4
      <4> QED BY <3>4, <4>1, <4>2, <4>3 DEF IsNearest
    <3> QED BY <3>5, <3>6
  <2> QED BY <2>5, <2>6
<1>5. 0 .. Len(path) \subseteq S
  <2>1. 0 \in S BY <1>3
  <2>2. \A n \in 1 .. Len(path) : n - 1 \in S => n \in S
    <3> TAKE n \in 1 .. Len(path)
    <3> HAVE n - 1 \in S
    <3>1. n \in Nat BY <1>0
    <3>2. Holds(n - 1) OBVIOUS
    <3>3. Holds(n) BY <1>4, <3>2
    <3> QED BY <3>1, <3>3
  <2> HIDE DEF S
  <2> QED BY <1>0, <2>1, <2>2, GoDown
<1> QED BY <1>5 DEF A

\* A scope above a path gives it the same policies on the way.
LEMMA PoliciesAgree ==
    ASSUME NEW path \in Path, NEW k \in 0 .. Len(path), NEW root, root = SubSeq(path, 1, k)
    PROVE  \A n \in 0 .. k : Policies(root)[n] = Policies(path)[n]
<1> DEFINE P == Policies(path)
           Q == Policies(root)
           S == {n \in Nat : n <= k => Q[n] = P[n]}
<1>0. Len(path) \in Nat /\ k \in Nat /\ root \in Path /\ Len(root) = k BY BeginningIsPath DEF Path
<1>1. \A n \in 0 .. Len(path) : P[n] = PolicyAt(path, P, n)
  <2> HIDE DEF P
  <2>1. P = [n \in 0 .. Len(path) |-> PolicyAt(path, P, n)] BY <1>0, PoliciesAreGiven DEF P
  <2> QED BY <2>1
<1>2. \A n \in 0 .. k : Q[n] = PolicyAt(root, Q, n)
  <2> HIDE DEF Q
  <2>1. Q = [n \in 0 .. Len(root) |-> PolicyAt(root, Q, n)] BY <1>0, PoliciesAreGiven DEF Q
  <2> QED BY <1>0, <2>1
<1> HIDE DEF P, Q
<1>3. \A n \in 0 .. k : At(root, n) = At(path, n) BY <1>0, BeginsAgain DEF At
<1>4. \A n \in 0 .. k : n \in 0 .. Len(path) BY <1>0
<1>5. 0 .. k \subseteq S
  <2>1. 0 \in S BY <1>0, <1>1, <1>2 DEF PolicyAt
  <2>2. ASSUME NEW n \in 1 .. k, n - 1 \in S PROVE n \in S
    <3>1. n \in 0 .. k /\ n # 0 /\ n \in Nat /\ n - 1 <= k BY <1>0
    <3>2. Q[n - 1] = P[n - 1] BY <2>2, <3>1
    <3>3. PackageAt(root, n) = PackageAt(path, n) BY <1>3, <3>1 DEF PackageAt
    <3>4. PolicyAt(root, Q, n) = PolicyAt(path, P, n) BY <1>3, <3>1, <3>2, <3>3 DEF PolicyAt
    <3> QED BY <1>1, <1>2, <1>4, <3>1, <3>4
  <2> HIDE DEF S
  <2> QED BY <1>0, <2>1, <2>2, GoDown
<1> QED BY <1>0, <1>5 DEF P, Q

\* What a path is assigned is what validation gave the last package entered.
LEMMA AgreesDown ==
    ASSUME Sound(manifest.packages), manifest.policy \in Policy \cup {None}, NEW path \in Path
    PROVE  \A n \in 0 .. Len(path) :
              LET at == Assignments(path)[n]
              IN  /\ at.policy = Policies(path)[n]
                  /\ at.evaluationRoot \in Scopes
                  /\ EffectivePolicy(at.evaluationRoot) = at.policy
<1> DEFINE A == Assignments(path)
           P == Policies(path)
           Holds(n) == /\ A[n].policy = P[n] /\ A[n].evaluationRoot \in Scopes
                       /\ EffectivePolicy(A[n].evaluationRoot) = A[n].policy
           S == {n \in Nat : Holds(n)}
<1>0. Len(path) \in Nat BY DEF Path
<1>1. \A n \in 0 .. Len(path) : A[n] = AssignmentAt(path, A, n)
  <2> HIDE DEF A
  <2>1. A = [n \in 0 .. Len(path) |-> AssignmentAt(path, A, n)] BY <1>0, AssignmentsAreGiven DEF A
  <2> QED BY <2>1
<1>2. \A n \in 0 .. Len(path) : P[n] = PolicyAt(path, P, n)
  <2> HIDE DEF P
  <2>1. P = [n \in 0 .. Len(path) |-> PolicyAt(path, P, n)] BY <1>0, PoliciesAreGiven DEF P
  <2> QED BY <2>1
<1>3. \A n \in 0 .. Len(path) : A[n] \in Assignment BY NearestDown DEF A
<1>4. ASSUME NEW n \in 0 .. Len(path), NEW root, root = SubSeq(path, 1, n)
      PROVE  EffectivePolicy(root) = P[n]
  <2>1. Len(root) = n /\ n \in 0 .. n BY <1>0, <1>4, BeginningIsPath
  <2>2. Policies(root)[n] = Policies(path)[n] BY <1>4, <2>1, PoliciesAgree
  <2> QED BY <2>1, <2>2 DEF EffectivePolicy, P
<1> HIDE DEF A, P
<1>5. Holds(0)
  <2>1. A[0] = [policy |-> manifest.policy,
                source |-> IF manifest.policy = None THEN None ELSE Dot, evaluationRoot |-> Dot]
    BY <1>0, <1>1 DEF AssignmentAt
  <2>2. P[0] = manifest.policy /\ 0 \in 0 .. Len(path) BY <1>0, <1>2 DEF PolicyAt
  <2>3. Dot = SubSeq(path, 1, 0) BY DEF Dot, Path
  <2>4. EffectivePolicy(Dot) = P[0] BY <1>4, <2>2, <2>3
  <2> QED BY <2>1, <2>2, <2>4 DEF Scopes
<1>6. ASSUME NEW n \in 1 .. Len(path), Holds(n - 1) PROVE Holds(n)
  <2>0. n \in Nat /\ n - 1 \in Nat /\ n \in 0 .. Len(path) /\ n - 1 \in 0 .. Len(path) /\ n # 0 BY <1>0
  <2>1. A[n] = IF At(path, n) = {} THEN A[n - 1] ELSE Enters(A[n - 1], PackageAt(path, n))
    BY <1>1, <2>0 DEF AssignmentAt
  <2>2. P[n] = IF At(path, n) = {} THEN P[n - 1] ELSE Inherits(P[n - 1], PackageAt(path, n))
    BY <1>2, <2>0 DEF PolicyAt
  <2>3. CASE At(path, n) = {} BY <1>6, <2>1, <2>2, <2>3
  <2>4. CASE At(path, n) # {}
    <3> PICK p \in At(path, n) : p = PackageAt(path, n) BY <2>4, PackageIsThere
    <3>1. p \in manifest.packages /\ p \in Package /\ p.root = SubSeq(path, 1, n) BY DEF At, Sound
    <3>2. A[n] = Enters(A[n - 1], p) /\ P[n] = Inherits(P[n - 1], p) BY <2>1, <2>2, <2>4
    <3>3. A[n - 1].policy = P[n - 1] BY <1>6
    <3>4. A[n - 1] \in Assignment BY <1>3, <2>0
    <3>5. A[n].evaluationRoot = p.root BY <3>1, <3>2, <3>4, EntersDecides
    <3>6. A[n].policy = P[n]
      BY <3>1, <3>2, <3>3, <3>4, EntersDecides DEF Inherits, Decides, IsFrom
    <3>7. EffectivePolicy(p.root) = P[n] BY <1>4, <2>0, <3>1
    <3>8. p.root \in Scopes BY <3>1 DEF Scopes
    <3> QED BY <3>5, <3>6, <3>7, <3>8
  <2> QED BY <2>3, <2>4
<1>7. 0 .. Len(path) \subseteq S
  <2>1. 0 \in S BY <1>5
  <2>2. \A n \in 1 .. Len(path) : n - 1 \in S => n \in S
    <3> TAKE n \in 1 .. Len(path)
    <3> HAVE n - 1 \in S
    <3>1. n \in Nat BY <1>0
    <3>2. Holds(n - 1) OBVIOUS
    <3>3. Holds(n) BY <1>6, <3>2
    <3> QED BY <3>1, <3>3
  <2> HIDE DEF S
  <2> QED BY <1>0, <2>1, <2>2, GoDown
<1> QED BY <1>7 DEF A, P

-----------------------------------------------------------------------------
(* The invariant of a run *)

Accepted == stage \in {"valid", "resolved", "applied", "annotated"}
Resolved == stage \in {"resolved", "applied", "annotated"}

\* A manifest as it is written, of which validation accepts one package for every root.
ManifestIsSound ==
    /\ manifest.packages \subseteq Package /\ manifest.policy \in Policy \cup {None}
    /\ \A x \in manifest.exceptions : x \in Exception /\ x.scope \in Scopes
    /\ Accepted => Sound(manifest.packages)

\* Every step leaves what it computed from what was there.
StagesFollow ==
    /\ Accepted => effective = Effective
    /\ IF Resolved THEN assignment = [path \in ChangedPaths |-> ResolvePathPolicy(path)]
       ELSE assignment = <<>>
    /\ stage \in {"applied", "annotated"} =>
          report = UNION {Rules(p) \cup ProtectedPaths(p) \cup RequiredChecks(p) : p \in Selected}
    /\ stage \notin {"applied", "annotated"} => report = {}
    /\ IF stage = "annotated"
       THEN notes = [x \in manifest.exceptions |-> {item \in report : Annotates(x, item)}]
       ELSE notes = <<>>

RunInv == diff \in Diff /\ ManifestIsSound /\ StagesFollow

LEMMA InitRuns == Init => RunInv
<1> SUFFICES ASSUME Init PROVE RunInv
  OBVIOUS
<1> PICK packages \in Packages, policy \in Policy \cup {None} :
      \E exceptions \in {{}} \cup {{x} : x \in Exception} :
         /\ \A x \in exceptions : x.scope \in {Dot} \cup {e.root : e \in packages}
         /\ manifest = [policy |-> policy, packages |-> packages, exceptions |-> exceptions]
  BY DEF Init
<1> PICK exceptions \in {{}} \cup {{x} : x \in Exception} :
         /\ \A x \in exceptions : x.scope \in {Dot} \cup {e.root : e \in packages}
         /\ manifest = [policy |-> policy, packages |-> packages, exceptions |-> exceptions]
  OBVIOUS
<1>1. packages \subseteq Package BY DEF Packages
<1>2. exceptions \subseteq Exception OBVIOUS
<1>3. manifest.packages = packages /\ manifest.policy = policy /\ manifest.exceptions = exceptions
  OBVIOUS
<1>4. stage = "written" /\ diff \in Diff /\ assignment = <<>> /\ notes = <<>> /\ report = {}
  BY DEF Init
<1>5. ManifestIsSound BY <1>1, <1>2, <1>3, <1>4 DEF ManifestIsSound, Accepted, Scopes
<1>6. StagesFollow BY <1>4 DEF StagesFollow, Accepted, Resolved
<1> QED BY <1>4, <1>5, <1>6 DEF RunInv

LEMMA RunStep == RunInv /\ [Next]_vars => RunInv'
<1> SUFFICES ASSUME RunInv, [Next]_vars PROVE RunInv'
  OBVIOUS
<1> USE DEF RunInv
<1>1. CASE ValidatePolicyManifest
  <2>1. UNCHANGED <<manifest, diff, assignment, report, notes>> /\ stage = "written"
    BY <1>1 DEF ValidatePolicyManifest
  <2>2. Effective' = Effective
    BY <2>1 DEF Effective, Scopes, EffectivePolicy, Policies, At, PackageAt
  <2>3. CASE Fatal
    <3>1. stage' = "refused" BY <1>1, <2>3 DEF ValidatePolicyManifest
    <3> QED BY <2>1, <3>1 DEF ManifestIsSound, StagesFollow, Accepted, Resolved, Scopes
  <2>4. CASE ~Fatal
    <3>1. stage' = "valid" /\ effective' = Effective BY <1>1, <2>4 DEF ValidatePolicyManifest
    <3>2. Sound(manifest.packages) BY <2>4 DEF Fatal, Sound, ManifestIsSound
    <3>3. ManifestIsSound' BY <2>1, <3>2 DEF ManifestIsSound, Scopes
    <3>4. StagesFollow' BY <2>1, <2>2, <3>1 DEF StagesFollow, Accepted, Resolved
    <3> QED BY <2>1, <3>3, <3>4
  <2> QED BY <2>3, <2>4
<1>2. CASE ResolvePolicyManifest
  <2>1. /\ UNCHANGED <<manifest, diff, effective, report, notes>> /\ stage = "valid" /\ stage' = "resolved"
        /\ assignment' = [path \in ChangedPaths |-> ResolvePathPolicy(path)]
    BY <1>2 DEF ResolvePolicyManifest
  <2>2. Effective' = Effective
    BY <2>1 DEF Effective, Scopes, EffectivePolicy, Policies, At, PackageAt
  <2>3. ChangedPaths' = ChangedPaths BY <2>1 DEF ChangedPaths
  <2>4. \A path : ResolvePathPolicy(path)' = ResolvePathPolicy(path)
    BY <2>1 DEF ResolvePathPolicy, Assignments, At, PackageAt
  <2>5. ManifestIsSound' BY <2>1 DEF ManifestIsSound, Scopes, Accepted
  <2>6. StagesFollow' BY <2>1, <2>2, <2>3, <2>4 DEF StagesFollow, Accepted, Resolved
  <2> QED BY <2>1, <2>5, <2>6
<1>3. ASSUME UNCHANGED <<manifest, diff, effective, assignment>>, Resolved, Resolved',
             stage' \in {"applied", "annotated"},
             report' = UNION {Rules(p) \cup ProtectedPaths(p) \cup RequiredChecks(p) : p \in Selected},
             IF stage' = "annotated"
             THEN notes' = [x \in manifest.exceptions |-> {item \in report' : Annotates(x, item)}]
             ELSE notes' = <<>>
      PROVE  RunInv'
  <2>1. Effective' = Effective
    BY <1>3 DEF Effective, Scopes, EffectivePolicy, Policies, At, PackageAt
  <2>2. ChangedPaths' = ChangedPaths /\ Selected' = Selected BY <1>3 DEF ChangedPaths, Selected
  <2>3. \A path : ResolvePathPolicy(path)' = ResolvePathPolicy(path)
    BY <1>3 DEF ResolvePathPolicy, Assignments, At, PackageAt
  <2>4. \A p : Rules(p)' = Rules(p) /\ ProtectedPaths(p)' = ProtectedPaths(p)
               /\ RequiredChecks(p)' = RequiredChecks(p)
    BY <1>3 DEF Rules, ProtectedPaths, RequiredChecks, Governed, MatchPath
  <2>5. \A x, item : Annotates(x, item)' <=> Annotates(x, item)
    BY <1>3 DEF Annotates, ExceptionPaths
  <2>6. ManifestIsSound' BY <1>3 DEF ManifestIsSound, Scopes, Accepted, Resolved
  <2>7. StagesFollow'
    BY <1>3, <2>1, <2>2, <2>3, <2>4, <2>5 DEF StagesFollow, Accepted, Resolved
  <2> QED BY <1>3, <2>6, <2>7
<1>4. CASE ApplyResolvedPolicies
  <2>1. stage = "resolved" /\ stage' = "applied" /\ UNCHANGED <<manifest, diff, effective, assignment, notes>>
    BY <1>4 DEF ApplyResolvedPolicies
  <2>2. report' = UNION {Rules(p) \cup ProtectedPaths(p) \cup RequiredChecks(p) : p \in Selected}
    BY <1>4 DEF ApplyResolvedPolicies
  <2>3. notes' = <<>> BY <2>1 DEF StagesFollow
  <2> QED BY <1>3, <2>1, <2>2, <2>3 DEF Resolved
<1>5. CASE ApplyPolicyExceptions
  <2>1. /\ stage = "applied" /\ stage' = "annotated"
        /\ UNCHANGED <<manifest, diff, effective, assignment, report>>
        /\ notes' = [x \in manifest.exceptions |-> {item \in report : Annotates(x, item)}]
    BY <1>5 DEF ApplyPolicyExceptions
  <2>2. report = UNION {Rules(p) \cup ProtectedPaths(p) \cup RequiredChecks(p) : p \in Selected}
    BY <2>1 DEF StagesFollow
  <2> QED BY <1>3, <2>1, <2>2 DEF Resolved
<1>6. CASE UNCHANGED vars
  <2>1. UNCHANGED <<stage, manifest, diff, effective, assignment, report, notes>> BY <1>6 DEF vars
  <2>2. Effective' = Effective
    BY <2>1 DEF Effective, Scopes, EffectivePolicy, Policies, At, PackageAt
  <2>3. ChangedPaths' = ChangedPaths /\ Selected' = Selected BY <2>1 DEF ChangedPaths, Selected
  <2>4. \A path : ResolvePathPolicy(path)' = ResolvePathPolicy(path)
    BY <2>1 DEF ResolvePathPolicy, Assignments, At, PackageAt
  <2>5. \A p : Rules(p)' = Rules(p) /\ ProtectedPaths(p)' = ProtectedPaths(p)
               /\ RequiredChecks(p)' = RequiredChecks(p)
    BY <2>1 DEF Rules, ProtectedPaths, RequiredChecks, Governed, MatchPath
  <2>6. \A x, item : Annotates(x, item)' <=> Annotates(x, item)
    BY <2>1 DEF Annotates, ExceptionPaths
  <2>7. ManifestIsSound' BY <2>1 DEF ManifestIsSound, Scopes, Accepted
  <2>8. StagesFollow' BY <2>1, <2>2, <2>3, <2>4, <2>5, <2>6 DEF StagesFollow, Accepted, Resolved
  <2> QED BY <2>1, <2>7, <2>8
<1> QED BY <1>1, <1>2, <1>4, <1>5, <1>6 DEF Next

LEMMA Runs == Spec => []RunInv
BY InitRuns, RunStep, PTL DEF Spec

-----------------------------------------------------------------------------
(* Theorems *)

\* A path is assigned what the way down to it gave.
LEMMA AssignedPath ==
    ASSUME RunInv, NEW path \in DOMAIN assignment
    PROVE  /\ Resolved /\ Sound(manifest.packages) /\ manifest.policy \in Policy \cup {None}
           /\ path \in Path /\ Len(path) \in Nat /\ path \in ChangedPaths
           /\ assignment[path] = Assignments(path)[Len(path)]
<1>1. Resolved
  <2>1. DOMAIN <<>> = {} OBVIOUS
  <2> QED BY <2>1 DEF RunInv, StagesFollow
<1>2. path \in ChangedPaths /\ assignment[path] = ResolvePathPolicy(path)
  BY <1>1 DEF RunInv, StagesFollow
<1>3. path \in Path
  <2>1. \A c \in diff : c.path \in Path /\ (c.previous # None => c.previous \in Path)
    BY ConstantsAssumption DEF RunInv
  <2> QED BY <1>2, <2>1 DEF ChangedPaths
<1>4. Sound(manifest.packages) /\ manifest.policy \in Policy \cup {None}
  BY <1>1 DEF RunInv, ManifestIsSound, Accepted, Resolved
<1> QED BY <1>1, <1>2, <1>3, <1>4 DEF ResolvePathPolicy, Path

\* Whatever the packages of a manifest: a changed path has the policy of the deepest
\* scope around it that decides, by selecting or by not inheriting, and that scope is
\* its source (resolvePathPolicy).
THEOREM NearestPolicies == Spec => []PoliciesAreNearest
<1>1. RunInv => PoliciesAreNearest
  <2> DEFINE Around(path) == {e \in manifest.packages :
                                IsPrefix(e.root, path) /\ (e.policy # None \/ ~e.inherit)}
  <2> SUFFICES ASSUME RunInv, NEW path \in DOMAIN assignment
               PROVE  IsNearest(assignment[path], Around(path))
    BY DEF PoliciesAreNearest, IsNearest, IsFrom
  <2>1. /\ Sound(manifest.packages) /\ manifest.policy \in Policy \cup {None}
        /\ path \in Path /\ Len(path) \in Nat /\ assignment[path] = Assignments(path)[Len(path)]
    BY AssignedPath
  <2>2. Len(path) \in 0 .. Len(path) BY <2>1
  <2>3. IsNearest(assignment[path], Deciding(path, Len(path))) BY <2>1, <2>2, NearestDown
  <2>4. \A e \in manifest.packages : IsPrefix(e.root, path) => Len(e.root) <= Len(path)
    BY DEF IsPrefix
  <2>5. Around(path) = Deciding(path, Len(path)) BY <2>4 DEF Deciding, Decides
  <2> QED BY <2>3, <2>5
<1> QED BY <1>1, Runs, PTL

\* Whatever the manifest: resolution gives a changed path the policy validation computed
\* for the scope the path is evaluated in, and accepted the exceptions of that scope for
\* (validatePolicyManifest, resolvePathPolicy).
THEOREM AcceptedApplies == Spec => []AcceptedIsApplied
<1>1. RunInv => AcceptedIsApplied
  <2> SUFFICES ASSUME RunInv, NEW path \in DOMAIN assignment
               PROVE  assignment[path].policy = effective[assignment[path].evaluationRoot]
    BY DEF AcceptedIsApplied
  <2>1. /\ Resolved /\ Sound(manifest.packages) /\ manifest.policy \in Policy \cup {None}
        /\ path \in Path /\ Len(path) \in Nat /\ assignment[path] = Assignments(path)[Len(path)]
    BY AssignedPath
  <2>2. Len(path) \in 0 .. Len(path) BY <2>1
  <2>3. /\ assignment[path].evaluationRoot \in Scopes
        /\ EffectivePolicy(assignment[path].evaluationRoot) = assignment[path].policy
    BY <2>1, <2>2, AgreesDown
  <2>4. effective = Effective BY <2>1 DEF RunInv, StagesFollow, Accepted, Resolved
  <2> QED BY <2>3, <2>4 DEF Effective
<1> QED BY <1>1, Runs, PTL

\* A finding of a pack lists paths that pack governs.
LEMMA FilesAreGoverned ==
    ASSUME RunInv, NEW item \in report
    PROVE  \A file \in item.files : file \in DOMAIN assignment /\ assignment[file].policy = item.policy
<1>1. report = UNION {Rules(p) \cup ProtectedPaths(p) \cup RequiredChecks(p) : p \in Selected}
  BY DEF RunInv, StagesFollow
<1> PICK p \in Selected : item \in Rules(p) \/ item \in ProtectedPaths(p) \/ item \in RequiredChecks(p)
  BY <1>1
<1>2. item.policy = p /\ item.files \subseteq Governed(p)
  <2>1. CASE item \in Rules(p)
    <3> DEFINE files == {path \in Governed(p) \cap {c.path : c \in diff} :
                            TargetExists(p, "rule") /\ MatchPath(path) \in Pack[p]["rule"]}
    <3>1. item = Item(p, "rule", files) BY <2>1 DEF Rules
    <3> QED BY <3>1 DEF Item
  <2>2. CASE item \in ProtectedPaths(p)
    <3>1. PICK path \in Governed(p) : item = Item(p, "protectedPath", {path})
      BY <2>2 DEF ProtectedPaths
    <3> QED BY <3>1 DEF Item
  <2>3. CASE item \in RequiredChecks(p) BY <2>3 DEF RequiredChecks, Item
  <2> QED BY <2>1, <2>2, <2>3
<1> QED BY <1>2 DEF Governed

\* Paths of the same segments are the same.
LEMMA SamePath ==
    ASSUME NEW s \in Path, NEW t \in Path, Len(s) = Len(t), \A i \in 1 .. Len(s) : s[i] = t[i]
    PROVE  s = t
BY DEF Path

\* One path put below another.
LEMMA PutBelow ==
    ASSUME NEW s \in Path, NEW t \in Path
    PROVE  /\ s \o t \in Path /\ Len(s \o t) = Len(s) + Len(t)
           /\ \A i \in 1 .. Len(s) + Len(t) :
                 (s \o t)[i] = IF i <= Len(s) THEN s[i] ELSE t[i - Len(s)]
BY DEF Path

\* A path seen from a scope it lies in, and put back.
LEMMA RelativePutsBack ==
    ASSUME NEW scope \in Path
    PROVE  /\ \A path \in Path : IsPrefix(scope, path) =>
                 Relative(scope, path) \in Path /\ scope \o Relative(scope, path) = path
           /\ \A name \in Path : /\ IsPrefix(scope, scope \o name) /\ scope \o name \in Path
                                 /\ Relative(scope, scope \o name) = name
<1>1. Len(scope) \in Nat BY DEF Path
<1>2. ASSUME NEW path \in Path, IsPrefix(scope, path)
      PROVE  Relative(scope, path) \in Path /\ scope \o Relative(scope, path) = path
  <2> DEFINE n == Len(scope)
             r == Relative(scope, path)
  <2>1. n <= Len(path) /\ scope = SubSeq(path, 1, n) BY <1>2, PrefixBegins
  <2>2. n \in Nat /\ Len(path) \in Nat /\ path \in Seq(STRING) BY DEF Path
  <2>3. r \in Seq(STRING) /\ Len(r) = Len(path) - n /\ \A i \in 1 .. Len(r) : r[i] = path[n + i]
    BY <2>1, <2>2 DEF Relative
  <2>4. \A i \in 1 .. n : scope[i] = path[i] BY <2>1, <2>2
  <2> HIDE DEF r
  <2>5. /\ scope \o r \in Path /\ Len(scope \o r) = Len(path)
        /\ \A i \in 1 .. Len(path) : (scope \o r)[i] = IF i <= n THEN scope[i] ELSE r[i - n]
    <3>1. r \in Path /\ n + Len(r) = Len(path) BY <2>2, <2>3 DEF Path
    <3> QED BY <3>1, PutBelow
  <2> HIDE DEF n
  <2>6. ASSUME NEW i \in 1 .. Len(path) PROVE (scope \o r)[i] = path[i]
    <3>1. CASE i <= n
      <4>1. i \in 1 .. n BY <2>2, <3>1
      <4> QED BY <2>4, <2>5, <3>1, <4>1
    <3>2. CASE i > n
      <4>1. i - n \in 1 .. Len(r) /\ n + (i - n) = i /\ ~(i <= n) BY <2>2, <2>3, <3>2
      <4>2. (scope \o r)[i] = r[i - n] BY <2>5, <4>1
      <4> QED BY <2>3, <4>1, <4>2
    <3>3. i <= n \/ i > n
      <4>1. i \in Nat BY <2>2
      <4> QED BY <2>2, <4>1
    <3> QED BY <3>1, <3>2, <3>3
  <2>7. scope \o r = path BY <2>5, <2>6, SamePath
  <2> QED BY <2>3, <2>7 DEF r, Path
<1>3. ASSUME NEW name \in Path
      PROVE  /\ IsPrefix(scope, scope \o name) /\ scope \o name \in Path
             /\ Relative(scope, scope \o name) = name
  <2> DEFINE n == Len(scope)
             path == scope \o name
  <2>0. n \in Nat /\ Len(name) \in Nat BY DEF Path
  <2>1. /\ path \in Path /\ Len(path) = n + Len(name)
        /\ \A i \in 1 .. n + Len(name) : path[i] = IF i <= n THEN scope[i] ELSE name[i - n]
    BY PutBelow
  <2> HIDE DEF path
  <2>2. \A i \in 1 .. n : i \in 1 .. n + Len(name) /\ i <= n BY <2>0
  <2>3. SubSeq(path, 1, n) \in Path /\ Len(SubSeq(path, 1, n)) = n
        /\ \A i \in 1 .. n : SubSeq(path, 1, n)[i] = path[i]
    BY <2>0, <2>1 DEF Path
  <2>4. SubSeq(path, 1, n) = scope BY <2>1, <2>2, <2>3, SamePath
  <2>5. IsPrefix(scope, path) BY <2>0, <2>1, <2>4, PrefixBegins
  <2> DEFINE r == Relative(scope, path)
  <2>6. r \in Path /\ Len(r) = Len(name) /\ \A i \in 1 .. Len(name) : r[i] = path[n + i]
    BY <2>0, <2>1 DEF Relative, Path
  <2> HIDE DEF r, n
  <2>7. ASSUME NEW i \in 1 .. Len(name) PROVE r[i] = name[i]
    <3>1. n + i \in 1 .. n + Len(name) /\ ~(n + i <= n) /\ (n + i) - n = i BY <2>0
    <3> QED BY <2>1, <2>6, <3>1
  <2>8. r = name BY <2>6, <2>7, SamePath
  <2> QED BY <2>1, <2>5, <2>8 DEF path, r
<1> QED BY <1>2, <1>3

\* Whatever the exceptions: each annotates exactly what its own scope's policy reports of
\* the files its expression names, seen from that scope, and a check whenever the policy
\* that asks for it is its scope's (applyPolicyExceptions).
THEOREM AnnotationsEarned == Spec => []AnnotationsAreEarned
<1>1. RunInv => AnnotationsAreEarned
  <2> SUFFICES ASSUME RunInv, NEW x \in DOMAIN notes, NEW item \in report
               PROVE  item \in notes[x] <=>
                        /\ item.target = x.target
                        /\ IF x.target = "requiredCheck"
                           THEN item.policy = effective[x.scope]
                           ELSE \E file \in item.files, name \in x.pattern :
                                   file = x.scope \o name /\ assignment[file].policy = effective[x.scope]
    BY DEF AnnotationsAreEarned
  <2>1. stage = "annotated"
    <3>1. DOMAIN <<>> = {} OBVIOUS
    <3> QED BY <3>1 DEF RunInv, StagesFollow
  <2>2. x \in manifest.exceptions /\ notes[x] = {i \in report : Annotates(x, i)}
    BY <2>1 DEF RunInv, StagesFollow
  <2>3. x \in Exception BY <2>2 DEF RunInv, ManifestIsSound
  <2>4. x.scope \in Path /\ x.pattern \subseteq Path
    <3>1. x.scope \in PackageRoot \cup {Dot} /\ x.pattern \in Pattern BY <2>3 DEF Exception
    <3>2. Dot \in Path BY DEF Dot, Path
    <3> QED BY <3>1, <3>2, ConstantsAssumption
  <2>5. \A file \in item.files : /\ file \in DOMAIN assignment /\ file \in Path
                                 /\ assignment[file].policy = item.policy
    BY FilesAreGoverned, AssignedPath
  <2> DEFINE names == \E file \in item.files, name \in x.pattern :
                         file = x.scope \o name /\ assignment[file].policy = effective[x.scope]
  <2>6. ASSUME item.policy = effective[x.scope], item.files \cap ExceptionPaths(x) # {}
        PROVE  names
    <3> PICK file \in item.files : file \in ExceptionPaths(x) BY <2>6
    <3>1. /\ assignment[file].policy = effective[x.scope] /\ IsPrefix(x.scope, file)
          /\ Relative(x.scope, file) \in x.pattern
      BY DEF ExceptionPaths
    <3>2. file = x.scope \o Relative(x.scope, file) BY <2>4, <2>5, <3>1, RelativePutsBack
    <3> QED BY <3>1, <3>2
  <2>7. ASSUME names PROVE item.policy = effective[x.scope] /\ item.files \cap ExceptionPaths(x) # {}
    <3> PICK file \in item.files, name \in x.pattern :
               file = x.scope \o name /\ assignment[file].policy = effective[x.scope]
      BY <2>7
    <3>1. name \in Path BY <2>4
    <3>2. IsPrefix(x.scope, file) /\ Relative(x.scope, file) = name
      BY <2>4, <3>1, RelativePutsBack
    <3>3. file \in ExceptionPaths(x) BY <2>5, <3>2 DEF ExceptionPaths
    <3> QED BY <2>5, <3>3
  <2> HIDE DEF names
  <2>8. item \in notes[x] <=> Annotates(x, item) BY <2>2
  <2>9. Annotates(x, item) <=> item.target = x.target /\ (IF x.target = "requiredCheck"
                                                          THEN item.policy = effective[x.scope] ELSE names)
    BY <2>6, <2>7 DEF Annotates
  <2> QED BY <2>8, <2>9 DEF names
<1> QED BY <1>1, Runs, PTL
============================================================================
