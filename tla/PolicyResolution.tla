-------------------------- MODULE PolicyResolution --------------------------
(***************************************************************************)
(* How a policy manifest governs a diff: src/src/policyResolution.js, with  *)
(* what src/src/starterPolicies.js, customRules.js and reviewGuidance.js    *)
(* make of the policies selected.  One run of the CLI validates the         *)
(* manifest, resolves a policy for every changed path, applies the packs    *)
(* and annotates what they report with the manifest's exceptions.           *)
(*                                                                          *)
(* A path is the sequence of its segments, and a pattern the set of the     *)
(* names it matches.  Every pack holds at most one target of a kind.  Left  *)
(* out: malformed fields, the digests of the trusted context, weights.      *)
(***************************************************************************)
EXTENDS Integers, SequencesExt

CONSTANTS
    Diff,         \* diffs: sets of [path, previous], previous is None but for a rename
    PackageRoot,  \* the roots a manifest may configure
    Policy,       \* starter policies
    None,
    Pattern,      \* path expressions of exceptions
    Pack,         \* for every policy and target, the names it matches, or None
    Day, Today,   \* expiry days and the day of the run
    MaxPackages   \* bound of a manifest's packages

Path == Seq(STRING)
Target == {"rule", "protectedPath", "requiredCheck"}
\* The scope of the repository, "." in the source.
Dot == <<>>

ASSUME ConstantsAssumption ==
    /\ Day \subseteq Int /\ Today \in Int
    /\ PackageRoot \subseteq Path /\ Dot \notin PackageRoot
    /\ \A pattern \in Pattern : pattern \subseteq Path
    /\ \A change \in UNION Diff :
          change.path \in Path /\ (change.previous # None => change.previous \in Path)
    /\ DOMAIN Pack = Policy /\ \A p \in Policy : DOMAIN Pack[p] = Target
    /\ None \notin Policy

Package == [root: PackageRoot, inherit: BOOLEAN, policy: Policy \cup {None}]
Exception == [scope: PackageRoot \cup {Dot}, target: Target, pattern: Pattern, expires: Day]

VARIABLES
    stage,       \* "written", "valid", "resolved", "applied", "annotated", or "refused"
    manifest,    \* [policy, packages, exceptions]
    diff,        \* what changed
    effective,   \* the effective policy of every scope, as validation computed it
    assignment,  \* for every changed path: policy, source, evaluationRoot
    report,      \* what the packs report: a set of [policy, target, files]
    notes        \* for every exception, what it annotates in the report

vars == <<stage, manifest, diff, effective, assignment, report, notes>>

Scopes == {Dot} \cup {e.root : e \in manifest.packages}

\* A path as seen from a scope that contains it.
Relative(root, path) == SubSeq(path, Len(root) + 1, Len(path))

\* The packages that contain a path lie on the way down to it, one below the other: the
\* order of their lengths is the order of its segments.
At(path, n) == {e \in manifest.packages : e.root = SubSeq(path, 1, n)}
PackageAt(path, n) == CHOOSE e \in At(path, n) : TRUE

-----------------------------------------------------------------------------
(* validatePolicyManifest *)

\* Mutant: a package that does not inherit has no policy, even its own.
Inherits_Clears(policy, e) ==
    IF ~e.inherit THEN None ELSE IF e.policy # None THEN e.policy ELSE policy

Inherits(policy, e) ==
    IF e.policy # None THEN e.policy ELSE IF e.inherit THEN policy ELSE None

\* The policy at every depth of a path.
Policies(path) ==
    LET down[n \in 0 .. Len(path)] ==
            IF n = 0 THEN manifest.policy
            ELSE IF At(path, n) = {} THEN down[n - 1]
            ELSE Inherits(down[n - 1], PackageAt(path, n))
    IN down

EffectivePolicy(root) == Policies(root)[Len(root)]

Effective == [root \in Scopes |-> EffectivePolicy(root)]

TargetExists(policy, target) == policy # None /\ Pack[policy][target] # None

\* Two scopes of one package, no policy at all, an exception that is expired or
\* whose target its scope's policy does not have.
Fatal ==
    \/ \E e, f \in manifest.packages : e # f /\ e.root = f.root
    \/ manifest.policy = None /\ \A e \in manifest.packages : e.policy = None
    \/ \E x \in manifest.exceptions :
          x.expires < Today \/ ~TargetExists(Effective[x.scope], x.target)

ValidatePolicyManifest ==
    /\ stage = "written"
    /\ IF Fatal
       THEN stage' = "refused" /\ UNCHANGED effective
       ELSE stage' = "valid" /\ effective' = Effective
    /\ UNCHANGED <<manifest, diff, assignment, report, notes>>

-----------------------------------------------------------------------------
(* resolvePolicyManifest *)

\* A rename changes both its paths.
ChangedPaths == {c.path : c \in diff} \cup ({c.previous : c \in diff} \ {None})

\* Mutant: the policy a package does not inherit loses its source, not its effect.
Enters_Keeps(at, e) ==
    IF e.policy # None THEN [policy |-> e.policy, source |-> e.root, evaluationRoot |-> e.root]
    ELSE IF e.inherit THEN [at EXCEPT !.evaluationRoot = e.root]
    ELSE [at EXCEPT !.source = None, !.evaluationRoot = e.root]

\* The last package entered is where the rules are evaluated.
Enters(at, e) ==
    IF e.policy # None THEN [policy |-> e.policy, source |-> e.root, evaluationRoot |-> e.root]
    ELSE IF e.inherit THEN [at EXCEPT !.evaluationRoot = e.root]
    ELSE [policy |-> None, source |-> None, evaluationRoot |-> e.root]

\* The assignment at every depth of a path.
Assignments(path) ==
    LET down[n \in 0 .. Len(path)] ==
            IF n = 0
            THEN [policy |-> manifest.policy,
                  source |-> IF manifest.policy = None THEN None ELSE Dot, evaluationRoot |-> Dot]
            ELSE IF At(path, n) = {} THEN down[n - 1]
            ELSE Enters(down[n - 1], PackageAt(path, n))
    IN down

ResolvePathPolicy(path) == Assignments(path)[Len(path)]

ResolvePolicyManifest ==
    /\ stage = "valid"
    /\ stage' = "resolved"
    /\ assignment' = [path \in ChangedPaths |-> ResolvePathPolicy(path)]
    /\ UNCHANGED <<manifest, diff, effective, report, notes>>

\* Mutant: the expression sees the name the pack's rules see.
ExceptionPaths_Evaluated(x) ==
    {path \in DOMAIN assignment :
        /\ assignment[path].policy = effective[x.scope]
        /\ IsPrefix(x.scope, path)
        /\ Relative(assignment[path].evaluationRoot, path) \in x.pattern}

\* The changed paths an exception covers.
ExceptionPaths(x) ==
    {path \in DOMAIN assignment :
        /\ assignment[path].policy = effective[x.scope]
        /\ IsPrefix(x.scope, path)
        /\ Relative(x.scope, path) \in x.pattern}

-----------------------------------------------------------------------------
(* applyResolvedPolicies, applyReviewGuidance *)

\* The packs a changed path selected, and the paths that did.
Selected == {assignment[path].policy : path \in DOMAIN assignment} \ {None}
Governed(policy) == {path \in DOMAIN assignment : assignment[path].policy = policy}

MatchPath(path) == Relative(assignment[path].evaluationRoot, path)

Item(policy, target, files) == [policy |-> policy, target |-> target, files |-> files]

\* A rule sees where a file is, not where it was.
Rules(policy) ==
    LET files == {path \in Governed(policy) \cap {c.path : c \in diff} :
                     TargetExists(policy, "rule") /\ MatchPath(path) \in Pack[policy]["rule"]}
    IN IF files = {} THEN {} ELSE {Item(policy, "rule", files)}

\* Protected are both, and a path that is a package's root keeps its full name.
ProtectedPaths(policy) ==
    {Item(policy, "protectedPath", {path}) :
        path \in {f \in Governed(policy) :
                    /\ TargetExists(policy, "protectedPath")
                    /\ (IF MatchPath(f) = <<>> THEN f ELSE MatchPath(f))
                          \in Pack[policy]["protectedPath"]}}

RequiredChecks(policy) ==
    IF TargetExists(policy, "requiredCheck") THEN {Item(policy, "requiredCheck", {})} ELSE {}

ApplyResolvedPolicies ==
    /\ stage = "resolved"
    /\ stage' = "applied"
    /\ report' = UNION {Rules(p) \cup ProtectedPaths(p) \cup RequiredChecks(p) : p \in Selected}
    /\ UNCHANGED <<manifest, diff, effective, assignment, notes>>

-----------------------------------------------------------------------------
(* applyPolicyExceptions *)

\* The check of a pack has no files: it is annotated if the pack is selected.
Annotates(x, item) ==
    /\ item.policy = effective[x.scope]
    /\ item.target = x.target
    /\ x.target = "requiredCheck" \/ item.files \cap ExceptionPaths(x) # {}

ApplyPolicyExceptions ==
    /\ stage = "applied"
    /\ stage' = "annotated"
    /\ notes' = [x \in manifest.exceptions |-> {item \in report : Annotates(x, item)}]
    /\ UNCHANGED <<manifest, diff, effective, assignment, report>>

-----------------------------------------------------------------------------
Packages == {s \in SUBSET Package : Cardinality(s) <= MaxPackages}

Init ==
    /\ stage = "written"
    /\ \E packages \in Packages, policy \in Policy \cup {None} :
          \E exceptions \in {{}} \cup {{x} : x \in Exception} :
             /\ \A x \in exceptions : x.scope \in {Dot} \cup {e.root : e \in packages}
             /\ manifest = [policy |-> policy, packages |-> packages, exceptions |-> exceptions]
    /\ diff \in Diff
    /\ effective = <<>> /\ assignment = <<>> /\ notes = <<>>
    /\ report = {}

Next ==
    \/ ValidatePolicyManifest
    \/ ResolvePolicyManifest
    \/ ApplyResolvedPolicies
    \/ ApplyPolicyExceptions

Spec == Init /\ [][Next]_vars
-----------------------------------------------------------------------------
(* What the resolution must guarantee *)

\* A path has the policy of the deepest scope that decides, by selecting a policy or
\* by not inheriting one, and that scope is named as its source; a scope that only
\* inherits changes nothing (resolvePathPolicy).
PoliciesAreNearest ==
    \A path \in DOMAIN assignment :
        LET deciding == {e \in manifest.packages :
                            IsPrefix(e.root, path) /\ (e.policy # None \/ ~e.inherit)}
            is(policy, root) ==
                /\ assignment[path].policy = policy
                /\ assignment[path].source = IF policy = None THEN None ELSE root
        IN IF deciding = {}
           THEN is(manifest.policy, Dot)
           ELSE \E e \in deciding :
                   (\A d \in deciding : Len(d.root) <= Len(e.root)) /\ is(e.policy, e.root)

\* What was accepted is what applies: validation and resolution find the policy of a
\* scope each in its own way, and every changed path gets the one validation accepted
\* the exceptions of its scope for (validatePolicyManifest, resolvePathPolicy).
AcceptedIsApplied ==
    \A path \in DOMAIN assignment :
        assignment[path].policy = effective[assignment[path].evaluationRoot]

\* An exception annotates what its own scope's policy reports of the files in that
\* scope its expression names, seen from there, and nothing of another policy or
\* scope; a check it annotates whenever the pack is selected (applyPolicyExceptions).
AnnotationsAreEarned ==
    \A x \in DOMAIN notes : \A item \in report :
        item \in notes[x] <=>
            /\ item.target = x.target
            /\ IF x.target = "requiredCheck"
               THEN item.policy = effective[x.scope]
               ELSE \E file \in item.files, name \in x.pattern :
                       file = x.scope \o name /\ assignment[file].policy = effective[x.scope]

\* What docs/policy-inheritance.md says and the code does not do: an exception that is
\* reported as active matched a changed path. That of a required check is active whenever
\* its pack is selected (applyPolicyExceptions).
ActiveIsMatched == \A x \in DOMAIN notes : notes[x] # {} => ExceptionPaths(x) # {}
=============================================================================
