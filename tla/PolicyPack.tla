----------------------------- MODULE PolicyPack -----------------------------
(***************************************************************************)
(* Policy packs: what src/src/policyPacks.js accepts, how starterPolicies.js*)
(* loads one and applies it to a report, and the save-compatibility check   *)
(* of the browser-game pack (browserGameSaveCompatibility.js).              *)
(*                                                                          *)
(* A pack is [schemaVersion, id, complete, minimum, maximum, reportSchema,  *)
(* rules, requiredChecks, protectedPaths]; its rules look like the custom   *)
(* rules of Scanner.  A version is [release, pre]: numbers in the order of  *)
(* MAJOR.MINOR.PATCH, and whether a prerelease tag follows.                 *)
(***************************************************************************)
EXTENDS Scanner

CONSTANTS
    Runtime,        \* [version, reportSchema] of the running Merge Guard
    MigrationPath,  \* paths whose name says migration
    BrowserGame     \* the id of the starter pack that inspects saves

PolicyPackSchemaVersion == 1

\* compareSemver looks at the three numbers only.
Older(v, w) == v.release < w.release

DuplicateId(entries) == \E i, j \in DOMAIN entries : i < j /\ entries[i].id = entries[j].id

FatalRules(rules) ==
    \/ DuplicateId(rules)
    \/ \E r \in ToSet(rules) : \/ ~r.complete \/ r.weight \notin 0..10
                               \/ Unsafe \in {r.path, r.line} \/ {r.path, r.line} = {None}

FatalRequiredChecks(checks) == DuplicateId(checks) \/ \E c \in ToSet(checks) : ~c.complete

FatalProtectedPaths(paths, checks) ==
    \/ DuplicateId(paths)
    \/ \E p \in ToSet(paths) : \/ ~p.complete \/ p.pattern \in {None, Unsafe}
                               \/ ~(p.requiredCheckIds \subseteq {c.id : c \in ToSet(checks)})

\* The pack runs here: its interval holds this version, its reports are ours.
FatalCompatibility(pack) ==
    \/ None \in {pack.minimum, pack.maximum} \/ pack.reportSchema = None
    \/ ~Older(pack.minimum, pack.maximum)
    \/ Older(Runtime.version, pack.minimum) \/ ~Older(Runtime.version, pack.maximum)
    \/ pack.reportSchema \notin 1..Runtime.reportSchema

\* The schema is this one; a pack of an older or a newer one is not read on.
FatalSchemaVersion(pack) == pack.schemaVersion # PolicyPackSchemaVersion
\* Identifier, name and version are there.
FatalIdentity(pack) == ~pack.complete

\* No diagnostic is fatal.
ValidatePolicyPack(pack) ==
    /\ ~FatalSchemaVersion(pack)
    /\ ~FatalIdentity(pack)
    /\ ~FatalCompatibility(pack)
    /\ ~FatalRules(pack.rules)
    /\ ~FatalRequiredChecks(pack.requiredChecks)
    /\ ~FatalProtectedPaths(pack.protectedPaths, pack.requiredChecks)

\* A starter pack is a small regular file that holds a valid pack.
LoadStarterPolicyPack(file) == file.kind = "file" /\ file.small /\ ValidatePolicyPack(file.pack)

-----------------------------------------------------------------------------
(* The saves of a browser game: a section's `saves' are [what, value, kind], *)
(* what a changed line stores under, or the version it declares.             *)

SaveValues(diff, what, kind) ==
    {s.value : s \in {t \in UNION {c.saves : c \in ToSet(diff)} : t.what = what /\ t.kind = kind}}
ChangedValues(diff, what) == SaveValues(diff, what, "removed") \ SaveValues(diff, what, "added")

MigrationPresent(diff) ==
    \E c \in ToSet(diff) :
        \/ c.path \in MigrationPath /\ c.added + c.removed > 0
        \/ "migrate()" \in c.says

InspectSaveCompatibility(diff) ==
    LET keys == ChangedValues(diff, "key")
        bumped == ChangedValues(diff, "version") # {} /\ SaveValues(diff, "version", "added") # {}
        concerns == {k \in {"storage-key", "save-version"} :
                        IF k = "storage-key" THEN keys # {} ELSE bumped /\ ~MigrationPresent(diff)}
        observed == \E c \in ToSet(diff) : c.saves # {}
    IN [status |-> IF concerns # {} THEN "review-required"
                   ELSE IF bumped THEN "migration-present"
                   ELSE IF observed THEN "observed" ELSE "not-detected",
        concerns |-> concerns,
        checks |-> (IF bumped THEN <<Check("save", "version")>> ELSE <<>>)
                   \o (IF keys # {} THEN <<Check("save", "key")>> ELSE <<>>)]

-----------------------------------------------------------------------------
(* applyPolicyPack *)

\* A required check is worded once for the plan and once for the list.
Planned(c) == Check("policy plan", c.command)
Listed(pack, c) == Check("policy list", <<pack.id, c.command>>)

\* The rules of the pack score like the project's; its checks go to the front.
ApplyPolicyPack(report, diff, pack) ==
    LET prefix == <<"policy", pack.id>>
        ruled == ApplyCustomRules(report, diff, pack.rules, prefix)
        listed == [i \in DOMAIN pack.requiredChecks |-> Listed(pack, pack.requiredChecks[i])]
        saves == IF pack.id = BrowserGame THEN InspectSaveCompatibility(diff) ELSE report.saves
    IN [ruled EXCEPT
            !.packs = Append(@, pack.id),
            !.policyRuleWarnings = NormalizeCustomRules(pack.rules).warnings,
            !.requiredChecks = @ \o [i \in DOMAIN pack.requiredChecks |-> Planned(pack.requiredChecks[i])],
            !.saves = saves,
            !.checks = Uniq((IF pack.id = BrowserGame THEN saves.checks ELSE <<>>)
                            \o Uniq(listed \o @))]
=============================================================================
