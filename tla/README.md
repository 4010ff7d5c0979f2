# Merge Guard: a TLA+ verification project

Merge Guard reviews pull requests: a deterministic scanner over a diff, a GitHub
Action that posts the result, a local dashboard, and a paid tier (licenses
issued by Polar, a gateway that serves premium policies and takes support
tickets). This directory holds TLA+ models of its stateful parts and of the
algorithms whose results others rely on, the TLC configurations that check them,
and proofs of what matters most.

Run `tlc -config X.cfg MCModule` for a configuration named below, and
`tlapm Module_proofs.tla` for the proofs. `PROJECT.json` lists every run with its
properties, for each property a mutation of the code that violates it, the
source lines each definition translates, and the hazards with the properties
that cover them.

## 1. Inventory

Paths are those of the repository.

| Component | State | Operations and interaction | What is hard | What makes it correct |
|---|---|---|---|---|
| License sessions `src/commercial/license.js` | one credential file per environment, shared by all processes; per process a map of sessions (epoch, receipt) | validate, activate, deactivate, clear; each reads the file, awaits Polar, then writes | calls of several processes interleave around the await; storage and provider fail independently; the process may die between two writes | a withdrawn authorization never returns; a paid answer rests on a recent grant; failures are reported |
| Pro client `src/commercial/proClient.js` | none of its own | validates, reads the credential again, asks the gateway | the file may change between the validation and the second reading | a key travels with an activation of its own; what is delivered is entitled |
| Pro gateway `src/commercial/proGateway.js`, `scripts/pro-gateway.js` | requests in flight, a rate bucket per client, ticket files | policy, catalog and support requests; each awaits a live license validation | limit and window boundaries, the purge of buckets, a client that aborts, files shared with the support tools | bounded admission, no leaked slot, every accepted ticket is on disk |
| Support queue `scripts/pro-support-queue.js`, `scripts/pro-support-operations.js` | ticket files, hold files, delivery receipts | list, show, status, draft, attest-delivery, hold, purge; several operators at once | read-check-write on files without locks; a purge that stops half way | a delivery is attested before a status says so; a purge removes only what was due and not held when it last looked |
| Plugin worker `src/pluginWorker.js`, `src/pluginWorkerThread.js` | one worker, one timer, one promise | first of message, error, exit, timeout | order of these events | exactly one outcome, and there is one |
| `init` `src/initializeConfig.js` | the configuration file and a temporary one | create if absent | two `init`s at once, a crash in between | never overwrites, never leaves a partial file under the final name |
| Command line `src/cli.js` | one report on its way through the stages | read, configure, analyze, apply a policy, write, print, exit | every stage may fail after an earlier one has written | exit code, report and output agree |
| Scanner `src/analyzeDiff.js`, `customRules.js`, `suppressions.js`, `config.js` | none | built-in rules, custom rules, suppressions, score, level | thresholds and caps, a verdict given before later rules are added, entries that shadow each other | more change is not less risk; the verdict follows the rules; a suppression hides only what it names |
| Policy packs `src/policyPacks.js`, `starterPolicies.js`, `browserGameSaveCompatibility.js` | none | validate a pack, apply it | two readings of one rule list; compatibility intervals | an accepted pack is applied whole |
| Report output `src/projectChecks.js`, `reviewGuidance.js`, `githubReviewOutputs.js`, `pullRequestSummary.js` | none | check plan, owners, annotations, SARIF, summary | limits, rejected files, findings without a place | nothing is dropped unsaid; what is urgent is shown |
| Policy resolution `src/policyResolution.js` | none beyond a run | validate a manifest, resolve a policy per changed path, apply the packs, annotate exceptions | scopes in scopes, a policy cleared and selected again, names relative to two different roots, both ends of a rename | the nearest deciding scope wins; what was accepted is what applies; exceptions annotate only their own |
| Impact graph `src/impactGraph.js`, `impactMetadata.js`, `affectedPackages.js` | none | reachability over changed files and packages | cycles, limits | exactly the reachable packages |
| Finding comparison and prior evidence `src/findingComparison.js`, `priorEvidence.js`, `artifactManifest.js` | report and manifest kept for the next review | choose and verify prior evidence, compare | evidence of another commit, branch, release or pair; duplicates | a finding is called new or resolved only against the expected commit, and exactly |
| Action `action.yml`, `docs/examples/*.yml` | one job per push, its files and outputs | baseline, scan, attest, outputs, compare, comment, project, enforce, retain | steps that are skipped, fail or are cancelled; overlapping jobs | the projection and the job's success tell the truth; the base's policy governs |
| PR comment `scripts/pr-comment.js` | comments of a pull request at GitHub | list page by page, then update or create | jobs and people between two pages; a lost answer to a create | people's comments stay as they are |
| Dashboard `dashboard/*.js` | current reports, human verification, one worker and timer per selection | select, verify, record defects, export, restore, swap, clear | answers of an older selection, a worker that never answers, a status bound to the wrong report | a status belongs to the check and report it was given for; evidence restores |
| Repository context, assistance, calibration and historical evaluation, release and contract scripts | none | offline or advisory passes | - | not modelled, section 6 |

Interactions: the gateway validates licenses through Polar, as the sessions do; the
client goes through the sessions and re-reads the credential file they write; the gateway
creates the ticket files the support tools change and purge; the command line runs the
scanner, policy resolution, the impact graph and plugins; the Action runs the
command line, and its report is what the PR comment posts and what finding comparison
and the dashboard read.

## 2. Plan

In the order of what would hurt most. How the modules build on each other:

    License <- ProClient                         (EXTENDS; proved to implement License)
    Scanner <- PolicyPack <- ReviewOutputs <- Review      (EXTENDS)
    ScanContract: implemented by Review, built on by ReviewAttempts
    PrComment <- ReviewAttempts -> Evidence      (EXTENDS, INSTANCE)
    HumanVerification <- Dashboard               (EXTENDS)
    ExclusiveFile: implemented by InitConfig

| Module | Contents | Status |
|---|---|---|
| `License`, `ProClient_proofs` | the sessions; all their safety properties proved | done |
| `ProClient`, `ProClient_proofs` | the paid commands, the sessions and the gateway's question composed; the composition implements `License` | done |
| `SupportQueue`, `SupportQueue_proofs` | operators and gateway on the ticket directory | done |
| `ProGateway`, `ProGateway_proofs` | admission, rate buckets, slots, the license check | done |
| `PluginWorker`, `CommandLine_proofs` | one run of a plugin | done |
| `ExclusiveFile`, `InitConfig`, `CommandLine_proofs` | concurrent `init`s with crashes implement a file that one gets | done |
| `ScanContract`, `Review`, `ReviewOutputs`, `PolicyPack`, `Scanner`, `CommandLine_proofs` | one run of the scanner from its arguments to its exit | done; all its properties proved |
| `Evidence`, `PrComment`, `ReviewAttempts`, `ReviewAttempts_proofs` | the jobs of one pull request and what they leave each other | done |
| `HumanVerification`, `Dashboard`, `Dashboard_proofs` | selections, their workers, verification sessions | done |
| `ImpactGraph`, `ImpactGraph_proofs` | the walk over the declared dependency graph | done |
| `PolicyResolution`, `PolicyResolution_proofs` | validation, resolution and exceptions of a manifest against declarative references | done |

What would come next: trends over several reports (`reportTrends.js`).

## 3. Models and runs

Each module has one variable per kind of state and one action per step the code can
be interrupted after; an `MC` module holds the instance TLC checks. An action
is everything JavaScript runs between two awaits of one process, except where
another *process* may step between two file operations: there each file
operation is an action. Time is a counter of ticks; two events of one tick are
unordered. `CHECK_DEADLOCK FALSE` stands where a behaviour ends because its
finite set of calls, jobs, requests, runs or selections is used up, or because
the program that is modelled ends; `License` ticks and crashes instead and is
checked for deadlock. Modules without variables (`Scanner`, `PolicyPack`,
`ReviewOutputs`, `Evidence`, `HumanVerification`) are the pure functions of the code.

| Run | Instance | Distinct states |
|---|---|---|
| `LicenseRaces` | 2 processes, 3 calls, 1 key, 1 tick | 2.1M |
| `ProFulfillment` | 1 process with an override key, 2 keys, 2 calls, 1 paid command, timeouts 1, 2 ticks | 438k |
| `QueueRaces` | 2 tickets, 3 processes, one day of retention | 1.1M |
| `GatewayRequests` | 3 requests, 2 clients, 2 keys, 2 slots, 1 bucket, windows of 2, 3 ticks | 726k |
| `PluginSettles`, `PluginSilentExit` | 3 messages, exit code 1; exit codes 0 and 1 | 485; counterexample |
| `InitProcesses` | 3 symmetric processes | 24k |
| `ReviewScans` | diffs of up to 2 of 13 sections, 16 configuration files, 2 repositories, 6 policy files, 4 command lines | 182k |
| `ReviewAttempts` | 2 pushes, 8 workflows, pages of 2, at most 4 comments | 3.4M |
| `DashboardImports` | 2 selections, 2 reports, 2 edits, 1 download | 986k |
| `ImpactWalks` | 3 packages, 2 files | 49k |
| `PolicyManifests` | 2 packages of 3 roots, 2 packs, 1 exception | 1.4M |

### License

State: `file` (the credential file: key, plan, activation, times - no authority),
`session[p][k]` (epoch and receipt per process and key), `call[c]` (where a call of
`validateLicense`, `activateLicense`, `deactivateLicense` or `clearLicense` stands,
with what it read before its await), `provider` and `activations` (Polar), `clock`,
`alive`, and two history variables: `overtaken`, the calls whose session was withdrawn
after they started, and `entitled`, the last tick the provider would have granted.

Actions: `Start` (read the file, answer from cache, or send a request), `Polar` (the
provider handles a request; answers may be lost, delayed, unreadable, refused),
`Land` (the epoch check, `acceptDecision`, `forgetFile`, grace, the second file write of
an activation), `SetProvider`, `Tick`, `Crash`. Each write and each removal of the file may fail;
a reading that fails is no file to the code (`license.js:48`) and is not modelled.

`LicenseRaces`: what a denial, a deactivation or a replaced file withdrew does not come
back, however late an older answer lands (`WithdrawnStaysWithdrawn`), for every receipt
rests on a live grant (`ReceiptBacked`); a denial leaves no paid credential, and a
deactivation that reports success gave the activation back, unless the answer says
otherwise (`DenialLeavesNoPaidCredential`, `DeactivationIsHonest`).
Three calls are enough for an activation, an older and a newer call on one session;
two processes for a file that changes behind a call.

### ProClient

`License` with one more variable, `order[o]`: a paid command (`listPremiumPolicyPacks`,
`fetchPremiumPolicyPack`, `submitPrioritySupport` differ only in what they ask for).
`PlaceOrder` starts a forced validation, `SendOrder` or `RefuseUnlicensed` goes on after
it with what the file *then* holds, `GatewayServes` asks Polar about the pair that was
sent, `Delivered` and `Undelivered` end the command. Every step of `License` goes on beside it.

`ProFulfillment`: a process that overrides the stored key, whose license expires or is
withdrawn, one paid command and one more call that may replace the file under it.
`DeliveredIsEntitled`: what is sent need not be what was validated, but it is a key with
an activation of its own, and what is delivered was granted while the request was under way.
`PaidAnswersAreRecent`: a paid answer of a session rests on a grant at most a grace
period and two timeouts old - one between the activation's answer and its receipt,
one while a failing validation waits, whose grace is measured from the time at which it
*started*. `EveryRequestEnds`. Cache and grace last 0 ticks: they answer within the
tick of the receipt, so that two ticks see both used and expired. `SetProvider` assumes of
Polar that a renewed license ends in the future.

### SupportQueue

State: `ticket[t]` (the JSON file: absent, torn, or a record), `aside[t]` (hold, draft
and delivery receipt files), `job[j]` (one process: a gateway's ticket creation or
an operator command, with what it read), `temp[j]` (the temporary file a status command writes
before it renames it), the day counter, and history variables for what was accepted, attested
and `disturbed`, and for the purges that looked too early to see a file (`late`). Every command
reads, checks and writes in separate actions, since no lock is taken. A ticket, a draft, a
receipt and a hold are created, then written; a status is created under a temporary name,
written, then renamed; each of these steps may fail or be the last of its process.

`QueueRaces`: accepted tickets stay readable (`AcceptedIsStored`), a status says
"responded" only after a complete receipt for that ticket (`RespondedWasAttested`), and
a purge removes a ticket only if it was long closed, unless somebody wrote the ticket while the
purge ran, and only if no hold, draft or receipt is left beside it, unless that came after the
purge's last look at this very ticket (`PurgeIsJustified`): what is put there while the purge
reads, or is busy with other tickets, is heeded. What happens in the two excepted cases, and
what a status command that dies leaves behind, are in section 5. Three processes are a purge, a
command that changes what it checked, and one before them; a third ticket would only
repeat the purge's loop.

### ProGateway

State: `inFlight`, `ipBuckets` and `keyBuckets` (count and end of the window, at most
`MaxBuckets`), `req[r]` (where a request stands: body, license check, answer), `reply`
(what the last step sent, `None` when it sent nothing), `provider`, `clock`, and histories:
what was admitted per client and asked of the provider per key in the ticks of one window,
and when the provider last granted each key. Actions follow the handler: `Arrives` and its
refusals, the body and the key's limit, the provider's answer or failure, `Denies` or
`Serves`; a body or a provider request may fail at its await. The removal of expired buckets
from a full map is part of the admission (`Swept`); a map that stays full takes no new
client. A request that is over is forgotten, but for the reply of that step. Requests are
numbered in the order they arrive, which loses nothing: they differ in nothing else.

`GatewayRequests`: `SlotsAreExact`, `RateIsBounded`, `RefusalIsEarned` (the address
limiter refuses no client that was below its limit, unless its map is full),
`ServedWasEntitled`; every admitted request gives its slot back
(`SlotsReturn`). The limits are 2 per client and 1 per key. Three requests exceed the slots
and a client's limit within its window, and meet a full map of one bucket before and after
it expires; two requests with one key exceed the key's limit, the third falls into its next
window, so that `RateIsBounded` says that no key is asked twice within a window's length.
(Against clients, whom three requests cannot take to twice their limit, it shows nothing here.)

### PluginWorker

State: `thread` (the worker), `mail` and `posted` (messages on their way, and the history of
them), `fault`, `exitCode`, `timer`, `promise`. The plugin posts, returns, breaks, hangs or
exits whenever it likes; the caller starts, hears, sees an error or the exit, or its timer
fires. `PluginSettles`: the first message decides (`FirstMessageDecides`), the promise
settles (`Settles`). The graph is small and complete: 485 states.
`PluginSilentExit` admits exit code 0, see section 5.

### InitConfig and ExclusiveFile

`ExclusiveFile` is what `init` promises (`docs/public-contracts.md`): many ask for a file, one
gets it, in one instant and whole, the others are told that it is there, and only people
replace or remove it. `InitConfig` has the configuration file (`finalName`), the
temporary files, what of them is on disk after a power loss, and each process's position; one action per file operation
(exclusive create, write, sync, link, unlink) with its failure, plus kills,
power loss and people who write or remove the file. `InitProcesses` checks the refinement
(`ImplementsExclusiveFile`: the link is the instant) and that a finished `init` leaves no
temporary file (`LeavesNoTemp`).

### Review

`Scanner` says what a scan makes of a diff: weights, caps, levels, custom rules,
suppressions. A path is known by what the code's expressions make of its name and a line by
what they find in it. `PolicyPack` adds what a pack is refused for and what it does to
a report, `ReviewOutputs` the check plan, owners, annotations, SARIF and the facts the texts
have in common. `Review` runs them as `src/cli.js` does, an action per stage:
`ReadInput`, `ResolveConfig`, `Analyze`, `ApplyPolicy`, `WriteReportJson`, `WriteStepSummary`,
`Finish`. Each may fail, and what was written stays (`file` is the JSON report on disk: none, a
part of it where the writing failed, or the whole). `ScanContract` is what a caller may count on: one report at most, exit 0 only with a
report. Lists that the code walks with a loop are walked by a function on the number of entries
read so far; `InputAssumption` says what parsing guarantees, that a list is one.

`ReviewScans` shows of every diff under every configuration:

- `VerdictIsMonotone`: a stricter preset never yields a lower level, of the report or of a
  file, though presets move weights, thresholds and limits at once; and a section that is not
  of a test never lowers the score, whatever it does to "docs only" or to the caps. Excepted is
  a section beside others of its file that change no line, or comments alone (section 5).
- `VerdictFollowsRules`: score, levels, the order of the files and the exit of a CI run agree
  with the rules listed, after custom rules and a pack were added to an earlier verdict.
- `SuppressedIsJustified`: a suppressed finding has an entry that is complete, in force and
  about it, and stays a finding; an entry whose date is in no calendar never suppresses without a
  warning, and one that is complete, in force and about a finding is passed over only with a
  warning and for an earlier one like it (but for a policy's findings, which
  `docs/suppressions.md:21` leaves out on purpose).
- `NothingIsDropped`: a custom rule is applied or warned of, an accepted pack has no rule that is
  not applied, a finding is annotated or listed as not, a path has owners, none, or no line.
- `PlanIsUrgent`: of the checks nothing more urgent than the three shown is left out.
- `ImplementsContract`: the refinement of `ScanContract`.

Two sections are enough for a pair of one path, for a test beside code, and for a "docs only"
diff that ceases to be one; the 13 sections carry each kind of path and line the rules
tell apart. Rules, suppressions and packs hold a duplicate, an unsafe and an incomplete
entry each.

### ReviewAttempts

The jobs of one pull request, one per push. A job takes the steps of the workflow and of
`action.yml` in their order (`FindsPrior`, `DownloadsPrior`, `PreparesBaseline`, `Scans`,
`Attests`, `Projects`, `ComparesReports`, `CommentsOnPull`, `RecordsProjection`, `Enforces`,
`Retains`); `StepAfterFailure` says which still run after a failure (`if: always()`). A job
may be cancelled in any step or lose its runner, jobs overlap unless the workflow queues
them. The scan ends as `ScanContract` allows. The documents - manifest, selection of prior
evidence, comparison, projection - are the operators of `Evidence`, where a digest is an
injective function. The comment step is `PrComment`: a listing page by page, then an update
or a create whose answer may be lost, while people write, quote a report and delete.

`ReviewAttempts` shows `ComparedIsPrior` (findings are classified only against the report of
the commit that was expected, exactly, and nothing is shown where it was not verified),
`ProjectionIsTrue`, `SuccessIsEarned` (a job that succeeds scanned with 0 and has its report, its
manifest, its annotations or SARIF and a projection; comment and comparison may be missing, and
the projection says so), `RetainedIsVerifiable` (what a job retains is its own report under its
own manifest, and verifies against the commit that was scanned - which is not always the commit
the next job expects, section 5), `BasePolicyGoverns` and `CommentsAreKept`. Two pushes are a job
and the evidence of the one before. The eight workflows divide the features, since not all of
them interact: comment alone with every failure, outputs under the merge checkout,
evidence handed over in queued jobs, comments between people, the three policy inputs, and
jobs that people dispatch with a manifest and a comment, or with a bundled policy.

A job that people dispatch (`handed`) has no pull request behind it: the Action prepares no
baseline (`action.yml:115`), evaluates the manifest of the checkout without a context, and skips
the comment (`action.yml:421`). `BasePolicyGoverns` therefore says of the jobs of the pull request
that where the base has the policy its text is what they evaluate, whatever the pull request
makes of it, and that the digest in the report's policy evidence is of that text; and of every
job that its evidence never names the base's revision over another text. What a manifest calls
the configuration is the scanner's own, with the packs a policy selected (`Packs`): it does not
name the policy file's text.
The fields of a workflow that are bounds and not choices of a user are `people` and
`varied`: whether people write, and whether steps are cut off and scans end in every
way. `MaxComments` has room for one of each job, one that was there and one more of a person. Foreign evidence is of another
branch, or as an older release wrote it, and report and manifest may be mixed up.

### Dashboard

`HumanVerification` says what the dashboard derives from a report: findings, the plan of a
session, user checks, defects, the summary, and evidence out and in (schema 1 and 2).
`Dashboard` holds `imports[i]` (the file reads, the worker, the timer, the digest of a
selection), `committed` (the reports in force), `sessions`, the `draft` of a defect, the
evidence `exported` last, and the history `given` of what a person recorded. A selection
reads, validates, is answered or times out, binds and commits; the person starts, judges, adds
and removes checks, drafts and saves defects, exports, clears and swaps in between.

`DashboardImports`: every status of a session was recorded by a person for that check of that
report, a defect is about a finding that was failed, and "no failures" is said only where
every finding was judged (`PassIsBound`); downloaded evidence is accepted again and restores
the session as it was (`EvidenceSurvives`); every selection ends, even if its worker does not
(`ImportsEnd`). Two overlapping selections are an older and a newer one; a third would be the
older of two again. The two reports differ in what matters to a binding: rules of one
identity, a rule without a file, a suggested check that is a finding's, a pull request
number that is none. Two edits are a status and what may invalidate it.

### ImpactGraph

State: the declarations (`graph`, the files' matches), the files placed, the
queue, `direct` and `transitive` with their reasons, the depth and the cycles.
The walk is modelled step by step - classify a file, seed, dequeue, visit a dependent -
and compared with `Reachable`, the least set closed under dependents.
`ImpactWalks`: all 64 graphs over 3 packages, 2 changed files with each of 36
declaration patterns. Three packages allow every cycle up to length 3 and a second path to a
visited package; the theorems cover larger graphs.
With no package declared, a repository-wide file is listed nowhere while the result may
still be "complete"; `EveryFileIsPlaced` is therefore stated for graphs with a package.

### PolicyResolution

State: `manifest` and `diff` (chosen at the start), `effective` (the policy of each scope as
validation computed it), `assignment` (policy, source scope and evaluation root of each
changed path), `report` (rules, protected paths and checks of the packs selected), `notes`
(what each exception annotates). Four steps, one per function the command line calls:
validate or refuse, resolve, apply, annotate. A path is a sequence of segments, a path
expression the set of names it matches.

`PolicyManifests`: every manifest of up to two packages out of three roots, two of them
nested, with a root policy or none, two packs and at most one exception; a diff of one or
two files or a rename, one path being a package's own root. Two nested
packages and the root make every combination of inheriting, clearing and selecting at
three levels; a third level would repeat the second. `PoliciesAreNearest` compares the
walk over the scopes with the deepest scope that decides, `AcceptedIsApplied` what
validation computed with what resolution did, `AnnotationsAreEarned` what is annotated
with the scope, the policy and the names the exception speaks of.

### Fairness

| Module | Assumed | Why the code justifies it |
|---|---|---|
| `License` | `Land` of each call; the transient failure of each response | the event loop runs what is ready; `AbortSignal.timeout` ends each request |
| `ProClient` | that of `License`; a command goes on, or its request fails | the event loop, the same `AbortSignal` in `sendRequest` |
| `ProGateway` | the failure of a body and of a provider request; `Denies` or `Serves` | the server's `requestTimeout`, the same `AbortSignal`, the event loop |
| `PluginWorker` | `Starts`, `Fires`, and hearing what is ready | Node starts the thread and fires timers; nothing is assumed of the plugin |
| `Dashboard` | file reads end, timers fire, a digest settles | the browser; nothing is assumed of the worker or the person |

All are weak fairness: once enabled, these actions stay enabled until taken or until
another one ends the wait. The others have no liveness to state: their steps end by
themselves or wait for people.

## 4. Proofs

`tlapm` checks them for every value of the constants that satisfies the module's
named assumption. Each invariant below was first checked by TLC on
the instances above.

| Module | Theorems | Argument |
|---|---|---|
| `ProClient_proofs`, sessions | `TypeCorrect`, `ReceiptsAreBacked`, `WithdrawnForGood` | `TypeInv` adds to `TypeOK` that a call that is not idle has an owner, a key and what its operation read (`CallsAreIssued`) and that a grant that waits for its receipt is still one (`BindingIsGrant`). `SafetyInv` adds: at most one call of a process is in the middle of its file work (`OneFileStep`); while the answer of a withdrawn call is pending its epoch is behind its session's, and it never gets to bind a receipt (`CallSafe`); and a receipt's grant is not withdrawn (`ReceiptBacked`). `CallSafe` is what makes it inductive: without it a late answer could, in an unreachable state, store a receipt after a withdrawal. The action property follows because a step returns a paid plan only under the epoch check, whose outcome `CallSafe` ties to `overtaken`. Any number of processes, keys, calls and override keys, and any periods |
| the same | `DenialsLeaveNothingPaid`, `DeactivationsAreHonest` | a denial forgets the file or says that it could not. What the file and every call hold was registered before (`Registered`), and Polar gives each activation a name of its own, so the one a confirmed deactivation had found is never registered again (`GoneInv`) |
| the same | `PaidAnswersStayRecent` | `RecencyInv`: an answer on its way is no older than the timeout of its request (`InTime`), the grant in it and in each receipt was the provider's within what had passed when it was issued (`Grounded`), and the history misses no time the provider's record pays for (`EntitledThroughout`). A receipt may be ahead of its grant by the wait for it, and grace begins where the failing validation did: one timeout each |
| `ProClient_proofs`, commands | `OrdersImplementLicense`, `OrdersTypeCorrect`, `DeliveriesAreEntitled` | every step of the composition is a step of `License` or leaves it alone, so the theorems above hold with commands around. A credential in the file, or remembered from it, pairs a key with the activation a call of that key made (`PairInv`), which is why the second reading sends a pair whatever it finds; and what the gateway served was entitled since the request was sent, as long as anybody waits (`OrderOK`, with `EntitledNow` for the history) |
| `SupportQueue_proofs` | `AcceptedStays`, `RespondedIsAttested`, `PurgesAreJustified` | a process has what it needs where it is (`Placed`: who receives holds a fresh identifier, who renames to "responded" saw a receipt); what a purge may still remove and nobody rewrote is closed and old, and unless it is late it has seen whatever lies beside the ticket it is at, a hold not among it (`Purging`); a complete receipt was attested (`Receipts`). Two receivers never share an identifier, else one would tear the other's ticket. Any tickets, processes, ages and crashes |
| `ProGateway_proofs` | `SlotsStayExact`, `ServedIsEntitled` | a step of one request takes a slot below the limit, gives one back, or keeps it (`LocalStep`), so the counter follows the set of requests that hold one. A key the provider grants now was granted now (`EntitledIsCurrent`), and an answer that has not expired is no older than its timeout has run (`AnswerIsBacked`); time ages both alike. Any limits, requests, expiries and timeout |
| the same | `RateStaysBounded`, `RefusalStaysEarned` | `RateInv`: an open bucket has counted all that was let in since it was opened (for a client exactly, `ClientsAreExact`), what was let in before it is below the limit together, and where no bucket is open so is the whole window (`ClientsHold`, `KeysHold`), because the admission that opens a bucket finds the earlier one expired, whoever swept it. A window's total is a recursive function of the age; that it is additive under a count and moves under a tick is shown by induction over the set of ages |
| `CommandLine_proofs`, plugins | `FirstDecides` | the caller settles with the first message it hears, so until it has settled nothing that was posted has left the mail (`Unheard`) |
| `CommandLine_proofs`, `init` | `Exclusivity`, `Tidy` | what a process published was synced before and is never written again (`PublishedIsSynced`), so the link is the step at which the abstract file appears whole; a process on its way has not been answered (`Unanswered`), so every answer maps to one abstract step and every other action to a stutter. A temporary file comes with its identity or with a failed `fstat` (`TempIsKnown`) |
| `CommandLine_proofs`, scans | `KeepsContract` | a run takes its stages once and in order (`RunsOnce`), so it writes once, and it can only end with 0 behind the write |
| the same | `SuppressedStaysJustified`, `NothingStaysUnsaid` | the report of a run is made from this run's diff and configuration, or does not exist (`Made`), so what remains is a statement about functions. The sieve over custom rules keeps or warns of each candidate and keeps no name twice (`Sifted`), the one over suppressions warns of an entry only for an earlier one like it (`Heard`), the findings are those of the rules that match (`WithRules`), an accepted pack's rules survive the second reading (`PolicyReports`), and each path finds its owners (`PathsAreShared`). Each is shown for the first `n` entries by induction over `n`; that the recursive function exists is a lemma (`Induct`, `GoDown`). Any diffs, configurations, packs, repositories and paths |
| the same | `VerdictStaysEarned` | `Follows` says of a report that its score, its files' scores and levels and their order are those of the rules listed. The built-in rules establish it: their hits add up to the score (`RiskIsTallied`, `FileIsTallied`), and an order in which no two files of one path meet is total, so each file has one place (`FilesAreSorted`). Each rule of the project or a policy keeps it (`RuleFollows`): it adds the same weight to the score and to the files it matched, and its name is longer than a built-in rule's, so it is outside the limits those have. The level is given after the last rule, which is where it is due (`RulesFollow`). That a sum over a list is additive and a list without duplicates exact is shown by induction over the places (`TotalOfBoth`, `UniqIsExact`, `OrderIsExact`). Any diffs, configurations and packs; the end of a CI run follows from the level (`EndIsEarned`) |
| the same | `PlanStaysUrgent` | what the rules, the packs, the repository and the saves ask for are lists of checks whose priorities are numbers, those of the saves above all others (`Plannable`, which the scan establishes and a policy keeps). By priority and then by place is a total order, so the ordering has each candidate at one place (`OrderOfChecks`), and dropping later duplicates keeps the order of the first ones (`UniqKeepsOrder`): of two checks the earlier has a candidate at least as urgent as any of the later one. So the first three are the most urgent, and as long as there are checks of saves left a pigeon hole argument puts them first (`MostUrgentFirst`). Any diffs, configurations, packs and repositories |
| the same | `VerdictStaysMonotone` | two scans are compared part by part. A diff with a section less leaves less (`RemovalNarrows`): its changes are among the others, no limit is nearer, and what has ceased to be documentation does not become it again (`Wider`); a stricter preset has no lower weight and no higher limit or threshold (`Stricter`, `PresetsAreOrdered`). What the patterns weigh is then a sum that is no smaller at any place (`HitsCompare`, `TotalCompares`); that lines are counted alike by section and by file is a sum in two orders (`TotalOfTotals`). The cap of documentation comes off the larger whenever it is off the smaller, or the smaller has no change at all and scores nothing (`CappedCompares`, `NothingScores`), so the scores of the diff and of each file compare (`RiskCompares`, `FileCompares`); and a rule of the project adds its weight to the larger when it does to the smaller (`RulesCompare`, `FilesStayCompared`). Any diffs, configurations and rules |
| `Dashboard_proofs` | `VerifiedWasGiven`, `ExportsRestore` | every item of a session, of evidence in flight and of evidence downloaded has a status somebody gave, its identifiers are unique, and the findings are covered by it; a draft about a finding is about one that was failed. Evidence in flight must be part of the invariant, for it lands on whatever report is committed then. A session that is sound in this sense passes every refusal of the import and is restored as it is |
| `ImpactGraph_proofs` | `ImpactExact`, `FilesPlaced`, `QueueBounded` | the queue stays within what is reachable (`QueueIsReached`), every dependent of a passed package is queued (`PassedIsDone`, with `TodoIsCurrent` for the one in progress); when the queue is empty the queued packages are closed under dependents, and no smaller closed set contains the seeds, so they are `Reachable`. The bound holds because every entry beyond the seeds is a pair of origin and package that was put on the list of visits when it was queued, and never before (`BoundInv`) |
| the same | `CyclesFound` | `CycleInv`: the stack is a path of the graph (`StackIsPath`), a dependency of one of its packages that is not left to do is finished, closes a reported cycle, or is next on the stack (`PathIsHandled`), every dependency of a finished package is one of the former (`DoneIsHandled`), and no set of finished packages keeps a cycle without the dependencies that close a reported one (`FinishedIsCut`) |
| `PolicyResolution_proofs` | `NearestPolicies`, `AcceptedApplies`, `AnnotationsEarned` | `RunInv`: each stage left what it computes from the manifest and the diff (`StagesFollow`), and an accepted manifest has one package to a root (`ManifestIsSound`). The walk down a path has at every depth the policy of the deepest scope so far that decides (`NearestDown`), which is the one validation computed for the scope last entered (`AgreesDown`): inductions over the depth. Any packages, packs, exceptions and diffs |
| `ReviewAttempts_proofs` | `AttemptsInvariant`, `SuccessStaysEarned`, `ComparedStaysPrior`, `RetainedStaysVerifiable`, `BaseStaysGoverning`, `ProjectionStaysTrue` | `AttemptsInv` says of each job, by the step it is in, what it has earned, attested, compared and projected (`JobsHold`); what is retained is its job's own report with its own manifest (`RetainedIsOwn`); prior evidence is retained or foreign (`PriorIsKnown`), a job that commented has a run of the comment that is done (`CommentedIsDone`). Foreign evidence with a fitting name is refused for its branch or its release, so what is compared was retained by the job of the expected commit. Any pushes, workflows, reports, policies, cancellations and losses |
| the same | `AttemptsImplementPrComment`, `CommentsStayKept` | every step of a job is a step of its run in `PrComment` or leaves the comments alone. `KeptInv`: a run's listing is a prefix of the comments while nobody deletes (`ListedIsPrefix`), so a comment that was there when it started is found (`KnownIsFound`), and runs in turn find the only one (`OnlyOne`, `RestIsOthers`) |

Assumed of the constants, each in the module that declares them: periods and limits are natural
numbers and limits at least 1; marker values (`None`, `Absent`) are not among what they mark the
absence of; workflows have the fields of a workflow, every policy selects packs, and foreign
evidence is of another branch or release (`WorkflowsAssumption`, `PacksAssumption`, `ForeignAssumption`); what was parsed has the shape parsing
gives it: lists are lists, lines are counted by natural numbers, a rule that is complete has a
name, a preset is one of the three, a threshold that is not refused an integer, no line says
the word of the test pattern, which has no expression for lines, names have an order without repetition, and every command found in a repository has the priority of
its category (`InputAssumption`, `PathAssumption`, `CategoryAssumption`).

Only model-checked is liveness: `EveryRequestEnds`, `SlotsReturn`, `Settles` and `ImportsEnd`, for
fairness and `ENABLED` are beyond the prover. Every other property a passing run checks is
stated by a theorem above.

## 5. What documents say and TLC refutes

One is a run. `PluginSilentExit`: a plugin that calls `process.exit(0)` before posting leaves
the caller waiting for ever, for its exit clears the timer (`src/pluginWorker.js:33`), while
`docs/plugin-workers.md:5` promises a quarantined result.

The others stay defined in their modules. Each is reproduced by the named run's
configuration with that one property in place of its own (as INVARIANT where it speaks of
states, as PROPERTY where it speaks of steps), and the changes given.

| Property | Quoted | Configuration | What happens |
|---|---|---|---|
| `OverrideDeactivationSparesOtherKey` | `docs/licensing-authorization.md:17` | `LicenseRaces`, `Proc = {p1}`, `Key = {k1, k2}`, `Call = {c1, c2}`, `EnvKey <- Override` | an environment key must not "overwrite or delete a different stored key's device activation", but `deactivateLicense` removes the file whatever key it holds (`license.js:277`) |
| `OverrideValidationSparesOtherKey` | the same | the same | a denied validation under the override key forgets the file of the other key |
| `DowngradeSticks` | `docs/commercial-lifecycle.md:10` | `LicenseRaces`, `Proc = {p1}`, `License <- TwoPlans`, `Timeout = 1` | a validation that started before the forced one lands after it, with the older Team grant: a validation's live grant does not start a new epoch |
| `OnlyClosedIsPurged`, `HoldPreventsPurge` | `docs/pro-fulfillment.md:106` | `QueueRaces` | the ticket is reopened, or the hold placed, between the purge's check and its removal |
| `PurgedStaysPurged` | the same | `QueueRaces` | a status command that read the ticket before the purge writes it back |
| `PurgeLeavesNoCopy` | the same | `QueueRaces` | a status command that dies before its rename leaves `<id>.json.<uuid>.tmp` with the ticket's contact and message (`pro-support-queue.js:104`), and no purge looks at it |
| `RespondedKeepsAttestation` | `scripts/p6-support-contracts.js:113` | `QueueRaces`, `Ticket = {t1}`, 4 jobs | the purge removes the receipt of a ticket a concurrent command writes back as responded |
| `ThreadStops` | `docs/plugin-workers.md:5` | `PluginSettles` | a plugin that posted its result and then hangs is not terminated: the timer is cleared |
| `OneComment` | `docs/GITHUB_ACTIONS.md:133` | `ReviewAttempts` | two first jobs overlap; a comment deleted while a job lists has the same effect |
| `PolicyIsDeferred` | `docs/GITHUB_ACTIONS.md:111` | `ReviewAttempts` (a shorter trace with `Workflows <- ManifestWorkflows`) | where the base has no manifest the context puts out none, and `action.yml:237` falls back to the pull request's own |
| `InvalidDatesAreIgnored` | `docs/suppressions.md:43` | `ReviewScans` | an entry that expires on a day in no calendar is warned of and suppresses all the same: only the pattern of the date keeps an entry out (`suppressions.js:48`) |
| `NewestStays` | `docs/architecture/dashboard-architecture.md:76` | `DashboardImports`, `MaxEdits = 0` | both selections passed the worker before either digest settled, and the older commits last |
| `EveryExportRestores` | `dashboard/README.md:32` | `DashboardImports` | a pull request number typed as anything but a positive integer is exported (`dashboard/app.js:231`) and refused when imported again |
| `ActiveIsMatched` | `docs/policy-inheritance.md:136` | `PolicyManifests` | the exception for a required check is reported as active, and matched, though resolution warned that it matched no changed path |

Observed while translating, and visible in the models, without a property of their own:

- An expired suppression takes the place of its renewal, which is warned of and ignored as a
  duplicate (`SuppressedIsJustified` allows it for the warning).
- Dispatched jobs have no `origin/<base>...HEAD` to compare: the example
  `docs/examples/github-actions-explicit-evidence-handoff.yml` gives no `diff-path`, so that its step "Prepare
  pull request diff" fails (`action.yml:216`). The model lets such jobs be given their diff.
- Under the default merge checkout the automatic comparison of `docs/GITHUB_ACTIONS.md:103`
  and `docs/finding-comparisons.md:83` finds its evidence stale every time: it expects the previous head, the
  manifest names the merge commit.
- A cancelled attempt is recorded as "completed", and an exit code that was never set
  counts as a threshold that "passed".
- A paid command may send a key it did not validate (`proClient.js:35`); the gateway alone decides.
- Removing a user check in the dashboard leaves drafts and defects that name it; report texts
  over 8000 characters are refused when their evidence is imported again; and a report the contract accepts but
  the view cannot draw fails after the state was replaced.
- More change can be less risk (`VerdictIsMonotone` leaves these out, and no document says
  otherwise): a change of mode without lines is not documentation, and a comment added beside it
  makes it so (`hasOnlyCommentChanges` wants a line, `analyzeDiff.js:258`), which caps the score;
  and a re-export added beside comments of an index file takes it out of the routing rule
  (`analyzeDiff.js:303`), which comments alone do not.
- Versions are compared without their prerelease; a required check worded twice takes
  two places of the plan; the cap for documentation is not applied to custom rules.

## 6. Not modelled

- License sessions: a credential file that is there and cannot be read, which the code takes for
  none (`license.js:48`, also where it binds a receipt, line 189), `writeLicenseState` (only tests
  call it), a clock set back, several environments or organizations (disjoint files and sessions), stored
  warnings, wording of the commands. Pro client: what a policy, catalog or ticket holds; every
  malformed answer is one refusal.
- Support queue: the read-only commands; symbolic links, oversized or hand-edited files, which
  the code refuses. Gateway: reading policy files, the start-up checks.
- Plugin worker: the refusals before the worker starts, and the limits that tell an accepted
  message from a quarantined one. A plugin that throws `null` has no message for the caller to read
  (`pluginWorker.js:32`), whose handler then throws itself: what a plugin throws is an error here. `init`: arguments and wording.
- Scanner: the text of hunks, patterns and their time limits; `legacyRisk.js`, which only
  its contract script calls. Policy packs: a field that may be malformed in several ways is
  malformed in one. Report output: wording and layout, the warnings and sections each text has room for, and
  the former path of a rename, whose owners the code suggests too (`reviewGuidance.js:211`): a file
  has one path here. Command line: where the diff is read from, a terminal as input, which prints
  the help and ends with 0 and without a report (`cli.js:375`), `doctor`. The policy manifest and the impact graph have models of their own and are
  not part of `Review`.
- Policy resolution: a pack with several targets of one kind, and so the matching of an exception's
  target by the end of a rule's name (`policyResolution.js:810`), malformed fields, the digests of a trusted context, provenance chains,
  weights. Impact graph: path patterns, parsing, the older mapping to workspace packages.
- Evidence: timestamps, versions and links; `reportTrends.js`, which sums up reports and decides
  nothing. Action: prebuilt diffs, but for dispatched jobs, which are given one; a report
  file that was in the checkout before the scan, and one whose writing failed half way: the first
  would be attested after a failed scan, for `action.yml:313` only asks for a file that is not
  empty, and with the second the manifest's step fails; title and body of the pull request, impact metadata, the
  dry run of the comment. A comment of a person that begins with the marker is not considered.
- Dashboard: diffs, free text, sizes and shapes `import-contract.js` refuses, `server.js`, drawing.
- Repository context and assistance: one pass over text for hints no verdict depends on.
  Calibration and historical evaluation: offline batch measurement by the maintainers.
  Release and contract scripts: packaging, and tests of the parts above. None keeps state
  beyond a run.
