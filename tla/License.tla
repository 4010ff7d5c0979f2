------------------------------- MODULE License -------------------------------
(***************************************************************************)
(* The license sessions of src/src/commercial/license.js.                   *)
(*                                                                          *)
(* Every process keeps, per license key, a session: an epoch and a receipt  *)
(* of the last live grant.  All processes share one credential file, which  *)
(* carries a key and its device activation but no authority.  A call reads  *)
(* the file, awaits the provider (Polar), and lands: JavaScript runs it     *)
(* without interruption inside one process, but other processes may step    *)
(* between any two of its file operations.                                  *)
(*                                                                          *)
(* One environment, organization, benefit mapping and file path: sessions   *)
(* and files of any other are disjoint (sessionFor, licenseFilePath).       *)
(***************************************************************************)
EXTENDS Integers

CONSTANTS
    Proc,       \* operating-system processes; one that crashed never returns
    Key,        \* license keys
    Call,       \* the API calls made in a behaviour, each used once
    None,       \* null
    Never,      \* a license without expiry
    EnvKey,     \* MERGE_GUARD_LICENSE_KEY of each process, or None
    License,    \* for each key, what the provider may come to hold for it: records, or None
    CacheTTL,   \* CACHE_TTL_MS, in ticks
    Grace,      \* OFFLINE_GRACE_MS, in ticks
    Timeout,    \* the AbortSignal of a request, in ticks
    MaxTime     \* bound of the clock

Plan     == {"free", "pro", "team"}
Paid     == Plan \ {"free"}
Benefit  == {"pro", "team", "other"}
Expiry   == Nat \cup {Never}   \* 0 also stands for a timestamp that cannot be read
Credential == [key: Key, plan: Plan, activation: Call \cup {None}, at: Nat, expires: Expiry]
Receipt  == [plan: Paid, at: Nat, expires: Expiry,
             source: Credential \cup {None}, grant: Call]
Session  == [epoch: Nat, receipt: Receipt \cup {None}]
\* "refused" is any status but granted, a foreign organization included.
LicenseRecord == [status: {"granted", "refused"}, benefit: Benefit, expires: Expiry]

ASSUME ConstantsAssumption ==
    /\ EnvKey \in [Proc -> Key \cup {None}]
    /\ License \in [Key -> SUBSET (LicenseRecord \cup {None})]
    /\ None \notin Proc \cup Key \cup Call \cup Credential \cup Receipt \cup LicenseRecord
    /\ Never \notin Nat
    /\ CacheTTL \in Nat /\ Grace \in Nat /\ Timeout \in Nat /\ MaxTime \in Nat

VARIABLES
    clock,
    provider,     \* what Polar holds for each key
    activations,  \* device activations Polar knows, named by the call that made them
    file,         \* the credential file, or None
    session,      \* the sessions map of every process
    call,         \* the local state of every API call
    alive,        \* processes that have not crashed
    overtaken,    \* history: calls issued before their session was withdrawn
    entitled      \* history: the last time Polar granted each plan to each key

vars == <<clock, provider, activations, file, session, call, alive, overtaken, entitled>>

NoResponse == [kind |-> "none", license |-> None]
NoReply == [plan |-> "free", how |-> "none", warning |-> "none"]

Response == [kind: {"none", "data", "denied", "transient", "invalid"},
             license: LicenseRecord \cup {None}]
Reply == [plan: Plan,
          how: {"none", "inactive", "cached", "grace", "live", "superseded",
                "unavailable", "denied", "cleared", "thrown"},
          warning: {"none", "other-key", "unsaved", "removed", "stuck", "unconfirmed"}]
CallRecord ==
    [pc: {"idle", "sent", "answered", "clearing", "binding", "removing", "done"},
     op: {"none", "validate", "activate", "deactivate", "clear"},
     proc: Proc \cup {None}, key: Key \cup {None},
     saved: Credential \cup {None},    \* the file as the call read it
     epoch: Nat, at: Nat, held: Receipt \cup {None},
     left: Nat, resp: Response, reply: Reply]

Blank == [pc |-> "idle", op |-> "none", proc |-> None, key |-> None, saved |-> None,
          epoch |-> 0, at |-> 0, held |-> None, left |-> 0,
          resp |-> NoResponse, reply |-> NoReply]

-----------------------------------------------------------------------------
(* The pure helpers of license.js and entitlements.js *)

HasExpired(expires, time) == expires # Never /\ expires <= time

PlanForBenefit(benefit) == IF benefit = "other" THEN "free" ELSE benefit

\* parseValidatedLicense: only a granted, unexpired, mapped license pays.
ParsedPlan(license, time) ==
    IF license # None /\ license.status = "granted" /\ ~HasExpired(license.expires, time)
    THEN PlanForBenefit(license.benefit)
    ELSE "free"

\* Mutant: one tick more than the limit.
Fresh_OffByOne(receipt, time, limit) ==
    receipt # None /\ ~HasExpired(receipt.expires, time) /\ time - receipt.at \in 0 .. limit + 1

\* A receipt that still names a paid plan and is at most limit old.
Fresh(receipt, time, limit) ==
    /\ receipt # None
    /\ ~HasExpired(receipt.expires, time)
    /\ time - receipt.at \in 0 .. limit

Owns(credential, key) == credential # None /\ credential.key = key

SelectedKey(p) ==
    IF EnvKey[p] # None THEN EnvKey[p] ELSE IF file # None THEN file.key ELSE None

\* Mutant: the receipt survives its epoch.
Revoked_KeepsReceipt(s) == [s EXCEPT !.epoch = @ + 1]

Revoked(s) == [epoch |-> s.epoch + 1, receipt |-> None]

\* Invalidate the sessions of keys in process p, and what they had in flight.
Withdraw(p, keys) ==
    /\ session' = [session EXCEPT ![p] =
                     [k \in Key |-> IF k \in keys THEN Revoked(session[p][k]) ELSE session[p][k]]]
    /\ overtaken' = overtaken \cup {c \in Call : call[c].proc = p /\ call[c].key \in keys}

InFlight(c) == call[c].pc \in {"sent", "answered"}

FileStep(c) == call[c].pc \in {"clearing", "binding", "removing"}

\* The process exists and its thread is not inside another call's file work.
Runs(p) == p \in alive /\ \A c \in Call : call[c].proc = p => ~FileStep(c)

\* What is left of a call that has returned or thrown.
Replied(r, plan, how, warning) ==
    [Blank EXCEPT !.pc = "done", !.op = r.op, !.proc = r.proc, !.key = r.key, !.at = r.at,
                  !.held = r.held,
                  !.reply = [plan |-> plan, how |-> how, warning |-> warning]]

Returns(c, plan, how, warning) ==
    call' = [call EXCEPT ![c] = Replied(call[c], plan, how, warning)]

-----------------------------------------------------------------------------
(* Starting a call: everything up to its first await *)

Issued(p, op, k) ==
    [Blank EXCEPT !.pc = "sent", !.op = op, !.proc = p, !.key = k, !.saved = file,
                  !.at = clock, !.left = Timeout,
                  !.epoch = IF k = None THEN 0 ELSE session[p][k].epoch]

Starts(c, p) == call[c].pc = "idle" /\ Runs(p)

ValidateUnactivated(c, p) ==
    /\ Starts(c, p)
    /\ SelectedKey(p) = None
    /\ call' = [call EXCEPT ![c] = Replied(Issued(p, "validate", None), "free", "inactive", "none")]
    /\ UNCHANGED <<clock, provider, activations, file, session, alive, overtaken, entitled>>

\* The receipt was bound to other credential bytes than the file now holds.
Unbound(p, k) == session[p][k].receipt # None /\ session[p][k].receipt.source # file

ValidateFromCache(c, p) ==
    LET k == SelectedKey(p) IN
    /\ Starts(c, p)
    /\ k # None
    /\ ~Unbound(p, k)
    /\ Fresh(session[p][k].receipt, clock, CacheTTL)
    /\ call' = [call EXCEPT ![c] =
                  Replied([Issued(p, "validate", k) EXCEPT !.held = session[p][k].receipt],
                          session[p][k].receipt.plan, "cached", "none")]
    /\ UNCHANGED <<clock, provider, activations, file, session, alive, overtaken, entitled>>

StartValidate(c, p, force) ==
    LET k == SelectedKey(p) IN
    /\ Starts(c, p)
    /\ k # None
    /\ \/ /\ Unbound(p, k)
          /\ Withdraw(p, {k})
          /\ call' = [call EXCEPT ![c] =
                        [Issued(p, "validate", k) EXCEPT !.epoch = session[p][k].epoch + 1]]
       \/ /\ ~Unbound(p, k)
          /\ force \/ ~Fresh(session[p][k].receipt, clock, CacheTTL)
          /\ call' = [call EXCEPT ![c] =
                        [Issued(p, "validate", k) EXCEPT !.held = session[p][k].receipt]]
          /\ UNCHANGED <<session, overtaken>>
    /\ UNCHANGED <<clock, provider, activations, file, alive, entitled>>

StartActivate(c, p, k) ==
    /\ Starts(c, p)
    /\ call' = [call EXCEPT ![c] = Issued(p, "activate", k)]
    /\ UNCHANGED <<clock, provider, activations, file, session, alive, overtaken, entitled>>

\* deactivateLicense forgets every session first; Polar is asked only about an
\* activation of the selected key.
StartDeactivate(c, p) ==
    LET k == SelectedKey(p) IN
    /\ Starts(c, p)
    /\ Withdraw(p, Key)
    /\ call' = [call EXCEPT ![c] =
                  [Issued(p, "deactivate", k) EXCEPT
                     !.pc = IF Owns(file, k) /\ file.activation # None THEN "sent" ELSE "removing"]]
    /\ UNCHANGED <<clock, provider, activations, file, alive, entitled>>

\* clearLicenseState on its own, as `license clear` calls it after a failure.
ClearLicenseState(c, p) ==
    /\ Starts(c, p)
    /\ Withdraw(p, Key)
    /\ \/ /\ file' = None
          /\ call' = [call EXCEPT ![c] = Replied(Issued(p, "clear", None), "free", "cleared", "none")]
       \/ /\ file' = file
          /\ call' = [call EXCEPT ![c] = Replied(Issued(p, "clear", None), "free", "thrown", "stuck")]
    /\ UNCHANGED <<clock, provider, activations, alive, entitled>>

-----------------------------------------------------------------------------
(* The provider and the network: polarPost *)

SentActivation(c) ==
    IF Owns(call[c].saved, call[c].key) THEN call[c].saved.activation ELSE None

Responds(c, kind, license) ==
    call' = [call EXCEPT ![c].pc = "answered", ![c].resp = [kind |-> kind, license |-> license]]

ProviderAnswers(c) ==
    LET act == SentActivation(c) IN
    /\ call[c].pc = "sent"
    /\ provider[call[c].key] # None
    /\ \/ /\ call[c].op = "validate"
          /\ act # None => act \in activations
          /\ UNCHANGED activations
       \/ /\ call[c].op = "activate"
          /\ activations' = activations \cup {c}
       \/ /\ call[c].op = "deactivate"
          /\ act \in activations
          /\ activations' = activations \ {act}
    /\ Responds(c, "data", provider[call[c].key])
    /\ UNCHANGED <<clock, provider, file, session, alive, overtaken, entitled>>

\* HTTP 4xx other than 429: an unknown key or activation, a full activation limit, ...
ProviderRefuses(c) ==
    /\ call[c].pc = "sent"
    /\ Responds(c, "denied", None)
    /\ UNCHANGED <<clock, provider, activations, file, session, alive, overtaken, entitled>>

\* A rejected fetch, a timeout, 429 or 5xx ("transient"), or a reply that is no
\* JSON, a redirect, ... ("invalid"); the provider may have acted already.
ResponseFails(c, kind) ==
    /\ call[c].pc = "sent" \/ (call[c].pc = "answered" /\ call[c].resp.kind = "data")
    /\ Responds(c, kind, None)
    /\ UNCHANGED <<clock, provider, activations, file, session, alive, overtaken, entitled>>

-----------------------------------------------------------------------------
(* Landing: from the await to the return *)

Lands(c, ops) == call[c].pc = "answered" /\ call[c].op \in ops /\ Runs(call[c].proc)

\* validateLicense decides as of its start, activateLicense as of its landing.
DecidedAt(c) == IF call[c].op = "validate" THEN call[c].at ELSE clock

\* decisionState: the credential a definitive answer is stored as.
Decision(c) ==
    LET r == call[c] IN
    [key |-> r.key,
     plan |-> ParsedPlan(r.resp.license, DecidedAt(c)),
     activation |-> CASE r.resp.kind = "denied" -> None
                      [] r.op = "activate" -> c
                      [] OTHER -> SentActivation(c),
     at |-> DecidedAt(c),
     expires |-> IF r.resp.license = None THEN Never ELSE r.resp.license.expires]

Definitive(c) == Lands(c, {"validate", "activate"}) /\ call[c].resp.kind \in {"data", "denied"}

Denies(c) == Definitive(c) /\ Decision(c).plan = "free"
Grants(c) == Definitive(c) /\ Decision(c).plan # "free"

\* persistDecision leaves a file alone that held another key when the call began.
Spares(c) == call[c].saved # None /\ call[c].saved.key # call[c].key

\* A denied activation is recorded only over the key's own file or receipt.
Recorded(c) ==
    \/ call[c].op = "validate"
    \/ Owns(call[c].saved, call[c].key)
    \/ session[call[c].proc][call[c].key].receipt # None

DenialReply(c, warning) ==
    Returns(c, "free", IF call[c].op = "validate" THEN "denied" ELSE "thrown", warning)

DenialStored(c) ==
    /\ Denies(c) /\ Recorded(c)
    /\ Withdraw(call[c].proc, {call[c].key})
    /\ IF Spares(c)
       THEN UNCHANGED file /\ DenialReply(c, "other-key")
       ELSE file' = Decision(c) /\ DenialReply(c, "none")
    /\ UNCHANGED <<clock, provider, activations, alive, entitled>>

\* Mutant: the failed save is swallowed and the stale file left alone.
DenialUnsaved_Swallowed(c) ==
    /\ Denies(c) /\ Recorded(c) /\ ~Spares(c)
    /\ Withdraw(call[c].proc, {call[c].key})
    /\ DenialReply(c, "none")
    /\ UNCHANGED <<clock, provider, activations, file, alive, entitled>>

DenialUnsaved(c) ==
    /\ Denies(c) /\ Recorded(c) /\ ~Spares(c)
    /\ Withdraw(call[c].proc, {call[c].key})
    /\ call' = [call EXCEPT ![c].pc = "clearing"]
    /\ UNCHANGED <<clock, provider, activations, file, alive, entitled>>

\* The save failed: clearLicenseState removes the stale file, or fails too.
ClearAfterDenial(c) ==
    /\ call[c].pc = "clearing" /\ call[c].proc \in alive
    /\ Withdraw(call[c].proc, Key)
    /\ \/ file' = None /\ DenialReply(c, "removed")
       \/ UNCHANGED file /\ DenialReply(c, "stuck")
    /\ UNCHANGED <<clock, provider, activations, alive, entitled>>

RejectActivation(c) ==
    /\ Denies(c) /\ ~Recorded(c)
    /\ Withdraw(call[c].proc, {call[c].key})
    /\ Returns(c, "free", "thrown", "none")
    /\ UNCHANGED <<clock, provider, activations, file, alive, entitled>>

\* Mutant: the epoch is not compared.
Current_Always(c) == TRUE

Current(c) == call[c].epoch = session[call[c].proc][call[c].key].epoch

GrantSuperseded(c) ==
    /\ Grants(c) /\ ~Current(c)
    /\ Returns(c, "free", "superseded", "none")
    /\ UNCHANGED <<clock, provider, activations, file, session, alive, overtaken, entitled>>

GrantPersisted(c) ==
    /\ Grants(c) /\ Current(c)
    /\ \E warning \in IF Spares(c) THEN {"other-key"} ELSE {"none", "unsaved"} :
         /\ file' = IF warning = "none" THEN Decision(c) ELSE file
         /\ call' = [call EXCEPT ![c].pc = "binding", ![c].reply.warning = warning]
    /\ UNCHANGED <<clock, provider, activations, session, alive, overtaken, entitled>>

\* The receipt is bound to whatever the file holds when it is read back.
BindReceipt(c) ==
    LET next == Decision(c) IN
    /\ call[c].pc = "binding" /\ call[c].proc \in alive
    /\ session' = [session EXCEPT ![call[c].proc][call[c].key].receipt =
                     [plan |-> next.plan, at |-> next.at, expires |-> next.expires,
                      source |-> file, grant |-> c]]
    /\ Returns(c, next.plan, "live", call[c].reply.warning)
    /\ UNCHANGED <<clock, provider, activations, file, alive, overtaken, entitled>>

\* Only a transient failure of an undisturbed validation may use the receipt.
LandTransient(c) ==
    /\ Lands(c, {"validate", "activate"}) /\ call[c].resp.kind = "transient"
    /\ CASE call[c].op = "activate" -> Returns(c, "free", "thrown", "none")
         [] call[c].op = "validate" /\ Current(c) /\ Fresh(call[c].held, call[c].at, Grace) ->
              Returns(c, call[c].held.plan, "grace", "none")
         [] OTHER -> Returns(c, "free", "unavailable", "none")
    /\ UNCHANGED <<clock, provider, activations, file, session, alive, overtaken, entitled>>

LandInvalid(c) ==
    /\ Lands(c, {"validate", "activate"}) /\ call[c].resp.kind = "invalid"
    /\ IF call[c].op = "activate"
       THEN Returns(c, "free", "thrown", "none") /\ UNCHANGED <<session, overtaken>>
       ELSE Returns(c, "free", "unavailable", "none")
            /\ Withdraw(call[c].proc, {call[c].key})
    /\ UNCHANGED <<clock, provider, activations, file, alive, entitled>>

\* Mutant: the provider's failure is not reported.
FinishDeactivate_Silent(c) ==
    /\ Lands(c, {"deactivate"}) \/ (call[c].pc = "removing" /\ call[c].proc \in alive)
    /\ Withdraw(call[c].proc, Key)
    /\ \/ file' = None /\ Returns(c, "free", "cleared", "none")
       \/ UNCHANGED file /\ Returns(c, "free", "thrown", "stuck")
    /\ UNCHANGED <<clock, provider, activations, alive, entitled>>

FinishDeactivate(c) ==
    LET confirmed == call[c].pc = "removing" \/ call[c].resp.kind = "data" IN
    /\ \/ Lands(c, {"deactivate"})
       \/ call[c].pc = "removing" /\ call[c].proc \in alive
    /\ Withdraw(call[c].proc, Key)
    /\ \/ /\ file' = None
          /\ IF confirmed THEN Returns(c, "free", "cleared", "none")
                          ELSE Returns(c, "free", "thrown", "unconfirmed")
       \/ /\ UNCHANGED file
          /\ Returns(c, "free", "thrown", "stuck")
    /\ UNCHANGED <<clock, provider, activations, alive, entitled>>

-----------------------------------------------------------------------------
(* The environment *)

Remembered(held, time) ==
    [k \in Key |-> [q \in Paid |->
        IF ParsedPlan(held[k], time) = q THEN time ELSE entitled[k][q]]]

\* The subscription changes: a purchase, a benefit change, a revocation, a deletion.
\* A new period ends in the future (0 stands for an end nobody can read).
SetProvider(k, license) ==
    /\ license # provider[k]
    /\ license # None => license.expires = 0 \/ ~HasExpired(license.expires, clock)
    /\ provider' = [provider EXCEPT ![k] = license]
    /\ entitled' = Remembered(provider', clock)
    /\ UNCHANGED <<clock, activations, file, session, call, alive, overtaken>>

\* File work takes no time and a request of a live process at most Timeout.
Tick ==
    /\ clock < MaxTime
    /\ \A c \in Call : call[c].proc \in alive =>
         ~FileStep(c) /\ (InFlight(c) => call[c].left > 0)
    /\ clock' = clock + 1
    /\ call' = [c \in Call |-> IF InFlight(c) /\ call[c].left > 0
                               THEN [call[c] EXCEPT !.left = @ - 1] ELSE call[c]]
    /\ entitled' = Remembered(provider, clock')
    /\ UNCHANGED <<provider, activations, file, session, alive, overtaken>>

Crash(p) ==
    /\ p \in alive
    /\ alive' = alive \ {p}
    /\ UNCHANGED <<clock, provider, activations, file, session, call, overtaken, entitled>>

-----------------------------------------------------------------------------
Init ==
    /\ clock = 0
    /\ provider \in {held \in [Key -> UNION {License[k] : k \in Key}] :
                       \A k \in Key : held[k] \in License[k]}
    /\ activations = {}
    /\ file = None
    /\ session = [p \in Proc |-> [k \in Key |-> [epoch |-> 0, receipt |-> None]]]
    /\ call = [c \in Call |-> Blank]
    /\ alive = Proc
    /\ overtaken = {}
    /\ entitled = [k \in Key |-> [q \in Paid |->
                     IF ParsedPlan(provider[k], 0) = q THEN 0 ELSE -1]]

Start(c, p) ==
    \/ ValidateUnactivated(c, p)
    \/ ValidateFromCache(c, p)
    \/ \E force \in BOOLEAN : StartValidate(c, p, force)
    \/ \E k \in Key : StartActivate(c, p, k)
    \/ StartDeactivate(c, p)
    \/ ClearLicenseState(c, p)

Polar(c) ==
    \/ ProviderAnswers(c)
    \/ ProviderRefuses(c)
    \/ \E kind \in {"transient", "invalid"} : ResponseFails(c, kind)

Land(c) ==
    \/ DenialStored(c) \/ DenialUnsaved(c) \/ ClearAfterDenial(c) \/ RejectActivation(c)
    \/ GrantSuperseded(c) \/ GrantPersisted(c) \/ BindReceipt(c)
    \/ LandTransient(c) \/ LandInvalid(c)
    \/ FinishDeactivate(c)

Environment ==
    \/ \E k \in Key : \E license \in License[k] : SetProvider(k, license)
    \/ Tick
    \/ \E p \in Proc : Crash(p)

Next ==
    \/ \E c \in Call : (\E p \in Proc : Start(c, p)) \/ Polar(c) \/ Land(c)
    \/ Environment

Spec == Init /\ [][Next]_vars

\* A request ends by its AbortSignal if nothing else ends it, and the event
\* loop runs what is ready.
Fairness == \A c \in Call :
    WF_vars(Land(c)) /\ WF_vars(ResponseFails(c, "transient"))

FairSpec == Spec /\ Fairness
-----------------------------------------------------------------------------
(* What the sessions must guarantee *)

\* Every variable has its type.
TypeOK ==
    /\ clock \in 0 .. MaxTime
    /\ provider \in [Key -> LicenseRecord \cup {None}]
    /\ activations \subseteq Call
    /\ file \in Credential \cup {None}
    /\ session \in [Proc -> [Key -> Session]]
    /\ call \in [Call -> CallRecord]
    /\ alive \subseteq Proc
    /\ overtaken \subseteq Call
    /\ entitled \in [Key -> [Paid -> Int]]

Answers(c, hows) == call'[c].reply # call[c].reply /\ call'[c].reply.how \in hows

\* A denial, an unreadable answer, a deactivation or a replaced credential file
\* withdraws all that its session issued before: such a call, however late its
\* own answer lands, returns no paid plan and stores none, and no cached or grace
\* answer rests on a withdrawn grant ("invalidate older in-flight grants",
\* acceptDecision, activateLicense, validateLicense, forgetFile).
WithdrawnStaysWithdrawn ==
    [][\A c \in Call :
          /\ Answers(c, {"live", "cached", "grace"}) => c \notin overtaken
          /\ Answers(c, {"cached", "grace"}) => call'[c].held.grant \notin overtaken
          /\ call'[c].pc = "binding" => c \notin overtaken]_vars

\* A receipt exists only while a live grant backs it that this very process
\* obtained for this key and plan and that nothing has withdrawn since: no other
\* process, key or file content creates one.
ReceiptBacked ==
    \A p \in Proc, k \in Key :
        LET r == session[p][k].receipt IN
        r # None => /\ r.grant \notin overtaken
                    /\ call[r.grant].proc = p
                    /\ call[r.grant].key = k
                    /\ call[r.grant].reply.how = "live"
                    /\ call[r.grant].reply.plan = r.plan

\* How long a call may wait for its answer: an activation is dated by its landing, a
\* validation by its start.
Waited(c) == IF call[c].op = "activate" THEN Timeout ELSE 0

\* A paid answer of any kind is backed by the provider's own record: it granted
\* that plan to that key at most the grace period ago, and the time the failing
\* validation, and the activation whose receipt it uses, were waiting.  Grace never
\* refreshes the receipt it uses.
PaidAnswersAreRecent ==
    [][\A c \in Call :
          LET age == clock - entitled[call'[c].key][call'[c].reply.plan]
              grant == call'[c].held.grant IN
          /\ Answers(c, {"live"}) => age <= Timeout
          /\ Answers(c, {"cached"}) => age <= CacheTTL + Waited(grant)
          /\ Answers(c, {"grace"}) => age <= Grace + Timeout + Waited(grant)]_vars

\* When a validation is denied, no paid credential of its key stays in the file
\* unless the answer carries a warning: the state could not be saved nor removed,
\* or another key was saved when the call began.
DenialLeavesNoPaidCredential ==
    [][\A c \in Call :
          /\ Answers(c, {"denied"})
          /\ call'[c].reply.warning \notin {"stuck", "other-key"}
          => ~(Owns(file', call[c].key) /\ file'.plan # "free")]_vars

\* A deactivation that reports success has removed the file, and Polar no longer
\* knows the activation that the call found there; anything less is thrown.
DeactivationIsHonest ==
    [][\A c \in Call :
          Answers(c, {"cleared"}) /\ call[c].op = "deactivate" =>
              /\ file' = None
              /\ SentActivation(c) \notin activations]_vars

\* Every call returns or throws, unless its process crashes.
EveryCallReturns ==
    \A c \in Call : call[c].pc # "idle" ~> (call[c].pc = "done" \/ call[c].proc \notin alive)

\* A step of an op call whose process overrides the stored key leaves a file alone
\* that holds another key's device activation.
SparesOtherKey(c, op) ==
    /\ call'[c] # call[c] /\ call'[c].op = op
    /\ EnvKey[call'[c].proc] # None
    /\ file # None /\ file.key # EnvKey[call'[c].proc] /\ file.activation # None
    => file' = file

\* docs/licensing-authorization.md:17, "Environment-key overrides cannot overwrite
\* or delete a different stored key's device activation", of deactivateLicense.
OverrideDeactivationSparesOtherKey == [][\A c \in Call : SparesOtherKey(c, "deactivate")]_vars

\* The same sentence, of validateLicense.
OverrideValidationSparesOtherKey == [][\A c \in Call : SparesOtherKey(c, "validate")]_vars

\* docs/commercial-lifecycle.md:10: the Team capability is "removed immediately on
\* forced validation" once the benefit became Pro: after a validation answered Pro,
\* no receipt of an earlier moment holds Team for that session.
DowngradeSticks ==
    \A p \in Proc, k \in Key, d \in Call :
        LET r == session[p][k].receipt IN
        /\ r # None /\ call[d].proc = p /\ call[d].key = k /\ call[d].op = "validate"
        /\ call[d].reply.how = "live" /\ call[d].reply.plan = "pro" /\ call[d].at > r.at
        => r.plan # "team"
=============================================================================
