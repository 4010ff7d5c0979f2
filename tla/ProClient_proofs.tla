-------------------------- MODULE ProClient_proofs --------------------------
(***************************************************************************)
(* Theorems about the license sessions (Spec of License), and about the     *)
(* paid commands composed with them (OrdersSpec), for every value of the    *)
(* constants.                                                               *)
(***************************************************************************)
EXTENDS ProClient, TLAPS

\* A call that was issued belongs to a process; while the provider or the file
\* work for its key is pending it has a key; only a returned call has a reply.
WellIssued(r) ==
    /\ r.pc = "idle" => r.proc = None
    /\ r.pc # "idle" => r.proc \in Proc
    /\ r.pc \in {"sent", "answered", "clearing", "binding"} => r.key \in Key
    /\ r.pc # "done" => r.reply.how = "none" /\ r.reply.plan = "free"

CallsAreIssued == \A c \in Call : WellIssued(call[c])

\* A grant that waits for its receipt is still one as of now.
BindingIsGrant ==
    \A c \in Call : call[c].pc = "binding" /\ call[c].proc \in alive => Decision(c).plan # "free"

TypeInv == TypeOK /\ CallsAreIssued /\ BindingIsGrant

-----------------------------------------------------------------------------
(* The operators the actions are built from *)

\* The result of ParsedPlan is a plan.
LEMMA ParsedPlanType ==
    ASSUME NEW license \in LicenseRecord \cup {None}, NEW time
    PROVE  ParsedPlan(license, time) \in Plan
BY DEF ParsedPlan, PlanForBenefit, LicenseRecord, Benefit, Plan

\* A fresh call record is well typed and carries what it was issued with.
LEMMA IssuedType ==
    ASSUME TypeOK, NEW p \in Proc, NEW k \in Key \cup {None},
           NEW op \in {"validate", "activate", "deactivate", "clear"}
    PROVE  /\ Issued(p, op, k) \in CallRecord
           /\ Issued(p, op, k).pc = "sent"
           /\ Issued(p, op, k).proc = p
           /\ Issued(p, op, k).key = k
           /\ Issued(p, op, k).reply = NoReply
           /\ Issued(p, op, k).resp = NoResponse
<1>1. (IF k = None THEN 0 ELSE session[p][k].epoch) \in Nat
    BY DEF TypeOK, Session
<1>2. /\ clock \in Nat /\ Timeout \in Nat /\ file \in Credential \cup {None}
    BY ConstantsAssumption DEF TypeOK
<1> QED
    BY <1>1, <1>2 DEF Issued, Blank, CallRecord, NoResponse, NoReply, Response, Reply, Plan

\* A finished record keeps its owner and is well typed.
LEMMA RepliedType ==
    ASSUME NEW r,
           r.op \in {"none", "validate", "activate", "deactivate", "clear"},
           r.proc \in Proc \cup {None}, r.key \in Key \cup {None},
           r.at \in Nat, r.held \in Receipt \cup {None},
           NEW plan \in Plan,
           NEW how \in {"inactive", "cached", "grace", "live", "superseded",
                        "unavailable", "denied", "cleared", "thrown"},
           NEW warning \in {"none", "other-key", "unsaved", "removed", "stuck", "unconfirmed"}
    PROVE  /\ Replied(r, plan, how, warning) \in CallRecord
           /\ Replied(r, plan, how, warning).pc = "done"
           /\ Replied(r, plan, how, warning).proc = r.proc
           /\ Replied(r, plan, how, warning).key = r.key
           /\ Replied(r, plan, how, warning).held = r.held
           /\ Replied(r, plan, how, warning).reply.plan = plan
           /\ Replied(r, plan, how, warning).reply.how = how
<1>1. [plan |-> plan, how |-> how, warning |-> warning] \in Reply
    BY DEF Reply
<1>2. /\ Blank \in CallRecord
      /\ NoReply \in Reply /\ NoResponse \in Response
    BY DEF Blank, CallRecord, NoReply, NoResponse, Response, Reply, Plan
<1>3. Replied(r, plan, how, warning) \in CallRecord
    BY <1>1, <1>2 DEF Replied, CallRecord
<1>4. /\ Replied(r, plan, how, warning).pc = "done"
      /\ Replied(r, plan, how, warning).proc = r.proc
      /\ Replied(r, plan, how, warning).key = r.key
      /\ Replied(r, plan, how, warning).held = r.held
      /\ Replied(r, plan, how, warning).reply.plan = plan
      /\ Replied(r, plan, how, warning).reply.how = how
    BY DEF Replied, Blank
<1> QED
    BY <1>3, <1>4

\* Withdrawing keeps the types of the sessions and of the history.
LEMMA WithdrawType ==
    ASSUME TypeOK, NEW p, NEW keys, Withdraw(p, keys)
    PROVE  /\ session' \in [Proc -> [Key -> Session]]
           /\ overtaken' \subseteq Call
<1>1. ASSUME p \in Proc PROVE [k \in Key |-> IF k \in keys THEN Revoked(session[p][k]) ELSE session[p][k]]
        \in [Key -> Session]
    BY <1>1 DEF TypeOK, Session, Revoked
<1> QED
    BY <1>1 DEF Withdraw, TypeOK

\* A decision about a call with a key is a well-typed credential.
LEMMA DecisionType ==
    ASSUME TypeOK, NEW c \in Call, call[c].key \in Key
    PROVE  /\ Decision(c) \in Credential
           /\ Decision(c).key = call[c].key
<1>1. call[c] \in CallRecord /\ clock \in Nat
    BY ConstantsAssumption DEF TypeOK
<1>2. /\ DecidedAt(c) \in Nat
      /\ call[c].resp.license \in LicenseRecord \cup {None}
      /\ SentActivation(c) \in Call \cup {None}
    BY <1>1 DEF DecidedAt, CallRecord, Response, SentActivation, Owns, Credential
<1>3. ParsedPlan(call[c].resp.license, DecidedAt(c)) \in Plan
    BY <1>2, ParsedPlanType
<1>4. (IF call[c].resp.license = None THEN Never ELSE call[c].resp.license.expires) \in Expiry
    BY <1>2 DEF LicenseRecord, Expiry
<1>5. (CASE call[c].resp.kind = "denied" -> None
         [] call[c].op = "activate" -> c
         [] OTHER -> SentActivation(c)) \in Call \cup {None}
    BY <1>2
<1> QED
    BY <1>2, <1>3, <1>4, <1>5 DEF Decision, Credential

\* The history of entitlements keeps its type.
LEMMA RememberedType ==
    ASSUME TypeOK, NEW held, NEW time \in Int
    PROVE  Remembered(held, time) \in [Key -> [Paid -> Int]]
BY DEF Remembered, TypeOK

-----------------------------------------------------------------------------
(* Every step keeps TypeInv *)

\* The plan of a decision depends on the call and the clock alone.
LEMMA DecisionPlanStable ==
    ASSUME NEW c \in Call, clock' = clock, call'[c].op = call[c].op, call'[c].at = call[c].at,
           call'[c].resp = call[c].resp
    PROVE  Decision(c).plan' = Decision(c).plan
BY DEF Decision, DecidedAt, ParsedPlan, HasExpired

\* A step that changes one call, and leaves it outside "binding", keeps the parts
\* of TypeInv that speak of calls.
LEMMA CallStep ==
    ASSUME TypeInv, NEW c \in Call, NEW r \in CallRecord, WellIssued(r), r.pc # "binding",
           call' = [call EXCEPT ![c] = r], clock' = clock, alive' = alive
    PROVE  /\ call' \in [Call -> CallRecord]
           /\ CallsAreIssued'
           /\ BindingIsGrant'
<1>1. call' \in [Call -> CallRecord]
    BY DEF TypeInv, TypeOK
<1>2. \A d \in Call : call'[d] = IF d = c THEN r ELSE call[d]
    BY DEF TypeInv, TypeOK
<1>3. CallsAreIssued'
    BY <1>2 DEF TypeInv, CallsAreIssued
<1>4. ASSUME NEW d \in Call, call'[d].pc = "binding", call'[d].proc \in alive'
      PROVE  Decision(d).plan' # "free"
    <2>1. d # c /\ call'[d] = call[d]
        BY <1>2, <1>4
    <2> QED
        BY <2>1, <1>4, DecisionPlanStable DEF TypeInv, BindingIsGrant
<1> QED
    BY <1>1, <1>3, <1>4 DEF BindingIsGrant

\* The record a well-typed call leaves behind when it returns.
LEMMA ReturnedRecord ==
    ASSUME NEW r \in CallRecord, r.proc \in Proc, NEW plan \in Plan,
           NEW how \in {"inactive", "cached", "grace", "live", "superseded",
                        "unavailable", "denied", "cleared", "thrown"},
           NEW warning \in {"none", "other-key", "unsaved", "removed", "stuck", "unconfirmed"}
    PROVE  /\ Replied(r, plan, how, warning) \in CallRecord
           /\ Replied(r, plan, how, warning).pc = "done"
           /\ WellIssued(Replied(r, plan, how, warning))
<1>1. /\ r.op \in {"none", "validate", "activate", "deactivate", "clear"}
      /\ r.proc \in Proc \cup {None} /\ r.key \in Key \cup {None}
      /\ r.at \in Nat /\ r.held \in Receipt \cup {None}
    BY DEF CallRecord
<1>2. /\ Replied(r, plan, how, warning) \in CallRecord
      /\ Replied(r, plan, how, warning).pc = "done"
      /\ Replied(r, plan, how, warning).proc = r.proc
    BY <1>1, RepliedType
<1> QED
    BY <1>2 DEF WellIssued

\* The same for a step whose call returns.
LEMMA ReturnStep ==
    ASSUME TypeInv, NEW c \in Call, call[c].pc # "idle", NEW plan \in Plan,
           NEW how \in {"inactive", "cached", "grace", "live", "superseded",
                        "unavailable", "denied", "cleared", "thrown"},
           NEW warning \in {"none", "other-key", "unsaved", "removed", "stuck", "unconfirmed"},
           Returns(c, plan, how, warning), clock' = clock, alive' = alive
    PROVE  /\ call' \in [Call -> CallRecord]
           /\ CallsAreIssued'
           /\ BindingIsGrant'
<1> DEFINE r == Replied(call[c], plan, how, warning)
<1>1. call[c] \in CallRecord /\ call[c].proc \in Proc
    BY DEF TypeInv, TypeOK, CallsAreIssued, WellIssued
<1>2. r \in CallRecord /\ r.pc = "done" /\ WellIssued(r)
    BY <1>1, ReturnedRecord
<1> QED
    BY <1>2, CallStep DEF Returns

\* Every step that starts a call keeps the type invariant.
LEMMA StartType ==
    ASSUME TypeInv, NEW c \in Call, NEW p \in Proc, Start(c, p)
    PROVE  TypeInv'
<1> DEFINE k == SelectedKey(p)
<1>1. k \in Key \cup {None} /\ TypeOK
    BY ConstantsAssumption DEF SelectedKey, TypeInv, TypeOK, Credential
<1> HIDE DEF k
<1>2. CASE ValidateUnactivated(c, p)
    <2> DEFINE i == Issued(p, "validate", None)
               r == Replied(i, "free", "inactive", "none")
    <2>1. i \in CallRecord /\ i.proc = p /\ "free" \in Plan
        BY <1>1, IssuedType DEF Plan
    <2>2. r \in CallRecord /\ WellIssued(r) /\ r.pc = "done"
        <3> HIDE DEF i
        <3> QED BY <2>1, ReturnedRecord
    <2> QED
        BY <1>1, <1>2, <2>2, CallStep DEF ValidateUnactivated, TypeInv, TypeOK
<1>3. CASE ValidateFromCache(c, p)
    <2> DEFINE i == [Issued(p, "validate", k) EXCEPT !.held = session[p][k].receipt]
               r == Replied(i, session[p][k].receipt.plan, "cached", "none")
    <2>1. session[p][k].receipt \in Receipt /\ k \in Key
        BY <1>1, <1>3 DEF ValidateFromCache, Fresh, TypeOK, Session, k
    <2>2. i \in CallRecord /\ i.proc = p
        BY <1>1, <2>1, IssuedType DEF CallRecord
    <2>3. session[p][k].receipt.plan \in Plan
        BY <2>1 DEF Receipt, Paid
    <2>4. r \in CallRecord /\ WellIssued(r) /\ r.pc = "done"
        <3> HIDE DEF i
        <3> QED BY <2>2, <2>3, ReturnedRecord
    <2> QED
        BY <1>1, <1>3, <2>4, CallStep DEF ValidateFromCache, k, TypeInv, TypeOK
<1>4. ASSUME NEW force \in BOOLEAN, StartValidate(c, p, force) PROVE TypeInv'
    <2>1. k \in Key
        BY <1>1, <1>4 DEF StartValidate, k
    <2>2. Issued(p, "validate", k) \in CallRecord /\ session[p][k] \in Session
        BY <1>1, <2>1, IssuedType DEF TypeOK
    <2>3. CASE Unbound(p, k)
        <3> DEFINE r == [Issued(p, "validate", k) EXCEPT !.epoch = session[p][k].epoch + 1]
        <3>1. r \in CallRecord
            BY <2>2 DEF CallRecord, Session
        <3>2. WellIssued(r) /\ r.pc # "binding"
            BY <2>1 DEF WellIssued, Issued, Blank, NoReply
        <3>3. /\ call' = [call EXCEPT ![c] = r] /\ Withdraw(p, {k})
              /\ UNCHANGED <<clock, provider, activations, file, alive, entitled>>
            BY <1>4, <2>3 DEF StartValidate, k
        <3> QED
            BY <1>1, <3>1, <3>2, <3>3, CallStep, WithdrawType DEF TypeInv, TypeOK
    <2>4. CASE ~Unbound(p, k)
        <3> DEFINE r == [Issued(p, "validate", k) EXCEPT !.held = session[p][k].receipt]
        <3>1. r \in CallRecord
            BY <2>2 DEF CallRecord, Session
        <3>2. WellIssued(r) /\ r.pc # "binding"
            BY <2>1 DEF WellIssued, Issued, Blank, NoReply
        <3>3. /\ call' = [call EXCEPT ![c] = r]
              /\ UNCHANGED <<session, overtaken, clock, provider, activations, file, alive, entitled>>
            BY <1>4, <2>4 DEF StartValidate, k
        <3> QED
            BY <1>1, <3>1, <3>2, <3>3, CallStep DEF TypeInv, TypeOK
    <2> QED BY <2>3, <2>4
<1>5. ASSUME NEW key \in Key, StartActivate(c, p, key) PROVE TypeInv'
    <2> DEFINE r == Issued(p, "activate", key)
    <2>1. r \in CallRecord /\ r.pc = "sent" /\ r.proc = p /\ r.key = key /\ r.reply = NoReply
        BY <1>1, IssuedType
    <2>2. WellIssued(r)
        BY <2>1 DEF WellIssued, NoReply
    <2> QED
        BY <1>1, <1>5, <2>1, <2>2, CallStep DEF StartActivate, TypeInv, TypeOK
<1>6. CASE StartDeactivate(c, p)
    <2> DEFINE asks == Owns(file, k) /\ file.activation # None
               r == [Issued(p, "deactivate", k) EXCEPT !.pc = IF asks THEN "sent" ELSE "removing"]
    <2>1. Issued(p, "deactivate", k) \in CallRecord
        BY <1>1, IssuedType
    <2>2. asks => k \in Key
        BY <1>1 DEF Owns, TypeOK, Credential
    <2> HIDE DEF asks
    <2>3. r \in CallRecord
        BY <2>1 DEF CallRecord
    <2>4. WellIssued(r) /\ r.pc # "binding"
        BY <2>2 DEF WellIssued, Issued, Blank, NoReply
    <2>5. /\ call' = [call EXCEPT ![c] = r] /\ Withdraw(p, Key)
          /\ UNCHANGED <<clock, provider, activations, file, alive, entitled>>
        BY <1>6 DEF StartDeactivate, k, asks
    <2> QED
        BY <1>1, <2>3, <2>4, <2>5, CallStep, WithdrawType DEF TypeInv, TypeOK
<1>7. CASE ClearLicenseState(c, p)
    <2> DEFINE i == Issued(p, "clear", None)
    <2>1. i \in CallRecord /\ i.proc = p
        BY <1>1, IssuedType
    <2>2. ASSUME NEW how \in {"cleared", "thrown"}, NEW warning \in {"none", "stuck"}
          PROVE  /\ Replied(i, "free", how, warning) \in CallRecord
                 /\ WellIssued(Replied(i, "free", how, warning))
                 /\ Replied(i, "free", how, warning).pc = "done"
        <3>1. "free" \in Plan
            BY DEF Plan
        <3> HIDE DEF i
        <3> QED BY <2>1, <3>1, ReturnedRecord
    <2>3. PICK how \in {"cleared", "thrown"}, warning \in {"none", "stuck"} :
             call' = [call EXCEPT ![c] = Replied(i, "free", how, warning)]
        BY <1>7 DEF ClearLicenseState
    <2>4. /\ Withdraw(p, Key) /\ file' \in {file, None}
          /\ UNCHANGED <<clock, provider, activations, alive, entitled>>
        BY <1>7 DEF ClearLicenseState
    <2> QED
        BY <1>1, <2>2, <2>3, <2>4, CallStep, WithdrawType DEF TypeInv, TypeOK
<1> QED
    BY <1>2, <1>3, <1>4, <1>5, <1>6, <1>7 DEF Start
\* A response is recorded in a call that waits for one.
LEMMA RespondStep ==
    ASSUME TypeInv, NEW c \in Call, InFlight(c),
           NEW kind \in {"data", "denied", "transient", "invalid"},
           NEW license \in LicenseRecord \cup {None},
           Responds(c, kind, license), clock' = clock, alive' = alive
    PROVE  /\ call' \in [Call -> CallRecord]
           /\ CallsAreIssued'
           /\ BindingIsGrant'
<1> DEFINE r == [call[c] EXCEPT !.pc = "answered", !.resp = [kind |-> kind, license |-> license]]
<1>1. call[c] \in CallRecord /\ WellIssued(call[c])
    BY DEF TypeInv, TypeOK, CallsAreIssued
<1>2. [kind |-> kind, license |-> license] \in Response
    BY DEF Response
<1>3. r \in CallRecord /\ r.pc = "answered"
    BY <1>1, <1>2 DEF CallRecord
<1>4. r.proc = call[c].proc /\ r.key = call[c].key /\ r.reply = call[c].reply
    BY <1>1 DEF CallRecord
<1>5. WellIssued(r)
    <2> HIDE DEF r
    <2> QED BY <1>1, <1>3, <1>4 DEF WellIssued, InFlight
<1>6. call' = [call EXCEPT ![c] = r]
    BY DEF Responds, TypeInv, TypeOK
<1> HIDE DEF r
<1> QED
    BY <1>3, <1>5, <1>6, CallStep

\* Every step of the provider or the network keeps the type invariant.
LEMMA PolarType ==
    ASSUME TypeInv, NEW c \in Call, Polar(c)
    PROVE  TypeInv'
<1>1. CASE ProviderAnswers(c)
    <2>1. InFlight(c) /\ provider[call[c].key] \in LicenseRecord \cup {None}
        BY <1>1, ConstantsAssumption
           DEF ProviderAnswers, InFlight, TypeInv, TypeOK, CallsAreIssued, WellIssued
    <2>2. /\ activations' \subseteq Call /\ Responds(c, "data", provider[call[c].key])
          /\ UNCHANGED <<clock, provider, file, session, alive, overtaken, entitled>>
        BY <1>1 DEF ProviderAnswers, TypeInv, TypeOK
    <2> QED BY <2>1, <2>2, RespondStep DEF TypeInv, TypeOK
<1>2. CASE ProviderRefuses(c)
    BY <1>2, RespondStep DEF ProviderRefuses, InFlight, TypeInv, TypeOK
<1>3. ASSUME NEW kind \in {"transient", "invalid"}, ResponseFails(c, kind) PROVE TypeInv'
    BY <1>3, RespondStep DEF ResponseFails, InFlight, TypeInv, TypeOK
<1> QED
    BY <1>1, <1>2, <1>3 DEF Polar

\* Every landing keeps the type invariant.
LEMMA LandType ==
    ASSUME TypeInv, NEW c \in Call, Land(c)
    PROVE  TypeInv'
<1>1. /\ TypeOK /\ CallsAreIssued
      /\ call[c] \in CallRecord /\ WellIssued(call[c])
      /\ "free" \in Plan
    BY DEF TypeInv, TypeOK, CallsAreIssued, Plan
<1>2. ASSUME Denies(c) \/ Grants(c)
      PROVE  /\ call[c].pc = "answered" /\ call[c].key \in Key /\ call[c].proc \in Proc
             /\ Decision(c) \in Credential
    BY <1>1, <1>2, DecisionType DEF Denies, Grants, Definitive, Lands, WellIssued
<1>3. CASE DenialStored(c)
    <2>1. PICK how \in {"denied", "thrown"}, warning \in {"other-key", "none"} :
            Returns(c, "free", how, warning)
        BY <1>3 DEF DenialStored, DenialReply
    <2>2. /\ Withdraw(call[c].proc, {call[c].key}) /\ file' \in {file, Decision(c)}
          /\ UNCHANGED <<clock, provider, activations, alive, entitled>>
          /\ Denies(c)
        BY <1>3 DEF DenialStored
    <2> QED BY <1>1, <1>2, <2>1, <2>2, ReturnStep, WithdrawType DEF TypeInv, TypeOK
<1>4. CASE DenialUnsaved(c)
    <2> DEFINE r == [call[c] EXCEPT !.pc = "clearing"]
    <2>1. r \in CallRecord /\ r.pc = "clearing"
        BY <1>1 DEF CallRecord
    <2>2. r.proc = call[c].proc /\ r.key = call[c].key /\ r.reply = call[c].reply
        BY <1>1 DEF CallRecord
    <2>3. /\ Withdraw(call[c].proc, {call[c].key}) /\ call' = [call EXCEPT ![c] = r]
          /\ UNCHANGED <<clock, provider, activations, file, alive, entitled>>
          /\ Denies(c)
        BY <1>1, <1>4 DEF DenialUnsaved, TypeOK
    <2> HIDE DEF r
    <2>4. WellIssued(r)
        BY <1>1, <1>2, <2>1, <2>2, <2>3 DEF WellIssued
    <2> QED BY <1>1, <2>1, <2>3, <2>4, CallStep, WithdrawType DEF TypeInv, TypeOK
<1>5. CASE ClearAfterDenial(c)
    <2>1. PICK how \in {"denied", "thrown"}, warning \in {"removed", "stuck"} :
            Returns(c, "free", how, warning)
        BY <1>5 DEF ClearAfterDenial, DenialReply
    <2>2. /\ Withdraw(call[c].proc, Key) /\ file' \in {file, None} /\ call[c].pc = "clearing"
          /\ UNCHANGED <<clock, provider, activations, alive, entitled>>
        BY <1>5 DEF ClearAfterDenial
    <2> QED BY <1>1, <2>1, <2>2, ReturnStep, WithdrawType DEF TypeInv, TypeOK
<1>6. CASE RejectActivation(c)
    BY <1>1, <1>2, <1>6, ReturnStep, WithdrawType DEF RejectActivation, TypeInv, TypeOK
<1>7. CASE GrantSuperseded(c)
    BY <1>1, <1>2, <1>7, ReturnStep DEF GrantSuperseded, TypeInv, TypeOK
<1>8. CASE GrantPersisted(c)
    <2>1. PICK warning \in {"other-key", "none", "unsaved"} :
            /\ call' = [call EXCEPT ![c].pc = "binding", ![c].reply.warning = warning]
            /\ file' \in {file, Decision(c)}
        BY <1>8 DEF GrantPersisted
    <2> DEFINE r == [call[c] EXCEPT !.pc = "binding", !.reply = [call[c].reply EXCEPT !.warning = warning]]
    <2>2. [call[c].reply EXCEPT !.warning = warning] \in Reply
        BY <1>1 DEF CallRecord, Reply
    <2>3. r \in CallRecord /\ r.pc = "binding"
        BY <1>1, <2>2 DEF CallRecord
    <2>4. /\ r.proc = call[c].proc /\ r.key = call[c].key
          /\ r.op = call[c].op /\ r.at = call[c].at /\ r.resp = call[c].resp
          /\ r.reply.how = call[c].reply.how /\ r.reply.plan = call[c].reply.plan
        BY <1>1 DEF CallRecord, Reply
    <2>5. \A d \in Call : call'[d] = IF d = c THEN r ELSE call[d]
        BY <1>1, <2>1 DEF TypeOK
    <2>6. /\ UNCHANGED <<clock, provider, activations, session, alive, overtaken, entitled>>
          /\ Grants(c)
        BY <1>8 DEF GrantPersisted
    <2>7. call' \in [Call -> CallRecord]
        BY <1>1, <2>1, <2>3, <2>5 DEF TypeOK
    <2> HIDE DEF r
    <2>8. CallsAreIssued'
        BY <1>1, <1>2, <2>3, <2>4, <2>5, <2>6 DEF CallsAreIssued, WellIssued
    <2>9. ASSUME NEW d \in Call, call'[d].pc = "binding", call'[d].proc \in alive'
          PROVE  Decision(d).plan' # "free"
        <3>1. Decision(d).plan' = Decision(d).plan
            BY <2>4, <2>5, <2>6, DecisionPlanStable
        <3>2. CASE d = c
            BY <2>6, <3>1, <3>2 DEF Grants
        <3>3. CASE d # c
            BY <2>5, <2>6, <2>9, <3>1, <3>3 DEF TypeInv, BindingIsGrant
        <3> QED BY <3>2, <3>3
    <2> QED
        BY <1>1, <1>2, <2>1, <2>6, <2>7, <2>8, <2>9 DEF TypeInv, TypeOK, BindingIsGrant
<1>9. CASE BindReceipt(c)
    <2> DEFINE next == Decision(c)
               receipt == [plan |-> next.plan, at |-> next.at, expires |-> next.expires,
                           source |-> file, grant |-> c]
    <2>1. /\ call[c].pc = "binding" /\ call[c].proc \in alive
          /\ UNCHANGED <<clock, provider, activations, file, alive, overtaken, entitled>>
          /\ Returns(c, next.plan, "live", call[c].reply.warning)
          /\ session' = [session EXCEPT ![call[c].proc][call[c].key].receipt = receipt]
        BY <1>9 DEF BindReceipt
    <2>2. call[c].key \in Key /\ call[c].proc \in Proc /\ next \in Credential /\ next.plan # "free"
        BY <1>1, <2>1, DecisionType DEF WellIssued, TypeInv, BindingIsGrant
    <2> HIDE DEF next
    <2>3. receipt \in Receipt
        BY <1>1, <2>2 DEF Receipt, Credential, Paid, TypeOK
    <2> HIDE DEF receipt
    <2>4. session' \in [Proc -> [Key -> Session]]
        <3> DEFINE p == call[c].proc
                   k == call[c].key
                   changed == [session[p][k] EXCEPT !.receipt = receipt]
        <3>0. session[p][k] \in Session
            BY <1>1, <2>2 DEF TypeOK
        <3>1. changed \in Session
            <4> HIDE DEF p, k
            <4> QED BY <2>3, <3>0 DEF Session
        <3>2. session' = [session EXCEPT ![p] = [session[p] EXCEPT ![k] = changed]]
            BY <1>1, <2>1, <2>2 DEF TypeOK
        <3> HIDE DEF changed, p, k
        <3>3. p \in Proc /\ k \in Key
            BY <2>2 DEF p, k
        <3> QED BY <1>1, <3>1, <3>2, <3>3 DEF TypeOK
    <2>5. call[c].reply.warning \in {"none", "other-key", "unsaved", "removed", "stuck", "unconfirmed"}
        BY <1>1 DEF CallRecord, Reply
    <2>6. next.plan \in Plan
        BY <2>2 DEF Credential
    <2> QED
        BY <1>1, <2>1, <2>4, <2>5, <2>6, ReturnStep DEF TypeInv, TypeOK
<1>10. CASE LandTransient(c)
    <2>1. /\ call[c].pc = "answered"
          /\ UNCHANGED <<clock, provider, activations, file, session, alive, overtaken, entitled>>
        BY <1>10 DEF LandTransient, Lands
    <2>2. \/ \E how \in {"thrown", "unavailable"} : Returns(c, "free", how, "none")
          \/ Fresh(call[c].held, call[c].at, Grace) /\ Returns(c, call[c].held.plan, "grace", "none")
        BY <1>10 DEF LandTransient
    <2>3. Fresh(call[c].held, call[c].at, Grace) => call[c].held.plan \in Plan
        BY <1>1 DEF Fresh, CallRecord, Receipt, Paid
    <2> QED
        BY <1>1, <2>1, <2>2, <2>3, ReturnStep DEF TypeInv, TypeOK
<1>11. CASE LandInvalid(c)
    <2>1. /\ call[c].pc = "answered" /\ UNCHANGED <<clock, provider, activations, file, alive, entitled>>
          /\ \E how \in {"thrown", "unavailable"} : Returns(c, "free", how, "none")
          /\ Withdraw(call[c].proc, {call[c].key}) \/ UNCHANGED <<session, overtaken>>
        BY <1>11 DEF LandInvalid, Lands
    <2> QED
        BY <1>1, <2>1, ReturnStep, WithdrawType DEF TypeInv, TypeOK
<1>12. CASE FinishDeactivate(c)
    <2>1. /\ call[c].pc # "idle" /\ UNCHANGED <<clock, provider, activations, alive, entitled>>
          /\ file' \in {file, None} /\ Withdraw(call[c].proc, Key)
          /\ \E how \in {"cleared", "thrown"}, warning \in {"none", "unconfirmed", "stuck"} :
                Returns(c, "free", how, warning)
        BY <1>12 DEF FinishDeactivate, Lands
    <2> QED
        BY <1>1, <2>1, ReturnStep, WithdrawType DEF TypeInv, TypeOK
<1> QED
    BY <1>3, <1>4, <1>5, <1>6, <1>7, <1>8, <1>9, <1>10, <1>11, <1>12 DEF Land

\* Every step of the environment keeps the type invariant.
LEMMA EnvironmentType ==
    ASSUME TypeInv, Environment
    PROVE  TypeInv'
<1>1. ASSUME NEW k \in Key, NEW license \in License[k], SetProvider(k, license)
      PROVE  TypeInv'
    <2>1. /\ provider' \in [Key -> LicenseRecord \cup {None}] /\ clock \in Int
          /\ UNCHANGED <<clock, activations, file, session, call, alive, overtaken>>
        <3>1. license \in LicenseRecord \cup {None}
            BY <1>1, ConstantsAssumption
        <3> QED
            BY <1>1, <3>1, ConstantsAssumption DEF SetProvider, TypeInv, TypeOK
    <2>2. entitled' \in [Key -> [Paid -> Int]]
        BY <1>1, <2>1, RememberedType DEF SetProvider, TypeInv
    <2>3. \A c \in Call : Decision(c).plan' = Decision(c).plan
        BY <2>1, DecisionPlanStable
    <2> QED
        BY <2>1, <2>2, <2>3 DEF TypeInv, TypeOK, CallsAreIssued, BindingIsGrant
<1>2. CASE Tick
    <2>1. /\ clock' \in 0 .. MaxTime /\ clock' \in Int
          /\ UNCHANGED <<provider, activations, file, session, alive, overtaken>>
        BY <1>2, ConstantsAssumption DEF Tick, TypeInv, TypeOK
    <2>2. entitled' \in [Key -> [Paid -> Int]]
        BY <1>2, <2>1, RememberedType DEF Tick, TypeInv
    <2>3. ASSUME NEW c \in Call
          PROVE  /\ call'[c] \in CallRecord
                 /\ call'[c].pc = call[c].pc /\ call'[c].proc = call[c].proc
                 /\ call'[c].key = call[c].key /\ call'[c].reply = call[c].reply
        <3> DEFINE r == [call[c] EXCEPT !.left = @ - 1]
        <3>1. call[c] \in CallRecord
            BY DEF TypeInv, TypeOK
        <3>2. call[c].left > 0 => r \in CallRecord
            BY <3>1 DEF CallRecord
        <3>3. r.pc = call[c].pc /\ r.proc = call[c].proc /\ r.key = call[c].key /\ r.reply = call[c].reply
            BY <3>1 DEF CallRecord
        <3>4. call'[c] = IF InFlight(c) /\ call[c].left > 0 THEN r ELSE call[c]
            BY <1>2 DEF Tick
        <3> HIDE DEF r
        <3> QED BY <3>1, <3>2, <3>3, <3>4
    <2>4. call' \in [Call -> CallRecord]
        BY <1>2, <2>3 DEF Tick
    <2>5. CallsAreIssued'
        BY <2>3 DEF TypeInv, CallsAreIssued, WellIssued
    <2>6. BindingIsGrant'
        BY <1>2, <2>1, <2>3 DEF Tick, FileStep, BindingIsGrant
    <2> QED
        BY <2>1, <2>2, <2>4, <2>5, <2>6 DEF TypeInv, TypeOK
<1>3. ASSUME NEW p \in Proc, Crash(p) PROVE TypeInv'
    <2>1. /\ alive' \subseteq alive
          /\ UNCHANGED <<clock, provider, activations, file, session, call, overtaken, entitled>>
        BY <1>3 DEF Crash
    <2>2. \A c \in Call : Decision(c).plan' = Decision(c).plan
        BY <2>1, DecisionPlanStable
    <2> QED
        BY <2>1, <2>2 DEF TypeInv, TypeOK, CallsAreIssued, BindingIsGrant
<1> QED
    BY <1>1, <1>2, <1>3 DEF Environment
-----------------------------------------------------------------------------
(* Type correctness *)

\* Init establishes the type invariant and its strengthening.
LEMMA InitType == Init => TypeInv
<1> SUFFICES ASSUME Init PROVE TypeInv
    OBVIOUS
<1>1. Blank \in CallRecord /\ WellIssued(Blank) /\ Blank.pc = "idle"
    BY DEF Blank, CallRecord, WellIssued, NoReply, NoResponse, Response, Reply, Plan
<1>2. [k \in Key |-> [q \in Paid |-> IF ParsedPlan(provider[k], 0) = q THEN 0 ELSE -1]]
        \in [Key -> [Paid -> Int]]
    OBVIOUS
<1>3. provider \in [Key -> LicenseRecord \cup {None}]
    BY ConstantsAssumption DEF Init
<1>5. TypeOK
    BY <1>1, <1>2, <1>3, ConstantsAssumption DEF Init, TypeOK, Session
<1>4. CallsAreIssued /\ BindingIsGrant
    BY <1>1 DEF Init, CallsAreIssued, BindingIsGrant
<1> QED
    BY <1>4, <1>5 DEF TypeInv

\* TypeInv is inductive.
LEMMA TypeStep == TypeInv /\ [Next]_vars => TypeInv'
<1> SUFFICES ASSUME TypeInv, [Next]_vars PROVE TypeInv'
    OBVIOUS
<1>1. CASE UNCHANGED vars
    <2>1. \A c \in Call : Decision(c).plan' = Decision(c).plan
        BY <1>1, DecisionPlanStable DEF vars
    <2> QED
        BY <1>1, <2>1 DEF vars, TypeInv, TypeOK, CallsAreIssued, BindingIsGrant
<1>2. CASE Next
    BY <1>2, StartType, PolarType, LandType, EnvironmentType DEF Next
<1> QED
    BY <1>1, <1>2

\* Every variable of license.js's model keeps its type, whatever the interleaving.
THEOREM TypeCorrect == Spec => []TypeOK
<1>1. Spec => []TypeInv
    BY InitType, TypeStep, PTL DEF Spec
<1>2. TypeInv => TypeOK
    BY DEF TypeInv
<1> QED
    BY <1>1, <1>2, PTL

-----------------------------------------------------------------------------
(* Withdrawn calls: the inductive invariant *)

\* At most one call of a process is in the middle of its file work.
OneFileStep ==
    \A c, d \in Call :
        FileStep(c) /\ FileStep(d) /\ call[c].proc = call[d].proc => c = d

\* What makes a call harmless once it is overtaken: while its answer is pending its
\* epoch is behind its session's, a receipt it holds is overtaken only together with
\* it, and it never reaches the point where a receipt is bound.
CallSafe(c) ==
    LET r == call[c] IN
    /\ c \in overtaken => r.pc # "idle"
    /\ r.pc = "binding" => c \notin overtaken
    /\ InFlight(c) =>
         /\ r.epoch <= session[r.proc][r.key].epoch
         /\ c \in overtaken => r.epoch < session[r.proc][r.key].epoch
         /\ r.held # None => /\ call[r.held.grant].proc = r.proc
                             /\ call[r.held.grant].key = r.key
                             /\ r.held.grant \in overtaken => c \in overtaken

SafetyInv == TypeInv /\ OneFileStep /\ (\A c \in Call : CallSafe(c)) /\ ReceiptBacked

\* A step of call c alone: no other call changes, and c keeps its owner and key.
StepOf(c) ==
    /\ call[c].pc # "done"
    /\ \A d \in Call : d # c => call'[d] = call[d]
    /\ call[c].pc # "idle" => call'[c].proc = call[c].proc /\ call'[c].key = call[c].key

\* A call that was issued keeps its owner, and a call that returned its reply.
LEMMA OwnersAreStable ==
    ASSUME SafetyInv, NEW c \in Call, StepOf(c), NEW d \in Call
    PROVE  /\ call[d].proc \in Proc => call'[d].proc = call[d].proc /\ call'[d].key = call[d].key
           /\ call[d].reply.how = "live" => call'[d].reply = call[d].reply
<1>1. WellIssued(call[d]) /\ None \notin Proc
    BY ConstantsAssumption DEF SafetyInv, TypeInv, CallsAreIssued
<1> QED
    BY <1>1 DEF StepOf, WellIssued

\* A step that leaves sessions and history alone keeps every other call safe.
LEMMA QuietKeeps ==
    ASSUME SafetyInv, NEW c \in Call, StepOf(c), UNCHANGED <<session, overtaken>>, CallSafe(c)'
    PROVE  (\A d \in Call : CallSafe(d))' /\ ReceiptBacked'
<1>1. ASSUME NEW d \in Call, d # c PROVE CallSafe(d)'
    <2>1. call'[d] = call[d] /\ CallSafe(d) /\ call[d] \in CallRecord /\ WellIssued(call[d])
        BY <1>1 DEF StepOf, SafetyInv, TypeInv, TypeOK, CallsAreIssued
    <2>2. ASSUME InFlight(d), call[d].held # None
          PROVE  /\ call'[call[d].held.grant].proc = call[d].proc
                 /\ call'[call[d].held.grant].key = call[d].key
        <3>1. call[d].held.grant \in Call /\ call[d].proc \in Proc
            BY <2>1, <2>2 DEF CallRecord, Receipt, WellIssued, InFlight
        <3>2. /\ call[call[d].held.grant].proc = call[d].proc
              /\ call[call[d].held.grant].key = call[d].key
            BY <2>1, <2>2 DEF CallSafe
        <3> QED BY <3>1, <3>2, OwnersAreStable
    <2> QED
        BY <2>1, <2>2 DEF CallSafe, InFlight
<1>2. ReceiptBacked'
    <2> SUFFICES ASSUME NEW p \in Proc, NEW k \in Key, session[p][k].receipt # None
                 PROVE  LET g == session[p][k].receipt.grant IN
                        /\ g \notin overtaken
                        /\ call'[g].proc = p /\ call'[g].key = k
                        /\ call'[g].reply.how = "live"
                        /\ call'[g].reply.plan = session[p][k].receipt.plan
        BY DEF ReceiptBacked
    <2> DEFINE g == session[p][k].receipt.grant
    <2>1. g \in Call
        BY DEF SafetyInv, TypeInv, TypeOK, Session, Receipt
    <2>2. /\ g \notin overtaken /\ call[g].proc = p /\ call[g].key = k
          /\ call[g].reply.how = "live" /\ call[g].reply.plan = session[p][k].receipt.plan
        BY DEF SafetyInv, ReceiptBacked
    <2> HIDE DEF g
    <2>3. call'[g].proc = p /\ call'[g].key = k /\ call'[g].reply = call[g].reply
        BY <2>1, <2>2, OwnersAreStable
    <2> QED BY <2>2, <2>3 DEF g
<1> QED
    BY <1>1, <1>2

\* So does a step that withdraws sessions of a process none of whose other calls is
\* about to bind a receipt.
LEMMA WithdrawKeeps ==
    ASSUME SafetyInv, NEW c \in Call, StepOf(c), CallSafe(c)',
           NEW p \in Proc, NEW keys, Withdraw(p, keys),
           \A d \in Call : d # c /\ call[d].proc = p => ~FileStep(d)
    PROVE  (\A d \in Call : CallSafe(d))' /\ ReceiptBacked'
<1>1. /\ overtaken' = overtaken \cup {d \in Call : call[d].proc = p /\ call[d].key \in keys}
      /\ \A q \in Proc, k \in Key :
           session'[q][k] = IF q = p /\ k \in keys THEN Revoked(session[q][k]) ELSE session[q][k]
    BY DEF Withdraw, SafetyInv, TypeInv, TypeOK
<1>2. \A q \in Proc, k \in Key : session[q][k] \in Session
    BY DEF SafetyInv, TypeInv, TypeOK
<1>3. ASSUME NEW d \in Call, d # c PROVE CallSafe(d)'
    <2>1. call'[d] = call[d] /\ CallSafe(d) /\ call[d] \in CallRecord /\ WellIssued(call[d])
        BY <1>3 DEF StepOf, SafetyInv, TypeInv, TypeOK, CallsAreIssued
    <2>2. d \in overtaken' => call[d].pc # "idle"
        BY <1>1, <2>1, ConstantsAssumption DEF CallSafe, WellIssued
    <2>3. call[d].pc = "binding" => d \notin overtaken'
        BY <1>1, <1>3, <2>1 DEF CallSafe, FileStep
    <2>4. ASSUME InFlight(d)
          PROVE  /\ call[d].epoch <= session'[call[d].proc][call[d].key].epoch
                 /\ d \in overtaken' => call[d].epoch < session'[call[d].proc][call[d].key].epoch
        <3>1. call[d].proc \in Proc /\ call[d].key \in Key /\ call[d].epoch \in Nat
            BY <2>1, <2>4 DEF WellIssued, InFlight, CallRecord
        <3>2. session[call[d].proc][call[d].key].epoch \in Nat
            BY <1>2, <3>1 DEF Session
        <3> DEFINE old == session[call[d].proc][call[d].key]
        <3>3. Revoked(old).epoch = old.epoch + 1
            BY DEF Revoked
        <3>4. /\ call[d].epoch <= old.epoch
              /\ d \in overtaken => call[d].epoch < old.epoch
            BY <2>1, <2>4 DEF CallSafe
        <3>5. CASE call[d].proc = p /\ call[d].key \in keys
            <4>1. session'[call[d].proc][call[d].key] = Revoked(old)
                BY <1>1, <3>1, <3>5
            <4> QED BY <3>1, <3>2, <3>3, <3>4, <4>1
        <3>6. CASE ~(call[d].proc = p /\ call[d].key \in keys)
            <4>1. session'[call[d].proc][call[d].key] = old /\ (d \in overtaken' => d \in overtaken)
                BY <1>1, <3>1, <3>6
            <4> QED BY <3>4, <4>1
        <3> QED BY <3>5, <3>6
    <2>5. ASSUME InFlight(d), call[d].held # None
          PROVE  /\ call'[call[d].held.grant].proc = call[d].proc
                 /\ call'[call[d].held.grant].key = call[d].key
                 /\ call[d].held.grant \in overtaken' => d \in overtaken'
        <3>1. call[d].held.grant \in Call /\ call[d].proc \in Proc
            BY <2>1, <2>5 DEF CallRecord, Receipt, WellIssued, InFlight
        <3>2. /\ call[call[d].held.grant].proc = call[d].proc
              /\ call[call[d].held.grant].key = call[d].key
              /\ call[d].held.grant \in overtaken => d \in overtaken
            BY <2>1, <2>5 DEF CallSafe
        <3> QED BY <1>1, <3>1, <3>2, OwnersAreStable
    <2> QED
        BY <2>1, <2>2, <2>3, <2>4, <2>5 DEF CallSafe, InFlight
<1>4. ReceiptBacked'
    <2> SUFFICES ASSUME NEW q \in Proc, NEW k \in Key, session'[q][k].receipt # None
                 PROVE  LET g == session'[q][k].receipt.grant IN
                        /\ g \notin overtaken'
                        /\ call'[g].proc = q /\ call'[g].key = k
                        /\ call'[g].reply.how = "live"
                        /\ call'[g].reply.plan = session'[q][k].receipt.plan
        BY DEF ReceiptBacked
    <2>1. ~(q = p /\ k \in keys) /\ session'[q][k] = session[q][k]
        <3>1. Revoked(session[q][k]).receipt = None
            BY DEF Revoked
        <3> QED BY <1>1, <3>1
    <2> DEFINE g == session[q][k].receipt.grant
    <2>2. g \in Call
        BY <1>2, <2>1 DEF Session, Receipt
    <2>3. /\ g \notin overtaken /\ call[g].proc = q /\ call[g].key = k
          /\ call[g].reply.how = "live" /\ call[g].reply.plan = session[q][k].receipt.plan
        BY <2>1 DEF SafetyInv, ReceiptBacked
    <2> HIDE DEF g
    <2>4. call'[g].proc = q /\ call'[g].key = k /\ call'[g].reply = call[g].reply
        BY <2>2, <2>3, OwnersAreStable
    <2>5. g \notin overtaken'
        BY <1>1, <2>1, <2>3
    <2> QED BY <2>1, <2>3, <2>4, <2>5 DEF g
<1> QED
    BY <1>3, <1>4

\* A step keeps OneFileStep when its call enters the file work only with the
\* process free.
LEMMA FileStepKeeps ==
    ASSUME SafetyInv, NEW c \in Call, StepOf(c),
           FileStep(c)' => FileStep(c) \/ Runs(call'[c].proc)
    PROVE  OneFileStep'
<1> SUFFICES ASSUME NEW d \in Call, NEW e \in Call, FileStep(d)', FileStep(e)',
                    call'[d].proc = call'[e].proc
             PROVE  d = e
    BY DEF OneFileStep
<1>1. \A x \in Call : FileStep(x) => call[x].pc # "idle"
    BY DEF FileStep
<1>2. ASSUME NEW x \in Call, x # c, FileStep(x)', call'[x].proc = call'[c].proc, FileStep(c)'
      PROVE  FALSE
    BY <1>1, <1>2 DEF StepOf, Runs, FileStep, SafetyInv, OneFileStep
<1> QED
    BY <1>2 DEF StepOf, FileStep, SafetyInv, OneFileStep
\* A call that neither waits for an answer nor binds a receipt is safe.
LEMMA SettledIsSafe ==
    ASSUME NEW c \in Call, call'[c].pc \in {"done", "clearing", "removing"}
    PROVE  CallSafe(c)'
BY DEF CallSafe, InFlight

\* What a step that makes a call return does to the calls.
LEMMA ReturnsFrame ==
    ASSUME TypeInv, NEW c \in Call, call[c].pc \notin {"idle", "done"},
           NEW plan, NEW how, NEW warning, Returns(c, plan, how, warning)
    PROVE  /\ StepOf(c) /\ call'[c].pc = "done"
           /\ call'[c].reply.plan = plan /\ call'[c].reply.how = how
<1> DEFINE r == Replied(call[c], plan, how, warning)
<1>1. /\ r.pc = "done" /\ r.proc = call[c].proc /\ r.key = call[c].key
      /\ r.reply.plan = plan /\ r.reply.how = how
    BY DEF Replied, Blank
<1>2. \A d \in Call : call'[d] = IF d = c THEN r ELSE call[d]
    BY DEF Returns, TypeInv, TypeOK
<1> HIDE DEF r
<1> QED
    BY <1>1, <1>2 DEF StepOf

\* Starting a call keeps the safety invariant.
LEMMA StartSafe ==
    ASSUME SafetyInv, NEW c \in Call, NEW p \in Proc, Start(c, p)
    PROVE  OneFileStep' /\ (\A d \in Call : CallSafe(d))' /\ ReceiptBacked'
<1> DEFINE k == SelectedKey(p)
<1>1. /\ TypeInv /\ TypeOK /\ Starts(c, p) /\ k \in Key \cup {None}
      /\ call[c].pc = "idle" /\ call[c].proc = None /\ c \notin overtaken /\ p # None
      /\ \A d \in Call : call[d].proc = p => ~FileStep(d)
    <2>1. Starts(c, p)
        BY DEF Start, ValidateUnactivated, ValidateFromCache, StartValidate, StartActivate,
               StartDeactivate, ClearLicenseState
    <2> QED
        BY <2>1, ConstantsAssumption
           DEF SafetyInv, TypeInv, TypeOK, Starts, Runs, CallsAreIssued, WellIssued, CallSafe,
               SelectedKey, Credential
<1> HIDE DEF k
<1>2. ASSUME NEW r, call' = [call EXCEPT ![c] = r], r.proc = p
      PROVE  StepOf(c) /\ call'[c] = r /\ OneFileStep'
    <2>1. StepOf(c) /\ call'[c] = r
        BY <1>1, <1>2 DEF StepOf, TypeOK
    <2> QED BY <1>1, <1>2, <2>1, FileStepKeeps DEF Starts
<1>3. ASSUME NEW keys, Withdraw(p, keys) PROVE c \notin overtaken'
    BY <1>1, <1>3 DEF Withdraw
<1>4. CASE ValidateUnactivated(c, p)
    <2> DEFINE r == Replied(Issued(p, "validate", None), "free", "inactive", "none")
    <2>1. r.pc = "done" /\ r.proc = p
        BY DEF Replied, Issued, Blank
    <2>2. call' = [call EXCEPT ![c] = r] /\ UNCHANGED <<session, overtaken>>
        BY <1>4 DEF ValidateUnactivated
    <2> HIDE DEF r
    <2> QED BY <1>2, <2>1, <2>2, SettledIsSafe, QuietKeeps
<1>5. CASE ValidateFromCache(c, p)
    <2> DEFINE r == Replied([Issued(p, "validate", k) EXCEPT !.held = session[p][k].receipt],
                            session[p][k].receipt.plan, "cached", "none")
    <2>1. r.pc = "done" /\ r.proc = p
        BY DEF Replied, Issued, Blank
    <2>2. call' = [call EXCEPT ![c] = r] /\ UNCHANGED <<session, overtaken>>
        BY <1>5 DEF ValidateFromCache, k
    <2> HIDE DEF r
    <2> QED BY <1>2, <2>1, <2>2, SettledIsSafe, QuietKeeps
<1>6. ASSUME NEW force \in BOOLEAN, StartValidate(c, p, force)
      PROVE  OneFileStep' /\ (\A d \in Call : CallSafe(d))' /\ ReceiptBacked'
    <2>1. k \in Key /\ session[p][k] \in Session
        BY <1>1, <1>6 DEF StartValidate, k, TypeOK
    <2>2. k # None
        BY <2>1, ConstantsAssumption
    <2>3. CASE Unbound(p, k)
        <3> DEFINE r == [Issued(p, "validate", k) EXCEPT !.epoch = session[p][k].epoch + 1]
        <3>1. r.pc = "sent" /\ r.proc = p /\ r.key = k /\ r.held = None
              /\ r.epoch = session[p][k].epoch + 1
            BY DEF Issued, Blank
        <3>2. call' = [call EXCEPT ![c] = r] /\ Withdraw(p, {k})
            BY <1>6, <2>3 DEF StartValidate, k
        <3>3. session'[p][k].epoch = session[p][k].epoch + 1
            BY <1>1, <2>1, <3>2 DEF Withdraw, Revoked, TypeOK
        <3> HIDE DEF r
        <3>4. StepOf(c) /\ call'[c] = r /\ OneFileStep' /\ c \notin overtaken'
            BY <1>2, <1>3, <3>1, <3>2
        <3>5. CallSafe(c)'
            BY <2>1, <3>1, <3>3, <3>4 DEF CallSafe, Session
        <3> QED BY <1>1, <3>2, <3>4, <3>5, WithdrawKeeps
    <2>4. CASE ~Unbound(p, k)
        <3> DEFINE receipt == session[p][k].receipt
                   r == [Issued(p, "validate", k) EXCEPT !.held = receipt]
        <3>1. r.pc = "sent" /\ r.proc = p /\ r.key = k /\ r.held = receipt
              /\ r.epoch = session[p][k].epoch
            BY <2>2 DEF Issued, Blank
        <3>2. call' = [call EXCEPT ![c] = r] /\ UNCHANGED <<session, overtaken>>
            BY <1>6, <2>4 DEF StartValidate, k
        <3> HIDE DEF r
        <3>3. StepOf(c) /\ call'[c] = r /\ OneFileStep' /\ c \notin overtaken'
            BY <1>1, <1>2, <3>1, <3>2
        <3>4. receipt # None => /\ receipt.grant \in Call /\ receipt.grant \notin overtaken
                               /\ call[receipt.grant].proc = p /\ call[receipt.grant].key = k
            BY <2>1 DEF SafetyInv, ReceiptBacked, Session, Receipt
        <3> HIDE DEF receipt
        <3>5. receipt # None => call'[receipt.grant].proc = p /\ call'[receipt.grant].key = k
            BY <3>3, <3>4, OwnersAreStable
        <3>6. CallSafe(c)'
            BY <2>1, <3>1, <3>2, <3>3, <3>4, <3>5 DEF CallSafe, Session
        <3> QED BY <3>2, <3>3, <3>6, QuietKeeps
    <2> QED BY <2>3, <2>4
<1>7. ASSUME NEW key \in Key, StartActivate(c, p, key)
      PROVE  OneFileStep' /\ (\A d \in Call : CallSafe(d))' /\ ReceiptBacked'
    <2> DEFINE r == Issued(p, "activate", key)
    <2>1. key # None /\ session[p][key] \in Session
        BY <1>1, ConstantsAssumption DEF TypeOK
    <2>2. r.pc = "sent" /\ r.proc = p /\ r.key = key /\ r.held = None /\ r.epoch = session[p][key].epoch
        BY <2>1 DEF Issued, Blank
    <2>3. call' = [call EXCEPT ![c] = r] /\ UNCHANGED <<session, overtaken>>
        BY <1>7 DEF StartActivate
    <2> HIDE DEF r
    <2>4. StepOf(c) /\ call'[c] = r /\ OneFileStep' /\ c \notin overtaken'
        BY <1>1, <1>2, <2>2, <2>3
    <2>5. CallSafe(c)'
        BY <2>1, <2>2, <2>3, <2>4 DEF CallSafe, Session
    <2> QED BY <2>3, <2>4, <2>5, QuietKeeps
<1>8. CASE StartDeactivate(c, p)
    <2> DEFINE r == [Issued(p, "deactivate", k) EXCEPT
                       !.pc = IF Owns(file, k) /\ file.activation # None THEN "sent" ELSE "removing"]
    <2>1. r.pc \in {"sent", "removing"} /\ r.proc = p /\ r.key = k /\ r.held = None
        BY DEF Issued, Blank
    <2>2. r.pc = "sent" => k \in Key /\ k # None
        BY <1>1, ConstantsAssumption DEF Issued, Blank, Owns, TypeOK, Credential
    <2>3. k # None => r.epoch = session[p][k].epoch
        BY DEF Issued, Blank
    <2>4. call' = [call EXCEPT ![c] = r] /\ Withdraw(p, Key)
        BY <1>8 DEF StartDeactivate, k
    <2> HIDE DEF r
    <2>5. k \in Key => session'[p][k].epoch = session[p][k].epoch + 1 /\ session[p][k].epoch \in Nat
        BY <1>1, <2>4 DEF Withdraw, Revoked, TypeOK, Session
    <2>6. StepOf(c) /\ call'[c] = r /\ OneFileStep' /\ c \notin overtaken'
        BY <1>2, <1>3, <2>1, <2>4
    <2>7. CallSafe(c)'
        BY <2>1, <2>2, <2>3, <2>5, <2>6 DEF CallSafe, InFlight
    <2> QED BY <1>1, <2>4, <2>6, <2>7, WithdrawKeeps
<1>9. CASE ClearLicenseState(c, p)
    <2>1. PICK how, warning : call' = [call EXCEPT ![c] = Replied(Issued(p, "clear", None), "free", how, warning)]
        BY <1>9 DEF ClearLicenseState
    <2> DEFINE r == Replied(Issued(p, "clear", None), "free", how, warning)
    <2>2. r.pc = "done" /\ r.proc = p
        BY DEF Replied, Issued, Blank
    <2>3. call' = [call EXCEPT ![c] = r] /\ Withdraw(p, Key)
        BY <1>9, <2>1 DEF ClearLicenseState
    <2> HIDE DEF r
    <2>4. StepOf(c) /\ call'[c] = r /\ OneFileStep'
        BY <1>2, <2>2, <2>3
    <2> QED BY <1>1, <2>2, <2>3, <2>4, SettledIsSafe, WithdrawKeeps
<1> QED
    BY <1>4, <1>5, <1>6, <1>7, <1>8, <1>9 DEF Start
\* The provider's and the network's steps keep the safety invariant.
LEMMA PolarSafe ==
    ASSUME SafetyInv, NEW c \in Call, Polar(c)
    PROVE  OneFileStep' /\ (\A d \in Call : CallSafe(d))' /\ ReceiptBacked'
<1>1. PICK kind, license : Responds(c, kind, license)
    BY DEF Polar, ProviderAnswers, ProviderRefuses, ResponseFails
<1>2. InFlight(c) /\ UNCHANGED <<session, overtaken>>
    BY DEF Polar, ProviderAnswers, ProviderRefuses, ResponseFails, InFlight
<1>3. /\ \A d \in Call : d # c => call'[d] = call[d]
      /\ call'[c].pc = "answered"
      /\ call'[c].proc = call[c].proc /\ call'[c].key = call[c].key
      /\ call'[c].epoch = call[c].epoch /\ call'[c].held = call[c].held
    <2>1. call[c] \in CallRecord /\ call \in [Call -> CallRecord]
        BY DEF SafetyInv, TypeInv, TypeOK
    <2> QED BY <1>1, <2>1 DEF Responds, CallRecord
<1>4. StepOf(c)
    BY <1>2, <1>3 DEF StepOf, InFlight
<1>5. OneFileStep'
    BY <1>3, <1>4, FileStepKeeps DEF FileStep
<1>6. ASSUME call[c].held # None
      PROVE  /\ call'[call[c].held.grant].proc = call[c].proc
             /\ call'[call[c].held.grant].key = call[c].key
    <2>1. call[c].held.grant \in Call /\ call[c].proc \in Proc
        BY <1>2, <1>6 DEF SafetyInv, TypeInv, TypeOK, CallsAreIssued, WellIssued, InFlight, CallRecord, Receipt
    <2>2. /\ call[call[c].held.grant].proc = call[c].proc
          /\ call[call[c].held.grant].key = call[c].key
        BY <1>2, <1>6 DEF SafetyInv, CallSafe
    <2> QED BY <1>4, <2>1, <2>2, OwnersAreStable
<1>7. CallSafe(c)'
    <2>1. CallSafe(c)
        BY DEF SafetyInv
    <2> QED BY <1>2, <1>3, <1>6, <2>1 DEF CallSafe, InFlight
<1> QED
    BY <1>2, <1>4, <1>5, <1>7, QuietKeeps

\* Every landing keeps the safety invariant.
LEMMA LandSafe ==
    ASSUME SafetyInv, NEW c \in Call, Land(c)
    PROVE  OneFileStep' /\ (\A d \in Call : CallSafe(d))' /\ ReceiptBacked'
<1>1. /\ TypeInv /\ TypeOK /\ CallSafe(c) /\ OneFileStep
      /\ WellIssued(call[c]) /\ call[c] \in CallRecord
    BY DEF SafetyInv, TypeInv, TypeOK, CallsAreIssued
<1>2. ASSUME Runs(call[c].proc) \/ FileStep(c)
      PROVE  \A d \in Call : d # c /\ call[d].proc = call[c].proc => ~FileStep(d)
    BY <1>1, <1>2 DEF Runs, OneFileStep
<1>3. ASSUME NEW plan, NEW how, NEW warning, Returns(c, plan, how, warning),
             InFlight(c) \/ FileStep(c)
      PROVE  StepOf(c) /\ call'[c].pc = "done" /\ CallSafe(c)' /\ OneFileStep'
    <2>1. StepOf(c) /\ call'[c].pc = "done"
        BY <1>1, <1>3, ReturnsFrame DEF InFlight, FileStep
    <2> QED BY <2>1, SettledIsSafe, FileStepKeeps DEF FileStep
<1>4. ASSUME NEW plan, NEW how, NEW warning, Returns(c, plan, how, warning),
             InFlight(c), UNCHANGED <<session, overtaken>>
      PROVE  OneFileStep' /\ (\A d \in Call : CallSafe(d))' /\ ReceiptBacked'
    BY <1>3, <1>4, QuietKeeps
<1>5. ASSUME NEW plan, NEW how, NEW warning, Returns(c, plan, how, warning),
             (InFlight(c) /\ Runs(call[c].proc)) \/ FileStep(c),
             NEW keys, Withdraw(call[c].proc, keys)
      PROVE  OneFileStep' /\ (\A d \in Call : CallSafe(d))' /\ ReceiptBacked'
    <2>1. call[c].proc \in Proc
        BY <1>1, <1>5 DEF WellIssued, InFlight, FileStep
    <2> QED BY <1>2, <1>3, <1>5, <2>1, WithdrawKeeps
<1>6. CASE DenialStored(c)
    <2>1. PICK how, warning : Returns(c, "free", how, warning)
        BY <1>6 DEF DenialStored, DenialReply
    <2> QED BY <1>5, <1>6, <2>1 DEF DenialStored, Denies, Definitive, Lands, InFlight
<1>7. CASE DenialUnsaved(c)
    <2>1. /\ call[c].pc = "answered" /\ Runs(call[c].proc) /\ Withdraw(call[c].proc, {call[c].key})
          /\ call' = [call EXCEPT ![c].pc = "clearing"]
        BY <1>7 DEF DenialUnsaved, Denies, Definitive, Lands
    <2>2. /\ \A d \in Call : d # c => call'[d] = call[d]
          /\ call'[c].pc = "clearing" /\ call'[c].proc = call[c].proc /\ call'[c].key = call[c].key
        BY <1>1, <2>1 DEF TypeOK, CallRecord
    <2>3. StepOf(c)
        BY <2>1, <2>2 DEF StepOf
    <2>4. CallSafe(c)' /\ OneFileStep'
        BY <2>1, <2>2, <2>3, SettledIsSafe, FileStepKeeps
    <2>5. call[c].proc \in Proc
        BY <1>1, <2>1 DEF WellIssued
    <2> QED BY <1>2, <2>1, <2>3, <2>4, <2>5, WithdrawKeeps
<1>8. CASE ClearAfterDenial(c)
    <2>1. PICK how, warning : Returns(c, "free", how, warning)
        BY <1>8 DEF ClearAfterDenial, DenialReply
    <2> QED BY <1>5, <1>8, <2>1 DEF ClearAfterDenial, FileStep
<1>9. CASE RejectActivation(c)
    BY <1>5, <1>9 DEF RejectActivation, Denies, Definitive, Lands, InFlight
<1>10. CASE GrantSuperseded(c)
    BY <1>4, <1>10 DEF GrantSuperseded, Grants, Definitive, Lands, InFlight
<1>11. CASE GrantPersisted(c)
    <2>1. PICK warning : call' = [call EXCEPT ![c].pc = "binding", ![c].reply.warning = warning]
        BY <1>11 DEF GrantPersisted
    <2>2. /\ call[c].pc = "answered" /\ Runs(call[c].proc) /\ Current(c)
          /\ UNCHANGED <<session, overtaken>>
        BY <1>11 DEF GrantPersisted, Grants, Definitive, Lands
    <2>3. /\ \A d \in Call : d # c => call'[d] = call[d]
          /\ call'[c].pc = "binding" /\ call'[c].proc = call[c].proc /\ call'[c].key = call[c].key
        BY <1>1, <2>1 DEF TypeOK, CallRecord
    <2>4. StepOf(c)
        BY <2>2, <2>3 DEF StepOf
    <2>5. c \notin overtaken
        <3>1. call[c].proc \in Proc /\ call[c].key \in Key
            BY <1>1, <2>2 DEF WellIssued
        <3>2. session[call[c].proc][call[c].key].epoch \in Nat
            BY <1>1, <3>1 DEF TypeOK, Session
        <3> QED BY <1>1, <2>2, <3>2 DEF CallSafe, InFlight, Current
    <2>6. CallSafe(c)'
        BY <2>2, <2>3, <2>5 DEF CallSafe, InFlight
    <2>7. OneFileStep'
        BY <2>2, <2>3, <2>4, FileStepKeeps
    <2> QED BY <2>2, <2>4, <2>6, <2>7, QuietKeeps
<1>12. CASE BindReceipt(c)
    <2> DEFINE p == call[c].proc
               k == call[c].key
               receipt == [plan |-> Decision(c).plan, at |-> Decision(c).at,
                           expires |-> Decision(c).expires, source |-> file, grant |-> c]
    <2>1. /\ call[c].pc = "binding" /\ UNCHANGED overtaken
          /\ session' = [session EXCEPT ![p][k].receipt = receipt]
          /\ Returns(c, Decision(c).plan, "live", call[c].reply.warning)
        BY <1>12 DEF BindReceipt
    <2>2. p \in Proc /\ k \in Key /\ c \notin overtaken
        BY <1>1, <2>1 DEF WellIssued, CallSafe
    <2>3. /\ StepOf(c) /\ call'[c].pc = "done" /\ CallSafe(c)' /\ OneFileStep'
          /\ call'[c].proc = p /\ call'[c].key = k
          /\ call'[c].reply.how = "live" /\ call'[c].reply.plan = Decision(c).plan
        BY <1>1, <1>3, <2>1, ReturnsFrame DEF StepOf, FileStep
    <2>4. \A q \in Proc, j \in Key :
            /\ session'[q][j].epoch = session[q][j].epoch
            /\ session'[q][j].receipt = IF q = p /\ j = k THEN receipt ELSE session[q][j].receipt
        BY <1>1, <2>1, <2>2 DEF TypeOK, Session
    <2>5. /\ receipt.grant = c /\ receipt.plan = Decision(c).plan
        OBVIOUS
    <2> HIDE DEF receipt, p, k
    <2>6. ASSUME NEW d \in Call, d # c PROVE CallSafe(d)'
        <3>1. call'[d] = call[d] /\ CallSafe(d) /\ call[d] \in CallRecord /\ WellIssued(call[d])
            BY <1>1, <2>3, <2>6 DEF StepOf, SafetyInv, TypeInv, TypeOK, CallsAreIssued
        <3>2. ASSUME InFlight(d), call[d].held # None
              PROVE  /\ call'[call[d].held.grant].proc = call[d].proc
                     /\ call'[call[d].held.grant].key = call[d].key
            <4>1. call[d].held.grant \in Call /\ call[d].proc \in Proc
                BY <3>1, <3>2 DEF CallRecord, Receipt, WellIssued, InFlight
            <4>2. /\ call[call[d].held.grant].proc = call[d].proc
                  /\ call[call[d].held.grant].key = call[d].key
                BY <3>1, <3>2 DEF CallSafe
            <4> QED BY <2>3, <4>1, <4>2, OwnersAreStable
        <3>3. InFlight(d) => session'[call[d].proc][call[d].key].epoch
                               = session[call[d].proc][call[d].key].epoch
            BY <2>4, <3>1 DEF WellIssued, InFlight
        <3> QED BY <2>1, <3>1, <3>2, <3>3 DEF CallSafe, InFlight
    <2>7. ASSUME NEW q \in Proc, NEW j \in Key, session'[q][j].receipt # None
          PROVE  LET g == session'[q][j].receipt.grant IN
                 /\ g \notin overtaken'
                 /\ call'[g].proc = q /\ call'[g].key = j
                 /\ call'[g].reply.how = "live"
                 /\ call'[g].reply.plan = session'[q][j].receipt.plan
        <3>1. CASE q = p /\ j = k
            BY <2>1, <2>2, <2>3, <2>4, <2>5, <3>1
        <3>2. CASE ~(q = p /\ j = k)
            <4> DEFINE g == session[q][j].receipt.grant
            <4>1. session'[q][j].receipt = session[q][j].receipt
                BY <2>4, <3>2
            <4>2. /\ g \in Call /\ g \notin overtaken /\ call[g].proc = q /\ call[g].key = j
                  /\ call[g].reply.how = "live" /\ call[g].reply.plan = session[q][j].receipt.plan
                BY <1>1, <2>7, <4>1 DEF SafetyInv, ReceiptBacked, TypeOK, Session, Receipt
            <4> HIDE DEF g
            <4>3. call'[g].proc = q /\ call'[g].key = j /\ call'[g].reply = call[g].reply
                BY <2>3, <4>2, OwnersAreStable
            <4> QED BY <2>1, <4>1, <4>2, <4>3 DEF g
        <3> QED BY <3>1, <3>2
    <2> QED BY <2>3, <2>6, <2>7 DEF ReceiptBacked
<1>13. CASE LandTransient(c)
    <2>1. PICK plan, how, warning : Returns(c, plan, how, warning)
        BY <1>13 DEF LandTransient
    <2> QED BY <1>4, <1>13, <2>1 DEF LandTransient, Lands, InFlight
<1>14. CASE LandInvalid(c)
    <2>1. PICK how \in {"thrown", "unavailable"} : Returns(c, "free", how, "none")
        BY <1>14 DEF LandInvalid
    <2>2. CASE UNCHANGED <<session, overtaken>>
        BY <1>4, <1>14, <2>1, <2>2 DEF LandInvalid, Lands, InFlight
    <2>3. CASE Withdraw(call[c].proc, {call[c].key})
        BY <1>5, <1>14, <2>1, <2>3 DEF LandInvalid, Lands, InFlight
    <2> QED BY <1>14, <2>2, <2>3 DEF LandInvalid
<1>15. CASE FinishDeactivate(c)
    <2>1. PICK how, warning : Returns(c, "free", how, warning)
        BY <1>15 DEF FinishDeactivate
    <2> QED BY <1>5, <1>15, <2>1 DEF FinishDeactivate, Lands, InFlight, FileStep
<1> QED
    BY <1>6, <1>7, <1>8, <1>9, <1>10, <1>11, <1>12, <1>13, <1>14, <1>15 DEF Land
\* The environment changes no call but the time its request has left.
LEMMA EnvironmentFrame ==
    ASSUME SafetyInv, Environment \/ UNCHANGED vars, NEW d \in Call
    PROVE  /\ call'[d].pc = call[d].pc /\ call'[d].proc = call[d].proc
           /\ call'[d].key = call[d].key /\ call'[d].reply = call[d].reply
           /\ call'[d].epoch = call[d].epoch /\ call'[d].held = call[d].held
<1>1. CASE call' = call
    BY <1>1
<1>2. CASE Tick
    <2> DEFINE r == [call[d] EXCEPT !.left = @ - 1]
    <2>1. call[d] \in CallRecord
        BY DEF SafetyInv, TypeInv, TypeOK
    <2>2. /\ r.pc = call[d].pc /\ r.proc = call[d].proc /\ r.key = call[d].key
          /\ r.reply = call[d].reply /\ r.epoch = call[d].epoch /\ r.held = call[d].held
        BY <2>1 DEF CallRecord
    <2>3. call'[d] = IF InFlight(d) /\ call[d].left > 0 THEN r ELSE call[d]
        BY <1>2 DEF Tick
    <2> HIDE DEF r
    <2> QED BY <2>2, <2>3
<1> QED BY <1>1, <1>2 DEF Environment, SetProvider, Crash, vars

\* The environment keeps the safety invariant.
LEMMA EnvironmentSafe ==
    ASSUME SafetyInv, Environment \/ UNCHANGED vars
    PROVE  OneFileStep' /\ (\A d \in Call : CallSafe(d))' /\ ReceiptBacked'
<1>1. UNCHANGED <<session, overtaken>>
    BY DEF Environment, SetProvider, Tick, Crash, vars
<1>2. \A d \in Call :
        /\ call'[d].pc = call[d].pc /\ call'[d].proc = call[d].proc
        /\ call'[d].key = call[d].key /\ call'[d].reply = call[d].reply
        /\ call'[d].epoch = call[d].epoch /\ call'[d].held = call[d].held
    BY EnvironmentFrame
<1>3. OneFileStep'
    BY <1>2 DEF SafetyInv, OneFileStep, FileStep
<1>4. ASSUME NEW d \in Call PROVE CallSafe(d)'
    <2>1. CallSafe(d) /\ call[d] \in CallRecord
        BY DEF SafetyInv, TypeInv, TypeOK
    <2>2. call[d].held # None => call[d].held.grant \in Call
        BY <2>1 DEF CallRecord, Receipt
    <2> QED BY <1>1, <1>2, <2>1, <2>2 DEF CallSafe, InFlight
<1>5. ReceiptBacked'
    <2>1. \A p \in Proc, k \in Key : session[p][k].receipt # None => session[p][k].receipt.grant \in Call
        BY DEF SafetyInv, TypeInv, TypeOK, Session, Receipt
    <2> QED BY <1>1, <1>2, <2>1 DEF SafetyInv, ReceiptBacked
<1> QED
    BY <1>3, <1>4, <1>5

\* SafetyInv holds initially.
LEMMA InitSafe == Init => SafetyInv
<1> SUFFICES ASSUME Init PROVE SafetyInv
    OBVIOUS
<1>1. \A c \in Call : call[c].pc = "idle"
    BY DEF Init, Blank
<1>2. \A p \in Proc, k \in Key : session[p][k].receipt = None
    BY DEF Init
<1> QED
    BY <1>1, <1>2, InitType
       DEF Init, SafetyInv, OneFileStep, CallSafe, InFlight, FileStep, ReceiptBacked

\* SafetyInv is inductive.
LEMMA SafeStep == SafetyInv /\ [Next]_vars => SafetyInv'
<1> SUFFICES ASSUME SafetyInv, [Next]_vars PROVE SafetyInv'
    OBVIOUS
<1>1. TypeInv'
    BY TypeStep DEF SafetyInv
<1>2. OneFileStep' /\ (\A d \in Call : CallSafe(d))' /\ ReceiptBacked'
    BY StartSafe, PolarSafe, LandSafe, EnvironmentSafe DEF Next
<1> QED
    BY <1>1, <1>2 DEF SafetyInv

\* The safety invariant holds throughout.
LEMMA AlwaysSafe == Spec => []SafetyInv
BY InitSafe, SafeStep, PTL DEF Spec

\* A receipt exists only while a live grant of the same process, key and plan backs
\* it that nothing has withdrawn since: for any number of processes, keys and calls.
THEOREM ReceiptsAreBacked == Spec => []ReceiptBacked
<1>1. SafetyInv => ReceiptBacked
    BY DEF SafetyInv
<1> QED
    BY <1>1, AlwaysSafe, PTL

-----------------------------------------------------------------------------
(* Withdrawn calls stay withdrawn *)

PaidHows == {"live", "cached", "grace"}

\* The action that WithdrawnStaysWithdrawn states, for one call.
Harmless(c) ==
    /\ Answers(c, PaidHows) => c \notin overtaken
    /\ Answers(c, {"cached", "grace"}) => call'[c].held.grant \notin overtaken
    /\ call'[c].pc = "binding" => c \notin overtaken

\* A step that does not touch a call does it no harm.
LEMMA UntouchedIsHarmless ==
    ASSUME SafetyInv, NEW c \in Call, call'[c].pc = call[c].pc, call'[c].reply = call[c].reply
    PROVE  Harmless(c)
BY DEF Harmless, Answers, SafetyInv, CallSafe

\* A step that answers without a paid plan does no harm.
LEMMA FreeIsHarmless ==
    ASSUME NEW c \in Call, call'[c].pc # "binding", call'[c].reply.how \notin PaidHows
    PROVE  Harmless(c)
BY DEF Harmless, Answers, PaidHows

\* Starting a call does no harm: a cached answer rests on a receipt that is backed.
LEMMA StartHarmless ==
    ASSUME SafetyInv, NEW c \in Call, NEW p \in Proc, Start(c, p)
    PROVE  Harmless(c)
<1>1. call[c].pc = "idle" /\ c \notin overtaken /\ call \in [Call -> CallRecord]
    BY DEF Start, ValidateUnactivated, ValidateFromCache, StartValidate, StartActivate,
           StartDeactivate, ClearLicenseState, Starts, SafetyInv, CallSafe, TypeInv, TypeOK
<1>2. CASE ValidateFromCache(c, p)
    <2> DEFINE k == SelectedKey(p)
               receipt == session[p][k].receipt
    <2>1. k \in Key /\ receipt # None
        BY <1>2, ConstantsAssumption
           DEF ValidateFromCache, Fresh, SelectedKey, SafetyInv, TypeInv, TypeOK, Credential
    <2>2. call'[c].held = receipt /\ call'[c].pc = "done"
        BY <1>1, <1>2 DEF ValidateFromCache, Replied, Blank, Issued
    <2>3. receipt.grant \notin overtaken
        BY <2>1 DEF SafetyInv, ReceiptBacked
    <2> QED BY <1>1, <2>2, <2>3 DEF Harmless
<1>3. CASE ~ValidateFromCache(c, p)
    <2>1. call'[c].reply.how \notin PaidHows /\ call'[c].pc # "binding"
        <3>1. CASE ValidateUnactivated(c, p) \/ ClearLicenseState(c, p)
            <4>1. ASSUME NEW x, NEW how, NEW warning
                  PROVE  /\ Replied(x, "free", how, warning).pc = "done"
                         /\ Replied(x, "free", how, warning).reply.how = how
                BY DEF Replied, Blank
            <4>2. \/ call'[c] = Replied(Issued(p, "validate", None), "free", "inactive", "none")
                  \/ call'[c] = Replied(Issued(p, "clear", None), "free", "cleared", "none")
                  \/ call'[c] = Replied(Issued(p, "clear", None), "free", "thrown", "stuck")
                BY <1>1, <3>1 DEF ValidateUnactivated, ClearLicenseState
            <4> QED BY <4>1, <4>2 DEF PaidHows
        <3>2. CASE \E force \in BOOLEAN : StartValidate(c, p, force)
            <4> DEFINE k == SelectedKey(p)
            <4>1. PICK e, held : \/ call'[c] = [Issued(p, "validate", k) EXCEPT !.epoch = e]
                                \/ call'[c] = [Issued(p, "validate", k) EXCEPT !.held = held]
                BY <1>1, <3>2 DEF StartValidate
            <4>2. /\ [Issued(p, "validate", k) EXCEPT !.epoch = e].pc = "sent"
                  /\ [Issued(p, "validate", k) EXCEPT !.epoch = e].reply.how = "none"
                  /\ [Issued(p, "validate", k) EXCEPT !.held = held].pc = "sent"
                  /\ [Issued(p, "validate", k) EXCEPT !.held = held].reply.how = "none"
                BY DEF Issued, Blank, NoReply
            <4> QED BY <4>1, <4>2 DEF PaidHows
        <3>3. CASE \E k \in Key : StartActivate(c, p, k)
            BY <1>1, <3>3 DEF StartActivate, Issued, Blank, NoReply, PaidHows
        <3>4. CASE StartDeactivate(c, p)
            BY <1>1, <3>4 DEF StartDeactivate, Issued, Blank, NoReply, PaidHows
        <3> QED BY <1>3, <3>1, <3>2, <3>3, <3>4 DEF Start
    <2> QED BY <2>1, FreeIsHarmless
<1> QED
    BY <1>2, <1>3

\* No landing does harm: a live or grace answer needs the epoch of its start.
LEMMA LandHarmless ==
    ASSUME SafetyInv, NEW c \in Call, Land(c)
    PROVE  Harmless(c)
<1>1. TypeInv /\ call \in [Call -> CallRecord] /\ CallSafe(c) /\ WellIssued(call[c])
    BY DEF SafetyInv, TypeInv, TypeOK, CallsAreIssued
<1>2. ASSUME NEW plan, NEW how \in {"denied", "thrown", "superseded", "unavailable", "cleared"},
             NEW warning, Returns(c, plan, how, warning), InFlight(c) \/ FileStep(c)
      PROVE  Harmless(c)
    <2>1. call'[c].pc = "done" /\ call'[c].reply.how = how
        BY <1>1, <1>2, ReturnsFrame DEF InFlight, FileStep
    <2> QED BY <2>1, FreeIsHarmless DEF PaidHows
<1>3. InFlight(c) /\ Current(c) => c \notin overtaken
    <2> SUFFICES ASSUME InFlight(c), Current(c), c \in overtaken PROVE FALSE
        OBVIOUS
    <2>1. call[c].proc \in Proc /\ call[c].key \in Key
        BY <1>1 DEF WellIssued, InFlight
    <2>2. session[call[c].proc][call[c].key].epoch \in Nat
        BY <1>1, <2>1 DEF TypeInv, TypeOK, Session
    <2> QED BY <1>1, <2>2 DEF CallSafe, Current
<1>4. CASE GrantPersisted(c)
    <2>1. c \notin overtaken
        BY <1>3, <1>4 DEF GrantPersisted, Grants, Definitive, Lands, InFlight
    <2>2. PICK warning : call' = [call EXCEPT ![c].pc = "binding", ![c].reply.warning = warning]
        BY <1>4 DEF GrantPersisted
    <2>3. call'[c].reply.how = call[c].reply.how
        BY <1>1, <2>2 DEF CallRecord, Reply
    <2>4. call[c].reply.how = "none"
        BY <1>1, <1>4 DEF WellIssued, GrantPersisted, Grants, Definitive, Lands
    <2> QED BY <2>1, <2>3, <2>4 DEF Harmless, Answers
<1>5. CASE BindReceipt(c)
    <2>1. c \notin overtaken /\ FileStep(c)
        BY <1>1, <1>5 DEF BindReceipt, CallSafe, FileStep
    <2>2. call'[c].pc = "done" /\ call'[c].reply.how = "live"
        BY <1>1, <1>5, <2>1, ReturnsFrame DEF BindReceipt, FileStep
    <2> QED BY <2>1, <2>2 DEF Harmless, Answers
<1>6. CASE LandTransient(c)
    <2>1. InFlight(c)
        BY <1>6 DEF LandTransient, Lands, InFlight
    <2>2. CASE \E how \in {"thrown", "unavailable"} : Returns(c, "free", how, "none")
        BY <1>2, <2>1, <2>2
    <2>3. CASE /\ Current(c) /\ Fresh(call[c].held, call[c].at, Grace)
               /\ Returns(c, call[c].held.plan, "grace", "none")
        <3>1. c \notin overtaken
            BY <1>3, <2>1, <2>3
        <3>2. call'[c].held = call[c].held /\ call'[c].pc = "done"
            BY <1>1, <2>3 DEF Returns, Replied, Blank
        <3>3. call[c].held.grant \notin overtaken
            BY <1>1, <2>1, <2>3, <3>1 DEF CallSafe, Fresh
        <3> QED BY <3>1, <3>2, <3>3 DEF Harmless
    <2> QED BY <1>6, <2>2, <2>3 DEF LandTransient
<1>7. CASE DenialUnsaved(c)
    <2>1. /\ call[c].pc = "answered" /\ call' = [call EXCEPT ![c].pc = "clearing"]
        BY <1>7 DEF DenialUnsaved, Denies, Definitive, Lands
    <2>2. call'[c].pc = "clearing" /\ call'[c].reply = call[c].reply
        BY <1>1, <2>1 DEF CallRecord
    <2> QED BY <1>1, <2>1, <2>2, FreeIsHarmless DEF WellIssued, PaidHows
<1>8. CASE DenialStored(c) \/ ClearAfterDenial(c)
    <2>1. PICK how, warning : how \in {"denied", "thrown"} /\ Returns(c, "free", how, warning)
        BY <1>8 DEF DenialStored, ClearAfterDenial, DenialReply
    <2>2. InFlight(c) \/ FileStep(c)
        BY <1>8 DEF DenialStored, ClearAfterDenial, Denies, Definitive, Lands, InFlight, FileStep
    <2> QED BY <1>2, <2>1, <2>2
<1>9. CASE RejectActivation(c) \/ GrantSuperseded(c)
    <2>1. PICK how \in {"thrown", "superseded"} : Returns(c, "free", how, "none")
        BY <1>9 DEF RejectActivation, GrantSuperseded
    <2>2. InFlight(c)
        BY <1>9 DEF RejectActivation, GrantSuperseded, Denies, Grants, Definitive, Lands, InFlight
    <2> QED BY <1>2, <2>1, <2>2
<1>10. CASE LandInvalid(c)
    BY <1>2, <1>10 DEF LandInvalid, Lands, InFlight
<1>11. CASE FinishDeactivate(c)
    <2>1. PICK how, warning : how \in {"cleared", "thrown"} /\ Returns(c, "free", how, warning)
        BY <1>11 DEF FinishDeactivate
    <2>2. InFlight(c) \/ FileStep(c)
        BY <1>11 DEF FinishDeactivate, Lands, InFlight, FileStep
    <2> QED BY <1>2, <2>1, <2>2
<1> QED
    BY <1>4, <1>5, <1>6, <1>7, <1>8, <1>9, <1>10, <1>11 DEF Land

\* No step of the system does any call harm.
LEMMA NextHarmless ==
    ASSUME SafetyInv, [Next]_vars, NEW c \in Call
    PROVE  Harmless(c)
<1>1. call \in [Call -> CallRecord]
    BY DEF SafetyInv, TypeInv, TypeOK
<1>2. ASSUME NEW d \in Call, (\E p \in Proc : Start(d, p)) \/ Polar(d) \/ Land(d), d # c
      PROVE  Harmless(c)
    <2>1. call'[c] = call[c]
        BY <1>1, <1>2
           DEF Start, ValidateUnactivated, ValidateFromCache, StartValidate, StartActivate,
               StartDeactivate, ClearLicenseState,
               Polar, ProviderAnswers, ProviderRefuses, ResponseFails, Responds,
               Land, DenialStored, DenialUnsaved, ClearAfterDenial, DenialReply, RejectActivation,
               GrantSuperseded, GrantPersisted, BindReceipt, LandTransient, LandInvalid,
               FinishDeactivate, Returns
    <2> QED BY <2>1, UntouchedIsHarmless
<1>3. ASSUME NEW p \in Proc, Start(c, p) PROVE Harmless(c)
    BY <1>3, StartHarmless
<1>4. ASSUME Polar(c) PROVE Harmless(c)
    <2>1. call'[c].pc = "answered" /\ call'[c].reply = call[c].reply
        BY <1>1, <1>4 DEF Polar, ProviderAnswers, ProviderRefuses, ResponseFails, Responds, CallRecord
    <2> QED BY <2>1 DEF Harmless, Answers
<1>5. ASSUME Land(c) PROVE Harmless(c)
    BY <1>5, LandHarmless
<1>6. CASE Environment \/ UNCHANGED vars
    <2>1. call'[c].pc = call[c].pc /\ call'[c].reply = call[c].reply
        BY <1>6, EnvironmentFrame
    <2> QED BY <2>1, UntouchedIsHarmless
<1> QED
    BY <1>2, <1>3, <1>4, <1>5, <1>6 DEF Next

\* Whatever was in flight when its session was withdrawn neither returns nor stores a
\* paid plan afterwards, for any number of processes, keys and calls in any order.
THEOREM WithdrawnForGood == Spec => WithdrawnStaysWithdrawn
<1>1. SafetyInv /\ [Next]_vars => [\A c \in Call : Harmless(c)]_vars
    BY NextHarmless
<1>2. [\A c \in Call : Harmless(c)]_vars =>
        [\A c \in Call :
          /\ Answers(c, {"live", "cached", "grace"}) => c \notin overtaken
          /\ Answers(c, {"cached", "grace"}) => call'[c].held.grant \notin overtaken
          /\ call'[c].pc = "binding" => c \notin overtaken]_vars
    BY DEF Harmless, PaidHows
<1> QED
    BY <1>1, <1>2, AlwaysSafe, PTL DEF Spec, WithdrawnStaysWithdrawn

-----------------------------------------------------------------------------
(* The composition: what is proved of the license sessions holds with orders *)

\* A step of the composition is a step of the license sessions, or leaves them alone.
LEMMA OrdersStep == [OrdersNext]_<<vars, order>> => [Next]_vars
<1> SUFFICES ASSUME [OrdersNext]_<<vars, order>> PROVE [Next]_vars
    OBVIOUS
<1>1. ASSUME NEW o \in Order, OrderStep(o) PROVE [Next]_vars
    <2>1. ASSUME NEW c \in Call, NEW p \in Proc, PlaceOrder(o, c, p) PROVE Next
        <3>1. Start(c, p)
            BY <2>1 DEF PlaceOrder, Start
        <3> QED BY <3>1 DEF Next
    <2> QED
        BY <1>1, <2>1 DEF OrderStep, SendOrder, RefuseUnlicensed, GatewayServes, Delivered, Undelivered
<1>2. CASE LicenseStep
    BY <1>2 DEF LicenseStep, Next, Environment
<1>3. CASE OrderTick
    BY <1>3 DEF OrderTick, Next, Environment
<1> QED
    BY <1>1, <1>2, <1>3 DEF OrdersNext, vars

\* Whatever the paid commands do, the sessions behave as License says: the
\* composition implements it.
THEOREM OrdersImplementLicense == OrdersSpec => Spec
<1>1. OrdersInit => Init
    BY DEF OrdersInit
<1> QED
    BY <1>1, OrdersStep, PTL DEF OrdersSpec, Spec

-----------------------------------------------------------------------------
(* What a step of the sessions does to calls and to the file *)

\* The decision a step may save.
Savable == {Decision(c) : c \in {d \in Call : call[d].pc = "answered"}}

\* An issued call stays one of its process, operation and key; the file a call
\* remembers is the one it found.
CallGoes(c) ==
    /\ call[c].pc # "idle" => /\ call'[c].pc # "idle"
                              /\ call'[c].op = call[c].op
                              /\ call'[c].key = call[c].key
                              /\ call'[c].proc = call[c].proc
    /\ call'[c].pc = "idle" => call'[c].op = call[c].op /\ call[c].pc = "idle"
    /\ call'[c].saved \in {call[c].saved, None, file}

\* A call that is replied keeps its operation and forgets the file.
LEMMA RepliedGoes ==
    ASSUME TypeInv, NEW c \in Call, call[c].pc # "idle",
           NEW plan, NEW how, NEW warning, Returns(c, plan, how, warning)
    PROVE  \A d \in Call : CallGoes(d)
<1> DEFINE r == Replied(call[c], plan, how, warning)
<1>1. /\ r.pc = "done" /\ r.op = call[c].op /\ r.key = call[c].key /\ r.proc = call[c].proc
      /\ r.saved = None
    BY DEF Replied, Blank
<1>2. \A d \in Call : call'[d] = IF d = c THEN r ELSE call[d]
    BY DEF Returns, TypeInv, TypeOK
<1> HIDE DEF r
<1> QED
    BY <1>1, <1>2 DEF CallGoes

\* What a call that is begun may remember.
LEMMA IssuedGoes ==
    ASSUME NEW p \in Proc, NEW op, NEW k
    PROVE  /\ Issued(p, op, k).pc = "sent" /\ Issued(p, op, k).saved = file
           /\ \A r, plan, how, warning :
                /\ Replied(r, plan, how, warning).pc = "done"
                /\ Replied(r, plan, how, warning).saved = None
BY DEF Issued, Replied, Blank

\* A call that is begun remembers the file, or is over at once.
LEMMA BegunGoes ==
    ASSUME TypeInv, NEW c \in Call, call[c].pc = "idle", NEW r,
           r.pc # "idle", r.saved \in {None, file}, call' = [call EXCEPT ![c] = r]
    PROVE  (\A d \in Call : CallGoes(d)) /\ call'[c].pc # "idle"
<1>1. \A d \in Call : call'[d] = IF d = c THEN r ELSE call[d]
    BY DEF TypeInv, TypeOK
<1> QED
    BY <1>1 DEF CallGoes

\* Every start of a call begins it with the file, or returns it at once.
LEMMA StartGoes ==
    ASSUME TypeInv, NEW c \in Call, NEW p \in Proc, Start(c, p)
    PROVE  (\A d \in Call : CallGoes(d)) /\ call'[c].pc # "idle"
<1> DEFINE k == SelectedKey(p)
           Goes(r) == r.pc # "idle" /\ r.saved \in {None, file}
<1>1. call[c].pc = "idle"
    BY DEF Start, Starts, ValidateUnactivated, ValidateFromCache, StartValidate, StartActivate,
           StartDeactivate, ClearLicenseState
<1>2. SUFFICES \E r : Goes(r) /\ call' = [call EXCEPT ![c] = r]
    BY <1>1, BegunGoes
<1>3. CASE ValidateUnactivated(c, p)
    <2> DEFINE r == Replied(Issued(p, "validate", None), "free", "inactive", "none")
    <2>1. call' = [call EXCEPT ![c] = r]
        BY <1>3 DEF ValidateUnactivated
    <2>2. Goes(r)
        BY IssuedGoes
    <2> QED BY <2>1, <2>2
<1>4. CASE ValidateFromCache(c, p)
    <2> DEFINE r == Replied([Issued(p, "validate", k) EXCEPT !.held = session[p][k].receipt],
                            session[p][k].receipt.plan, "cached", "none")
    <2>1. call' = [call EXCEPT ![c] = r]
        BY <1>4 DEF ValidateFromCache
    <2>2. Goes(r)
        BY IssuedGoes
    <2> QED BY <2>1, <2>2
<1>5. ASSUME NEW force \in BOOLEAN, StartValidate(c, p, force)
      PROVE  \E r : Goes(r) /\ call' = [call EXCEPT ![c] = r]
    <2> DEFINE r == [Issued(p, "validate", k) EXCEPT !.epoch = session[p][k].epoch + 1]
               q == [Issued(p, "validate", k) EXCEPT !.held = session[p][k].receipt]
    <2>1. call' = [call EXCEPT ![c] = r] \/ call' = [call EXCEPT ![c] = q]
        BY <1>5 DEF StartValidate
    <2>2. Goes(r) /\ Goes(q)
        BY DEF Issued, Blank
    <2> QED BY <2>1, <2>2
<1>6. ASSUME NEW key \in Key, StartActivate(c, p, key)
      PROVE  \E r : Goes(r) /\ call' = [call EXCEPT ![c] = r]
    <2> DEFINE r == Issued(p, "activate", key)
    <2>1. call' = [call EXCEPT ![c] = r]
        BY <1>6 DEF StartActivate
    <2>2. Goes(r)
        BY IssuedGoes
    <2> QED BY <2>1, <2>2
<1>7. CASE StartDeactivate(c, p)
    <2> DEFINE r == [Issued(p, "deactivate", k) EXCEPT
                       !.pc = IF Owns(file, k) /\ file.activation # None THEN "sent" ELSE "removing"]
    <2>1. call' = [call EXCEPT ![c] = r]
        BY <1>7 DEF StartDeactivate
    <2>2. Goes(r)
        BY DEF Issued, Blank
    <2> QED BY <2>1, <2>2
<1>8. CASE ClearLicenseState(c, p)
    <2> DEFINE r == Replied(Issued(p, "clear", None), "free", "cleared", "none")
               q == Replied(Issued(p, "clear", None), "free", "thrown", "stuck")
    <2>1. call' = [call EXCEPT ![c] = r] \/ call' = [call EXCEPT ![c] = q]
        BY <1>8 DEF ClearLicenseState
    <2>2. Goes(r) /\ Goes(q)
        BY IssuedGoes
    <2> QED BY <2>1, <2>2
<1> QED
    BY <1>3, <1>4, <1>5, <1>6, <1>7, <1>8 DEF Start

\* A step that only moves a call on, or lets it wait, keeps all that is said of it.
LEMMA MovedGoes ==
    ASSUME TypeInv, NEW c \in Call, call[c].pc # "idle", NEW r,
           r.pc # "idle", r.op = call[c].op, r.key = call[c].key, r.proc = call[c].proc,
           r.saved = call[c].saved, call' = [call EXCEPT ![c] = r]
    PROVE  \A d \in Call : CallGoes(d)
<1>1. \A d \in Call : call'[d] = IF d = c THEN r ELSE call[d]
    BY DEF TypeInv, TypeOK
<1> QED
    BY <1>1 DEF CallGoes

\* So does every answer of the provider.
LEMMA PolarGoes ==
    ASSUME TypeInv, NEW c \in Call, Polar(c)
    PROVE  \A d \in Call : CallGoes(d)
<1>1. call[c].pc # "idle" /\ call[c] \in CallRecord
    BY DEF Polar, ProviderAnswers, ProviderRefuses, ResponseFails, TypeInv, TypeOK
<1>2. PICK kind, license : Responds(c, kind, license)
    BY DEF Polar, ProviderAnswers, ProviderRefuses, ResponseFails
<1> DEFINE r == [call[c] EXCEPT !.pc = "answered", !.resp = [kind |-> kind, license |-> license]]
<1>3. /\ r.pc # "idle" /\ r.op = call[c].op /\ r.key = call[c].key /\ r.proc = call[c].proc
      /\ r.saved = call[c].saved
    BY <1>1 DEF CallRecord
<1>4. call' = [call EXCEPT ![c] = r]
    BY <1>2 DEF Responds
<1> HIDE DEF r
<1> QED
    BY <1>1, <1>3, <1>4, MovedGoes

\* Every landing returns the call or moves it on, and saves its decision or nothing.
LEMMA LandGoes ==
    ASSUME TypeInv, NEW c \in Call, Land(c)
    PROVE  /\ \A d \in Call : CallGoes(d)
           /\ file' \in {file, None} \cup Savable
<1>1. call[c].pc # "idle" /\ call[c] \in CallRecord
    BY DEF Land, DenialStored, DenialUnsaved, ClearAfterDenial, RejectActivation, GrantSuperseded,
           GrantPersisted, BindReceipt, LandTransient, LandInvalid, FinishDeactivate, Denies, Grants,
           Definitive, Lands, TypeInv, TypeOK
<1>2. file' \in {file, None} \cup Savable
    <2>1. CASE DenialStored(c)
        BY <2>1 DEF DenialStored, Savable, Denies, Definitive, Lands
    <2>2. CASE GrantPersisted(c)
        BY <2>2 DEF GrantPersisted, Savable, Grants, Definitive, Lands
    <2> QED
        BY <2>1, <2>2
           DEF Land, DenialUnsaved, ClearAfterDenial, RejectActivation, GrantSuperseded,
               BindReceipt, LandTransient, LandInvalid, FinishDeactivate
<1>3. CASE DenialUnsaved(c)
    <2> DEFINE r == [call[c] EXCEPT !.pc = "clearing"]
    <2>1. /\ r.pc # "idle" /\ r.op = call[c].op /\ r.key = call[c].key /\ r.proc = call[c].proc
          /\ r.saved = call[c].saved
        BY <1>1 DEF CallRecord
    <2>2. call' = [call EXCEPT ![c] = r]
        BY <1>3 DEF DenialUnsaved
    <2> HIDE DEF r
    <2> QED BY <1>1, <1>2, <2>1, <2>2, MovedGoes
<1>4. CASE GrantPersisted(c)
    <2>1. PICK warning : call' = [call EXCEPT ![c].pc = "binding", ![c].reply.warning = warning]
        BY <1>4 DEF GrantPersisted
    <2> DEFINE r == [call[c] EXCEPT !.pc = "binding", !.reply.warning = warning]
    <2>2. /\ r.pc # "idle" /\ r.op = call[c].op /\ r.key = call[c].key /\ r.proc = call[c].proc
          /\ r.saved = call[c].saved
        BY <1>1 DEF CallRecord
    <2>3. call' = [call EXCEPT ![c] = r]
        BY <2>1
    <2> HIDE DEF r
    <2> QED BY <1>1, <1>2, <2>2, <2>3, MovedGoes
<1>5. CASE ~DenialUnsaved(c) /\ ~GrantPersisted(c)
    <2>1. PICK plan, how, warning : Returns(c, plan, how, warning)
        BY <1>5 DEF Land, DenialStored, DenialReply, ClearAfterDenial, RejectActivation,
               GrantSuperseded, BindReceipt, LandTransient, LandInvalid, FinishDeactivate
    <2> QED BY <1>1, <1>2, <2>1, RepliedGoes
<1> QED
    BY <1>3, <1>4, <1>5

\* Every step of the sessions, whatever it is.
LEMMA EveryCallGoes ==
    ASSUME TypeInv, [Next]_vars
    PROVE  /\ \A d \in Call : CallGoes(d)
           /\ file' \in {file, None} \cup Savable
<1>1. ASSUME call' = call PROVE \A d \in Call : CallGoes(d)
    BY <1>1 DEF CallGoes
<1>2. CASE UNCHANGED vars
    BY <1>1, <1>2 DEF vars
<1>3. ASSUME NEW c \in Call, NEW p \in Proc, Start(c, p)
      PROVE  file' \in {file, None}
    BY <1>3 DEF Start, ValidateUnactivated, ValidateFromCache, StartValidate, StartActivate,
                StartDeactivate, ClearLicenseState
<1>4. ASSUME NEW c \in Call, Polar(c) PROVE file' = file
    BY <1>4 DEF Polar, ProviderAnswers, ProviderRefuses, ResponseFails
<1>5. CASE Environment
    <2>1. file' = file
        BY <1>5 DEF Environment, SetProvider, Tick, Crash
    <2>2. ASSUME NEW d \in Call, Tick PROVE CallGoes(d)
        <3> DEFINE r == [call[d] EXCEPT !.left = @ - 1]
        <3>1. call[d] \in CallRecord
            BY DEF TypeInv, TypeOK
        <3>2. /\ r.pc = call[d].pc /\ r.op = call[d].op /\ r.key = call[d].key
              /\ r.proc = call[d].proc /\ r.saved = call[d].saved
            BY <3>1 DEF CallRecord
        <3>3. call'[d] = IF InFlight(d) /\ call[d].left > 0 THEN r ELSE call[d]
            BY <2>2 DEF Tick
        <3> HIDE DEF r
        <3> QED BY <3>2, <3>3 DEF CallGoes
    <2> QED
        BY <1>1, <1>5, <2>1, <2>2 DEF Environment, SetProvider, Crash
<1> QED
    BY <1>2, <1>3, <1>4, <1>5, StartGoes, PolarGoes, LandGoes DEF Next

-----------------------------------------------------------------------------
(* A key and its activation *)

\* An activation that is kept with a key was made by an activation of that key.
Paired(key, activation) ==
    activation # None => call[activation].op = "activate" /\ call[activation].key = key

PairedCredential(credential) ==
    credential # None => Paired(credential.key, credential.activation)

\* Every credential in the file, or remembered from it, is such a pair.
PairInv ==
    /\ \A c \in Call : call[c].pc = "idle" => call[c].op = "none"
    /\ PairedCredential(file)
    /\ \A c \in Call : PairedCredential(call[c].saved)

\* A pair stays one: the call that made the activation keeps its operation and key.
LEMMA PairsStay ==
    ASSUME PairInv, \A d \in Call : CallGoes(d), NEW key, NEW activation \in Call \cup {None},
           Paired(key, activation)
    PROVE  Paired(key, activation)'
<1> SUFFICES ASSUME activation # None
             PROVE  call'[activation].op = "activate" /\ call'[activation].key = key
    BY DEF Paired
<1>1. activation \in Call /\ call[activation].op = "activate" /\ call[activation].key = key
    BY DEF Paired
<1>2. call[activation].pc # "idle"
    BY <1>1 DEF PairInv
<1> QED
    BY <1>1, <1>2 DEF CallGoes

\* What a call decides is paired: its own activation, or the one it read with the key.
LEMMA DecisionsArePaired ==
    ASSUME TypeInv, PairInv, NEW c \in Call
    PROVE  /\ Decision(c).activation \in Call \cup {None}
           /\ Paired(Decision(c).key, Decision(c).activation)
<1>1. PairedCredential(call[c].saved) /\ call[c] \in CallRecord
    BY DEF PairInv, TypeInv, TypeOK
<1>2. /\ SentActivation(c) \in Call \cup {None}
      /\ Paired(call[c].key, SentActivation(c))
    BY <1>1 DEF SentActivation, Owns, PairedCredential, Paired, CallRecord, Credential
<1> QED
    BY <1>2 DEF Decision, Paired

\* Pairs survive every step of the sessions.
LEMMA PairStep ==
    ASSUME TypeInv, PairInv, [Next]_vars
    PROVE  PairInv'
<1>1. (\A d \in Call : CallGoes(d)) /\ file' \in {file, None} \cup Savable
    BY EveryCallGoes
<1>2. ASSUME NEW credential,
             credential \in {file, None} \cup Savable \/ \E c \in Call : credential = call[c].saved
      PROVE  credential # None => Paired(credential.key, credential.activation)'
    <2>1. CASE credential = None
        BY <2>1
    <2>2. CASE credential = file /\ file # None
        <3>1. file.activation \in Call \cup {None} /\ Paired(file.key, file.activation)
            BY <2>2 DEF TypeInv, TypeOK, Credential, PairInv, PairedCredential
        <3> QED BY <1>1, <2>2, <3>1, PairsStay
    <2>3. ASSUME NEW c \in Call, credential = Decision(c)
          PROVE  Paired(credential.key, credential.activation)'
        <3>1. /\ credential.activation \in Call \cup {None}
              /\ Paired(credential.key, credential.activation)
            BY <2>3, DecisionsArePaired
        <3> QED BY <1>1, <3>1, PairsStay
    <2>4. ASSUME NEW c \in Call, credential = call[c].saved, credential # None
          PROVE  Paired(credential.key, credential.activation)'
        <3>1. /\ call[c].saved.activation \in Call \cup {None}
              /\ Paired(call[c].saved.key, call[c].saved.activation)
            BY <2>4 DEF TypeInv, TypeOK, CallRecord, Credential, PairInv, PairedCredential
        <3> QED BY <1>1, <2>4, <3>1, PairsStay
    <2> QED
        BY <1>2, <2>1, <2>2, <2>3, <2>4 DEF Savable
<1> QED
    BY <1>1, <1>2 DEF PairInv, CallGoes, PairedCredential

-----------------------------------------------------------------------------
(* What is delivered was entitled *)

\* The history is up to date: what Polar grants now it grants at this very tick.
EntitledNow ==
    \A k \in Key, q \in Paid : ParsedPlan(provider[k], clock) = q => entitled[k][q] = clock

\* An order that goes on has a call; what it sent is a pair; and what the gateway
\* served it was entitled since the request was sent, as long as anybody waits.
OrderOK(o) ==
    LET r == order[o] IN
    /\ r.pc \in {"validating", "sent", "served"} => r.call # None /\ call[r.call].pc # "idle"
    /\ r.pc \in {"sent", "served"} =>
         /\ r.key # None /\ r.activation # None
         /\ r.left <= OrderTimeout
    /\ r.pc = "served" /\ Buyer(o) \in alive =>
         \E q \in Paid : /\ entitled[r.key][q] >= 0
                         /\ clock - entitled[r.key][q] <= OrderTimeout - r.left

OrdersInv ==
    /\ TypeInv /\ PairInv /\ EntitledNow
    /\ order \in [Order -> OrderRecord]
    /\ \A o \in Order : OrderOK(o)

\* The history only ever moves up to the clock.
LEMMA HistoryStep ==
    ASSUME TypeInv, EntitledNow, [Next]_vars
    PROVE  /\ EntitledNow'
           /\ clock' \in {clock, clock + 1} /\ (clock' = clock \/ Tick)
           /\ alive' \subseteq alive
           /\ \A k \in Key, q \in Paid : entitled'[k][q] \in {entitled[k][q], clock'}
<1>1. CASE UNCHANGED <<clock, provider, entitled>> /\ alive' \subseteq alive
    BY <1>1 DEF EntitledNow, ParsedPlan, HasExpired
<1>2. ASSUME NEW c \in Call, Polar(c)
      PROVE  UNCHANGED <<clock, provider, entitled, alive>>
    BY <1>2 DEF Polar, ProviderAnswers, ProviderRefuses, ResponseFails
<1>3. ASSUME NEW c \in Call, Land(c)
      PROVE  UNCHANGED <<clock, provider, entitled, alive>>
    BY <1>3 DEF Land, DenialStored, DenialUnsaved, ClearAfterDenial, RejectActivation,
            GrantSuperseded, GrantPersisted, BindReceipt, LandTransient, LandInvalid, FinishDeactivate
<1>4. ASSUME NEW c \in Call, NEW p \in Proc, Start(c, p)
      PROVE  UNCHANGED <<clock, provider, entitled, alive>>
    BY <1>4 DEF Start, ValidateUnactivated, ValidateFromCache, StartValidate, StartActivate,
            StartDeactivate, ClearLicenseState
<1>5. CASE (\E k \in Key : \E license \in License[k] : SetProvider(k, license)) \/ Tick
    <2>1. /\ entitled' = Remembered(provider', clock')
          /\ clock' \in {clock, clock + 1} /\ (clock' = clock \/ Tick) /\ alive' = alive
        BY <1>5 DEF SetProvider, Tick
    <2>2. \A k \in Key, q \in Paid :
             entitled'[k][q] = IF ParsedPlan(provider'[k], clock') = q THEN clock' ELSE entitled[k][q]
        BY <2>1 DEF Remembered
    <2> QED
        BY <2>1, <2>2 DEF EntitledNow, ParsedPlan, HasExpired
<1>6. CASE \E p \in Proc : Crash(p)
    BY <1>1, <1>6 DEF Crash
<1> QED
    BY <1>1, <1>2, <1>3, <1>4, <1>5, <1>6 DEF Next, Environment, vars

\* An order nobody touches stays in order while the clock stands.
LEMMA UntouchedOrder ==
    ASSUME OrdersInv, [Next]_vars, clock' = clock, NEW o \in Order, order'[o] = order[o]
    PROVE  OrderOK(o)'
<1> DEFINE r == order[o]
<1>1. /\ OrderOK(o) /\ r \in OrderRecord /\ TypeInv /\ EntitledNow
      /\ OrderTimeout \in Nat /\ clock \in Nat
    BY OrderAssumption, ConstantsAssumption DEF OrdersInv, TypeInv, TypeOK
<1>2. r.pc \in {"validating", "sent", "served"} =>
        /\ call'[r.call].pc # "idle"
        /\ Buyer(o)' = Buyer(o)
    BY <1>1, EveryCallGoes DEF OrderOK, OrderRecord, CallGoes, Buyer
<1>3. /\ alive' \subseteq alive
      /\ \A k \in Key, q \in Paid : entitled'[k][q] \in {entitled[k][q], clock}
    BY <1>1, HistoryStep
<1>4. ASSUME r.pc = "served", Buyer(o)' \in alive'
      PROVE  \E q \in Paid : /\ entitled'[r.key][q] >= 0
                             /\ clock' - entitled'[r.key][q] <= OrderTimeout - r.left
    <2>1. PICK q \in Paid : /\ entitled[r.key][q] >= 0
                           /\ clock - entitled[r.key][q] <= OrderTimeout - r.left
        BY <1>1, <1>2, <1>3, <1>4 DEF OrderOK
    <2>2. r.key \in Key /\ r.left \in Nat /\ r.left <= OrderTimeout
        BY <1>1, <1>4 DEF OrderOK, OrderRecord
    <2>3. entitled'[r.key][q] \in {entitled[r.key][q], clock}
        BY <1>3, <2>2
    <2> QED BY <1>1, <2>1, <2>2, <2>3
<1> QED
    BY <1>1, <1>2, <1>4 DEF OrderOK

\* A tick that passes takes a tick from what an order may still wait.
LEMMA OrderTicks ==
    ASSUME OrdersInv, OrderTick, NEW o \in Order
    PROVE  order'[o] \in OrderRecord /\ OrderOK(o)'
<1> DEFINE r == order[o]
           w == [r EXCEPT !.left = @ - 1]
<1>1. /\ OrderOK(o) /\ r \in OrderRecord /\ TypeInv /\ EntitledNow
      /\ OrderTimeout \in Nat /\ clock \in Nat /\ clock' = clock + 1
      /\ entitled \in [Key -> [Paid -> Int]]
      /\ Tick /\ [Next]_vars
    BY OrderAssumption, ConstantsAssumption
       DEF OrdersInv, TypeInv, TypeOK, OrderTick, Tick, Next, Environment
<1>2. /\ order'[o] = IF OrderAwaits(o) /\ r.left > 0 THEN w ELSE r
      /\ Buyer(o) \in alive => (OrderAwaits(o) => r.left > 0)
    BY DEF OrderTick
<1>3. /\ r.left > 0 => w \in OrderRecord
      /\ w.pc = r.pc /\ w.call = r.call /\ w.key = r.key /\ w.activation = r.activation
      /\ w.left = r.left - 1 /\ r.left \in Nat
    BY <1>1 DEF OrderRecord
<1> HIDE DEF w
<1>4. /\ order'[o].pc = r.pc /\ order'[o].call = r.call
      /\ order'[o].key = r.key /\ order'[o].activation = r.activation
      /\ order'[o].left <= r.left
    BY <1>2, <1>3
<1>5. r.pc \in {"validating", "sent", "served"} =>
        /\ call'[r.call].pc # "idle"
        /\ Buyer(o)' = Buyer(o)
    BY <1>1, <1>4, EveryCallGoes DEF OrderOK, OrderRecord, CallGoes, Buyer
<1>6. ASSUME r.pc = "served", Buyer(o)' \in alive'
      PROVE  \E q \in Paid : /\ entitled'[r.key][q] >= 0
                             /\ clock' - entitled'[r.key][q] <= OrderTimeout - order'[o].left
    <2>1. Buyer(o) \in alive
        BY <1>1, <1>5, <1>6, HistoryStep
    <2>2. PICK q \in Paid : /\ entitled[r.key][q] >= 0
                           /\ clock - entitled[r.key][q] <= OrderTimeout - r.left
        BY <1>1, <1>6, <2>1 DEF OrderOK
    <2>3. order'[o].left = r.left - 1 /\ r.key \in Key /\ r.left <= OrderTimeout
        BY <1>1, <1>2, <1>3, <1>6, <2>1 DEF OrderAwaits, OrderOK, OrderRecord
    <2>4. entitled'[r.key][q] \in {entitled[r.key][q], clock'}
        BY <1>1, <2>3, HistoryStep
    <2>5. entitled[r.key][q] \in Int
        BY <1>1, <2>3
    <2> QED BY <1>1, <1>3, <2>2, <2>3, <2>4, <2>5
<1>7. order'[o].left \in Nat /\ (r.left <= OrderTimeout => order'[o].left <= OrderTimeout)
    BY <1>1, <1>2, <1>3
<1>8. order'[o] \in OrderRecord
    BY <1>1, <1>2, <1>3
<1> QED
    BY <1>1, <1>4, <1>5, <1>6, <1>7, <1>8 DEF OrderOK

\* A step that changes one order alone, and keeps it in order.
LEMMA OneOrder ==
    ASSUME OrdersInv, [Next]_vars, clock' = clock, NEW o \in Order, NEW r \in OrderRecord,
           order' = [order EXCEPT ![o] = r], OrderOK(o)'
    PROVE  order' \in [Order -> OrderRecord] /\ \A p \in Order : OrderOK(p)'
<1>1. order \in [Order -> OrderRecord]
    BY DEF OrdersInv
<1>2. \A p \in Order : p # o => order'[p] = order[p]
    BY <1>1
<1> QED
    BY <1>1, <1>2, UntouchedOrder

\* Every step of an order keeps the orders in order.
LEMMA OrderStepKeeps ==
    ASSUME OrdersInv, NEW o \in Order, OrderStep(o)
    PROVE  order' \in [Order -> OrderRecord] /\ \A p \in Order : OrderOK(p)'
<1> DEFINE old == order[o]
<1>1. /\ TypeInv /\ TypeOK /\ order \in [Order -> OrderRecord] /\ old \in OrderRecord /\ OrderOK(o)
      /\ EntitledNow /\ OrderTimeout \in Nat /\ clock \in Nat /\ None \notin Call \cup Key
    BY OrderAssumption, ConstantsAssumption DEF OrdersInv, TypeInv, TypeOK
<1>2. [Next]_vars
    BY OrdersStep DEF OrdersNext
<1>3. ASSUME NEW c \in Call, NEW p \in Proc, PlaceOrder(o, c, p)
      PROVE  order' \in [Order -> OrderRecord] /\ \A q \in Order : OrderOK(q)'
    <2> DEFINE r == [old EXCEPT !.pc = "validating", !.call = c]
    <2>1. /\ order' = [order EXCEPT ![o] = r] /\ Start(c, p) /\ clock' = clock
        BY <1>3 DEF PlaceOrder, Start, ValidateUnactivated, StartValidate
    <2>2. r \in OrderRecord /\ r.pc = "validating" /\ r.call = c
        BY <1>1 DEF OrderRecord
    <2> HIDE DEF r
    <2>3. call'[c].pc # "idle" /\ order'[o] = r
        BY <1>1, <2>1, StartGoes
    <2>4. OrderOK(o)'
        BY <1>1, <2>2, <2>3 DEF OrderOK
    <2> QED BY <1>2, <2>1, <2>2, <2>4, OneOrder
<1>4. CASE SendOrder(o)
    <2> DEFINE key == SelectedKey(Buyer(o))
               r == [old EXCEPT !.pc = "sent", !.left = OrderTimeout,
                                !.key = key, !.activation = file.activation]
    <2>1. /\ order' = [order EXCEPT ![o] = r] /\ UNCHANGED vars
          /\ old.pc = "validating" /\ file # None /\ file.activation # None /\ key = file.key
        BY <1>4 DEF SendOrder, Validated, Sendable
    <2>2. file.activation \in Call /\ key \in Key
        BY <1>1, <2>1 DEF TypeOK, Credential
    <2> HIDE DEF key
    <2>3. /\ r \in OrderRecord /\ r.pc = "sent" /\ r.call = old.call /\ r.key = key
          /\ r.activation = file.activation /\ r.left = OrderTimeout
        BY <1>1, <2>2 DEF OrderRecord
    <2> HIDE DEF r
    <2>4. OrderOK(o)'
        BY <1>1, <2>1, <2>2, <2>3 DEF OrderOK, vars
    <2> QED BY <1>2, <2>1, <2>3, <2>4, OneOrder DEF vars
<1>5. CASE GatewayServes(o)
    <2> DEFINE r == [old EXCEPT !.pc = "served"]
    <2>1. /\ order' = [order EXCEPT ![o] = r] /\ UNCHANGED vars /\ old.pc = "sent"
          /\ ParsedPlan(provider[old.key], clock) # "free"
        BY <1>5 DEF GatewayServes, Entitles
    <2>2. /\ r \in OrderRecord /\ r.pc = "served" /\ r.call = old.call /\ r.key = old.key
          /\ r.activation = old.activation /\ r.left = old.left
        BY <1>1 DEF OrderRecord
    <2>3. old.key \in Key /\ old.left \in Nat /\ old.left <= OrderTimeout
        BY <1>1, <2>1 DEF OrderOK, OrderRecord
    <2>4. PICK q \in Paid : entitled[old.key][q] = clock
        <3>1. provider[old.key] \in LicenseRecord \cup {None}
            BY <1>1, <2>3 DEF TypeOK
        <3>2. ParsedPlan(provider[old.key], clock) \in Paid
            BY <2>1, <3>1, ParsedPlanType DEF Paid
        <3> QED BY <1>1, <2>3, <3>2 DEF EntitledNow
    <2> HIDE DEF r
    <2>5. OrderOK(o)'
        BY <1>1, <2>1, <2>2, <2>3, <2>4 DEF OrderOK, vars
    <2> QED BY <1>2, <2>1, <2>2, <2>5, OneOrder DEF vars
<1>6. ASSUME NEW result \in {"refused", "delivered"}, OrderEnds(o, result), UNCHANGED vars
      PROVE  order' \in [Order -> OrderRecord] /\ \A q \in Order : OrderOK(q)'
    <2> DEFINE r == [NoOrder EXCEPT !.pc = "done", !.result = result]
    <2>1. order' = [order EXCEPT ![o] = r]
        BY <1>6 DEF OrderEnds
    <2>2. r \in OrderRecord /\ r.pc = "done"
        BY DEF NoOrder, OrderRecord
    <2> HIDE DEF r
    <2>3. OrderOK(o)'
        BY <1>1, <2>1, <2>2 DEF OrderOK
    <2> QED BY <1>2, <1>6, <2>1, <2>2, <2>3, OneOrder DEF vars
<1> QED
    BY <1>3, <1>4, <1>5, <1>6 DEF OrderStep, RefuseUnlicensed, Delivered, Undelivered

\* OrdersInv is inductive.
LEMMA OrdersInvStep == OrdersInv /\ [OrdersNext]_<<vars, order>> => OrdersInv'
<1> SUFFICES ASSUME OrdersInv, [OrdersNext]_<<vars, order>> PROVE OrdersInv'
    OBVIOUS
<1>1. [Next]_vars
    BY OrdersStep
<1>2. TypeInv' /\ PairInv' /\ EntitledNow'
    BY <1>1, TypeStep, PairStep, HistoryStep DEF OrdersInv
<1>3. CASE UNCHANGED order /\ clock' = clock
    BY <1>1, <1>2, <1>3, UntouchedOrder DEF OrdersInv
<1>4. ASSUME NEW o \in Order, OrderStep(o) PROVE OrdersInv'
    BY <1>2, <1>4, OrderStepKeeps DEF OrdersInv
<1>5. CASE OrderTick
    <2>1. DOMAIN order' = Order /\ order' = [o \in Order |-> order'[o]]
        BY <1>5 DEF OrderTick
    <2> QED BY <1>2, <1>5, <2>1, OrderTicks DEF OrdersInv
<1>6. CASE LicenseStep /\ UNCHANGED order
    <2>1. ASSUME NEW c \in Call, NEW p \in Proc, Start(c, p) PROVE clock' = clock
        BY <2>1 DEF Start, ValidateUnactivated, ValidateFromCache, StartValidate, StartActivate,
                    StartDeactivate, ClearLicenseState
    <2>2. ASSUME NEW c \in Call, Polar(c) PROVE clock' = clock
        BY <2>2 DEF Polar, ProviderAnswers, ProviderRefuses, ResponseFails
    <2>3. ASSUME NEW c \in Call, Land(c) PROVE clock' = clock
        BY <2>3 DEF Land, DenialStored, DenialUnsaved, ClearAfterDenial, RejectActivation,
               GrantSuperseded, GrantPersisted, BindReceipt, LandTransient, LandInvalid, FinishDeactivate
    <2>4. clock' = clock
        BY <1>6, <2>1, <2>2, <2>3 DEF LicenseStep, SetProvider, Crash
    <2> QED BY <1>3, <1>6, <2>4
<1> QED
    BY <1>3, <1>4, <1>5, <1>6 DEF OrdersNext, vars

\* OrdersInv holds initially.
LEMMA OrdersInvInit == OrdersInit => OrdersInv
<1> SUFFICES ASSUME OrdersInit PROVE OrdersInv
    OBVIOUS
<1>1. TypeInv
    BY InitType DEF OrdersInit
<1>2. PairInv /\ EntitledNow
    BY DEF OrdersInit, Init, Blank, PairInv, PairedCredential, EntitledNow
<1>3. order \in [Order -> OrderRecord] /\ \A o \in Order : order[o].pc = "idle"
    BY OrderAssumption DEF OrdersInit, NoOrder, OrderRecord
<1> QED
    BY <1>1, <1>2, <1>3 DEF OrdersInv, OrderOK

\* OrdersInv holds throughout.
LEMMA OrdersAlways == OrdersSpec => []OrdersInv
BY OrdersInvInit, OrdersInvStep, PTL DEF OrdersSpec

\* Every variable of the composition keeps its type, and a request that is under way
\* names a key and a device activation.
THEOREM OrdersTypeCorrect == OrdersSpec => []OrdersTypeOK
<1>1. OrdersInv => OrdersTypeOK
    BY DEF OrdersInv, OrderOK, OrdersTypeOK, TypeInv, OrderAwaits
<1> QED
    BY <1>1, OrdersAlways, PTL

\* For any number of processes, keys, calls and commands: what a command sends is a
\* key with an activation of that key, of the override if there is one, whatever the
\* others did to the credential file since it validated; and what it is delivered,
\* Polar granted while it waited.
THEOREM DeliveriesAreEntitled == OrdersSpec => DeliveredIsEntitled
<1> DEFINE Due(o) ==
      /\ order'[o].pc = "sent" /\ order[o].pc # "sent" =>
           /\ call[order'[o].activation].op = "activate"
           /\ call[order'[o].activation].key = order'[o].key
           /\ EnvKey[Buyer(o)] \in {None, order'[o].key}
      /\ order'[o].result = "delivered" /\ order[o].result # "delivered" =>
           \E q \in Paid : /\ entitled[order[o].key][q] >= 0
                           /\ clock - entitled[order[o].key][q] <= OrderTimeout
<1>1. ASSUME OrdersInv, OrdersNext, NEW o \in Order
      PROVE  Due(o)
    <2>1. /\ order \in [Order -> OrderRecord] /\ OrderOK(o) /\ OrderTimeout \in Nat /\ clock \in Nat
          /\ entitled \in [Key -> [Paid -> Int]] /\ TypeInv /\ PairInv
        BY <1>1, OrderAssumption, ConstantsAssumption DEF OrdersInv, TypeInv, TypeOK
    <2>2. CASE order'[o] = order[o]
        BY <2>2
    <2>3. CASE OrderTick
        <3>1. order'[o].pc = order[o].pc /\ order'[o].result = order[o].result
            BY <2>1, <2>3 DEF OrderTick, OrderRecord
        <3> QED BY <3>1
    <2>4. CASE SendOrder(o)
        <3>1. /\ order'[o].pc = "sent" /\ order'[o].result = order[o].result
              /\ order'[o].key = SelectedKey(Buyer(o)) /\ order'[o].activation = file.activation
              /\ file # None /\ file.activation # None /\ file.key = SelectedKey(Buyer(o))
            BY <2>1, <2>4 DEF SendOrder, Sendable, OrderRecord
        <3>2. /\ call[file.activation].op = "activate"
              /\ call[file.activation].key = file.key
            BY <2>1, <3>1 DEF PairInv, PairedCredential, Paired
        <3>3. EnvKey[Buyer(o)] \in {None, SelectedKey(Buyer(o))}
            BY DEF SelectedKey
        <3> QED BY <3>1, <3>2, <3>3
    <2>5. CASE Delivered(o)
        <3>1. /\ order[o].pc = "served" /\ Buyer(o) \in alive /\ order'[o].pc = "done"
            BY <2>1, <2>5 DEF Delivered, Runs, OrderEnds, NoOrder
        <3>2. PICK q \in Paid : /\ entitled[order[o].key][q] >= 0
                               /\ clock - entitled[order[o].key][q] <= OrderTimeout - order[o].left
            BY <2>1, <3>1 DEF OrderOK
        <3>3. order[o].key \in Key /\ order[o].left \in Nat
            BY <2>1, <3>1 DEF OrderOK, OrderRecord
        <3>4. entitled[order[o].key][q] \in Int
            BY <2>1, <3>3
        <3>5. clock - entitled[order[o].key][q] <= OrderTimeout
            BY <2>1, <3>2, <3>3, <3>4
        <3> QED BY <3>1, <3>2, <3>5
    <2>6. CASE GatewayServes(o)
        BY <2>1, <2>6 DEF GatewayServes, OrderRecord
    <2>7. CASE RefuseUnlicensed(o) \/ Undelivered(o)
        BY <2>1, <2>7 DEF RefuseUnlicensed, Undelivered, OrderEnds, NoOrder
    <2>8. CASE \E c \in Call, p \in Proc : PlaceOrder(o, c, p)
        BY <2>1, <2>8 DEF PlaceOrder, OrderRecord
    <2>9. ASSUME NEW p \in Order, p # o, OrderStep(p) PROVE order'[o] = order[o]
        BY <2>1, <2>9 DEF OrderStep, PlaceOrder, SendOrder, RefuseUnlicensed, GatewayServes, Delivered,
                  Undelivered, OrderEnds
    <2> QED
        BY <1>1, <2>2, <2>3, <2>4, <2>5, <2>6, <2>7, <2>8, <2>9 DEF OrdersNext, OrderStep
<1>2. OrdersInv /\ [OrdersNext]_<<vars, order>> => [\A o \in Order : Due(o)]_<<vars, order>>
    BY <1>1
<1>3. OrdersSpec => [][\A o \in Order : Due(o)]_<<vars, order>>
    BY <1>2, OrdersAlways, PTL DEF OrdersSpec
<1> QED
    BY <1>3 DEF DeliveredIsEntitled
-----------------------------------------------------------------------------
(* What a step of the sessions does to one call *)

\* The part of a call that does not change once it was issued.
SameRequest(c) ==
    /\ call'[c].op = call[c].op /\ call'[c].proc = call[c].proc /\ call'[c].key = call[c].key
    /\ call'[c].saved = call[c].saved /\ call'[c].at = call[c].at /\ call'[c].held = call[c].held

\* The call is begun: it remembers the clock, the file and the receipt of its session.
Begins(c) ==
    /\ clock' = clock
    /\ call[c].pc = "idle" /\ call'[c].pc \in {"sent", "removing", "done"}
    /\ call'[c].pc = "done" => call'[c].op # "deactivate" /\ call'[c].saved = None
    /\ call'[c].pc # "done" =>
         /\ call'[c].at = clock /\ call'[c].left = Timeout /\ call'[c].saved = file
         /\ \/ call'[c].held = None
            \/ /\ call'[c].proc \in Proc /\ call'[c].key \in Key
               /\ call'[c].held = session[call'[c].proc][call'[c].key].receipt
    /\ call'[c].pc = "removing" => SentActivation(c)' = None
    /\ \/ call'[c].reply.how \in {"none", "inactive", "cleared", "thrown"}
       \/ call'[c].reply.how = "cached" /\ \E p \in Proc : ValidateFromCache(c, p)

\* An answer arrives, or is lost: what the provider holds, or nothing.
Hears(c) ==
    /\ clock' = clock /\ SameRequest(c)
    /\ call[c].pc \in {"sent", "answered"} /\ call'[c].pc = "answered"
    /\ call'[c].left = call[c].left
    /\ call'[c].resp.license # None => /\ call'[c].resp.license = provider[call[c].key]
                                       /\ call[c].pc = "sent"
    /\ call'[c].resp.kind = "data" /\ call[c].op = "deactivate" =>
         SentActivation(c) \notin activations'

\* The call goes on with its file work.
Proceeds(c) ==
    /\ clock' = clock /\ SameRequest(c)
    /\ call[c].pc = "answered" /\ call'[c].pc \in {"clearing", "binding"}
    /\ call'[c].resp = call[c].resp
    /\ call[c].op \in {"validate", "activate"}

\* The call returns or throws.
Ends(c) ==
    /\ clock' = clock
    /\ call[c].pc \notin {"idle", "done"} /\ call'[c].pc = "done"
    /\ call'[c].saved = None

\* The call waits while the clock ticks.
Waits(c) ==
    /\ clock' = clock + 1 /\ SameRequest(c)
    /\ InFlight(c) /\ call[c].left > 0
    /\ call'[c].pc = call[c].pc /\ call'[c].resp = call[c].resp
    /\ call'[c].left = call[c].left - 1

\* The call is left alone; if time passes, then nothing of it does.
Rests(c) ==
    /\ call'[c] = call[c]
    /\ \/ clock' = clock
       \/ call[c].proc \notin alive
       \/ ~InFlight(c) /\ ~FileStep(c)

Moves(c) == Begins(c) \/ Hears(c) \/ Proceeds(c) \/ Ends(c) \/ Waits(c) \/ Rests(c)

\* A step that changes one call leaves the others alone.
LEMMA OthersRest ==
    ASSUME TypeInv, NEW c \in Call, NEW r, call' = [call EXCEPT ![c] = r], clock' = clock,
           NEW d \in Call
    PROVE  d # c => Moves(d)
BY DEF TypeInv, TypeOK, Moves, Rests

\* A call that is replied ends.
LEMMA ReturnedEnds ==
    ASSUME TypeInv, NEW c \in Call, call[c].pc \notin {"idle", "done"}, clock' = clock,
           NEW plan, NEW how, NEW warning, Returns(c, plan, how, warning), NEW d \in Call
    PROVE  Moves(d)
<1> DEFINE r == Replied(call[c], plan, how, warning)
<1>1. r.pc = "done" /\ r.saved = None
    BY DEF Replied, Blank
<1>2. call' = [call EXCEPT ![c] = r]
    BY DEF Returns
<1> HIDE DEF r
<1>3. call'[c] = r
    BY <1>2 DEF TypeInv, TypeOK
<1>4. Moves(c)
    BY <1>1, <1>3 DEF Moves, Ends
<1> QED
    BY <1>2, <1>4, OthersRest

\* What Issued and Replied make of a call.
LEMMA BegunRecords ==
    ASSUME NEW p, NEW op, NEW k
    PROVE  /\ Issued(p, op, k).pc = "sent" /\ Issued(p, op, k).op = op
           /\ Issued(p, op, k).proc = p /\ Issued(p, op, k).key = k
           /\ Issued(p, op, k).at = clock /\ Issued(p, op, k).left = Timeout
           /\ Issued(p, op, k).saved = file /\ Issued(p, op, k).held = None
           /\ Issued(p, op, k).reply.how = "none"
           /\ \A r, plan, how, warning :
                /\ Replied(r, plan, how, warning).pc = "done"
                /\ Replied(r, plan, how, warning).op = r.op
                /\ Replied(r, plan, how, warning).saved = None
                /\ Replied(r, plan, how, warning).reply.how = how
BY DEF Issued, Replied, Blank, NoReply

\* Every start of a call begins it.
LEMMA StartBegins ==
    ASSUME TypeInv, NEW c \in Call, NEW p \in Proc, Start(c, p)
    PROVE  Begins(c) /\ \A d \in Call : Moves(d)
<1> DEFINE k == SelectedKey(p)
<1>1. call[c].pc = "idle" /\ clock' = clock
    BY DEF Start, Starts, ValidateUnactivated, ValidateFromCache, StartValidate, StartActivate,
           StartDeactivate, ClearLicenseState
<1>2. \A r : call' = [call EXCEPT ![c] = r] => call'[c] = r
    BY DEF TypeInv, TypeOK
<1>3. k # None => k \in Key
    BY ConstantsAssumption DEF SelectedKey, TypeInv, TypeOK, Credential
<1>4. SUFFICES \E r : call' = [call EXCEPT ![c] = r] /\ Begins(c)
    BY <1>1, OthersRest DEF Moves
<1>5. CASE ValidateUnactivated(c, p)
    <2> DEFINE i == Issued(p, "validate", None)
               r == Replied(i, "free", "inactive", "none")
    <2>1. call' = [call EXCEPT ![c] = r]
        BY <1>5 DEF ValidateUnactivated
    <2>2. r.pc = "done" /\ r.op = "validate" /\ r.saved = None /\ r.reply.how = "inactive"
        BY BegunRecords
    <2> HIDE DEF i, r
    <2> QED BY <1>1, <1>2, <2>1, <2>2 DEF Begins
<1>6. CASE ValidateFromCache(c, p)
    <2> DEFINE i == [Issued(p, "validate", k) EXCEPT !.held = session[p][k].receipt]
               r == Replied(i, session[p][k].receipt.plan, "cached", "none")
    <2>1. call' = [call EXCEPT ![c] = r]
        BY <1>6 DEF ValidateFromCache
    <2>2. i.op = "validate"
        BY DEF Issued, Blank
    <2> HIDE DEF i
    <2>3. r.pc = "done" /\ r.op = "validate" /\ r.saved = None /\ r.reply.how = "cached"
        BY <2>2, BegunRecords
    <2> HIDE DEF r
    <2> QED BY <1>1, <1>2, <1>6, <2>1, <2>3 DEF Begins
<1>7. CASE \E force \in BOOLEAN : StartValidate(c, p, force)
    <2> DEFINE r == [Issued(p, "validate", k) EXCEPT !.epoch = session[p][k].epoch + 1]
               q == [Issued(p, "validate", k) EXCEPT !.held = session[p][k].receipt]
    <2>1. (call' = [call EXCEPT ![c] = r] \/ call' = [call EXCEPT ![c] = q]) /\ k # None
        BY <1>7 DEF StartValidate
    <2>2. /\ r.pc = "sent" /\ r.at = clock /\ r.left = Timeout /\ r.saved = file
          /\ r.held = None /\ r.reply.how = "none" /\ q.reply.how = "none"
          /\ q.pc = "sent" /\ q.at = clock /\ q.left = Timeout /\ q.saved = file
          /\ q.held = session[p][k].receipt /\ q.proc = p /\ q.key = k
        BY DEF Issued, Blank, NoReply
    <2> HIDE DEF r, q
    <2>3. k \in Key
        BY <1>3, <2>1
    <2> HIDE DEF k
    <2> QED BY <1>1, <1>2, <2>1, <2>2, <2>3 DEF Begins
<1>8. CASE \E key \in Key : StartActivate(c, p, key)
    <2>1. PICK key : StartActivate(c, p, key)
        BY <1>8
    <2> DEFINE r == Issued(p, "activate", key)
    <2>2. call' = [call EXCEPT ![c] = r]
        BY <2>1 DEF StartActivate
    <2>3. /\ r.pc = "sent" /\ r.at = clock /\ r.left = Timeout /\ r.saved = file
          /\ r.held = None /\ r.reply.how = "none"
        BY BegunRecords
    <2> HIDE DEF r
    <2> QED BY <1>1, <1>2, <2>2, <2>3 DEF Begins
<1>9. CASE StartDeactivate(c, p)
    <2> DEFINE asks == Owns(file, k) /\ file.activation # None
               r == [Issued(p, "deactivate", k) EXCEPT !.pc = IF asks THEN "sent" ELSE "removing"]
    <2>1. call' = [call EXCEPT ![c] = r]
        BY <1>9 DEF StartDeactivate
    <2>2. /\ r.pc = (IF asks THEN "sent" ELSE "removing")
          /\ r.at = clock /\ r.left = Timeout /\ r.saved = file /\ r.held = None
          /\ r.key = k /\ r.reply.how = "none"
        BY DEF Issued, Blank, NoReply
    <2> HIDE DEF r
    <2>3. call'[c] = r
        BY <1>2, <2>1
    <2>4. SentActivation(c)' = IF Owns(file, k) THEN file.activation ELSE None
        BY <2>2, <2>3 DEF SentActivation, Owns
    <2> HIDE DEF k
    <2>5. r.pc = "removing" => SentActivation(c)' = None
        BY <2>2, <2>4
    <2>6. r.pc \in {"sent", "removing"}
        BY <2>2
    <2> QED BY <1>1, <2>1, <2>2, <2>3, <2>5, <2>6 DEF Begins
<1>10. CASE ClearLicenseState(c, p)
    <2> DEFINE r == Replied(Issued(p, "clear", None), "free", "cleared", "none")
               q == Replied(Issued(p, "clear", None), "free", "thrown", "stuck")
    <2>1. call' = [call EXCEPT ![c] = r] \/ call' = [call EXCEPT ![c] = q]
        BY <1>10 DEF ClearLicenseState
    <2>2. /\ r.pc = "done" /\ r.op = "clear" /\ r.saved = None /\ r.reply.how = "cleared"
          /\ q.pc = "done" /\ q.op = "clear" /\ q.saved = None /\ q.reply.how = "thrown"
        BY BegunRecords
    <2> HIDE DEF r, q
    <2> QED BY <1>1, <1>2, <2>1, <2>2 DEF Begins
<1> QED
    BY <1>5, <1>6, <1>7, <1>8, <1>9, <1>10 DEF Start

\* The provider's part: an answer, a refusal, or a failure.
LEMMA PolarHears ==
    ASSUME TypeInv, NEW c \in Call, Polar(c)
    PROVE  /\ Hears(c) /\ \A d \in Call : Moves(d)
           /\ activations' \subseteq activations \cup {c} /\ call[c].pc \in {"sent", "answered"}
           /\ c \in activations' => c \in activations \/ call[c].pc = "sent"
<1>1. call[c] \in CallRecord /\ call[c].pc \in {"sent", "answered"} /\ clock' = clock
    BY DEF Polar, ProviderAnswers, ProviderRefuses, ResponseFails, TypeInv, TypeOK
<1>2. ASSUME NEW kind, NEW license, Responds(c, kind, license)
      PROVE  /\ SameRequest(c) /\ call'[c].pc = "answered" /\ call'[c].left = call[c].left
             /\ call'[c].resp.license = license /\ call'[c].resp.kind = kind
             /\ \A d \in Call : d # c => Moves(d)
    <2> DEFINE r == [call[c] EXCEPT !.pc = "answered", !.resp = [kind |-> kind, license |-> license]]
    <2>1. /\ r.op = call[c].op /\ r.proc = call[c].proc /\ r.key = call[c].key
          /\ r.saved = call[c].saved /\ r.at = call[c].at /\ r.held = call[c].held
          /\ r.left = call[c].left /\ r.pc = "answered"
          /\ r.resp.kind = kind /\ r.resp.license = license
        BY <1>1 DEF CallRecord
    <2>2. call' = [call EXCEPT ![c] = r]
        BY <1>2 DEF Responds
    <2> HIDE DEF r
    <2>3. call'[c] = r
        BY <2>2 DEF TypeInv, TypeOK
    <2> QED BY <1>1, <2>1, <2>2, <2>3, OthersRest DEF SameRequest
<1>3. CASE ProviderAnswers(c)
    <2>1. Responds(c, "data", provider[call[c].key])
        BY <1>3 DEF ProviderAnswers
    <2>2. SameRequest(c) /\ call'[c].resp.license = provider[call[c].key] /\ call[c].pc = "sent"
        BY <1>2, <1>3, <2>1 DEF ProviderAnswers
    <2>3. SentActivation(c)' = SentActivation(c)
        BY <2>2 DEF SentActivation, SameRequest, Owns
    <2>4. call[c].op = "deactivate" => SentActivation(c) \notin activations'
        BY <1>3 DEF ProviderAnswers
    <2>5. Hears(c)
        BY <1>1, <1>2, <2>1, <2>2, <2>4 DEF Hears
    <2> QED BY <1>1, <1>2, <1>3, <2>1, <2>5 DEF Moves, ProviderAnswers
<1>4. CASE ProviderRefuses(c) \/ \E kind \in {"transient", "invalid"} : ResponseFails(c, kind)
    <2>1. PICK kind : kind # "data" /\ Responds(c, kind, None)
        BY <1>4 DEF ProviderRefuses, ResponseFails
    <2>2. Hears(c)
        BY <1>1, <1>2, <2>1 DEF Hears
    <2>3. activations' = activations
        BY <1>4 DEF ProviderRefuses, ResponseFails
    <2> QED BY <1>1, <1>2, <2>1, <2>2, <2>3 DEF Moves
<1> QED
    BY <1>3, <1>4 DEF Polar

\* A landing ends the call or takes it to its file work.
LEMMA LandMoves ==
    ASSUME TypeInv, NEW c \in Call, Land(c), NEW d \in Call
    PROVE  Moves(d)
<1>1. /\ call[c].pc \notin {"idle", "done"} /\ call[c] \in CallRecord /\ clock' = clock
    BY DEF Land, DenialStored, DenialUnsaved, ClearAfterDenial, RejectActivation, GrantSuperseded,
           GrantPersisted, BindReceipt, LandTransient, LandInvalid, FinishDeactivate, Denies, Grants,
           Definitive, Lands, TypeInv, TypeOK
<1>2. CASE DenialUnsaved(c)
    <2> DEFINE r == [call[c] EXCEPT !.pc = "clearing"]
    <2>1. /\ r.op = call[c].op /\ r.proc = call[c].proc /\ r.key = call[c].key
          /\ r.saved = call[c].saved /\ r.at = call[c].at /\ r.held = call[c].held
          /\ r.pc = "clearing" /\ r.resp = call[c].resp
        BY <1>1 DEF CallRecord
    <2>2. call' = [call EXCEPT ![c] = r] /\ call[c].pc = "answered"
          /\ call[c].op \in {"validate", "activate"}
        BY <1>2 DEF DenialUnsaved, Denies, Definitive, Lands
    <2> HIDE DEF r
    <2>3. call'[c] = r
        BY <2>2 DEF TypeInv, TypeOK
    <2>4. Proceeds(c)
        BY <1>1, <2>1, <2>2, <2>3 DEF Proceeds, SameRequest
    <2> QED BY <1>1, <2>2, <2>4, OthersRest DEF Moves
<1>3. CASE GrantPersisted(c)
    <2>1. PICK warning : call' = [call EXCEPT ![c].pc = "binding", ![c].reply.warning = warning]
        BY <1>3 DEF GrantPersisted
    <2> DEFINE r == [call[c] EXCEPT !.pc = "binding", !.reply.warning = warning]
    <2>2. /\ r.op = call[c].op /\ r.proc = call[c].proc /\ r.key = call[c].key
          /\ r.saved = call[c].saved /\ r.at = call[c].at /\ r.held = call[c].held
          /\ r.pc = "binding" /\ r.resp = call[c].resp
        BY <1>1 DEF CallRecord
    <2>3. call' = [call EXCEPT ![c] = r]
        BY <2>1
    <2> HIDE DEF r
    <2>4. call'[c] = r
        BY <2>3 DEF TypeInv, TypeOK
    <2>5. call[c].pc = "answered" /\ call[c].op \in {"validate", "activate"}
        BY <1>3 DEF GrantPersisted, Grants, Definitive, Lands
    <2>6. Proceeds(c)
        BY <1>1, <2>2, <2>4, <2>5 DEF Proceeds, SameRequest
    <2> QED BY <1>1, <2>3, <2>6, OthersRest DEF Moves
<1>4. CASE ~DenialUnsaved(c) /\ ~GrantPersisted(c)
    <2>1. PICK plan, how, warning : Returns(c, plan, how, warning)
        BY <1>4 DEF Land, DenialStored, DenialReply, ClearAfterDenial, RejectActivation,
               GrantSuperseded, BindReceipt, LandTransient, LandInvalid, FinishDeactivate
    <2> QED BY <1>1, <2>1, ReturnedEnds
<1> QED
    BY <1>2, <1>3, <1>4

\* What time does to a call: it uses up what a live request has left, and passes by
\* the others.
LEMMA TickMoves ==
    ASSUME TypeInv, Tick, NEW d \in Call
    PROVE  Moves(d)
<1> DEFINE r == [call[d] EXCEPT !.left = @ - 1]
<1>1. call[d] \in CallRecord
    BY DEF TypeInv, TypeOK
<1>2. /\ r.pc = call[d].pc /\ r.op = call[d].op /\ r.proc = call[d].proc /\ r.key = call[d].key
      /\ r.saved = call[d].saved /\ r.at = call[d].at /\ r.held = call[d].held
      /\ r.resp = call[d].resp /\ r.left = call[d].left - 1
    BY <1>1 DEF CallRecord
<1>3. /\ call'[d] = IF InFlight(d) /\ call[d].left > 0 THEN r ELSE call[d]
      /\ clock' = clock + 1
      /\ call[d].proc \in alive => ~FileStep(d) /\ (InFlight(d) => call[d].left > 0)
    BY DEF Tick
<1> HIDE DEF r
<1>4. CASE InFlight(d) /\ call[d].left > 0
    BY <1>2, <1>3, <1>4 DEF Moves, Waits, SameRequest
<1>5. CASE ~(InFlight(d) /\ call[d].left > 0)
    BY <1>3, <1>5 DEF Moves, Rests
<1> QED
    BY <1>4, <1>5

\* Every step moves every call in one of these ways.
LEMMA EveryCallMoves ==
    ASSUME TypeInv, [Next]_vars, NEW d \in Call
    PROVE  Moves(d)
<1>1. ASSUME call' = call, clock' = clock PROVE Moves(d)
    BY <1>1 DEF Moves, Rests
<1>2. CASE UNCHANGED vars
    BY <1>1, <1>2 DEF vars
<1>3. CASE Environment
    BY <1>1, <1>3, TickMoves DEF Environment, SetProvider, Crash
<1> QED
    BY <1>2, <1>3, StartBegins, PolarHears, LandMoves DEF Next

\* A step that does not start or land a call leaves its reply alone.
LEMMA RepliesStay ==
    ASSUME TypeInv, [Next]_vars, NEW c \in Call, ~(\E p \in Proc : Start(c, p)), ~Land(c)
    PROVE  call'[c].reply = call[c].reply
<1>1. call \in [Call -> CallRecord]
    BY DEF TypeInv, TypeOK
<1>2. ASSUME NEW d \in Call, (\E p \in Proc : Start(d, p)) \/ Polar(d) \/ Land(d), d # c
      PROVE  call'[c] = call[c]
    BY <1>1, <1>2
       DEF Start, ValidateUnactivated, ValidateFromCache, StartValidate, StartActivate,
           StartDeactivate, ClearLicenseState,
           Polar, ProviderAnswers, ProviderRefuses, ResponseFails, Responds,
           Land, DenialStored, DenialUnsaved, ClearAfterDenial, DenialReply, RejectActivation,
           GrantSuperseded, GrantPersisted, BindReceipt, LandTransient, LandInvalid,
           FinishDeactivate, Returns
<1>3. ASSUME Polar(c) PROVE call'[c].reply = call[c].reply
    BY <1>1, <1>3 DEF Polar, ProviderAnswers, ProviderRefuses, ResponseFails, Responds, CallRecord
<1>4. CASE Environment \/ UNCHANGED vars
    <2>1. CASE call' = call
        BY <2>1
    <2>2. CASE Tick
        <3> DEFINE r == [call[c] EXCEPT !.left = @ - 1]
        <3>1. r.reply = call[c].reply
            BY <1>1 DEF CallRecord
        <3>2. call'[c] = IF InFlight(c) /\ call[c].left > 0 THEN r ELSE call[c]
            BY <2>2 DEF Tick
        <3> HIDE DEF r
        <3> QED BY <3>1, <3>2
    <2> QED BY <1>4, <2>1, <2>2 DEF Environment, SetProvider, Crash, vars
<1> QED
    BY <1>2, <1>3, <1>4 DEF Next

-----------------------------------------------------------------------------
(* Denied and deactivated: what an answer leaves behind *)

\* The action that DenialLeavesNoPaidCredential states, for one call.
DeniesHonestly(c) ==
    /\ Answers(c, {"denied"})
    /\ call'[c].reply.warning \notin {"stuck", "other-key"}
    => ~(Owns(file', call[c].key) /\ file'.plan # "free")

\* The action that DeactivationIsHonest states, for one call.
DeactivatesHonestly(c) ==
    Answers(c, {"cleared"}) /\ call[c].op = "deactivate" =>
        /\ file' = None
        /\ SentActivation(c) \notin activations

\* The activation that is kept in a credential was answered before it was kept.
Registered(credential) ==
    credential # None /\ credential.activation # None =>
        call[credential.activation].pc \notin {"idle", "sent"}

\* A deactivation asks Polar about the activation it read, unless there is none; and
\* once Polar has confirmed it, nobody registers that activation again.
GoneInv ==
    /\ Registered(file)
    /\ \A c \in Call :
         /\ call[c].pc = "idle" => call[c].op = "none"
         /\ Registered(call[c].saved)
         /\ call[c].op = "deactivate" =>
              /\ call[c].pc = "removing" => SentActivation(c) = None
              /\ call[c].pc = "answered" /\ call[c].resp.kind = "data" =>
                   SentActivation(c) \notin activations

\* A call past its request stays past it.
LEMMA RegisteredStays ==
    ASSUME TypeInv, \A d \in Call : Moves(d),
           NEW credential \in Credential \cup {None}, Registered(credential)
    PROVE  credential # None /\ credential.activation # None =>
             call'[credential.activation].pc \notin {"idle", "sent"}
<1> SUFFICES ASSUME credential # None, credential.activation # None
             PROVE  call'[credential.activation].pc \notin {"idle", "sent"}
    OBVIOUS
<1>1. /\ credential.activation \in Call
      /\ call[credential.activation].pc \notin {"idle", "sent"}
    BY DEF Credential, Registered
<1>2. Moves(credential.activation)
    BY <1>1
<1> QED
    BY <1>1, <1>2 DEF Moves, Begins, Hears, Proceeds, Ends, Waits, Rests, InFlight

\* Activations appear only while the call that makes them waits for the answer.
LEMMA ActivationsGo ==
    ASSUME TypeInv, [Next]_vars, NEW c \in Call, c \in activations'
    PROVE  c \in activations \/ call[c].pc = "sent"
<1>1. ASSUME NEW d \in Call, Polar(d) PROVE c \in activations \/ call[c].pc = "sent"
    BY <1>1, PolarHears
<1>2. CASE activations' = activations
    BY <1>2
<1>3. ASSUME NEW d \in Call, NEW p \in Proc, Start(d, p) PROVE activations' = activations
    BY <1>3 DEF Start, ValidateUnactivated, ValidateFromCache, StartValidate, StartActivate,
                StartDeactivate, ClearLicenseState
<1>4. ASSUME NEW d \in Call, Land(d) PROVE activations' = activations
    BY <1>4 DEF Land, DenialStored, DenialUnsaved, ClearAfterDenial, RejectActivation,
            GrantSuperseded, GrantPersisted, BindReceipt, LandTransient, LandInvalid, FinishDeactivate
<1>5. CASE Environment \/ UNCHANGED vars
    BY <1>2, <1>5 DEF Environment, SetProvider, Tick, Crash, vars
<1> QED
    BY <1>1, <1>2, <1>3, <1>4, <1>5 DEF Next

\* What an answered call may save is registered.
LEMMA DecisionsAreRegistered ==
    ASSUME TypeInv, GoneInv, NEW c \in Call, call[c].pc = "answered"
    PROVE  Decision(c) \in Credential /\ Registered(Decision(c))
<1>1. /\ SentActivation(c) \in Call \cup {None}
      /\ SentActivation(c) # None => call[SentActivation(c)].pc \notin {"idle", "sent"}
    BY DEF GoneInv, Registered, SentActivation, Owns, TypeInv, TypeOK, CallRecord, Credential
<1>2. Decision(c) \in Credential
    BY DecisionType DEF TypeInv, CallsAreIssued, WellIssued
<1>3. Decision(c).activation \in {None, c, SentActivation(c)}
    BY DEF Decision
<1> QED
    BY <1>1, <1>2, <1>3 DEF Registered

\* GoneInv survives every step.
LEMMA GoneStep ==
    ASSUME TypeInv, GoneInv, [Next]_vars
    PROVE  GoneInv'
<1> DEFINE Stays(credential) == credential # None /\ credential.activation # None =>
                                  call'[credential.activation].pc \notin {"idle", "sent"}
<1>1. (\A d \in Call : Moves(d)) /\ file' \in {file, None} \cup Savable
    BY EveryCallMoves, EveryCallGoes
<1>2. ASSUME NEW credential \in Credential \cup {None}, Registered(credential)
      PROVE  Stays(credential)
    BY <1>1, <1>2, RegisteredStays
<1>3. file \in Credential \cup {None} /\ Registered(file)
    BY DEF GoneInv, TypeInv, TypeOK
<1>4. ASSUME NEW c \in Call
      PROVE  call[c].saved \in Credential \cup {None} /\ Registered(call[c].saved)
    BY DEF GoneInv, TypeInv, TypeOK, CallRecord
<1>5. ASSUME NEW c \in Call, call[c].pc = "answered"
      PROVE  Decision(c) \in Credential /\ Registered(Decision(c))
    BY <1>5, DecisionsAreRegistered
<1>6. Stays(None)
    OBVIOUS
<1> HIDE DEF Stays
<1>7. Stays(file')
    <2>1. CASE file' \in {file, None}
        BY <1>2, <1>3, <1>6, <2>1
    <2>2. CASE file' \in Savable
        <3>1. PICK c \in Call : call[c].pc = "answered" /\ file' = Decision(c)
            BY <2>2 DEF Savable
        <3> QED BY <1>2, <1>5, <3>1
    <2> QED BY <1>1, <2>1, <2>2
<1>8. ASSUME NEW c \in Call
      PROVE  /\ call'[c].pc = "idle" => call'[c].op = "none"
             /\ Stays(call'[c].saved)
             /\ call'[c].op = "deactivate" =>
                  /\ call'[c].pc = "removing" => SentActivation(c)' = None
                  /\ call'[c].pc = "answered" /\ call'[c].resp.kind = "data" =>
                       SentActivation(c)' \notin activations'
    <2>1. Moves(c)
        BY <1>1
    <2>2. /\ call[c].pc = "idle" => call[c].op = "none"
          /\ call[c].op = "deactivate" =>
               /\ call[c].pc = "removing" => SentActivation(c) = None
               /\ call[c].pc = "answered" /\ call[c].resp.kind = "data" =>
                    SentActivation(c) \notin activations
        BY DEF GoneInv
    <2>3. Stays(call[c].saved) /\ Stays(file)
        BY <1>2, <1>3, <1>4
    <2>4. ASSUME call'[c].op = call[c].op, call'[c].pc = call[c].pc, call'[c].resp = call[c].resp,
                 SentActivation(c)' = SentActivation(c), call[c].op = "deactivate"
          PROVE  /\ call'[c].pc = "removing" => SentActivation(c)' = None
                 /\ call'[c].pc = "answered" /\ call'[c].resp.kind = "data" =>
                      SentActivation(c)' \notin activations'
        <3>1. SentActivation(c) \in Call \cup {None} /\ None \notin Call
            BY <1>4, ConstantsAssumption DEF SentActivation, Owns, Credential
        <3>2. SentActivation(c) # None => call[SentActivation(c)].pc # "sent"
            BY <1>4 DEF SentActivation, Owns, Registered
        <3>3. activations' \subseteq Call
            BY TypeStep DEF TypeInv, TypeOK
        <3>4. SentActivation(c) \in activations' => SentActivation(c) \in activations
            BY <3>1, <3>2, <3>3, ActivationsGo
        <3> QED BY <2>2, <2>4, <3>4
    <2>5. CASE Begins(c)
        BY <1>6, <2>3, <2>5 DEF Begins
    <2>6. CASE Hears(c)
        <3>1. SentActivation(c)' = SentActivation(c)
            BY <2>6 DEF Hears, SameRequest, SentActivation, Owns
        <3> QED BY <2>3, <2>6, <3>1 DEF Hears, SameRequest
    <2>7. CASE Proceeds(c)
        BY <2>3, <2>7 DEF Proceeds, SameRequest
    <2>8. CASE Ends(c)
        BY <1>6, <2>8 DEF Ends
    <2>9. CASE Waits(c)
        <3>1. SentActivation(c)' = SentActivation(c)
            BY <2>9 DEF Waits, SameRequest, SentActivation, Owns
        <3> QED BY <2>2, <2>3, <2>4, <2>9, <3>1 DEF Waits, SameRequest
    <2>10. CASE Rests(c)
        <3>1. SentActivation(c)' = SentActivation(c)
            BY <2>10 DEF Rests, SentActivation, Owns
        <3> QED BY <2>2, <2>3, <2>4, <2>10, <3>1 DEF Rests
    <2> QED BY <2>1, <2>5, <2>6, <2>7, <2>8, <2>9, <2>10 DEF Moves
<1> QED
    BY <1>7, <1>8 DEF GoneInv, Registered, Stays

\* GoneInv holds initially.
LEMMA GoneInit == Init => GoneInv
<1> SUFFICES ASSUME Init PROVE GoneInv
    OBVIOUS
<1>1. \A c \in Call : call[c].pc = "idle" /\ call[c].op = "none" /\ call[c].saved = None
    BY DEF Init, Blank
<1> QED
    BY <1>1 DEF Init, GoneInv, Registered

\* GoneInv holds throughout.
LEMMA AlwaysGone == Spec => [](TypeInv /\ GoneInv)
<1>1. Init => TypeInv /\ GoneInv
    BY InitType, GoneInit
<1>2. (TypeInv /\ GoneInv) /\ [Next]_vars => (TypeInv /\ GoneInv)'
    BY TypeStep, GoneStep
<1> QED
    BY <1>1, <1>2, PTL DEF Spec

\* What a return leaves in the reply.
LEMMA ReturnedReply ==
    ASSUME TypeInv, NEW c \in Call, NEW plan, NEW how, NEW warning,
           Returns(c, plan, how, warning)
    PROVE  /\ call'[c].reply.plan = plan /\ call'[c].reply.how = how
           /\ call'[c].reply.warning = warning
<1> DEFINE r == Replied(call[c], plan, how, warning)
<1>1. r.reply.plan = plan /\ r.reply.how = how /\ r.reply.warning = warning
    BY DEF Replied, Blank
<1>2. call'[c] = r
    BY DEF Returns, TypeInv, TypeOK
<1> HIDE DEF r
<1> QED
    BY <1>1, <1>2

\* A landing that says "denied" has stored or removed the credential, or warns; one
\* that says "cleared" has removed it, and Polar has forgotten the activation.
LEMMA LandHonest ==
    ASSUME TypeInv, GoneInv, NEW c \in Call, Land(c)
    PROVE  DeniesHonestly(c) /\ DeactivatesHonestly(c)
<1>1. call \in [Call -> CallRecord] /\ WellIssued(call[c]) /\ call[c] \in CallRecord
    BY DEF TypeInv, TypeOK, CallsAreIssued
<1>2. ASSUME NEW plan, NEW how, NEW warning, Returns(c, plan, how, warning),
             how \notin {"denied", "cleared"}
      PROVE  DeniesHonestly(c) /\ DeactivatesHonestly(c)
    BY <1>2, ReturnedReply DEF DeniesHonestly, DeactivatesHonestly, Answers
<1>3. ASSUME NEW plan, NEW warning, Returns(c, plan, "denied", warning)
      PROVE  DeactivatesHonestly(c) /\ call'[c].reply.warning = warning
    BY <1>3, ReturnedReply DEF DeactivatesHonestly, Answers
<1>4. ASSUME NEW how \in {"none"}, call'[c].reply.how = how
      PROVE  DeniesHonestly(c) /\ DeactivatesHonestly(c)
    BY <1>4 DEF DeniesHonestly, DeactivatesHonestly, Answers
<1>5. CASE DenialStored(c)
    <2>1. PICK warning : /\ DenialReply(c, warning)
                         /\ warning = "other-key" \/ (file' = Decision(c) /\ Decision(c).plan = "free")
        BY <1>5 DEF DenialStored, Denies
    <2>2. CASE call[c].op = "validate"
        BY <1>3, <2>1, <2>2 DEF DenialReply, DeniesHonestly
    <2>3. CASE call[c].op # "validate"
        BY <1>2, <2>1, <2>3 DEF DenialReply
    <2> QED BY <2>2, <2>3
<1>6. CASE ClearAfterDenial(c)
    <2>1. PICK warning : /\ DenialReply(c, warning)
                         /\ warning = "stuck" \/ file' = None
        BY <1>6 DEF ClearAfterDenial
    <2>2. CASE call[c].op = "validate"
        BY <1>3, <2>1, <2>2 DEF DenialReply, DeniesHonestly, Owns
    <2>3. CASE call[c].op # "validate"
        BY <1>2, <2>1, <2>3 DEF DenialReply
    <2> QED BY <2>2, <2>3
<1>7. CASE DenialUnsaved(c)
    <2>1. call'[c].reply = call[c].reply /\ call[c].reply.how = "none"
        BY <1>1, <1>7 DEF DenialUnsaved, Denies, Definitive, Lands, CallRecord, WellIssued
    <2> QED BY <1>4, <2>1
<1>8. CASE GrantPersisted(c)
    <2>1. PICK warning : call' = [call EXCEPT ![c].pc = "binding", ![c].reply.warning = warning]
        BY <1>8 DEF GrantPersisted
    <2>2. call'[c].reply.how = call[c].reply.how
        BY <1>1, <2>1 DEF CallRecord, Reply
    <2>3. call[c].reply.how = "none"
        BY <1>1, <1>8 DEF WellIssued, GrantPersisted, Grants, Definitive, Lands
    <2> QED BY <1>4, <2>2, <2>3
<1>9. CASE FinishDeactivate(c)
    <2>1. PICK how, warning : /\ Returns(c, "free", how, warning)
                              /\ \/ how = "thrown"
                                 \/ /\ how = "cleared" /\ file' = None
                                    /\ call[c].pc = "removing" \/ call[c].resp.kind = "data"
                              /\ call[c].pc \in {"removing", "answered"}
        BY <1>9 DEF FinishDeactivate, Lands
    <2>2. how = "cleared" => DeniesHonestly(c)
        BY <2>1, ReturnedReply DEF DeniesHonestly, Answers
    <2>3. how = "cleared" /\ call[c].op = "deactivate" => SentActivation(c) \notin activations
        <3>1. None \notin activations
            BY ConstantsAssumption DEF TypeInv, TypeOK
        <3> QED BY <2>1, <3>1 DEF GoneInv
    <2> QED BY <1>2, <2>1, <2>2, <2>3 DEF DeactivatesHonestly
<1>10. CASE RejectActivation(c) \/ GrantSuperseded(c) \/ BindReceipt(c) \/ LandTransient(c) \/ LandInvalid(c)
    <2>1. PICK plan, how, warning : /\ Returns(c, plan, how, warning)
                                    /\ how \in {"thrown", "superseded", "live", "grace", "unavailable"}
        BY <1>10 DEF RejectActivation, GrantSuperseded, BindReceipt, LandTransient, LandInvalid
    <2> QED BY <1>2, <2>1
<1> QED
    BY <1>5, <1>6, <1>7, <1>8, <1>9, <1>10 DEF Land

\* A step that leaves the reply alone says nothing.
LEMMA SilentIsHonest ==
    ASSUME NEW c \in Call, call'[c].reply = call[c].reply
    PROVE  DeniesHonestly(c) /\ DeactivatesHonestly(c)
BY DEF DeniesHonestly, DeactivatesHonestly, Answers

\* A start says nothing of the two, except a clearing that deactivates nothing.
LEMMA StartHonest ==
    ASSUME TypeInv, GoneInv, NEW c \in Call, NEW p \in Proc, Start(c, p)
    PROVE  DeniesHonestly(c) /\ DeactivatesHonestly(c)
<1>1. Begins(c)
    BY StartBegins
<1>2. call[c].op = "none"
    BY <1>1 DEF Begins, GoneInv
<1> QED
    BY <1>1, <1>2 DEF Begins, DeniesHonestly, DeactivatesHonestly, Answers

\* No step of the system answers dishonestly.
LEMMA NextHonest ==
    ASSUME TypeInv, GoneInv, [Next]_vars, NEW c \in Call
    PROVE  DeniesHonestly(c) /\ DeactivatesHonestly(c)
BY StartHonest, LandHonest, RepliesStay, SilentIsHonest

\* Whatever fails and whoever interferes: after an answer that denies without a
\* warning, no paid credential of the key is left in the file.
THEOREM DenialsLeaveNothingPaid == Spec => DenialLeavesNoPaidCredential
<1>1. (TypeInv /\ GoneInv) /\ [Next]_vars => [\A c \in Call : DeniesHonestly(c)]_vars
    BY NextHonest
<1>2. Spec => [][\A c \in Call : DeniesHonestly(c)]_vars
    BY <1>1, AlwaysGone, PTL DEF Spec
<1> QED
    BY <1>2 DEF DenialLeavesNoPaidCredential, DeniesHonestly

\* A deactivation that reports success has removed the file, and whatever happened
\* since Polar answered it, Polar does not know the activation the call had found.
THEOREM DeactivationsAreHonest == Spec => DeactivationIsHonest
<1>1. (TypeInv /\ GoneInv) /\ [Next]_vars => [\A c \in Call : DeactivatesHonestly(c)]_vars
    BY NextHonest
<1>2. Spec => [][\A c \in Call : DeactivatesHonestly(c)]_vars
    BY <1>1, AlwaysGone, PTL DEF Spec
<1> QED
    BY <1>2 DEF DeactivationIsHonest, DeactivatesHonestly

-----------------------------------------------------------------------------
(* Paid answers are recent *)

\* The history misses nothing: whatever time up to now the record Polar holds pays for,
\* the history remembers that time or a later one.
EntitledThroughout ==
    \A k \in Key, q \in Paid :
        /\ entitled[k][q] <= clock
        /\ \A t \in 0 .. clock : ParsedPlan(provider[k], t) = q => entitled[k][q] >= t

\* What a live call has waited and what it has left is its timeout; file work takes
\* no time.
InTime(c) ==
    InFlight(c) \/ FileStep(c) =>
        /\ call[c].at <= clock
        /\ call[c].proc \in alive =>
             clock - call[c].at <= IF InFlight(c) THEN Timeout - call[c].left ELSE Timeout

\* A license that was answered, and that pays at the time the call began, entitled
\* the key at that time or later.
OnRecord(c) ==
    /\ call[c].pc = "binding" => call[c].op \in {"validate", "activate"}
    /\ call[c].pc \in {"answered", "binding"} =>
         \A q \in Paid : ParsedPlan(call[c].resp.license, call[c].at) = q =>
                           entitled[call[c].key][q] >= call[c].at

\* A receipt dates from an entitlement, or is ahead of it by what its grant waited.
Grounded(key, receipt) ==
    receipt # None =>
        /\ call[receipt.grant].pc # "idle"
        /\ entitled[key][receipt.plan] >= receipt.at - Waited(receipt.grant)

RecencyInv ==
    /\ EntitledThroughout
    /\ \A c \in Call : /\ InTime(c) /\ OnRecord(c)
                       /\ InFlight(c) => Grounded(call[c].key, call[c].held)
    /\ \A p \in Proc, k \in Key : Grounded(k, session[p][k].receipt)

\* A license that pays at one time has paid at every time before.
LEMMA PaidBefore ==
    ASSUME NEW license \in LicenseRecord \cup {None}, NEW t \in Nat, NEW u \in Nat, t <= u,
           NEW q \in Paid, ParsedPlan(license, u) = q
    PROVE  ParsedPlan(license, t) = q
<1>1. license # None /\ license.status = "granted" /\ ~HasExpired(license.expires, u)
    BY DEF ParsedPlan, Paid
<1>2. license.expires \in Nat \cup {Never}
    BY <1>1 DEF LicenseRecord, Expiry
<1>3. ~HasExpired(license.expires, t)
    BY <1>1, <1>2 DEF HasExpired
<1> QED
    BY <1>1, <1>3 DEF ParsedPlan

\* The history keeps up with the provider and the clock.
LEMMA HistoryKeepsUp ==
    ASSUME TypeInv, EntitledThroughout, [Next]_vars
    PROVE  /\ EntitledThroughout'
           /\ clock' >= clock /\ alive' \subseteq alive
           /\ \A k \in Key, q \in Paid : entitled'[k][q] >= entitled[k][q]
<1>1. clock \in Nat /\ entitled \in [Key -> [Paid -> Int]]
      /\ provider \in [Key -> LicenseRecord \cup {None}]
    BY ConstantsAssumption DEF TypeInv, TypeOK
<1>2. EntitledNow
    <2> SUFFICES ASSUME NEW k \in Key, NEW q \in Paid, ParsedPlan(provider[k], clock) = q
                 PROVE  entitled[k][q] = clock
        BY DEF EntitledNow
    <2>1. clock \in 0 .. clock
        BY <1>1
    <2>2. entitled[k][q] >= clock /\ entitled[k][q] <= clock
        BY <2>1 DEF EntitledThroughout
    <2>3. entitled[k][q] \in Int
        BY <1>1
    <2> QED BY <1>1, <2>2, <2>3
<1>3. /\ clock' \in {clock, clock + 1} /\ alive' \subseteq alive
      /\ \A k \in Key, q \in Paid : entitled'[k][q] \in {entitled[k][q], clock'}
    BY <1>2, HistoryStep
<1>4. \A k \in Key, q \in Paid : entitled[k][q] \in Int /\ entitled[k][q] <= clock
    BY <1>1 DEF EntitledThroughout
<1>5. \A k \in Key, q \in Paid : entitled'[k][q] >= entitled[k][q] /\ entitled'[k][q] <= clock'
    BY <1>1, <1>3, <1>4
<1>6. ASSUME NEW k \in Key, NEW q \in Paid, NEW t \in 0 .. clock', ParsedPlan(provider'[k], t) = q
      PROVE  entitled'[k][q] >= t
    <2>1. CASE t \in 0 .. clock /\ provider'[k] = provider[k]
        <3>1. entitled[k][q] >= t
            BY <1>6, <2>1 DEF EntitledThroughout
        <3>2. t \in Int /\ entitled[k][q] \in Int /\ entitled'[k][q] \in Int
            BY <1>1, <1>3, <1>4, <2>1
        <3> QED BY <1>5, <3>1, <3>2
    <2>2. ASSUME entitled' = Remembered(provider', clock'), ParsedPlan(provider'[k], clock') = q
          PROVE  entitled'[k][q] >= t
        <3>1. entitled'[k][q] = clock'
            BY <2>2 DEF Remembered
        <3> QED BY <1>1, <1>3, <3>1
    <2>3. CASE Tick /\ t \notin 0 .. clock
        <3>1. t = clock' /\ entitled' = Remembered(provider', clock')
            BY <1>1, <2>3 DEF Tick
        <3> QED BY <1>6, <2>2, <3>1
    <2>4. ASSUME NEW license \in License[k], SetProvider(k, license)
          PROVE  entitled'[k][q] >= t
        <3>1. /\ provider'[k] = license /\ entitled' = Remembered(provider', clock) /\ clock' = clock
              /\ license # None => license.expires = 0 \/ ~HasExpired(license.expires, clock)
            BY <1>1, <2>4 DEF SetProvider
        <3>2. license # None /\ ~HasExpired(license.expires, t)
            BY <1>6, <3>1 DEF ParsedPlan, Paid
        <3>3. license.expires # 0
            BY <1>1, <3>1, <3>2, ConstantsAssumption DEF HasExpired
        <3>4. ParsedPlan(license, clock) = q
            BY <1>6, <3>1, <3>2, <3>3 DEF ParsedPlan
        <3> QED BY <2>2, <3>1, <3>4
    <2>5. clock' = clock \/ Tick
        BY <1>2, HistoryStep
    <2>6. ASSUME NEW j \in Key, j # k, NEW license \in License[j], SetProvider(j, license)
          PROVE  provider'[k] = provider[k]
        BY <1>1, <2>6 DEF SetProvider
    <2>7. ASSUME ~(\E j \in Key : \E license \in License[j] : SetProvider(j, license))
          PROVE  provider'[k] = provider[k]
        <3>1. ASSUME NEW c \in Call, Polar(c) PROVE provider' = provider
            BY <3>1 DEF Polar, ProviderAnswers, ProviderRefuses, ResponseFails
        <3>2. ASSUME NEW c \in Call, Land(c) PROVE provider' = provider
            BY <3>2 DEF Land, DenialStored, DenialUnsaved, ClearAfterDenial, RejectActivation,
               GrantSuperseded, GrantPersisted, BindReceipt, LandTransient, LandInvalid, FinishDeactivate
        <3>3. ASSUME NEW c \in Call, NEW p \in Proc, Start(c, p) PROVE provider' = provider
            BY <3>3 DEF Start, ValidateUnactivated, ValidateFromCache, StartValidate, StartActivate,
               StartDeactivate, ClearLicenseState
        <3> QED BY <2>7, <3>1, <3>2, <3>3 DEF Next, Environment, Tick, Crash, vars
    <2>8. clock' = clock => t \in 0 .. clock
        OBVIOUS
    <2> QED
        BY <2>1, <2>3, <2>4, <2>5, <2>6, <2>7, <2>8
<1> QED
    BY <1>1, <1>3, <1>5, <1>6 DEF EntitledThroughout

\* A receipt stays grounded.
LEMMA GroundedStays ==
    ASSUME TypeInv, EntitledThroughout, [Next]_vars,
           NEW key \in Key, NEW receipt \in Receipt \cup {None}, Grounded(key, receipt)
    PROVE  receipt # None =>
             /\ call'[receipt.grant].pc # "idle"
             /\ entitled'[key][receipt.plan] >= receipt.at - Waited(receipt.grant)'
<1> SUFFICES ASSUME receipt # None
             PROVE  /\ call'[receipt.grant].pc # "idle"
                    /\ entitled'[key][receipt.plan] >= receipt.at - Waited(receipt.grant)'
    OBVIOUS
<1>1. receipt.grant \in Call /\ receipt.plan \in Paid /\ receipt.at \in Nat
    BY DEF Receipt
<1>2. call'[receipt.grant].pc # "idle" /\ call'[receipt.grant].op = call[receipt.grant].op
    BY <1>1, EveryCallGoes DEF CallGoes, Grounded
<1>3. Waited(receipt.grant)' = Waited(receipt.grant) /\ Waited(receipt.grant) \in Nat
    BY <1>2, ConstantsAssumption DEF Waited
<1>4. entitled'[key][receipt.plan] >= entitled[key][receipt.plan]
    BY <1>1, HistoryKeepsUp
<1>5. TypeInv'
    BY TypeStep
<1>6. entitled'[key][receipt.plan] \in Int /\ entitled[key][receipt.plan] \in Int
    BY <1>1, <1>5 DEF TypeInv, TypeOK
<1>7. entitled[key][receipt.plan] >= receipt.at - Waited(receipt.grant)
    BY DEF Grounded
<1> QED
    BY <1>1, <1>2, <1>3, <1>4, <1>6, <1>7

\* The receipt of a session is dropped, kept, or bound by a grant of its key.
LEMMA SessionsGo ==
    ASSUME TypeInv, [Next]_vars, NEW p \in Proc, NEW k \in Key
    PROVE  \/ session'[p][k].receipt \in {None, session[p][k].receipt}
           \/ \E c \in Call : BindReceipt(c) /\ call[c].proc = p /\ call[c].key = k
<1>1. session \in [Proc -> [Key -> Session]]
    BY DEF TypeInv, TypeOK
<1>2. CASE session' = session
    BY <1>2
<1>3. ASSUME NEW q, NEW keys, Withdraw(q, keys)
      PROVE  session'[p][k].receipt \in {None, session[p][k].receipt}
    <2>1. session'[p][k] \in {session[p][k], Revoked(session[p][k])}
        BY <1>1, <1>3 DEF Withdraw
    <2> QED BY <2>1 DEF Revoked
<1>4. ASSUME NEW c \in Call, BindReceipt(c), ~(call[c].proc = p /\ call[c].key = k)
      PROVE  session'[p][k] = session[p][k]
    BY <1>1, <1>4 DEF BindReceipt
<1>5. ASSUME NEW c \in Call, NEW q \in Proc, Start(c, q)
      PROVE  session' = session \/ \E keys : Withdraw(q, keys)
    BY <1>5 DEF Start, ValidateUnactivated, ValidateFromCache, StartValidate, StartActivate,
                StartDeactivate, ClearLicenseState
<1>6. ASSUME NEW c \in Call, Polar(c) PROVE session' = session
    BY <1>6 DEF Polar, ProviderAnswers, ProviderRefuses, ResponseFails
<1>7. ASSUME NEW c \in Call, Land(c)
      PROVE  session' = session \/ (\E keys : Withdraw(call[c].proc, keys)) \/ BindReceipt(c)
    BY <1>7 DEF Land, DenialStored, DenialUnsaved, ClearAfterDenial, RejectActivation,
               GrantSuperseded, GrantPersisted, LandTransient, LandInvalid, FinishDeactivate
<1>8. CASE Environment \/ UNCHANGED vars
    BY <1>2, <1>8 DEF Environment, SetProvider, Tick, Crash, vars
<1> QED
    BY <1>2, <1>3, <1>4, <1>5, <1>6, <1>7, <1>8 DEF Next

\* What a live call is about to bind: its plan was entitled when it began or later, and
\* it began at most the timeout ago.
LEMMA LiveIsRecent ==
    ASSUME TypeInv, RecencyInv, NEW c \in Call, call[c].pc = "binding", call[c].proc \in alive
    PROVE  /\ Decision(c).plan \in Paid /\ call[c].op \in {"validate", "activate"}
           /\ call[c].key \in Key /\ call[c].at \in Nat
           /\ entitled[call[c].key][Decision(c).plan] >= call[c].at
           /\ call[c].at <= clock /\ clock - call[c].at <= Timeout
<1>1. call[c] \in CallRecord /\ call[c].key \in Key /\ clock \in Nat
    BY ConstantsAssumption DEF TypeInv, TypeOK, CallsAreIssued, WellIssued
<1>2. call[c].at \in Nat /\ call[c].resp.license \in LicenseRecord \cup {None}
    BY <1>1 DEF CallRecord, Response
<1>3. FileStep(c) /\ ~InFlight(c)
    BY DEF FileStep, InFlight
<1>4. call[c].at <= clock /\ clock - call[c].at <= Timeout
    BY <1>3 DEF RecencyInv, InTime
<1>5. call[c].op \in {"validate", "activate"}
    BY DEF RecencyInv, OnRecord
<1>6. Decision(c).plan # "free" /\ Decision(c).plan \in Plan
    BY <1>1, DecisionType DEF TypeInv, BindingIsGrant, Credential
<1>7. Decision(c).plan \in Paid
    BY <1>6 DEF Paid
<1>8. Decision(c).plan = ParsedPlan(call[c].resp.license, DecidedAt(c))
      /\ DecidedAt(c) \in {call[c].at, clock}
    BY DEF Decision, DecidedAt
<1> DEFINE q == Decision(c).plan
<1> HIDE DEF q
<1>9. q \in Paid /\ ParsedPlan(call[c].resp.license, DecidedAt(c)) = q
    BY <1>7, <1>8 DEF q
<1>10. ParsedPlan(call[c].resp.license, call[c].at) = q
    BY <1>1, <1>2, <1>4, <1>8, <1>9, PaidBefore
<1>11. entitled[call[c].key][q] >= call[c].at
    BY <1>9, <1>10 DEF RecencyInv, OnRecord
<1> QED
    BY <1>1, <1>2, <1>4, <1>5, <1>7, <1>11 DEF q

\* The receipt it binds is grounded.
LEMMA BoundIsGrounded ==
    ASSUME TypeInv, RecencyInv, [Next]_vars, NEW c \in Call, BindReceipt(c),
           NEW p \in Proc, NEW k \in Key, call[c].proc = p, call[c].key = k
    PROVE  Grounded(k, session[p][k].receipt)'
<1> DEFINE next == Decision(c)
           receipt == [plan |-> next.plan, at |-> next.at, expires |-> next.expires,
                       source |-> file, grant |-> c]
<1>1. call[c].pc = "binding" /\ call[c].proc \in alive
    BY DEF BindReceipt
<1>2. /\ next.plan \in Paid /\ call[c].op \in {"validate", "activate"}
      /\ k \in Key /\ call[c].at \in Nat
      /\ entitled[k][next.plan] >= call[c].at
      /\ call[c].at <= clock /\ clock - call[c].at <= Timeout
    BY <1>1, LiveIsRecent
<1>4. session'[p][k].receipt = receipt
    BY DEF BindReceipt, TypeInv, TypeOK, Session
<1>5. /\ receipt.plan = next.plan /\ receipt.grant = c /\ receipt.at = DecidedAt(c)
    BY DEF Decision
<1>6. call'[c].pc # "idle" /\ call'[c].op = call[c].op
    BY <1>1, EveryCallGoes DEF CallGoes
<1>7. entitled' = entitled
    BY DEF BindReceipt
<1>8. entitled[k][next.plan] \in Int /\ clock \in Nat /\ Timeout \in Nat
    BY <1>2, ConstantsAssumption DEF TypeInv, TypeOK
<1>9. entitled[k][next.plan] >= DecidedAt(c) - Waited(c)
    <2>1. CASE call[c].op = "validate"
        BY <1>2, <1>8, <2>1 DEF DecidedAt, Waited
    <2>2. CASE call[c].op = "activate"
        BY <1>2, <1>8, <2>2 DEF DecidedAt, Waited
    <2> QED BY <1>2, <2>1, <2>2
<1>10. Waited(c)' = Waited(c)
    BY <1>6 DEF Waited
<1> HIDE DEF receipt, next
<1> QED
    BY <1>4, <1>5, <1>6, <1>7, <1>9, <1>10 DEF Grounded

\* RecencyInv holds initially.
LEMMA RecencyInit == Init => RecencyInv
<1> SUFFICES ASSUME Init PROVE RecencyInv
    OBVIOUS
<1>1. \A c \in Call : call[c].pc = "idle" /\ call[c].held = None
    BY DEF Init, Blank
<1>2. \A p \in Proc, k \in Key : session[p][k].receipt = None
    BY DEF Init
<1>3. EntitledThroughout
    <2> SUFFICES ASSUME NEW k \in Key, NEW q \in Paid
                 PROVE  /\ entitled[k][q] <= 0
                        /\ ParsedPlan(provider[k], 0) = q => entitled[k][q] >= 0
        BY DEF EntitledThroughout, Init
    <2>1. entitled[k][q] = IF ParsedPlan(provider[k], 0) = q THEN 0 ELSE -1
        BY DEF Init
    <2> QED BY <2>1
<1> QED
    BY <1>1, <1>2, <1>3
       DEF RecencyInv, InTime, OnRecord, InFlight, FileStep, Grounded

\* However a call moves, what it waits for stays in time, on record and grounded.
LEMMA MovesStayRecent ==
    ASSUME TypeInv, RecencyInv, [Next]_vars, NEW c \in Call
    PROVE  /\ InTime(c)' /\ OnRecord(c)'
           /\ InFlight(c)' => Grounded(call[c].key, call[c].held)'
<1>1. /\ TypeInv' /\ EntitledThroughout /\ Moves(c)
      /\ InTime(c) /\ OnRecord(c) /\ (InFlight(c) => Grounded(call[c].key, call[c].held))
    BY TypeStep, EveryCallMoves DEF RecencyInv
<1>2. /\ call[c] \in CallRecord /\ call'[c] \in CallRecord
      /\ WellIssued(call[c]) /\ WellIssued(call'[c])
      /\ clock \in Nat /\ Timeout \in Nat
    BY <1>1, ConstantsAssumption DEF TypeInv, TypeOK, CallsAreIssued
<1>3. /\ clock' >= clock /\ alive' \subseteq alive
      /\ \A k \in Key, q \in Paid : /\ entitled'[k][q] >= entitled[k][q]
                                   /\ entitled'[k][q] \in Int /\ entitled[k][q] \in Int
    BY <1>1, HistoryKeepsUp DEF TypeInv, TypeOK
<1>4. /\ call[c].at \in Nat /\ call[c].left \in Nat /\ call'[c].at \in Nat /\ call'[c].left \in Nat
      /\ call[c].held \in Receipt \cup {None} /\ call'[c].held \in Receipt \cup {None}
      /\ clock' \in Nat
    BY <1>1, <1>2, ConstantsAssumption DEF CallRecord, TypeInv, TypeOK
<1>5. ASSUME SameRequest(c), InFlight(c)
      PROVE  Grounded(call[c].key, call[c].held)'
    <2>1. call[c].key \in Key
        BY <1>2, <1>5 DEF InFlight, WellIssued
    <2> QED
        BY <1>1, <1>4, <1>5, <2>1, GroundedStays DEF Grounded, SameRequest
<1>6. ASSUME SameRequest(c), call'[c].resp = call[c].resp, call'[c].pc \in {"answered", "binding"},
             call[c].pc \in {"answered", "binding"}
      PROVE  \A q \in Paid : ParsedPlan(call'[c].resp.license, call'[c].at) = q =>
                               entitled'[call'[c].key][q] >= call'[c].at
    <2>1. call[c].key \in Key
        BY <1>2, <1>6 DEF WellIssued
    <2> QED BY <1>1, <1>3, <1>4, <1>6, <2>1 DEF OnRecord, SameRequest
<1>7. CASE Begins(c)
    <2>1. OnRecord(c)'
        BY <1>7 DEF Begins, OnRecord
    <2>2. InTime(c)'
        BY <1>2, <1>7 DEF Begins, InTime, InFlight, FileStep
    <2>3. ASSUME InFlight(c)' PROVE Grounded(call[c].key, call[c].held)'
        <3>1. \/ call'[c].held = None
              \/ /\ call'[c].proc \in Proc /\ call'[c].key \in Key
                 /\ call'[c].held = session[call'[c].proc][call'[c].key].receipt
            BY <1>7, <2>3 DEF Begins, InFlight
        <3>2. CASE call'[c].held = None
            BY <3>2 DEF Grounded
        <3>3. CASE /\ call'[c].proc \in Proc /\ call'[c].key \in Key
                   /\ call'[c].held = session[call'[c].proc][call'[c].key].receipt
            BY <1>1, <1>4, <3>3, GroundedStays DEF Grounded, RecencyInv
        <3> QED BY <3>1, <3>2, <3>3
    <2> QED BY <2>1, <2>2, <2>3
<1>8. CASE Hears(c)
    <2>1. InFlight(c) /\ InFlight(c)' /\ ~FileStep(c)'
        BY <1>8 DEF Hears, InFlight, FileStep
    <2>2. InTime(c)'
        BY <1>1, <1>2, <1>3, <1>4, <1>8, <2>1 DEF Hears, SameRequest, InTime
    <2>3. call[c].key \in Key
        BY <1>2, <2>1 DEF InFlight, WellIssued
    <2>4. ASSUME NEW q \in Paid, ParsedPlan(call'[c].resp.license, call[c].at) = q
          PROVE  entitled'[call[c].key][q] >= call[c].at
        <3>1. call'[c].resp.license # None
            BY <2>4 DEF ParsedPlan, Paid
        <3>2. call'[c].resp.license = provider[call[c].key]
            BY <1>8, <3>1 DEF Hears
        <3>3. call[c].at \in 0 .. clock
            BY <1>1, <1>2, <1>4, <2>1 DEF InTime
        <3>4. entitled[call[c].key][q] >= call[c].at
            BY <1>1, <2>3, <2>4, <3>2, <3>3 DEF EntitledThroughout
        <3> QED BY <1>3, <1>4, <2>3, <3>4
    <2>5. OnRecord(c)'
        BY <1>8, <2>4 DEF Hears, SameRequest, OnRecord
    <2> QED BY <1>5, <1>8, <2>1, <2>2, <2>5 DEF Hears
<1>9. CASE Proceeds(c)
    <2>1. InFlight(c) /\ ~InFlight(c)'
        BY <1>9 DEF Proceeds, InFlight
    <2>2. InTime(c)'
        BY <1>1, <1>2, <1>3, <1>4, <1>9, <2>1 DEF Proceeds, SameRequest, InTime
    <2>3. OnRecord(c)'
        BY <1>6, <1>9 DEF Proceeds, SameRequest, OnRecord
    <2> QED BY <2>1, <2>2, <2>3
<1>10. CASE Ends(c)
    BY <1>10 DEF Ends, InTime, OnRecord, InFlight, FileStep
<1>11. CASE Waits(c)
    <2>1. InFlight(c) /\ InFlight(c)' /\ ~FileStep(c)'
        BY <1>11 DEF Waits, InFlight, FileStep
    <2>2. InTime(c)'
        BY <1>1, <1>2, <1>3, <1>4, <1>11, <2>1 DEF Waits, SameRequest, InTime
    <2>3. OnRecord(c)'
        BY <1>1, <1>6, <1>11 DEF Waits, SameRequest, OnRecord
    <2> QED BY <1>5, <1>11, <2>1, <2>2, <2>3 DEF Waits
<1>12. CASE Rests(c)
    <2>1. call'[c] = call[c] /\ SameRequest(c)
        BY <1>12 DEF Rests, SameRequest
    <2>2. InTime(c)'
        BY <1>1, <1>2, <1>3, <1>4, <1>12 DEF Rests, InTime, InFlight, FileStep
    <2>3. OnRecord(c)'
        BY <1>1, <1>6, <2>1 DEF OnRecord
    <2>4. InFlight(c)' => InFlight(c)
        BY <2>1 DEF InFlight
    <2> QED BY <1>5, <2>1, <2>2, <2>3, <2>4
<1> QED
    BY <1>1, <1>7, <1>8, <1>9, <1>10, <1>11, <1>12 DEF Moves

\* RecencyInv survives every step.
LEMMA RecencyStep ==
    ASSUME TypeInv, RecencyInv, [Next]_vars
    PROVE  RecencyInv'
<1>1. EntitledThroughout'
    BY HistoryKeepsUp DEF RecencyInv
<1>2. ASSUME NEW p \in Proc, NEW k \in Key
      PROVE  Grounded(k, session[p][k].receipt)'
    <2>1. CASE session'[p][k].receipt = None
        BY <2>1 DEF Grounded
    <2>2. CASE session'[p][k].receipt = session[p][k].receipt
        <3>1. session[p][k].receipt \in Receipt \cup {None}
            BY DEF TypeInv, TypeOK, Session
        <3> QED BY <2>2, <3>1, GroundedStays DEF Grounded, RecencyInv
    <2>3. CASE \E c \in Call : BindReceipt(c) /\ call[c].proc = p /\ call[c].key = k
        BY <2>3, BoundIsGrounded
    <2> QED BY <2>1, <2>2, <2>3, SessionsGo
<1> QED
    BY <1>1, <1>2, MovesStayRecent DEF RecencyInv

\* RecencyInv holds throughout.
LEMMA AlwaysRecent == Spec => [](TypeInv /\ RecencyInv)
<1>1. Init => TypeInv /\ RecencyInv
    BY InitType, RecencyInit
<1>2. (TypeInv /\ RecencyInv) /\ [Next]_vars => (TypeInv /\ RecencyInv)'
    BY TypeStep, RecencyStep
<1> QED
    BY <1>1, <1>2, PTL DEF Spec

\* The action that PaidAnswersAreRecent states, for one call.
RecentAnswer(c) ==
    LET age == clock - entitled[call'[c].key][call'[c].reply.plan]
        grant == call'[c].held.grant IN
    /\ Answers(c, {"live"}) => age <= Timeout
    /\ Answers(c, {"cached"}) => age <= CacheTTL + Waited(grant)
    /\ Answers(c, {"grace"}) => age <= Grace + Timeout + Waited(grant)

\* A step that answers without a paid plan, or not at all, is recent enough.
LEMMA UnpaidIsRecent ==
    ASSUME NEW c \in Call, call'[c].reply = call[c].reply \/ call'[c].reply.how \notin PaidHows
    PROVE  RecentAnswer(c)
BY DEF RecentAnswer, Answers, PaidHows

\* How old the entitlement behind a receipt is that was fresh some time ago.
LEMMA ReceiptAge ==
    ASSUME TypeInv, NEW key \in Key, NEW receipt \in Receipt, Grounded(key, receipt),
           NEW time \in Nat, NEW limit \in Nat, Fresh(receipt, time, limit),
           NEW wait \in Nat, clock - time <= wait
    PROVE  clock - entitled[key][receipt.plan] <= limit + wait + Waited(receipt.grant)
<1>1. /\ receipt # None /\ receipt.at \in Nat /\ receipt.plan \in Paid
      /\ time - receipt.at <= limit
    BY DEF Fresh, Receipt
<1>2. /\ clock \in Nat /\ entitled[key][receipt.plan] \in Int /\ Waited(receipt.grant) \in Nat
    BY <1>1, ConstantsAssumption DEF TypeInv, TypeOK, Waited
<1>3. entitled[key][receipt.plan] >= receipt.at - Waited(receipt.grant)
    BY <1>1 DEF Grounded
<1> QED
    BY <1>1, <1>2, <1>3

\* A cached answer rests on a receipt of its session; no other answers at its start
\* with a paid plan.
LEMMA StartRecent ==
    ASSUME TypeInv, RecencyInv, NEW c \in Call, Begins(c)
    PROVE  RecentAnswer(c)
<1>1. call \in [Call -> CallRecord]
    BY DEF TypeInv, TypeOK
<1>2. ASSUME NEW p \in Proc, ValidateFromCache(c, p) PROVE RecentAnswer(c)
    <2> DEFINE k == SelectedKey(p)
               receipt == session[p][k].receipt
               i == [Issued(p, "validate", k) EXCEPT !.held = receipt]
               r == Replied(i, receipt.plan, "cached", "none")
    <2>1. k \in Key /\ Fresh(receipt, clock, CacheTTL)
        BY <1>2, ConstantsAssumption
           DEF ValidateFromCache, SelectedKey, TypeInv, TypeOK, Credential
    <2>2. receipt \in Receipt
        BY <2>1 DEF Fresh, TypeInv, TypeOK, Session
    <2>3. i.held = receipt /\ i.key = k
        BY DEF Issued, Blank
    <2>4. call'[c] = r
        BY <1>1, <1>2 DEF ValidateFromCache
    <2> HIDE DEF i
    <2>5. r.held = receipt /\ r.key = k /\ r.reply.plan = receipt.plan /\ r.reply.how = "cached"
        BY <2>3 DEF Replied, Blank
    <2> HIDE DEF r
    <2>6. Grounded(k, receipt)
        BY <2>1 DEF RecencyInv
    <2> HIDE DEF receipt, k
    <2>7. clock \in Nat /\ CacheTTL \in Nat /\ clock - clock <= 0
        BY ConstantsAssumption DEF TypeInv, TypeOK
    <2>8. clock - entitled[k][receipt.plan] <= CacheTTL + 0 + Waited(receipt.grant)
        BY <2>1, <2>2, <2>6, <2>7, ReceiptAge
    <2>9. Waited(receipt.grant) \in Nat
        BY ConstantsAssumption DEF Waited
    <2>10. clock - entitled[k][receipt.plan] <= CacheTTL + Waited(receipt.grant)
        BY <2>7, <2>8, <2>9
    <2> QED BY <2>4, <2>5, <2>10 DEF RecentAnswer, Answers
<1>3. CASE call'[c].reply.how \in {"none", "inactive", "cleared", "thrown"}
    BY <1>3, UnpaidIsRecent DEF PaidHows
<1> QED
    BY <1>2, <1>3 DEF Begins

\* A live answer is as recent as its call, a grace answer as the receipt it falls back on.
LEMMA LandRecent ==
    ASSUME TypeInv, RecencyInv, NEW c \in Call, Land(c)
    PROVE  RecentAnswer(c)
<1>1. /\ call \in [Call -> CallRecord] /\ call[c] \in CallRecord /\ WellIssued(call[c])
      /\ clock \in Nat /\ Timeout \in Nat /\ Grace \in Nat
    BY ConstantsAssumption DEF TypeInv, TypeOK, CallsAreIssued
<1>2. ASSUME NEW plan, NEW how, NEW warning, Returns(c, plan, how, warning), how \notin PaidHows
      PROVE  RecentAnswer(c)
    BY <1>2, ReturnedReply, UnpaidIsRecent
<1>3. ASSUME NEW plan, NEW how, NEW warning, Returns(c, plan, how, warning)
      PROVE  call'[c].key = call[c].key /\ call'[c].held = call[c].held
    <2> DEFINE r == Replied(call[c], plan, how, warning)
    <2>1. r.key = call[c].key /\ r.held = call[c].held
        BY DEF Replied, Blank
    <2>2. call'[c] = r
        BY <1>1, <1>3 DEF Returns
    <2> HIDE DEF r
    <2> QED BY <2>1, <2>2
<1>4. CASE BindReceipt(c)
    <2> DEFINE q == Decision(c).plan
    <2>1. /\ q \in Paid /\ call[c].key \in Key /\ call[c].at \in Nat
          /\ entitled[call[c].key][q] >= call[c].at
          /\ call[c].at <= clock /\ clock - call[c].at <= Timeout
        BY <1>4, LiveIsRecent DEF BindReceipt
    <2>2. Returns(c, q, "live", call[c].reply.warning)
        BY <1>4 DEF BindReceipt
    <2> HIDE DEF q
    <2>3. /\ call'[c].key = call[c].key /\ call'[c].reply.plan = q /\ call'[c].reply.how = "live"
        BY <1>3, <2>2, ReturnedReply
    <2>4. entitled[call[c].key][q] \in Int
        BY <2>1 DEF TypeInv, TypeOK
    <2>5. clock - entitled[call[c].key][q] <= Timeout
        BY <1>1, <2>1, <2>4
    <2> QED BY <2>3, <2>5 DEF RecentAnswer, Answers
<1>5. CASE LandTransient(c)
    <2> DEFINE held == call[c].held
    <2>1. /\ InFlight(c) /\ ~FileStep(c) /\ call[c].proc \in alive
          /\ call[c].key \in Key /\ call[c].at \in Nat /\ call[c].left \in Nat
        BY <1>1, <1>5 DEF LandTransient, Lands, Runs, InFlight, FileStep, WellIssued, CallRecord
    <2>2. CASE \E how \in {"thrown", "unavailable"} : Returns(c, "free", how, "none")
        BY <1>2, <2>2 DEF PaidHows
    <2>3. CASE Fresh(held, call[c].at, Grace) /\ Returns(c, held.plan, "grace", "none")
        <3>1. held \in Receipt /\ Grounded(call[c].key, held)
            BY <1>1, <2>1, <2>3 DEF Fresh, CallRecord, RecencyInv
        <3>2. clock - call[c].at <= Timeout
            <4>1. clock - call[c].at <= Timeout - call[c].left
                BY <2>1 DEF RecencyInv, InTime
            <4> QED BY <1>1, <2>1, <4>1
        <3> HIDE DEF held
        <3>3. clock - entitled[call[c].key][held.plan] <= Grace + Timeout + Waited(held.grant)
            BY <1>1, <2>1, <2>3, <3>1, <3>2, ReceiptAge
        <3>4. /\ call'[c].key = call[c].key /\ call'[c].held = held
              /\ call'[c].reply.plan = held.plan /\ call'[c].reply.how = "grace"
            BY <1>3, <2>3, ReturnedReply DEF held
        <3> QED BY <3>3, <3>4 DEF RecentAnswer, Answers
    <2> QED BY <1>5, <2>2, <2>3 DEF LandTransient
<1>6. CASE DenialUnsaved(c)
    <2>1. call'[c].reply = call[c].reply
        BY <1>1, <1>6 DEF DenialUnsaved, CallRecord
    <2> QED BY <2>1, UnpaidIsRecent
<1>7. CASE GrantPersisted(c)
    <2>1. PICK warning : call' = [call EXCEPT ![c].pc = "binding", ![c].reply.warning = warning]
        BY <1>7 DEF GrantPersisted
    <2>2. call'[c].reply.how = call[c].reply.how
        BY <1>1, <2>1 DEF CallRecord, Reply
    <2>3. call[c].reply.how = "none"
        BY <1>1, <1>7 DEF WellIssued, GrantPersisted, Grants, Definitive, Lands
    <2> QED BY <2>2, <2>3, UnpaidIsRecent DEF PaidHows
<1>8. CASE DenialStored(c) \/ ClearAfterDenial(c) \/ RejectActivation(c) \/ GrantSuperseded(c)
           \/ LandInvalid(c) \/ FinishDeactivate(c)
    <2>1. PICK how, warning : /\ Returns(c, "free", how, warning)
                              /\ how \in {"denied", "thrown", "superseded", "unavailable", "cleared"}
        BY <1>8 DEF DenialStored, DenialReply, ClearAfterDenial, RejectActivation, GrantSuperseded,
               LandInvalid, FinishDeactivate
    <2> QED BY <1>2, <2>1 DEF PaidHows
<1> QED
    BY <1>4, <1>5, <1>6, <1>7, <1>8 DEF Land

\* No answer with a paid plan, live, cached or in grace, is older than its bound: for
\* every number of processes, keys and calls and every limit, whatever fails.
THEOREM PaidAnswersStayRecent == Spec => PaidAnswersAreRecent
<1>1. ASSUME TypeInv, RecencyInv, [Next]_vars, NEW c \in Call
      PROVE  RecentAnswer(c)
    <2>1. ASSUME NEW p \in Proc, Start(c, p) PROVE RecentAnswer(c)
        BY <1>1, <2>1, StartBegins, StartRecent
    <2> QED
        BY <1>1, <2>1, LandRecent, RepliesStay, UnpaidIsRecent
<1>2. (TypeInv /\ RecencyInv) /\ [Next]_vars => [\A c \in Call : RecentAnswer(c)]_vars
    BY <1>1
<1>3. Spec => [][\A c \in Call : RecentAnswer(c)]_vars
    BY <1>2, AlwaysRecent, PTL DEF Spec
<1> QED
    BY <1>3 DEF PaidAnswersAreRecent, RecentAnswer
=============================================================================
