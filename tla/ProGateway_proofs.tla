-------------------------- MODULE ProGateway_proofs --------------------------
(***************************************************************************)
(* For any number of requests, clients and keys, any limits and any         *)
(* timeout: the gateway never runs more requests than it may and loses no   *)
(* slot, and what it serves was granted at most one timeout ago; it starts  *)
(* no more work in a window than its rates allow, and refuses none below.   *)
(***************************************************************************)
EXTENDS ProGateway, FiniteSetTheorems, TLAPS

Holding == {"reading", "verifying", "answered"}

-----------------------------------------------------------------------------
(* The inductive invariant *)

\* The part of the types the argument needs.
StateOK ==
    /\ clock \in Nat /\ inFlight \in Nat
    /\ req \in [Request -> RequestState]
    /\ provider \in [Key -> Expiry \cup {None}]
    /\ entitled \in [Key -> Int]

\* A request that is being verified has a key, and its timeout runs.
KnownFor(s) == s.pc \in {"verifying", "answered"} => s.key \in Key /\ s.left <= Timeout
VerifiedIsKnown == \A r \in Request : KnownFor(req[r])

\* A key the provider grants now was granted now.
EntitledIsCurrent ==
    \A k \in Key : entitled[k] <= clock /\ (Valid(provider[k]) => entitled[k] = clock)

\* An answer that still counts is no older than its request.
BackedFor(s) ==
    s.pc = "answered" /\ Valid(s.license) => clock - entitled[s.key] <= Timeout - s.left
AnswerIsBacked == \A r \in Request : BackedFor(req[r])

IInv == StateOK /\ SlotsAreExact /\ VerifiedIsKnown /\ EntitledIsCurrent /\ AnswerIsBacked

-----------------------------------------------------------------------------
(* What a step of one request does to it *)

\* A step that leaves every slot where it is.
SlotIsKept(r, s) ==
    inFlight' = inFlight /\ (s.pc \in Holding <=> req[r].pc \in Holding)
\* One that takes a slot, and one that gives it back.
SlotIsTaken(r, s) ==
    /\ inFlight < MaxInFlight /\ inFlight' = inFlight + 1
    /\ s.pc \in Holding /\ req[r].pc \notin Holding
SlotIsGiven(r, s) ==
    inFlight' = inFlight - 1 /\ s.pc \notin Holding /\ req[r].pc \in Holding

LEMMA ActiveIsFinite == IsFiniteSet(Active)
<1>1. Active \in SUBSET Request
    BY DEF Active
<1> QED
    BY <1>1, FS_Subset, ConstantsAssumption

\* A step of one request that treats its slot in one of the three ways and leaves a
\* known, backed state preserves the invariant.
LEMMA LocalStep ==
    ASSUME IInv, NEW r \in Request, NEW s \in RequestState,
           req' = [req EXCEPT ![r] = s],
           UNCHANGED <<clock, provider, entitled>>,
           SlotIsKept(r, s) \/ SlotIsTaken(r, s) \/ SlotIsGiven(r, s),
           KnownFor(s), BackedFor(s)
    PROVE  IInv'
<1>1. /\ req \in [Request -> RequestState] /\ req' \in [Request -> RequestState]
      /\ req'[r] = s /\ \A q \in Request \ {r} : req'[q] = req[q]
    BY DEF IInv, StateOK
<1>2. /\ Active = {q \in Request : req[q].pc \in Holding}
      /\ Active' = {q \in Request : req'[q].pc \in Holding}
    BY DEF Active, Holding
<1>3. IsFiniteSet(Active) /\ Cardinality(Active) \in Nat
    BY ActiveIsFinite, FS_CardinalityType
<1>4. SlotsAreExact' /\ inFlight' \in Nat
    <2>1. CASE SlotIsKept(r, s)
        <3>1. Active' = Active
            BY <1>1, <1>2, <2>1 DEF SlotIsKept
        <3> QED
            BY <2>1, <3>1 DEF SlotIsKept, IInv, StateOK, SlotsAreExact
    <2>2. CASE SlotIsTaken(r, s)
        <3>1. Active' = Active \cup {r} /\ r \notin Active
            BY <1>1, <1>2, <2>2 DEF SlotIsTaken
        <3>2. Cardinality(Active \cup {r}) = Cardinality(Active) + 1
            BY <1>3, <3>1, FS_AddElement
        <3> QED
            BY <2>2, <3>1, <3>2, ConstantsAssumption DEF SlotIsTaken, IInv, StateOK, SlotsAreExact
    <2>3. CASE SlotIsGiven(r, s)
        <3>1. Active' = Active \ {r} /\ r \in Active
            BY <1>1, <1>2, <2>3 DEF SlotIsGiven
        <3>2. Cardinality(Active \ {r}) = Cardinality(Active) - 1 /\ Cardinality(Active \ {r}) \in Nat
            BY <1>3, <3>1, FS_RemoveElement, FS_CardinalityType
        <3> QED
            BY <2>3, <3>1, <3>2, ConstantsAssumption DEF SlotIsGiven, IInv, StateOK, SlotsAreExact
    <2> QED
        BY <2>1, <2>2, <2>3
<1>5. StateOK'
    BY <1>1, <1>4 DEF IInv, StateOK
<1>6. VerifiedIsKnown'
    BY <1>1 DEF IInv, VerifiedIsKnown, KnownFor
<1>7. EntitledIsCurrent'
    BY DEF IInv, EntitledIsCurrent, Valid
<1>8. AnswerIsBacked'
    BY <1>1 DEF IInv, AnswerIsBacked, BackedFor, Valid
<1> QED
    BY <1>4, <1>5, <1>6, <1>7, <1>8 DEF IInv

\* The state of a request that is over.
LEMMA DoneIsFine ==
    /\ [Blank EXCEPT !.pc = "done"] \in RequestState
    /\ [Blank EXCEPT !.pc = "done"].pc = "done"
BY DEF Blank, RequestState

\* A request that holds no slot ends.
LEMMA EndsIsLocal ==
    ASSUME IInv, NEW r \in Request, req[r].pc \notin Holding,
           req' = [req EXCEPT ![r] = [Blank EXCEPT !.pc = "done"]],
           UNCHANGED <<clock, inFlight, provider, entitled>>
    PROVE  IInv'
<1> DEFINE s == [Blank EXCEPT !.pc = "done"]
<1>1. s \in RequestState /\ s.pc = "done"
    BY DoneIsFine
<1>2. SlotIsKept(r, s) /\ KnownFor(s) /\ BackedFor(s)
    BY <1>1 DEF SlotIsKept, Holding, KnownFor, BackedFor
<1>3. req' = [req EXCEPT ![r] = s]
    OBVIOUS
<1> QED
    BY <1>1, <1>2, <1>3, LocalStep

\* A request that holds a slot ends and gives it back.
LEMMA FinishesIsLocal ==
    ASSUME IInv, NEW r \in Request, req[r].pc \in Holding, NEW status, Finishes(r, status),
           UNCHANGED <<clock, provider, entitled>>
    PROVE  IInv'
<1> DEFINE s == [Blank EXCEPT !.pc = "done"]
<1>1. s \in RequestState /\ s.pc = "done"
    BY DoneIsFine
<1>2. SlotIsGiven(r, s) /\ KnownFor(s) /\ BackedFor(s)
    BY <1>1 DEF SlotIsGiven, Finishes, Holding, KnownFor, BackedFor
<1>3. req' = [req EXCEPT ![r] = s]
    BY DEF Finishes, Replies, Ends
<1> QED
    BY <1>1, <1>2, <1>3, LocalStep

-----------------------------------------------------------------------------
(* Every step preserves the invariant *)

\* The invariant holds at the start: nothing runs, and grants were made now.
LEMMA InvInit == Init => IInv
<1> SUFFICES ASSUME Init PROVE IInv
    OBVIOUS
<1>1. StateOK
    <2>1. Blank \in RequestState
        BY DEF Blank, RequestState
    <2>2. entitled \in [Key -> Int]
        BY DEF Init
    <2>3. provider \in [Key -> Expiry \cup {None}]
        BY ConstantsAssumption DEF Init
    <2> QED
        BY <2>1, <2>2, <2>3 DEF Init, StateOK
<1>2. \A r \in Request : req[r].pc = "idle"
    BY DEF Init, Blank
<1>3. SlotsAreExact
    <2>1. Active = {}
        BY <1>2 DEF Active
    <2> QED
        BY <2>1, FS_EmptySet, ConstantsAssumption DEF SlotsAreExact, Init
<1>4. VerifiedIsKnown /\ AnswerIsBacked
    BY <1>2 DEF VerifiedIsKnown, KnownFor, AnswerIsBacked, BackedFor
<1>5. EntitledIsCurrent
    BY DEF EntitledIsCurrent, Init
<1> QED
    BY <1>1, <1>3, <1>4, <1>5 DEF IInv

\* A step of the handler.
LEMMA InvHandle == ASSUME IInv, NEW r \in Request, Handle(r) PROVE IInv'
<1> USE DEF Holding
<1>0. req \in [Request -> RequestState] /\ req[r] \in RequestState
    BY DEF IInv, StateOK
<1>1. CASE RefusesUntrusted(r)
    BY <1>1, EndsIsLocal DEF RefusesUntrusted, IsNext, Replies, Ends
<1>2. CASE \E client \in Client : RefusesClient(r, client)
    BY <1>2, EndsIsLocal DEF RefusesClient, IsNext, Ends
<1>3. ASSUME NEW client \in Client, NEW service \in BOOLEAN, Arrives(r, client, service)
      PROVE  IInv'
    <2> DEFINE s == [Blank EXCEPT !.pc = "reading"]
    <2>1. CASE service /\ inFlight < MaxInFlight
        <3>1. s \in RequestState /\ s.pc = "reading"
            BY DEF Blank, RequestState
        <3>2. SlotIsTaken(r, s) /\ KnownFor(s) /\ BackedFor(s)
            BY <1>3, <2>1, <3>1 DEF Arrives, IsNext, SlotIsTaken, KnownFor, BackedFor
        <3>3. req' = [req EXCEPT ![r] = s] /\ UNCHANGED <<clock, provider, entitled>>
            BY <1>3, <2>1 DEF Arrives, Awaits
        <3> QED
            BY <3>1, <3>2, <3>3, LocalStep
    <2>2. CASE ~(service /\ inFlight < MaxInFlight)
        BY <1>3, <2>2, EndsIsLocal DEF Arrives, IsNext, Replies, Ends
    <2> QED
        BY <2>1, <2>2
<1>4. CASE BodyFails(r) \/ BodyNamesNoKey(r)
    BY <1>4, FinishesIsLocal DEF BodyFails, BodyNamesNoKey
<1>5. CASE \E key \in Key : RefusesKey(r, key)
    BY <1>5, FinishesIsLocal DEF RefusesKey
<1>6. ASSUME NEW key \in Key, NEW wellFormed \in BOOLEAN, BodyNamesKey(r, key, wellFormed)
      PROVE  IInv'
    <2> DEFINE s == [req[r] EXCEPT !.pc = "verifying", !.key = key, !.left = Timeout]
    <2>1. CASE wellFormed
        <3>1. /\ s \in RequestState
              /\ s.pc = "verifying" /\ s.key = key /\ s.left = Timeout
            BY <1>0, ConstantsAssumption DEF RequestState
        <3>2. req[r].pc = "reading" /\ inFlight' = inFlight
            BY <1>6, <2>1 DEF BodyNamesKey
        <3>3. SlotIsKept(r, s) /\ KnownFor(s) /\ BackedFor(s)
            BY <3>1, <3>2, ConstantsAssumption DEF SlotIsKept, KnownFor, BackedFor
        <3>4. req' = [req EXCEPT ![r] = s] /\ UNCHANGED <<clock, provider, entitled>>
            BY <1>6, <2>1 DEF BodyNamesKey, Awaits
        <3> QED
            BY <3>1, <3>3, <3>4, LocalStep
    <2>2. CASE ~wellFormed
        BY <1>6, <2>2, FinishesIsLocal DEF BodyNamesKey
    <2> QED
        BY <2>1, <2>2
<1>7. CASE ProviderAnswers(r)
    <2> DEFINE s == [req[r] EXCEPT !.pc = "answered", !.license = provider[req[r].key]]
    <2>1. req[r].pc = "verifying" /\ req[r].key \in Key /\ req[r].left <= Timeout
        BY <1>7 DEF ProviderAnswers, IInv, VerifiedIsKnown, KnownFor
    <2>2. /\ s \in RequestState
          /\ s.pc = "answered" /\ s.key = req[r].key /\ s.left = req[r].left
          /\ s.license = provider[req[r].key]
        BY <1>0, <2>1 DEF RequestState, IInv, StateOK
    <2>3. SlotIsKept(r, s) /\ KnownFor(s)
        BY <1>7, <2>1, <2>2 DEF ProviderAnswers, SlotIsKept, KnownFor
    <2>4. BackedFor(s)
        <3> SUFFICES ASSUME Valid(s.license) PROVE clock - entitled[s.key] <= Timeout - s.left
            BY DEF BackedFor
        <3>1. entitled[s.key] = clock
            BY <2>1, <2>2 DEF IInv, EntitledIsCurrent
        <3>2. s.left \in Nat /\ s.left <= Timeout /\ clock \in Nat /\ Timeout \in Nat
            BY <2>1, <2>2, ConstantsAssumption DEF RequestState, IInv, StateOK
        <3> QED
            BY <3>1, <3>2
    <2>5. req' = [req EXCEPT ![r] = s] /\ UNCHANGED <<clock, provider, entitled>>
        BY <1>7 DEF ProviderAnswers, Awaits
    <2> QED
        BY <2>2, <2>3, <2>4, <2>5, LocalStep
<1>8. CASE ProviderFails(r)
    <2> DEFINE s == [req[r] EXCEPT !.pc = "answered", !.license = None]
    <2>1. req[r].pc \in {"verifying", "answered"} /\ KnownFor(req[r])
        BY <1>8 DEF ProviderFails, IInv, VerifiedIsKnown
    <2>2. /\ s \in RequestState
          /\ s.pc = "answered" /\ s.key = req[r].key /\ s.left = req[r].left /\ s.license = None
        BY <1>0 DEF RequestState
    <2>3. SlotIsKept(r, s) /\ KnownFor(s) /\ BackedFor(s)
        BY <1>8, <2>1, <2>2 DEF ProviderFails, SlotIsKept, KnownFor, BackedFor, Valid
    <2>4. req' = [req EXCEPT ![r] = s] /\ UNCHANGED <<clock, provider, entitled>>
        BY <1>8 DEF ProviderFails, Awaits
    <2> QED
        BY <2>2, <2>3, <2>4, LocalStep
<1>9. CASE Denies(r) \/ Serves(r)
    BY <1>9, FinishesIsLocal DEF Denies, Serves
<1> QED
    BY <1>1, <1>2, <1>3, <1>4, <1>5, <1>6, <1>7, <1>8, <1>9 DEF Handle

\* The provider changes its mind: what it grants, it grants now.
LEMMA InvSetProvider ==
    ASSUME IInv, NEW k \in Key, NEW license \in License \cup {None}, SetProvider(k, license)
    PROVE  IInv'
<1>1. /\ UNCHANGED <<clock, inFlight, req>>
      /\ provider' = [provider EXCEPT ![k] = license]
      /\ entitled' = [j \in Key |-> IF provider'[j] # None /\ provider'[j] > clock
                                    THEN clock ELSE entitled[j]]
    BY DEF SetProvider, Remembered
<1>2. StateOK'
    BY <1>1, ConstantsAssumption DEF IInv, StateOK
<1>3. SlotsAreExact' /\ VerifiedIsKnown'
    BY <1>1 DEF IInv, SlotsAreExact, Active, VerifiedIsKnown, KnownFor
<1>4. EntitledIsCurrent'
    BY <1>1 DEF IInv, StateOK, EntitledIsCurrent, Valid
<1>5. AnswerIsBacked'
    <2> SUFFICES ASSUME NEW r \in Request, req[r].pc = "answered", Valid(req[r].license)
                 PROVE  clock - entitled'[req[r].key] <= Timeout - req[r].left
        BY <1>1 DEF AnswerIsBacked, BackedFor, Valid
    <2>1. /\ req[r].key \in Key /\ req[r].left \in Nat
          /\ clock - entitled[req[r].key] <= Timeout - req[r].left
        BY DEF IInv, StateOK, RequestState, VerifiedIsKnown, KnownFor, AnswerIsBacked, BackedFor
    <2>2. entitled'[req[r].key] >= entitled[req[r].key] /\ entitled'[req[r].key] \in Int
        BY <1>1, <2>1 DEF IInv, StateOK, EntitledIsCurrent
    <2> QED
        BY <2>1, <2>2, ConstantsAssumption DEF IInv, StateOK
<1> QED
    BY <1>2, <1>3, <1>4, <1>5 DEF IInv

\* Time passes: an answer ages as fast as its timeout runs down.
LEMMA InvTick == ASSUME IInv, Tick PROVE IInv'
<1>1. /\ clock' = clock + 1 /\ UNCHANGED <<inFlight, provider>>
      /\ entitled' = [j \in Key |-> IF provider[j] # None /\ provider[j] > clock'
                                    THEN clock' ELSE entitled[j]]
      /\ req' = [r \in Request |-> IF Verifies(r) THEN [req[r] EXCEPT !.left = @ - 1] ELSE req[r]]
    BY DEF Tick, Remembered
<1>2. ASSUME NEW r \in Request
      PROVE  /\ req'[r] \in RequestState
             /\ req'[r].pc = req[r].pc /\ req'[r].key = req[r].key /\ req'[r].license = req[r].license
             /\ Verifies(r) => req[r].left \in Nat /\ req'[r].left = req[r].left - 1
    BY <1>1 DEF Tick, IInv, StateOK, RequestState, Verifies
<1>3. StateOK'
    <2>1. req' \in [Request -> RequestState]
        BY <1>1, <1>2
    <2> QED
        BY <1>1, <2>1 DEF IInv, StateOK
<1>4. SlotsAreExact'
    <2>1. Active' = Active
        BY <1>2 DEF Active
    <2> QED
        BY <1>1, <2>1 DEF IInv, SlotsAreExact
<1>5. VerifiedIsKnown'
    BY <1>2, ConstantsAssumption DEF IInv, VerifiedIsKnown, KnownFor, Verifies
<1>6. EntitledIsCurrent'
    BY <1>1 DEF IInv, StateOK, EntitledIsCurrent, Valid
<1>7. AnswerIsBacked'
    <2> SUFFICES ASSUME NEW r \in Request, req'[r].pc = "answered",
                        req'[r].license # None, req'[r].license > clock'
                 PROVE  clock' - entitled'[req'[r].key] <= Timeout - req'[r].left
        BY DEF AnswerIsBacked, BackedFor, Valid
    <2>1. /\ req[r].pc = "answered" /\ req'[r].key = req[r].key
          /\ req[r].left \in Nat /\ req'[r].left = req[r].left - 1
        BY <1>2 DEF Verifies
    <2>2. Valid(req[r].license)
        <3>1. req[r].license \in Nat \/ req[r].license = None
            BY DEF IInv, StateOK, RequestState, Expiry
        <3> QED
            BY <1>1, <1>2, <3>1 DEF Valid, IInv, StateOK
    <2>3. req[r].key \in Key /\ clock - entitled[req[r].key] <= Timeout - req[r].left
        BY <2>1, <2>2 DEF IInv, VerifiedIsKnown, KnownFor, AnswerIsBacked, BackedFor
    <2>4. entitled'[req[r].key] >= entitled[req[r].key] /\ entitled'[req[r].key] \in Int
        BY <1>1, <2>3 DEF IInv, StateOK, EntitledIsCurrent
    <2> QED
        BY <1>1, <2>1, <2>3, <2>4, ConstantsAssumption DEF IInv, StateOK
<1> QED
    BY <1>3, <1>4, <1>5, <1>6, <1>7 DEF IInv

LEMMA InvNext == IInv /\ [Next]_vars => IInv'
<1> SUFFICES ASSUME IInv, [Next]_vars PROVE IInv'
    OBVIOUS
<1>1. CASE \E r \in Request : Handle(r)
    BY <1>1, InvHandle
<1>2. CASE \E k \in Key, license \in License \cup {None} : SetProvider(k, license)
    BY <1>2, InvSetProvider
<1>3. CASE Tick
    BY <1>3, InvTick
<1>4. CASE UNCHANGED vars
    BY <1>4 DEF vars, IInv, StateOK, SlotsAreExact, Active, VerifiedIsKnown, KnownFor,
                EntitledIsCurrent, AnswerIsBacked, BackedFor, Valid
<1> QED
    BY <1>1, <1>2, <1>3, <1>4 DEF Next

-----------------------------------------------------------------------------
(* The theorems *)

\* The invariant holds of every behaviour.
THEOREM GatewayInvariant == Spec => []IInv
BY InvInit, InvNext, PTL DEF Spec

\* The counter of requests in flight is exact and within its limit, whatever
\* interleaving of arrivals, refusals, failures and replies (the `finally` of the handler).
THEOREM SlotsStayExact == Spec => []SlotsAreExact
<1>1. IInv => SlotsAreExact
    BY DEF IInv
<1> QED
    BY <1>1, GatewayInvariant, PTL

\* Nothing is served on a grant older than one provider timeout (verifyLicense).
THEOREM ServedIsEntitled == Spec => ServedWasEntitled
<1> DEFINE A == \A r \in Request :
                   req[r].pc = "answered" /\ req'[r].pc = "done" /\ reply'.status = "served" =>
                       clock - entitled[req[r].key] <= Timeout
<1>1. IInv /\ [Next]_vars => A
    <2> SUFFICES ASSUME IInv, [Next]_vars, NEW r \in Request,
                        req[r].pc = "answered", req'[r].pc = "done", reply'.status = "served"
                 PROVE  clock - entitled[req[r].key] <= Timeout
        OBVIOUS
    <2>1. Valid(req[r].license)
        <3>0. req \in [Request -> RequestState]
            BY DEF IInv, StateOK
        <3>1. PICK q \in Request : Handle(q)
            <4>1. ~Tick
                BY <3>0 DEF Tick, RequestState, Verifies
            <4>2. req' # req
                OBVIOUS
            <4> QED
                BY <4>1, <4>2 DEF Next, SetProvider, vars
        <3>2. q = r
            <4> SUFFICES ASSUME q # r PROVE FALSE
                OBVIOUS
            <4>1. req'[r] = req[r]
                BY <3>0, <3>1 DEF Handle, RefusesUntrusted, RefusesClient, Arrives, BodyFails,
                    BodyNamesNoKey, RefusesKey, BodyNamesKey, ProviderAnswers, ProviderFails,
                    Denies, Serves, Finishes, Replies, Ends, Awaits
            <4> QED
                BY <4>1
        <3>3. Serves(r)
            <4>1. ~ProviderFails(r)
                BY <3>0 DEF ProviderFails, Awaits, RequestState
            <4>2. ~Denies(r)
                BY DEF Denies, Finishes, Replies, Ends
            <4> QED
                BY <3>1, <3>2, <4>1, <4>2 DEF Handle, RefusesUntrusted, RefusesClient, Arrives,
                    IsNext, BodyFails, BodyNamesNoKey, RefusesKey, BodyNamesKey, ProviderAnswers
        <3> QED
            BY <3>3 DEF Serves
    <2>2. /\ req[r].left \in Nat /\ req[r].key \in Key
          /\ clock - entitled[req[r].key] <= Timeout - req[r].left
        BY <2>1 DEF IInv, StateOK, RequestState, VerifiedIsKnown, KnownFor, AnswerIsBacked, BackedFor
    <2> QED
        BY <2>2, ConstantsAssumption DEF IInv, StateOK
<1> QED
    BY <1>1, GatewayInvariant, PTL DEF Spec, ServedWasEntitled

-----------------------------------------------------------------------------
(* The sums of a history, by induction over the ages *)

\* Mathematical induction for a set of naturals (a least counterexample: the
\* intervals up to the counterexamples are finite, and finite sets are well-founded).
LEMMA Induct ==
    ASSUME NEW S, 0 \in S, \A n \in Nat : n \in S => n + 1 \in S
    PROVE  Nat \subseteq S
<1> SUFFICES ASSUME NEW k \in Nat, k \notin S PROVE FALSE
    OBVIOUS
<1> DEFINE T == {U \in SUBSET Nat : \E m \in Nat \ S : U = 0 .. m}
<1>1. T \subseteq FiniteSubsetsOf(Nat)
    BY FS_Interval DEF FiniteSubsetsOf
<1>2. 0 .. k \in T
    OBVIOUS
<1>3. PICK U \in T : \A V \in T : ~(<<V, U>> \in StrictSubsetOrdering(Nat))
    <2> HIDE DEF T
    <2> QED
        BY <1>1, <1>2, FS_StrictSubsetOrderingWellFounded, WFMin
<1>4. PICK m \in Nat \ S : U = 0 .. m
    BY <1>3
<1>5. m - 1 \in Nat \ S
    BY <1>4
<1>6. 0 .. m - 1 \in T
    BY <1>5
<1>7. <<0 .. m - 1, U>> \in StrictSubsetOrdering(Nat)
    <2>1. 0 .. m - 1 \subseteq U /\ m \in U /\ m \notin 0 .. m - 1
        BY <1>4, <1>5
    <2>2. 0 .. m - 1 \in SUBSET Nat /\ U \in SUBSET Nat
        BY <1>4
    <2> QED
        BY <2>1, <2>2 DEF StrictSubsetOrdering
<1> QED
    BY <1>3, <1>6, <1>7

\* What holds before the first age, and of each age if of the one before, holds of
\* every age.
LEMMA AgeInduct ==
    ASSUME NEW S, -1 \in S, \A age \in Age : age - 1 \in S => age \in S
    PROVE  -1 .. Window - 1 \subseteq S
<1> DEFINE N == {n \in Nat : n <= Window => n - 1 \in S}
<1>1. 0 \in N
    OBVIOUS
<1>2. \A n \in Nat : n \in N => n + 1 \in N
    <2> SUFFICES ASSUME NEW n \in Nat, n \in N, n + 1 <= Window PROVE n \in S
        OBVIOUS
    <2>1. n \in Age /\ n - 1 \in S
        BY ConstantsAssumption DEF Age
    <2> QED
        BY <2>1
<1>3. Nat \subseteq N
    <2> HIDE DEF N
    <2> QED
        BY <1>1, <1>2, Induct
<1> QED
    <2> SUFFICES ASSUME NEW a \in -1 .. Window - 1 PROVE a \in S
        OBVIOUS
    <2>1. a + 1 \in N /\ a + 1 \in Nat /\ a + 1 <= Window
        BY <1>3, ConstantsAssumption
    <2> QED
        BY <2>1, ConstantsAssumption

\* The sums Total is the last of.
SumOf(counts) ==
    LET sum[age \in -1 .. Window - 1] == IF age < 0 THEN 0 ELSE counts[age] + sum[age - 1]
    IN sum

IsSum(f, counts, last) ==
    f = [age \in -1 .. last |-> IF age < 0 THEN 0 ELSE counts[age] + f[age - 1]]

\* The recursive definition of the sums means what it says.
LEMMA SumUnfolds ==
    ASSUME NEW counts \in [Age -> Nat]
    PROVE  IsSum(SumOf(counts), counts, Window - 1)
<1> DEFINE S == {last \in -1 .. Window - 1 : \E f : IsSum(f, counts, last)}
<1>1. -1 \in S
    <2> DEFINE f == [age \in -1 .. -1 |-> 0]
    <2>1. IsSum(f, counts, -1)
        BY DEF IsSum
    <2> QED
        BY <2>1, ConstantsAssumption
<1>2. ASSUME NEW last \in Age, last - 1 \in S PROVE last \in S
    <2>1. PICK f : IsSum(f, counts, last - 1)
        BY <1>2
    <2> DEFINE g == [age \in -1 .. last |-> IF age = last THEN counts[last] + f[last - 1]
                                                          ELSE f[age]]
    <2>2. ASSUME NEW age \in -1 .. last
          PROVE  g[age] = IF age < 0 THEN 0 ELSE counts[age] + g[age - 1]
        BY <2>1, ConstantsAssumption DEF IsSum, Age
    <2>3. IsSum(g, counts, last)
        BY <2>2 DEF IsSum
    <2>4. last \in -1 .. Window - 1
        BY ConstantsAssumption DEF Age
    <2> QED
        BY <2>3, <2>4
<1>3. \E f : IsSum(f, counts, Window - 1)
    <2>1. Window - 1 \in -1 .. Window - 1
        BY ConstantsAssumption
    <2>2. -1 .. Window - 1 \subseteq S
        <3> HIDE DEF S
        <3> QED
            BY <1>1, <1>2, AgeInduct
    <2> QED
        BY <2>1, <2>2
<1>4. SumOf(counts) = CHOOSE f : IsSum(f, counts, Window - 1)
    BY DEF SumOf, IsSum
<1> QED
    BY <1>3, <1>4

\* The sums are naturals, each the one before and the count of its age.
LEMMA SumStep ==
    ASSUME NEW counts \in [Age -> Nat]
    PROVE  /\ SumOf(counts)[-1] = 0
           /\ \A age \in Age : SumOf(counts)[age] = counts[age] + SumOf(counts)[age - 1]
           /\ \A age \in -1 .. Window - 1 : SumOf(counts)[age] \in Nat
           /\ Total(counts) = SumOf(counts)[Window - 1]
<1>1. Total(counts) = SumOf(counts)[Window - 1]
    BY DEF Total, SumOf
<1>2. /\ SumOf(counts)[-1] = 0
      /\ \A age \in Age : SumOf(counts)[age] = counts[age] + SumOf(counts)[age - 1]
    <2>1. \A age \in -1 .. Window - 1 :
              SumOf(counts)[age] = IF age < 0 THEN 0 ELSE counts[age] + SumOf(counts)[age - 1]
        BY SumUnfolds DEF IsSum
    <2>2. -1 \in -1 .. Window - 1
        BY ConstantsAssumption
    <2>3. \A age \in Age : age \in -1 .. Window - 1 /\ ~(age < 0)
        BY ConstantsAssumption DEF Age
    <2> QED
        BY <2>1, <2>2, <2>3
<1> DEFINE S == {age \in -1 .. Window - 1 : SumOf(counts)[age] \in Nat}
<1>3. -1 .. Window - 1 \subseteq S
    <2>1. -1 \in S
        BY <1>2, ConstantsAssumption
    <2>2. \A age \in Age : age - 1 \in S => age \in S
        BY <1>2, ConstantsAssumption DEF Age
    <2> HIDE DEF S
    <2> QED
        BY <2>1, <2>2, AgeInduct
<1> QED
    BY <1>1, <1>2, <1>3

\* The sum of a longer stretch is no smaller.
LEMMA SumGrows ==
    ASSUME NEW counts \in [Age -> Nat], NEW a \in -1 .. Window - 1
    PROVE  \A b \in a .. Window - 1 : SumOf(counts)[a] <= SumOf(counts)[b]
<1> DEFINE S == {b \in -1 .. Window - 1 : b >= a => SumOf(counts)[a] <= SumOf(counts)[b]}
<1>1. -1 \in S
    BY SumStep, ConstantsAssumption
<1>2. ASSUME NEW b \in Age, b - 1 \in S PROVE b \in S
    <2>1. b \in -1 .. Window - 1 /\ b - 1 \in -1 .. Window - 1
        BY ConstantsAssumption DEF Age
    <2>2. SumOf(counts)[b] = counts[b] + SumOf(counts)[b - 1] /\ counts[b] \in Nat
          /\ SumOf(counts)[b - 1] \in Nat /\ SumOf(counts)[a] \in Nat
        BY <2>1, SumStep
    <2>3. CASE b = a
        BY <2>1, <2>2, <2>3
    <2>4. CASE b # a
        BY <1>2, <2>1, <2>2, <2>4
    <2> QED
        BY <2>3, <2>4
<1>3. -1 .. Window - 1 \subseteq S
    <2> HIDE DEF S
    <2> QED
        BY <1>1, <1>2, AgeInduct
<1> QED
    BY <1>3, ConstantsAssumption

\* A history with one more just now.
OneMore(counts) == [counts EXCEPT ![0] = @ + 1]

\* One more for this client or key.
OneMoreFor(counts, id) == [counts EXCEPT ![id][0] = @ + 1]

\* It is one more in every sum.
LEMMA SumAdds ==
    ASSUME NEW counts \in [Age -> Nat]
    PROVE  /\ OneMore(counts) \in [Age -> Nat]
           /\ \A age \in Age : SumOf(OneMore(counts))[age] = SumOf(counts)[age] + 1
<1> USE DEF OneMore
<1> DEFINE more == OneMore(counts)
           S == {age \in -1 .. Window - 1 : age >= 0 => SumOf(more)[age] = SumOf(counts)[age] + 1}
<1>1. 0 \in Age /\ more \in [Age -> Nat]
    BY ConstantsAssumption DEF Age
<1>2. -1 \in S
    BY ConstantsAssumption
<1>3. ASSUME NEW age \in Age, age - 1 \in S PROVE age \in S
    <2>1. /\ age \in -1 .. Window - 1 /\ age - 1 \in -1 .. Window - 1 /\ age \in Nat
          /\ -1 \in -1 .. Window - 1
        BY ConstantsAssumption DEF Age
    <2>2. /\ SumOf(counts)[age] = counts[age] + SumOf(counts)[age - 1]
          /\ SumOf(more)[age] = more[age] + SumOf(more)[age - 1]
          /\ SumOf(counts)[-1] = 0 /\ SumOf(more)[-1] = 0
          /\ SumOf(counts)[age - 1] \in Nat /\ counts[age] \in Nat
        <3> HIDE DEF more
        <3> QED
            BY <1>1, <2>1, SumStep
    <2>3. CASE age = 0
        BY <1>1, <2>1, <2>2, <2>3
    <2>4. CASE age # 0
        <3>1. more[age] = counts[age] /\ SumOf(more)[age - 1] = SumOf(counts)[age - 1] + 1
            <4>1. age - 1 >= 0
                BY <2>1, <2>4
            <4>2. more[age] = counts[age]
                BY <2>4
            <4> HIDE DEF more
            <4> QED
                BY <1>3, <4>1, <4>2
        <3> HIDE DEF more
        <3> QED
            BY <2>1, <2>2, <3>1
    <2> QED
        BY <2>3, <2>4
<1>4. -1 .. Window - 1 \subseteq S
    <2> HIDE DEF S
    <2> QED
        BY <1>2, <1>3, AgeInduct
<1>5. \A age \in Age : age \in -1 .. Window - 1 /\ age >= 0
    BY ConstantsAssumption DEF Age
<1>6. \A age \in Age : SumOf(more)[age] = SumOf(counts)[age] + 1
    <2> HIDE DEF more
    <2> QED
        BY <1>4, <1>5
<1> QED
    BY <1>1, <1>6

\* A history one tick later.
Later(counts) == [age \in Age |-> IF age = 0 THEN 0 ELSE counts[age - 1]]

\* A tick moves every sum on by one age.
LEMMA SumShifts ==
    ASSUME NEW counts \in [Age -> Nat]
    PROVE  /\ Later(counts) \in [Age -> Nat]
           /\ \A age \in Age : SumOf(Later(counts))[age] = SumOf(counts)[age - 1]
<1> DEFINE later == Later(counts)
           S == {age \in -1 .. Window - 1 : age >= 0 => SumOf(later)[age] = SumOf(counts)[age - 1]}
<1>1. /\ later \in [Age -> Nat] /\ later[0] = 0
      /\ \A age \in Age \ {0} : later[age] = counts[age - 1] /\ age - 1 \in Age
    BY ConstantsAssumption DEF Later, Age
<1> HIDE DEF later
<1>2. -1 \in S
    BY ConstantsAssumption
<1>3. ASSUME NEW age \in Age, age - 1 \in S PROVE age \in S
    <2>1. /\ age \in -1 .. Window - 1 /\ age - 1 \in -1 .. Window - 1 /\ age \in Nat
          /\ -1 \in -1 .. Window - 1
        BY ConstantsAssumption DEF Age
    <2>2. SumOf(later)[age] = later[age] + SumOf(later)[age - 1]
          /\ SumOf(later)[-1] = 0 /\ SumOf(counts)[-1] = 0
        BY <1>1, SumStep
    <2>3. CASE age = 0
        BY <1>1, <2>1, <2>2, <2>3
    <2>4. CASE age # 0
        <3>1. later[age] = counts[age - 1] /\ age - 1 \in Age
            BY <1>1, <2>4
        <3>2. SumOf(later)[age - 1] = SumOf(counts)[age - 2]
            BY <1>3, <2>1, <2>4
        <3>3. SumOf(counts)[age - 1] = counts[age - 1] + SumOf(counts)[age - 2]
            <4>1. SumOf(counts)[age - 1] = counts[age - 1] + SumOf(counts)[age - 1 - 1]
                BY <3>1, SumStep
            <4>2. age - 1 - 1 = age - 2
                BY <2>1
            <4> QED
                BY <4>1, <4>2
        <3> QED
            BY <2>1, <2>2, <3>1, <3>2, <3>3
    <2> QED
        BY <2>3, <2>4
<1>4. -1 .. Window - 1 \subseteq S
    <2> HIDE DEF S
    <2> QED
        BY <1>2, <1>3, AgeInduct
<1> QED
    <2>1. \A age \in Age : SumOf(later)[age] = SumOf(counts)[age - 1]
        BY <1>4, ConstantsAssumption DEF Age
    <2> QED
        BY <1>1, <2>1 DEF later

-----------------------------------------------------------------------------
(* Buckets and histories: the inductive invariant *)

\* A bucket whose window is open, and how many ticks ago it was opened.
Open(bucket, time) == bucket # None /\ bucket.until > time
Since(bucket, time) == time - (bucket.until - Window)

\* While it is open the bucket has counted what was let in since it was opened, of
\* which the first was not let in later; what was let in before is below the limit.
OpenHolds(bucket, counts, limit, time) ==
    LET since == Since(bucket, time)
    IN /\ bucket.until <= time + Window
       /\ bucket.count \in 1 .. limit
       /\ SumOf(counts)[since] <= bucket.count
       /\ SumOf(counts)[since - 1] <= bucket.count - 1
       /\ Total(counts) - SumOf(counts)[since] <= limit - 1

\* Otherwise nothing was let in just now, and less than the limit in the last window.
ClosedHolds(counts, limit) == counts[0] = 0 /\ Total(counts) <= limit - 1

WindowHolds(bucket, counts, limit, time) ==
    /\ Open(bucket, time) => OpenHolds(bucket, counts, limit, time)
    /\ ~Open(bucket, time) => ClosedHolds(counts, limit)

\* Where each request that is counted is let in, the two agree.
IsExact(bucket, counts, time) ==
    Open(bucket, time) => SumOf(counts)[Since(bucket, time)] = bucket.count

BucketsOK ==
    /\ clock \in Nat
    /\ ipBuckets \in [Client -> Bucket \cup {None}] /\ keyBuckets \in [Key -> Bucket \cup {None}]
    /\ admitted \in [Client -> [Age -> Nat]] /\ asked \in [Key -> [Age -> Nat]]

ClientsHold == \A c \in Client : WindowHolds(ipBuckets[c], admitted[c], IpLimit, clock)
ClientsAreExact == \A c \in Client : IsExact(ipBuckets[c], admitted[c], clock)
KeysHold == \A k \in Key : WindowHolds(keyBuckets[k], asked[k], KeyLimit, clock)
MapsAreBounded ==
    Cardinality(Used(ipBuckets)) <= MaxBuckets /\ Cardinality(Used(keyBuckets)) <= MaxBuckets

RateInv == BucketsOK /\ ClientsHold /\ ClientsAreExact /\ KeysHold /\ MapsAreBounded

-----------------------------------------------------------------------------
(* What a count and a tick do to one bucket and its history *)

\* An open bucket was opened within the last window.
LEMMA SinceIsAge ==
    ASSUME NEW time \in Nat, NEW bucket \in Bucket, bucket.until > time,
           bucket.until <= time + Window
    PROVE  Since(bucket, time) \in Age
BY ConstantsAssumption DEF Since, Age, Bucket

\* A request that is let in at an open bucket.
LEMMA OpenCounts ==
    ASSUME NEW time \in Nat, NEW limit \in Nat \ {0}, NEW bucket \in Bucket \cup {None},
           NEW counts \in [Age -> Nat], Open(bucket, time), bucket.count < limit,
           WindowHolds(bucket, counts, limit, time),
           NEW more \in {counts, OneMore(counts)}
    PROVE  /\ WindowHolds([bucket EXCEPT !.count = @ + 1], more, limit, time)
           /\ more # counts /\ IsExact(bucket, counts, time)
                  => IsExact([bucket EXCEPT !.count = @ + 1], more, time)
<1> DEFINE since == Since(bucket, time)
           next == [bucket EXCEPT !.count = @ + 1]
<1>1. bucket \in Bucket /\ bucket.until > time
    BY DEF Open
<1>2. /\ bucket.until <= time + Window /\ bucket.count \in Nat /\ bucket.until \in Nat
      /\ 1 <= bucket.count /\ bucket.count <= limit
      /\ SumOf(counts)[since] <= bucket.count
      /\ SumOf(counts)[since - 1] <= bucket.count - 1
      /\ Total(counts) - SumOf(counts)[since] <= limit - 1
    BY <1>1 DEF WindowHolds, OpenHolds, Bucket
<1>3. /\ next.until = bucket.until /\ next.count = bucket.count + 1
      /\ next # None /\ Open(next, time) /\ Since(next, time) = since
    <2>1. next \in Bucket
        BY <1>1, <1>2 DEF Bucket
    <2>2. next # None
        BY <2>1, ConstantsAssumption
    <2>3. next.until = bucket.until /\ next.count = bucket.count + 1
        BY <1>1 DEF Bucket
    <2> QED
        BY <1>1, <2>2, <2>3 DEF Open, Since
<1>4. since \in Age /\ since \in -1 .. Window - 1 /\ since - 1 \in -1 .. Window - 1
      /\ Window - 1 \in Age /\ Window - 1 \in -1 .. Window - 1
    BY <1>1, <1>2, SinceIsAge, ConstantsAssumption DEF Age
<1>5. /\ Total(counts) = SumOf(counts)[Window - 1]
      /\ SumOf(counts)[since] \in Nat /\ SumOf(counts)[since - 1] \in Nat
      /\ SumOf(counts)[Window - 1] \in Nat /\ SumOf(counts)[-1] = 0
    BY <1>4, SumStep
<1> HIDE DEF next, since
<1>6. CASE more = counts
    BY <1>2, <1>3, <1>4, <1>5, <1>6 DEF WindowHolds, OpenHolds, next, since
<1>7. CASE more = OneMore(counts)
    <2>1. more \in [Age -> Nat]
        BY <1>7, SumAdds
    <2>2. \A age \in Age : SumOf(more)[age] = SumOf(counts)[age] + 1
        BY <1>7, SumAdds
    <2>3. Total(more) = Total(counts) + 1 /\ SumOf(more)[since] = SumOf(counts)[since] + 1
        BY <1>4, <1>5, <2>1, <2>2, SumStep
    <2>4. SumOf(more)[since - 1] <= bucket.count
        <3>1. CASE since = 0
            <4>1. SumOf(more)[-1] = 0 /\ since - 1 = -1
                BY <2>1, <3>1, SumStep
            <4> QED
                BY <1>2, <4>1
        <3>2. CASE since # 0
            <4>1. since - 1 \in Age
                BY <1>4, <3>2 DEF Age
            <4> QED
                BY <1>2, <1>5, <2>2, <4>1
        <3> QED
            BY <3>1, <3>2
    <2>5. OpenHolds(next, more, limit, time)
        BY <1>2, <1>3, <1>5, <2>3, <2>4 DEF OpenHolds, since
    <2>6. IsExact(bucket, counts, time) => IsExact(next, more, time)
        BY <1>3, <2>3 DEF IsExact, since
    <2> QED
        BY <1>3, <2>5, <2>6 DEF WindowHolds, next
<1> QED
    BY <1>6, <1>7

\* A request that opens a bucket.
LEMMA OpeningCounts ==
    ASSUME NEW time \in Nat, NEW limit \in Nat \ {0}, NEW bucket,
           NEW counts \in [Age -> Nat], ~Open(bucket, time),
           WindowHolds(bucket, counts, limit, time),
           NEW more \in {counts, OneMore(counts)}
    PROVE  /\ WindowHolds([until |-> time + Window, count |-> 1], more, limit, time)
           /\ more # counts => IsExact([until |-> time + Window, count |-> 1], more, time)
<1> DEFINE next == [until |-> time + Window, count |-> 1]
<1>1. /\ next.until = time + Window /\ next.count = 1 /\ Open(next, time)
      /\ Since(next, time) = 0
    <2>1. next \in Bucket
        BY ConstantsAssumption DEF Bucket
    <2>2. next # None
        BY <2>1, ConstantsAssumption
    <2> QED
        BY <2>2, ConstantsAssumption DEF Open, Since
<1>2. counts[0] = 0 /\ Total(counts) <= limit - 1
    BY DEF WindowHolds, ClosedHolds
<1>3. 0 \in Age /\ Window - 1 \in Age /\ 0 - 1 = -1 /\ 0 \in -1 .. Window - 1
      /\ Window - 1 \in -1 .. Window - 1
    BY ConstantsAssumption DEF Age
<1>4. /\ SumOf(counts)[-1] = 0 /\ SumOf(counts)[0] = 0
      /\ Total(counts) = SumOf(counts)[Window - 1] /\ SumOf(counts)[Window - 1] \in Nat
    <2>1. SumOf(counts)[0] = counts[0] + SumOf(counts)[-1] /\ SumOf(counts)[-1] = 0
        BY <1>3, SumStep
    <2> QED
        BY <1>2, <1>3, <2>1, SumStep
<1> HIDE DEF next
<1>5. CASE more = counts
    <2>1. OpenHolds(next, counts, limit, time)
        BY <1>1, <1>2, <1>3, <1>4, ConstantsAssumption DEF OpenHolds
    <2> QED
        BY <1>1, <1>5, <2>1 DEF WindowHolds, next
<1>6. CASE more = OneMore(counts)
    <2>1. more \in [Age -> Nat]
        BY <1>6, SumAdds
    <2>2. \A age \in Age : SumOf(more)[age] = SumOf(counts)[age] + 1
        BY <1>6, SumAdds
    <2>3. /\ Total(more) = Total(counts) + 1 /\ SumOf(more)[0] = 1 /\ SumOf(more)[-1] = 0
        BY <1>3, <1>4, <2>1, <2>2, SumStep
    <2>4. OpenHolds(next, more, limit, time)
        BY <1>1, <1>2, <1>3, <1>4, <2>3, ConstantsAssumption DEF OpenHolds
    <2>5. IsExact(next, more, time)
        BY <1>1, <2>3 DEF IsExact
    <2> QED
        BY <1>1, <2>4, <2>5 DEF WindowHolds, next
<1> QED
    BY <1>5, <1>6

\* A tick: the window stays open or closes.
LEMMA TickHolds ==
    ASSUME NEW time \in Nat, NEW limit \in Nat \ {0}, NEW bucket \in Bucket \cup {None},
           NEW counts \in [Age -> Nat], WindowHolds(bucket, counts, limit, time)
    PROVE  /\ WindowHolds(bucket, Later(counts), limit, time + 1)
           /\ IsExact(bucket, counts, time) => IsExact(bucket, Later(counts), time + 1)
<1> DEFINE later == Later(counts)
           since == Since(bucket, time)
<1>1. /\ later \in [Age -> Nat] /\ later[0] = 0
      /\ \A age \in Age : SumOf(later)[age] = SumOf(counts)[age - 1]
    <2>1. later[0] = 0
        BY ConstantsAssumption DEF Later, Age
    <2>2. /\ later \in [Age -> Nat]
          /\ \A age \in Age : SumOf(later)[age] = SumOf(counts)[age - 1]
        <3> HIDE DEF since
        <3> QED
            BY SumShifts
    <2> QED
        BY <2>1, <2>2
<1>2. Window - 1 \in Age /\ Window - 1 - 1 \in -1 .. Window - 1 /\ Window - 1 \in -1 .. Window - 1
      /\ Window - 1 \in Window - 1 - 1 .. Window - 1
    BY ConstantsAssumption DEF Age
<1>3. /\ Total(later) = SumOf(counts)[Window - 1 - 1] /\ Total(counts) = SumOf(counts)[Window - 1]
      /\ SumOf(counts)[Window - 1 - 1] \in Nat /\ SumOf(counts)[Window - 1] \in Nat
      /\ SumOf(counts)[Window - 1 - 1] <= SumOf(counts)[Window - 1]
    BY <1>1, <1>2, SumStep, SumGrows
<1> HIDE DEF later, since
<1>4. CASE ~Open(bucket, time)
    <2>1. ~Open(bucket, time + 1)
        BY <1>4 DEF Open, Bucket
    <2>2. ClosedHolds(later, limit)
        BY <1>1, <1>3, <1>4 DEF WindowHolds, ClosedHolds
    <2> QED
        BY <2>1, <2>2 DEF WindowHolds, IsExact, later
<1>5. CASE Open(bucket, time)
    <2>1. /\ bucket \in Bucket /\ bucket.until > time /\ bucket.until <= time + Window
          /\ bucket.count \in Nat /\ bucket.until \in Nat
          /\ 1 <= bucket.count /\ bucket.count <= limit
          /\ SumOf(counts)[since] <= bucket.count
          /\ SumOf(counts)[since - 1] <= bucket.count - 1
          /\ Total(counts) - SumOf(counts)[since] <= limit - 1
        BY <1>5 DEF Open, WindowHolds, OpenHolds, Bucket, since
    <2>2. since \in Age /\ since \in -1 .. Window - 1 /\ since - 1 \in -1 .. Window - 1
        BY <2>1, SinceIsAge, ConstantsAssumption DEF Age, since
    <2>3. SumOf(counts)[since] \in Nat /\ SumOf(counts)[since - 1] \in Nat
        BY <2>2, SumStep
    <2>4. CASE bucket.until > time + 1
        <3>1. Open(bucket, time + 1) /\ Since(bucket, time + 1) = since + 1
            BY <1>5, <2>1, <2>4, ConstantsAssumption DEF Open, Since, since
        <3>2. since \in Nat /\ since + 1 - 1 = since /\ since + 1 \in Age
            <4>1. since \in Nat
                BY <2>2 DEF Age
            <4>2. since + 1 <= Window - 1
                BY <2>1, <2>4, ConstantsAssumption DEF Since, since
            <4> QED
                BY <4>1, <4>2, ConstantsAssumption DEF Age
        <3>3. SumOf(later)[since + 1] = SumOf(counts)[since]
            BY <1>1, <3>2
        <3>4. SumOf(later)[since] = SumOf(counts)[since - 1]
            BY <1>1, <2>2
        <3>5. OpenHolds(bucket, later, limit, time + 1)
            <4>1. bucket.until <= time + 1 + Window /\ bucket.count \in 1 .. limit
                BY <2>1, ConstantsAssumption
            <4>2. Total(later) - SumOf(later)[since + 1] <= limit - 1
                BY <1>3, <2>1, <2>3, <3>3
            <4> QED
                BY <2>1, <3>1, <3>2, <3>3, <3>4, <4>1, <4>2 DEF OpenHolds
        <3>6. IsExact(bucket, counts, time) => IsExact(bucket, later, time + 1)
            BY <1>5, <3>1, <3>3 DEF IsExact, since
        <3> QED
            BY <3>1, <3>5, <3>6 DEF WindowHolds, later
    <2>5. CASE ~(bucket.until > time + 1)
        <3>1. ~Open(bucket, time + 1) /\ since = Window - 1
            BY <2>1, <2>5, ConstantsAssumption DEF Open, Since, since
        <3>2. ClosedHolds(later, limit)
            BY <1>1, <1>3, <2>1, <2>3, <3>1 DEF ClosedHolds
        <3> QED
            BY <3>1, <3>2 DEF WindowHolds, IsExact, later
    <2> QED
        BY <2>4, <2>5
<1> QED
    BY <1>4, <1>5

-----------------------------------------------------------------------------
(* What a request does to a map of buckets *)

\* The sweep leaves the map one of buckets, and the buckets whose window is open.
LEMMA SweptKeeps ==
    ASSUME NEW D, NEW buckets \in [D -> Bucket \cup {None}]
    PROVE  /\ Swept(buckets) \in [D -> Bucket \cup {None}]
           /\ \A d \in D : \/ Swept(buckets)[d] = buckets[d]
                           \/ Swept(buckets)[d] = None /\ ~Open(buckets[d], clock)
           /\ Used(Swept(buckets)) \subseteq Used(buckets)
BY DEF Swept, Current, Open, Used

\* A map never outgrows its bound.
LEMMA CountedIsBounded ==
    ASSUME clock \in Nat, NEW D, IsFiniteSet(D), NEW buckets \in [D -> Bucket \cup {None}],
           Cardinality(Used(buckets)) <= MaxBuckets, NEW id \in D, NEW limit
    PROVE  /\ Counted(buckets, id, limit) \in [D -> Bucket \cup {None}]
           /\ Cardinality(Used(Counted(buckets, id, limit))) <= MaxBuckets
<1> DEFINE after == Counted(buckets, id, limit)
           swept == Swept(buckets)
<1>1. /\ Used(buckets) \in SUBSET D
      /\ IsFiniteSet(Used(buckets)) /\ Cardinality(Used(buckets)) \in Nat
    <2>1. Used(buckets) \in SUBSET D
        BY DEF Used
    <2> QED
        BY <2>1, FS_Subset, FS_CardinalityType
<1>2. /\ swept \in [D -> Bucket \cup {None}] /\ Used(swept) \in SUBSET Used(buckets)
    BY SweptKeeps
<1>3. /\ IsFiniteSet(Used(swept)) /\ Cardinality(Used(swept)) <= Cardinality(Used(buckets))
      /\ Cardinality(Used(swept)) \in Nat
    BY <1>1, <1>2, FS_Subset, FS_CardinalityType
<1>4. CASE Current(buckets, id)
    <2>1. buckets[id] \in Bucket /\ clock + Window = clock + Window
        BY <1>4 DEF Current
    <2>2. [buckets[id] EXCEPT !.count = @ + 1] \in Bucket
        BY <2>1 DEF Bucket
    <2>3. /\ after \in [D -> Bucket \cup {None}]
          /\ after = buckets \/ after = [buckets EXCEPT ![id] = [buckets[id] EXCEPT !.count = @ + 1]]
        BY <1>4, <2>2 DEF Counted
    <2>4. Used(after) = Used(buckets)
        BY <1>4, <2>2, <2>3, ConstantsAssumption DEF Used, Current
    <2> QED
        BY <2>3, <2>4
<1>5. CASE ~Current(buckets, id) /\ ~Allows(buckets, id, limit)
    <2>1. after = swept
        BY <1>5 DEF Counted
    <2> QED
        BY <1>1, <1>2, <1>3, <2>1, ConstantsAssumption
<1>6. CASE ~Current(buckets, id) /\ Allows(buckets, id, limit)
    <2>1. after = [swept EXCEPT ![id] = [until |-> clock + Window, count |-> 1]]
        BY <1>6 DEF Counted
    <2>2. Used(after) \in SUBSET (Used(swept) \cup {id})
        BY <1>2, <2>1 DEF Used
    <2>3. Cardinality(Used(swept)) < MaxBuckets \/ id \in Used(swept)
        BY <1>2, <1>6 DEF Allows, Used
    <2>4. Cardinality(Used(swept) \cup {id}) <= MaxBuckets /\ IsFiniteSet(Used(swept) \cup {id})
        <3>1. /\ IsFiniteSet(Used(swept) \cup {id})
              /\ Cardinality(Used(swept) \cup {id}) =
                 IF id \in Used(swept) THEN Cardinality(Used(swept)) ELSE Cardinality(Used(swept)) + 1
            BY <1>3, FS_AddElement
        <3> HIDE DEF swept
        <3> QED
            BY <1>1, <1>3, <2>3, <3>1, ConstantsAssumption
    <2>5. Cardinality(Used(after)) <= Cardinality(Used(swept) \cup {id})
          /\ Cardinality(Used(after)) \in Nat /\ Cardinality(Used(swept) \cup {id}) \in Nat
        BY <2>2, <2>4, FS_Subset, FS_CardinalityType
    <2>6. after \in [D -> Bucket \cup {None}]
        <3>1. [until |-> clock + Window, count |-> 1] \in Bucket
            BY ConstantsAssumption DEF Bucket
        <3> QED
            BY <1>2, <2>1, <3>1
    <2> QED
        BY <2>4, <2>5, <2>6, ConstantsAssumption
<1> QED
    BY <1>4, <1>5, <1>6

\* A request that is counted, let in or not, and one that is let in but goes into no
\* history, keep what holds of every window.
LEMMA CountedHolds ==
    ASSUME clock \in Nat, NEW D, NEW limit \in Nat \ {0},
           NEW buckets \in [D -> Bucket \cup {None}], NEW counts \in [D -> [Age -> Nat]],
           \A d \in D : WindowHolds(buckets[d], counts[d], limit, clock),
           NEW id \in D, NEW more,
           \/ more = counts
           \/ Allows(buckets, id, limit) /\ more = OneMoreFor(counts, id)
    PROVE  /\ more \in [D -> [Age -> Nat]]
           /\ \A d \in D : WindowHolds(Counted(buckets, id, limit)[d], more[d], limit, clock)
           /\ (Allows(buckets, id, limit) => more # counts)
                  => \A d \in D : IsExact(buckets[d], counts[d], clock)
                                     => IsExact(Counted(buckets, id, limit)[d], more[d], clock)
<1> DEFINE after == Counted(buckets, id, limit)
           swept == Swept(buckets)
<1>1. 0 \in Age
    BY ConstantsAssumption DEF Age
<1>2. /\ more \in [D -> [Age -> Nat]]
      /\ \A d \in D \ {id} : more[d] = counts[d]
      /\ more[id] \in {counts[id], OneMore(counts[id])}
    <2>1. CASE more = counts
        BY <2>1
    <2>2. CASE more = OneMoreFor(counts, id)
        <3>1. more = [counts EXCEPT ![id] = OneMore(counts[id])]
            BY <2>2 DEF OneMore, OneMoreFor
        <3>2. OneMore(counts[id]) \in [Age -> Nat]
            BY SumAdds
        <3> QED
            BY <3>1, <3>2
    <2> QED
        BY <2>1, <2>2
<1>3. /\ swept \in [D -> Bucket \cup {None}]
      /\ \A d \in D : \/ swept[d] = buckets[d]
                      \/ swept[d] = None /\ ~Open(buckets[d], clock)
    BY SweptKeeps
<1>4. \A d \in D : Current(buckets, d) <=> Open(buckets[d], clock)
    BY DEF Current, Open
<1> HIDE DEF swept
<1>5. ASSUME NEW d \in D \ {id}
      PROVE  /\ WindowHolds(after[d], more[d], limit, clock)
             /\ IsExact(buckets[d], counts[d], clock) => IsExact(after[d], more[d], clock)
    <2>1. after[d] = buckets[d] \/ after[d] = swept[d]
        BY <1>3 DEF Counted, swept
    <2>2. CASE after[d] = buckets[d]
        BY <1>2, <2>2
    <2>3. CASE after[d] = None /\ ~Open(buckets[d], clock)
        BY <1>2, <2>3 DEF WindowHolds, IsExact, Open
    <2> QED
        BY <1>3, <2>1, <2>2, <2>3
<1>6. CASE ~Allows(buckets, id, limit)
    <2>1. more[id] = counts[id]
        BY <1>6
    <2>2. after[id] = buckets[id] \/ after[id] = swept[id]
        BY <1>6 DEF Counted, swept
    <2>3. WindowHolds(after[id], more[id], limit, clock)
        <3>1. CASE after[id] = buckets[id]
            BY <2>1, <3>1
        <3>2. CASE after[id] = None /\ ~Open(buckets[id], clock)
            BY <2>1, <3>2 DEF WindowHolds, Open
        <3> QED
            BY <1>3, <2>2, <3>1, <3>2
    <2>4. IsExact(buckets[id], counts[id], clock) => IsExact(after[id], more[id], clock)
        <3>1. CASE after[id] = buckets[id]
            BY <2>1, <3>1
        <3>2. CASE after[id] = None
            BY <3>2 DEF IsExact, Open
        <3> QED
            BY <1>3, <2>2, <3>1, <3>2
    <2> HIDE DEF after
    <2>5. \A d \in D : /\ WindowHolds(after[d], more[d], limit, clock)
                       /\ IsExact(buckets[d], counts[d], clock) => IsExact(after[d], more[d], clock)
        BY <1>5, <2>3, <2>4
    <2> QED
        BY <1>2, <2>5 DEF after
<1>7. CASE Allows(buckets, id, limit)
    <2>1. /\ WindowHolds(buckets[id], counts[id], limit, clock)
          /\ counts[id] \in [Age -> Nat] /\ buckets[id] \in Bucket \cup {None}
        OBVIOUS
    <2>2. more # counts => more[id] # counts[id]
        BY <1>2
    <2>3. CASE Open(buckets[id], clock)
        <3>1. after = [buckets EXCEPT ![id] = [buckets[id] EXCEPT !.count = @ + 1]]
            BY <1>4, <1>7, <2>3 DEF Counted
        <3>2. after[id] = [buckets[id] EXCEPT !.count = @ + 1] /\ buckets[id].count < limit
            BY <1>4, <1>7, <2>3, <3>1 DEF Allows
        <3>3. /\ WindowHolds([buckets[id] EXCEPT !.count = @ + 1], more[id], limit, clock)
              /\ more[id] # counts[id] /\ IsExact(buckets[id], counts[id], clock)
                     => IsExact([buckets[id] EXCEPT !.count = @ + 1], more[id], clock)
            <4> DEFINE b == buckets[id]
                       n == counts[id]
                       m == more[id]
            <4>1. /\ b \in Bucket \cup {None} /\ n \in [Age -> Nat] /\ Open(b, clock)
                  /\ b.count < limit /\ WindowHolds(b, n, limit, clock)
                  /\ m \in {n, OneMore(n)}
                BY <1>2, <2>1, <2>3, <3>2
            <4> HIDE DEF b, n, m
            <4>2. /\ WindowHolds([b EXCEPT !.count = @ + 1], m, limit, clock)
                  /\ m # n /\ IsExact(b, n, clock)
                         => IsExact([b EXCEPT !.count = @ + 1], m, clock)
                BY <4>1, OpenCounts
            <4> QED
                BY <4>2 DEF b, n, m
        <3> HIDE DEF after
        <3>4. \A d \in D : WindowHolds(after[d], more[d], limit, clock)
            BY <1>5, <3>2, <3>3
        <3>5. more # counts => \A d \in D : IsExact(buckets[d], counts[d], clock)
                                               => IsExact(after[d], more[d], clock)
            BY <1>5, <2>2, <3>2, <3>3
        <3> QED
            BY <1>2, <1>7, <3>4, <3>5 DEF after
    <2>4. CASE ~Open(buckets[id], clock)
        <3>1. after = [swept EXCEPT ![id] = [until |-> clock + Window, count |-> 1]]
            BY <1>4, <1>7, <2>4 DEF Counted, swept
        <3>2. after[id] = [until |-> clock + Window, count |-> 1]
            BY <1>3, <3>1
        <3>3. /\ WindowHolds([until |-> clock + Window, count |-> 1], more[id], limit, clock)
              /\ more[id] # counts[id]
                     => IsExact([until |-> clock + Window, count |-> 1], more[id], clock)
            <4> DEFINE b == buckets[id]
                       n == counts[id]
                       m == more[id]
            <4>1. /\ n \in [Age -> Nat] /\ ~Open(b, clock) /\ WindowHolds(b, n, limit, clock)
                  /\ m \in {n, OneMore(n)}
                BY <1>2, <2>1, <2>4
            <4> HIDE DEF b, n, m
            <4>2. /\ WindowHolds([until |-> clock + Window, count |-> 1], m, limit, clock)
                  /\ m # n => IsExact([until |-> clock + Window, count |-> 1], m, clock)
                BY <4>1, OpeningCounts
            <4> QED
                BY <4>2 DEF b, n, m
        <3> HIDE DEF after
        <3>4. \A d \in D : WindowHolds(after[d], more[d], limit, clock)
            BY <1>5, <3>2, <3>3
        <3>5. more # counts => \A d \in D : IsExact(buckets[d], counts[d], clock)
                                               => IsExact(after[d], more[d], clock)
            BY <1>5, <2>2, <3>2, <3>3
        <3> QED
            BY <1>2, <1>7, <3>4, <3>5 DEF after
    <2> QED
        BY <2>3, <2>4
<1> QED
    BY <1>6, <1>7

-----------------------------------------------------------------------------
(* Every step keeps what holds of the buckets *)

\* The numbers the tables are kept with.
LEMMA LimitsType ==
    IpLimit \in Nat \ {0} /\ KeyLimit \in Nat \ {0} /\ IsFiniteSet(Client) /\ IsFiniteSet(Key)
BY ConstantsAssumption

\* At the start nothing was let in.
LEMMA RateInit == Init => RateInv
<1> SUFFICES ASSUME Init PROVE RateInv
    OBVIOUS
<1> DEFINE none == [age \in Age |-> 0]
<1>1. BucketsOK
    BY DEF Init, BucketsOK
<1>2. Total(none) = 0 /\ none[0] = 0
    <2>1. none \in [Age -> Nat] /\ 0 \in Age /\ none[0] = 0
        BY ConstantsAssumption DEF Age
    <2> DEFINE S == {age \in -1 .. Window - 1 : SumOf(none)[age] = 0}
    <2>2. -1 \in S
        BY <2>1, SumStep, ConstantsAssumption
    <2>3. \A age \in Age : age - 1 \in S => age \in S
        <3>1. \A age \in Age : /\ none[age] = 0 /\ age \in -1 .. Window - 1
                               /\ SumOf(none)[age] = none[age] + SumOf(none)[age - 1]
            <4>1. \A age \in Age : none[age] = 0 /\ age \in -1 .. Window - 1
                BY ConstantsAssumption DEF Age
            <4> HIDE DEF none
            <4> QED
                BY <2>1, <4>1, SumStep
        <3> HIDE DEF none
        <3> QED
            BY <3>1
    <2>4. -1 .. Window - 1 \subseteq S
        <3> HIDE DEF S
        <3> QED
            BY <2>2, <2>3, AgeInduct
    <2>5. Window - 1 \in -1 .. Window - 1
        BY ConstantsAssumption
    <2> HIDE DEF none
    <2> QED
        BY <2>1, <2>4, <2>5, SumStep
<1>3. ClosedHolds(none, IpLimit) /\ ClosedHolds(none, KeyLimit)
    BY <1>2, LimitsType DEF ClosedHolds
<1> HIDE DEF none
<1>4. /\ ipBuckets = [c \in Client |-> None] /\ keyBuckets = [k \in Key |-> None]
      /\ admitted = [c \in Client |-> none] /\ asked = [k \in Key |-> none]
    BY DEF Init, none
<1>5. ClientsHold /\ ClientsAreExact /\ KeysHold
    BY <1>3, <1>4 DEF ClientsHold, ClientsAreExact, KeysHold, WindowHolds, IsExact, Open
<1>6. Used(ipBuckets) = {} /\ Used(keyBuckets) = {}
    BY <1>4 DEF Used
<1> QED
    BY <1>1, <1>5, <1>6, FS_EmptySet, ConstantsAssumption DEF RateInv, MapsAreBounded

\* The same in names: every window holds, and what was exact before still is.
AllHold(D, buckets, counts, limit) ==
    \A d \in D : WindowHolds(buckets[d], counts[d], limit, clock)

StayExact(D, buckets, counts, after, more) ==
    \A d \in D : IsExact(buckets[d], counts[d], clock) => IsExact(after[d], more[d], clock)

Tallied(D, buckets, id, limit, counts, more) ==
    \/ more = counts
    \/ Allows(buckets, id, limit) /\ more = OneMoreFor(counts, id)

LEMMA AllCounted ==
    ASSUME clock \in Nat, NEW D, NEW limit \in Nat \ {0},
           NEW buckets \in [D -> Bucket \cup {None}], NEW counts \in [D -> [Age -> Nat]],
           NEW id \in D, NEW more,
           AllHold(D, buckets, counts, limit), Tallied(D, buckets, id, limit, counts, more)
    PROVE  /\ more \in [D -> [Age -> Nat]]
           /\ AllHold(D, Counted(buckets, id, limit), more, limit)
           /\ (Allows(buckets, id, limit) => more # counts)
                  => StayExact(D, buckets, counts, Counted(buckets, id, limit), more)
BY CountedHolds DEF AllHold, StayExact, Tallied

\* A request that is counted against a client.
LEMMA RateClient ==
    ASSUME RateInv, NEW client \in Client, ipBuckets' = Counted(ipBuckets, client, IpLimit),
           UNCHANGED <<clock, keyBuckets, asked>>,
           \/ Allows(ipBuckets, client, IpLimit) /\ admitted' = OneMoreFor(admitted, client)
           \/ ~Allows(ipBuckets, client, IpLimit) /\ admitted' = admitted
    PROVE  RateInv'
<1> DEFINE more == OneMoreFor(admitted, client)
<1>1. /\ clock \in Nat /\ ipBuckets \in [Client -> Bucket \cup {None}]
      /\ admitted \in [Client -> [Age -> Nat]]
      /\ \A c \in Client : WindowHolds(ipBuckets[c], admitted[c], IpLimit, clock)
      /\ \A c \in Client : IsExact(ipBuckets[c], admitted[c], clock)
      /\ Cardinality(Used(ipBuckets)) <= MaxBuckets
    BY DEF RateInv, BucketsOK, ClientsHold, ClientsAreExact, MapsAreBounded
<1>2. /\ ipBuckets' \in [Client -> Bucket \cup {None}]
      /\ Cardinality(Used(ipBuckets')) <= MaxBuckets
    BY <1>1, LimitsType, CountedIsBounded
<1>3. more # admitted
    <2>1. 0 \in Age
        BY ConstantsAssumption DEF Age
    <2>2. more[client][0] = admitted[client][0] + 1 /\ admitted[client][0] \in Nat
        BY <1>1, <2>1 DEF OneMoreFor
    <2> QED
        BY <2>2
<1>4. /\ \/ admitted' = admitted
         \/ Allows(ipBuckets, client, IpLimit) /\ admitted' = OneMoreFor(admitted, client)
      /\ Allows(ipBuckets, client, IpLimit) => admitted' # admitted
    BY <1>3
<1> DEFINE next == admitted'
           after == Counted(ipBuckets, client, IpLimit)
<1> HIDE DEF more
<1>5. /\ admitted' \in [Client -> [Age -> Nat]]
      /\ \A c \in Client : WindowHolds(ipBuckets'[c], admitted'[c], IpLimit, clock)
      /\ \A c \in Client : IsExact(ipBuckets[c], admitted[c], clock)
             => IsExact(ipBuckets'[c], admitted'[c], clock)
    <2>1. /\ next = admitted \/ (Allows(ipBuckets, client, IpLimit) /\ next = OneMoreFor(admitted, client))
          /\ Allows(ipBuckets, client, IpLimit) => next # admitted
        BY <1>4
    <2> HIDE DEF next, after
    <2>2. AllHold(Client, ipBuckets, admitted, IpLimit)
        BY <1>1 DEF AllHold
    <2>3. Tallied(Client, ipBuckets, client, IpLimit, admitted, next)
        BY <2>1 DEF Tallied
    <2>4. /\ next \in [Client -> [Age -> Nat]]
          /\ AllHold(Client, after, next, IpLimit)
          /\ StayExact(Client, ipBuckets, admitted, after, next)
        BY <1>1, <2>1, <2>2, <2>3, LimitsType, AllCounted DEF after
    <2> QED
        BY <2>4 DEF next, after, AllHold, StayExact
<1>6. BucketsOK' /\ MapsAreBounded'
    BY <1>1, <1>2, <1>5 DEF RateInv, BucketsOK, MapsAreBounded
<1>7. ClientsHold' /\ ClientsAreExact'
    BY <1>1, <1>5 DEF ClientsHold, ClientsAreExact
<1>8. KeysHold'
    BY DEF RateInv, KeysHold
<1> QED
    BY <1>6, <1>7, <1>8 DEF RateInv

\* A request that is counted against a key, asked for or not.
LEMMA RateKey ==
    ASSUME RateInv, NEW key \in Key, keyBuckets' = Counted(keyBuckets, key, KeyLimit),
           UNCHANGED <<clock, ipBuckets, admitted>>,
           \/ Allows(keyBuckets, key, KeyLimit) /\ asked' = OneMoreFor(asked, key)
           \/ asked' = asked
    PROVE  RateInv'
<1>1. /\ clock \in Nat /\ keyBuckets \in [Key -> Bucket \cup {None}]
      /\ asked \in [Key -> [Age -> Nat]]
      /\ \A k \in Key : WindowHolds(keyBuckets[k], asked[k], KeyLimit, clock)
      /\ Cardinality(Used(keyBuckets)) <= MaxBuckets
    BY DEF RateInv, BucketsOK, KeysHold, MapsAreBounded
<1>2. /\ keyBuckets' \in [Key -> Bucket \cup {None}]
      /\ Cardinality(Used(keyBuckets')) <= MaxBuckets
    BY <1>1, LimitsType, CountedIsBounded
<1>3. /\ asked' \in [Key -> [Age -> Nat]]
      /\ \A k \in Key : WindowHolds(keyBuckets'[k], asked'[k], KeyLimit, clock)
    <2>1. AllHold(Key, keyBuckets, asked, KeyLimit)
        BY <1>1 DEF AllHold
    <2> DEFINE next == asked'
    <2>2. Tallied(Key, keyBuckets, key, KeyLimit, asked, next)
        BY DEF Tallied
    <2> HIDE DEF next
    <2>3. next \in [Key -> [Age -> Nat]] /\ AllHold(Key, Counted(keyBuckets, key, KeyLimit), next, KeyLimit)
        BY <1>1, <2>1, <2>2, LimitsType, AllCounted
    <2> QED
        BY <2>3 DEF next, AllHold
<1>4. BucketsOK' /\ MapsAreBounded'
    BY <1>1, <1>2, <1>3 DEF RateInv, BucketsOK, MapsAreBounded
<1>5. KeysHold'
    BY <1>3 DEF KeysHold
<1>6. ClientsHold' /\ ClientsAreExact'
    BY DEF RateInv, ClientsHold, ClientsAreExact
<1> QED
    BY <1>4, <1>5, <1>6 DEF RateInv

\* A step that counts nothing, and one of the clock.
LEMMA RateOthers ==
    ASSUME RateInv, UNCHANGED <<clock, ipBuckets, keyBuckets, admitted, asked>>
    PROVE  RateInv'
BY DEF RateInv, BucketsOK, ClientsHold, ClientsAreExact, KeysHold, MapsAreBounded

\* Time passes: every window moves on, and what leaves it is forgotten.
LEMMA RateTick == ASSUME RateInv, Tick PROVE RateInv'
<1>1. /\ clock' = clock + 1 /\ clock \in Nat
      /\ UNCHANGED <<ipBuckets, keyBuckets>>
      /\ admitted' = Aged(admitted) /\ asked' = Aged(asked)
    BY DEF Tick, RateInv, BucketsOK
<1>2. /\ admitted' = [c \in Client |-> Later(admitted[c])]
      /\ asked' = [k \in Key |-> Later(asked[k])]
    BY <1>1 DEF Aged, Later, RateInv, BucketsOK
<1>3. ASSUME NEW c \in Client
      PROVE  /\ Later(admitted[c]) \in [Age -> Nat]
             /\ WindowHolds(ipBuckets[c], Later(admitted[c]), IpLimit, clock + 1)
             /\ IsExact(ipBuckets[c], Later(admitted[c]), clock + 1)
    <2>1. /\ ipBuckets[c] \in Bucket \cup {None} /\ admitted[c] \in [Age -> Nat]
          /\ WindowHolds(ipBuckets[c], admitted[c], IpLimit, clock)
          /\ IsExact(ipBuckets[c], admitted[c], clock)
        BY DEF RateInv, BucketsOK, ClientsHold, ClientsAreExact
    <2> QED
        BY <1>1, <2>1, LimitsType, TickHolds, SumShifts
<1>4. ASSUME NEW k \in Key
      PROVE  /\ Later(asked[k]) \in [Age -> Nat]
             /\ WindowHolds(keyBuckets[k], Later(asked[k]), KeyLimit, clock + 1)
    <2>1. /\ keyBuckets[k] \in Bucket \cup {None} /\ asked[k] \in [Age -> Nat]
          /\ WindowHolds(keyBuckets[k], asked[k], KeyLimit, clock)
        BY DEF RateInv, BucketsOK, KeysHold
    <2> QED
        BY <1>1, <2>1, LimitsType, TickHolds, SumShifts
<1> QED
    BY <1>1, <1>2, <1>3, <1>4 DEF RateInv, BucketsOK, ClientsHold, ClientsAreExact, KeysHold,
        MapsAreBounded

LEMMA RateNext == RateInv /\ [Next]_vars => RateInv'
<1> SUFFICES ASSUME RateInv, [Next]_vars PROVE RateInv'
    OBVIOUS
<1>1. ASSUME NEW r \in Request, Handle(r) PROVE RateInv'
    <2>1. CASE \E client \in Client : RefusesClient(r, client)
        BY <2>1, RateClient DEF RefusesClient
    <2>2. CASE \E client \in Client, service \in BOOLEAN : Arrives(r, client, service)
        BY <2>2, RateClient DEF Arrives, OneMoreFor
    <2>3. CASE \E key \in Key : RefusesKey(r, key)
        BY <2>3, RateKey DEF RefusesKey
    <2>4. CASE \E key \in Key, wellFormed \in BOOLEAN : BodyNamesKey(r, key, wellFormed)
        BY <2>4, RateKey DEF BodyNamesKey, OneMoreFor
    <2>5. CASE RefusesUntrusted(r) \/ BodyFails(r) \/ BodyNamesNoKey(r) \/ ProviderAnswers(r)
               \/ ProviderFails(r) \/ Denies(r) \/ Serves(r)
        BY <2>5, RateOthers DEF RefusesUntrusted, BodyFails, BodyNamesNoKey, ProviderAnswers,
            ProviderFails, Denies, Serves
    <2> QED
        BY <1>1, <2>1, <2>2, <2>3, <2>4, <2>5 DEF Handle
<1>2. CASE \E k \in Key, license \in License \cup {None} : SetProvider(k, license)
    BY <1>2, RateOthers DEF SetProvider
<1>3. CASE Tick
    BY <1>3, RateTick
<1>4. CASE UNCHANGED vars
    BY <1>4, RateOthers DEF vars
<1> QED
    BY <1>1, <1>2, <1>3, <1>4 DEF Next

\* What holds of one window bounds its history.
LEMMA WindowBounds ==
    ASSUME NEW limit \in Nat \ {0}, NEW time \in Nat, NEW bucket \in Bucket \cup {None},
           NEW counts \in [Age -> Nat], WindowHolds(bucket, counts, limit, time)
    PROVE  /\ Total(counts) < 2 * limit
           /\ Open(bucket, time) /\ IsExact(bucket, counts, time) => bucket.count <= Total(counts)
<1>1. Window - 1 \in -1 .. Window - 1
    BY ConstantsAssumption
<1>2. Total(counts) = SumOf(counts)[Window - 1] /\ Total(counts) \in Nat
    BY <1>1, SumStep
<1>3. CASE ~Open(bucket, time)
    BY <1>2, <1>3 DEF WindowHolds, ClosedHolds
<1>4. CASE Open(bucket, time)
    <2> DEFINE since == Since(bucket, time)
    <2>1. /\ bucket \in Bucket /\ bucket.until > time /\ bucket.until <= time + Window
          /\ bucket.count \in Nat /\ bucket.count <= limit
          /\ SumOf(counts)[since] <= bucket.count
          /\ Total(counts) - SumOf(counts)[since] <= limit - 1
        BY <1>4 DEF Open, WindowHolds, OpenHolds, Bucket
    <2>2. since \in -1 .. Window - 1 /\ Window - 1 \in since .. Window - 1
        BY <2>1, SinceIsAge, ConstantsAssumption DEF Age
    <2>3. SumOf(counts)[since] \in Nat /\ SumOf(counts)[since] <= SumOf(counts)[Window - 1]
        <3> HIDE DEF since
        <3> QED
            BY <2>2, SumStep, SumGrows
    <2> QED
        BY <1>2, <2>1, <2>3 DEF IsExact
<1> QED
    BY <1>3, <1>4

-----------------------------------------------------------------------------
(* The theorems about the rate limits *)

\* The invariant of the buckets and the histories holds of every behaviour.
THEOREM RateInvariant == Spec => []RateInv
BY RateInit, RateNext, PTL DEF Spec

\* For any limits and any length of the window: whatever the windows, the malformed
\* requests and the sweeps of a full map, within one window's length less than twice
\* the limit gets through, and no map outgrows its bound (allowWithinWindow).
THEOREM RateStaysBounded == Spec => []RateIsBounded
<1>1. RateInv => RateIsBounded
    <2> SUFFICES ASSUME RateInv PROVE RateIsBounded
        OBVIOUS
    <2>1. ASSUME NEW c \in Client PROVE Total(admitted[c]) < 2 * IpLimit
        BY WindowBounds, LimitsType DEF RateInv, BucketsOK, ClientsHold
    <2>2. ASSUME NEW k \in Key PROVE Total(asked[k]) < 2 * KeyLimit
        BY WindowBounds, LimitsType DEF RateInv, BucketsOK, KeysHold
    <2> QED
        BY <2>1, <2>2 DEF RateInv, MapsAreBounded, RateIsBounded
<1> QED
    BY <1>1, RateInvariant, PTL

\* A client that is not let in had its limit in the last window, or the map is full of
\* open buckets of others.
LEMMA RefusedHadLimit ==
    ASSUME RateInv, NEW c \in Client, ~Allows(ipBuckets, c, IpLimit)
    PROVE  \/ Total(admitted[c]) >= IpLimit
           \/ Cardinality({d \in Client \ {c} : Current(ipBuckets, d)}) >= MaxBuckets
<1>1. /\ clock \in Nat /\ ipBuckets \in [Client -> Bucket \cup {None}]
      /\ admitted \in [Client -> [Age -> Nat]]
      /\ ipBuckets[c] \in Bucket \cup {None} /\ admitted[c] \in [Age -> Nat]
      /\ WindowHolds(ipBuckets[c], admitted[c], IpLimit, clock)
      /\ IsExact(ipBuckets[c], admitted[c], clock)
    BY DEF RateInv, BucketsOK, ClientsHold, ClientsAreExact
<1>2. CASE Current(ipBuckets, c)
    <2>1. Open(ipBuckets[c], clock) /\ ~(ipBuckets[c].count < IpLimit)
        BY <1>2 DEF Current, Open, Allows
    <2>2. ipBuckets[c].count <= Total(admitted[c]) /\ ipBuckets[c].count \in Nat
        BY <1>1, <2>1, WindowBounds, LimitsType DEF Open, Bucket
    <2>3. Total(admitted[c]) \in Nat
        BY <1>1, SumStep, ConstantsAssumption
    <2> QED
        BY <2>1, <2>2, <2>3, LimitsType
<1>3. CASE ~Current(ipBuckets, c)
    <2> DEFINE others == {d \in Client \ {c} : Current(ipBuckets, d)}
    <2>1. ~(Cardinality(Used(Swept(ipBuckets))) < MaxBuckets) /\ Swept(ipBuckets)[c] = None
        BY <1>3 DEF Allows
    <2>2. Swept(ipBuckets) = [d \in Client |-> IF Current(ipBuckets, d) THEN ipBuckets[d] ELSE None]
        <3>1. Used(ipBuckets) \in SUBSET Client
            BY <1>1 DEF Used
        <3>2. Cardinality(Used(ipBuckets)) \in Nat
            BY <3>1, LimitsType, FS_Subset, FS_CardinalityType
        <3>3. CASE Cardinality(Used(ipBuckets)) >= MaxBuckets
            BY <1>1, <3>3 DEF Swept
        <3>4. CASE ~(Cardinality(Used(ipBuckets)) >= MaxBuckets)
            BY <2>1, <3>2, <3>4, ConstantsAssumption DEF Swept
        <3> QED
            BY <3>3, <3>4
    <2>3. Used(Swept(ipBuckets)) = others
        BY <1>3, <2>2 DEF Used, Current
    <2>4. IsFiniteSet(others) /\ Cardinality(others) \in Nat
        <3>1. others \in SUBSET Client
            OBVIOUS
        <3> QED
            BY <3>1, LimitsType, FS_Subset, FS_CardinalityType
    <2> QED
        BY <2>1, <2>3, <2>4, ConstantsAssumption
<1> QED
    BY <1>2, <1>3

\* No client is refused for what it did not do: a 429 goes to one that had its limit
\* within the last window, or to one for which the full map has no room.
THEOREM RefusalStaysEarned == Spec => RefusalIsEarned
<1> DEFINE A == \A r \in Request, c \in Client :
                   /\ req[r].pc = "idle" /\ req'[r].pc = "done"
                   /\ reply' = [client |-> c, status |-> "limited"]
                   =>
                       \/ Total(admitted[c]) >= IpLimit
                       \/ Cardinality({d \in Client \ {c} : Current(ipBuckets, d)}) >= MaxBuckets
<1>1. RateInv /\ IInv /\ [Next]_vars => A
    <2> SUFFICES ASSUME RateInv, IInv, [Next]_vars, NEW r \in Request, NEW c \in Client,
                        req[r].pc = "idle", req'[r].pc = "done",
                        reply' = [client |-> c, status |-> "limited"]
                 PROVE  ~Allows(ipBuckets, c, IpLimit)
        BY RefusedHadLimit
    <2>1. /\ None # c /\ req \in [Request -> RequestState]
          /\ reply'.client = c /\ reply'.status = "limited"
        BY ConstantsAssumption DEF IInv, StateOK
    <2>2. PICK q \in Request : Handle(q)
        <3>1. req' # req
            OBVIOUS
        <3>2. ~Tick
            BY DEF Tick, Verifies
        <3> QED
            BY <3>1, <3>2 DEF Next, SetProvider, vars
    <2>3. \A status : ~Ends(q, None, status)
        BY <2>1 DEF Ends
    <2>4. \A state : Awaits(q, state) => state.pc = "done"
        BY <2>1 DEF Awaits
    <2>0. \A key : /\ [req[q] EXCEPT !.pc = "verifying", !.key = key, !.left = Timeout].pc # "done"
                   /\ [req[q] EXCEPT !.pc = "answered", !.license = provider[req[q].key]].pc # "done"
                   /\ [req[q] EXCEPT !.pc = "answered", !.license = None].pc # "done"
        BY <2>1 DEF RequestState
    <2>5. \A client \in Client, service \in BOOLEAN : ~Arrives(q, client, service)
        BY <2>3, <2>4 DEF Arrives, Replies, Blank
    <2>6. \A key \in Key, wellFormed \in BOOLEAN : ~BodyNamesKey(q, key, wellFormed)
        BY <2>0, <2>3, <2>4 DEF BodyNamesKey, Finishes, Replies
    <2>7. PICK client \in Client : RefusesClient(q, client)
        BY <2>0, <2>2, <2>3, <2>4, <2>5, <2>6 DEF Handle, RefusesUntrusted, BodyFails,
            BodyNamesNoKey, RefusesKey, ProviderAnswers, ProviderFails, Denies, Serves,
            Finishes, Replies
    <2> QED
        BY <2>1, <2>7 DEF RefusesClient, Ends
<1> QED
    BY <1>1, RateInvariant, GatewayInvariant, PTL DEF Spec, RefusalIsEarned
=============================================================================
