----------------------------- MODULE ProGateway -----------------------------
(***************************************************************************)
(* The gateway of src/src/commercial/proGateway.js: one process, one event  *)
(* loop.  A request is admitted or refused in one step, then awaits its     *)
(* body, then the provider (Polar), and answers; between these steps any    *)
(* other request may run.                                                   *)
(*                                                                          *)
(* What the three services answer is theirs (the ticket queue is module     *)
(* SupportQueue): a license decides whether they answer at all.             *)
(***************************************************************************)
EXTENDS Integers, FiniteSets

CONSTANTS
    Request,      \* the requests of a behaviour, numbered in the order they arrive
    Client,       \* source addresses
    Key,          \* license keys
    None,
    License,      \* the expiries a granted license may have
    MaxInFlight,  \* maxInFlight
    IpLimit,      \* maxIpRequestsPerMinute
    KeyLimit,     \* maxKeyRequestsPerMinute
    MaxBuckets,   \* MAX_RATE_BUCKETS
    Window,       \* RATE_WINDOW_MS, in ticks
    Timeout,      \* the AbortSignal of a provider request, in ticks
    MaxTime       \* bound of the clock

\* A license without expiry is one that outlasts the behaviour.
Expiry == Nat
\* For the histories: how many ticks ago, within a window.
Age == 0 .. Window - 1
Bucket == [until: Nat, count: Nat]

ASSUME ConstantsAssumption ==
    /\ MaxInFlight \in Nat \ {0} /\ IpLimit \in Nat \ {0} /\ KeyLimit \in Nat \ {0}
    /\ MaxBuckets \in Nat \ {0} /\ Window \in Nat \ {0}
    /\ Timeout \in Nat /\ MaxTime \in Nat
    /\ Request \subseteq Nat /\ IsFiniteSet(Request) /\ IsFiniteSet(Client) /\ IsFiniteSet(Key)
    /\ License \subseteq Expiry
    /\ None \notin Client \cup Key \cup Bucket \cup Expiry

VARIABLES
    clock,
    inFlight,
    ipBuckets,    \* for every client its bucket, or None
    keyBuckets,   \* for every key (its salted fingerprint) its bucket, or None
    req,          \* the local state of every request
    reply,        \* what the last step replied, and to whom if it knew no more; or None
    provider,     \* the expiry of the granted license of every key, or None
    admitted,     \* history: requests each client got past the first limit, by age
    asked,        \* history: requests for each key that reached the provider, by age
    entitled      \* history: the last time the provider granted each key

vars == <<clock, inFlight, ipBuckets, keyBuckets, req, reply, provider, admitted, asked, entitled>>

RequestState ==
    [pc: {"idle", "reading", "verifying", "answered", "done"},
     key: Key \cup {None}, left: Nat, license: Expiry \cup {None}]

Blank == [pc |-> "idle", key |-> None, left |-> 0, license |-> None]

Active == {r \in Request : req[r].pc \in {"reading", "verifying", "answered"}}

-----------------------------------------------------------------------------
(* allowWithinWindow *)

Used(buckets) == {id \in DOMAIN buckets : buckets[id] # None}

Current(buckets, id) == buckets[id] # None /\ buckets[id].until > clock

\* Mutant: a full map is emptied.
Swept_All(buckets) ==
    IF Cardinality(Used(buckets)) >= MaxBuckets
    THEN [id \in DOMAIN buckets |-> None]
    ELSE buckets

\* A full map loses its expired buckets.
Swept(buckets) ==
    IF Cardinality(Used(buckets)) >= MaxBuckets
    THEN [id \in DOMAIN buckets |-> IF Current(buckets, id) THEN buckets[id] ELSE None]
    ELSE buckets

Allows(buckets, id, limit) ==
    IF Current(buckets, id)
    THEN buckets[id].count < limit
    ELSE Cardinality(Used(Swept(buckets))) < MaxBuckets \/ Swept(buckets)[id] # None

\* Mutant: every request prolongs the window.
Counted_Prolongs(buckets, id, limit) ==
    IF Current(buckets, id)
    THEN IF Allows(buckets, id, limit)
         THEN [buckets EXCEPT ![id] = [until |-> clock + Window, count |-> @.count + 1]]
         ELSE buckets
    ELSE IF Allows(buckets, id, limit)
         THEN [Swept(buckets) EXCEPT ![id] = [until |-> clock + Window, count |-> 1]]
         ELSE Swept(buckets)

\* The map afterwards.
Counted(buckets, id, limit) ==
    IF Current(buckets, id)
    THEN IF Allows(buckets, id, limit) THEN [buckets EXCEPT ![id].count = @ + 1] ELSE buckets
    ELSE IF Allows(buckets, id, limit)
         THEN [Swept(buckets) EXCEPT ![id] = [until |-> clock + Window, count |-> 1]]
         ELSE Swept(buckets)

-----------------------------------------------------------------------------
(* The request handler *)

\* The requests arrive one after the other.
IsNext(r) == req[r].pc = "idle" /\ \A q \in Request : q < r => req[q].pc # "idle"

\* "served" is an answer of a service, "limited" is a 429, and "other" all else.
Reply == [client: Client \cup {None}, status: {"served", "limited", "other"}]

\* A request that is over is forgotten.
Ends(r, client, status) ==
    /\ req' = [req EXCEPT ![r] = [Blank EXCEPT !.pc = "done"]]
    /\ reply' = [client |-> client, status |-> status]

Replies(r, status) == Ends(r, None, status)

Awaits(r, state) == req' = [req EXCEPT ![r] = state] /\ reply' = None

\* `finally`: an admitted request gives its slot back with its reply.
Finishes(r, status) == Replies(r, status) /\ inFlight' = inFlight - 1

\* A forged Host, Origin or forwarding header.
RefusesUntrusted(r) ==
    /\ IsNext(r)
    /\ Replies(r, "other")
    /\ UNCHANGED <<clock, inFlight, ipBuckets, keyBuckets, provider, admitted, asked, entitled>>

RefusesClient(r, client) ==
    /\ IsNext(r)
    /\ ~Allows(ipBuckets, client, IpLimit)
    /\ ipBuckets' = Counted(ipBuckets, client, IpLimit)
    /\ Ends(r, client, "limited")
    /\ UNCHANGED <<clock, inFlight, keyBuckets, provider, admitted, asked, entitled>>

\* /healthz and an unknown address are answered, a service only below maxInFlight.
Arrives(r, client, service) ==
    /\ IsNext(r)
    /\ Allows(ipBuckets, client, IpLimit)
    /\ ipBuckets' = Counted(ipBuckets, client, IpLimit)
    /\ admitted' = [admitted EXCEPT ![client][0] = @ + 1]
    /\ IF service /\ inFlight < MaxInFlight
       THEN Awaits(r, [Blank EXCEPT !.pc = "reading"]) /\ inFlight' = inFlight + 1
       ELSE Replies(r, "other") /\ UNCHANGED inFlight
    /\ UNCHANGED <<clock, keyBuckets, provider, asked, entitled>>

\* A body that is too large, no JSON, aborted, or not there in time (requestTimeout).
BodyFails(r) ==
    /\ req[r].pc = "reading"
    /\ Finishes(r, "other")
    /\ UNCHANGED <<clock, ipBuckets, keyBuckets, provider, admitted, asked, entitled>>

\* A body without a key of this organization is not entitled.
BodyNamesNoKey(r) ==
    /\ req[r].pc = "reading"
    /\ Finishes(r, "other")
    /\ UNCHANGED <<clock, ipBuckets, keyBuckets, provider, admitted, asked, entitled>>

\* Mutant: the early return of a limited key passes the decrement.
RefusesKey_KeepsSlot(r, key) ==
    /\ req[r].pc = "reading"
    /\ ~Allows(keyBuckets, key, KeyLimit)
    /\ keyBuckets' = Counted(keyBuckets, key, KeyLimit)
    /\ Replies(r, "limited")
    /\ UNCHANGED <<clock, inFlight, ipBuckets, provider, admitted, asked, entitled>>

RefusesKey(r, key) ==
    /\ req[r].pc = "reading"
    /\ ~Allows(keyBuckets, key, KeyLimit)
    /\ keyBuckets' = Counted(keyBuckets, key, KeyLimit)
    /\ Finishes(r, "limited")
    /\ UNCHANGED <<clock, ipBuckets, provider, admitted, asked, entitled>>

\* The key counts even if the activation is malformed, which is refused unasked.
BodyNamesKey(r, key, wellFormed) ==
    /\ req[r].pc = "reading"
    /\ Allows(keyBuckets, key, KeyLimit)
    /\ keyBuckets' = Counted(keyBuckets, key, KeyLimit)
    /\ IF wellFormed
       THEN /\ Awaits(r, [req[r] EXCEPT !.pc = "verifying", !.key = key, !.left = Timeout])
            /\ asked' = [asked EXCEPT ![key][0] = @ + 1]
            /\ UNCHANGED inFlight
       ELSE Finishes(r, "other") /\ UNCHANGED asked
    /\ UNCHANGED <<clock, ipBuckets, provider, admitted, entitled>>

\* The provider decides; its answer is still to come.
ProviderAnswers(r) ==
    /\ req[r].pc = "verifying"
    /\ Awaits(r, [req[r] EXCEPT !.pc = "answered", !.license = provider[req[r].key]])
    /\ UNCHANGED <<clock, inFlight, ipBuckets, keyBuckets, provider, admitted, asked, entitled>>

\* Mutant: no AbortSignal, only an answer that came can fail.
ProviderFails_NoSignal(r) ==
    /\ req[r].pc = "answered" /\ req[r].license # None
    /\ Awaits(r, [req[r] EXCEPT !.pc = "answered", !.license = None])
    /\ UNCHANGED <<clock, inFlight, ipBuckets, keyBuckets, provider, admitted, asked, entitled>>

\* An error status, an unreadable answer, a rejected fetch, the AbortSignal.
ProviderFails(r) ==
    /\ req[r].pc = "verifying" \/ (req[r].pc = "answered" /\ req[r].license # None)
    /\ Awaits(r, [req[r] EXCEPT !.pc = "answered", !.license = None])
    /\ UNCHANGED <<clock, inFlight, ipBuckets, keyBuckets, provider, admitted, asked, entitled>>

\* Mutant: the expiry is not compared with the clock.
Valid_Unexpired(license) == license # None

Valid(license) == license # None /\ license > clock

Denies(r) ==
    /\ req[r].pc = "answered"
    /\ ~Valid(req[r].license)
    /\ Finishes(r, "other")
    /\ UNCHANGED <<clock, ipBuckets, keyBuckets, provider, admitted, asked, entitled>>

\* catalogPolicies, servePolicy or queueTicket, and the replies for their failures.
Serves(r) ==
    /\ req[r].pc = "answered"
    /\ Valid(req[r].license)
    /\ \E status \in {"served", "other"} : Finishes(r, status)
    /\ UNCHANGED <<clock, ipBuckets, keyBuckets, provider, admitted, asked, entitled>>

-----------------------------------------------------------------------------
(* The environment *)

Remembered(licenses, time) ==
    [k \in Key |-> IF licenses[k] # None /\ licenses[k] > time
                   THEN time ELSE entitled[k]]

SetProvider(k, license) ==
    /\ license # provider[k]
    /\ provider' = [provider EXCEPT ![k] = license]
    /\ entitled' = Remembered(provider', clock)
    /\ reply' = None
    /\ UNCHANGED <<clock, inFlight, ipBuckets, keyBuckets, req, admitted, asked>>

Aged(counts) ==
    [id \in DOMAIN counts |-> [age \in Age |-> IF age = 0 THEN 0 ELSE counts[id][age - 1]]]

Verifies(r) == req[r].pc \in {"verifying", "answered"}

\* A provider request, its answer's way back included, lasts at most Timeout.
Tick ==
    /\ clock < MaxTime
    /\ \A r \in Request : Verifies(r) => req[r].left > 0
    /\ clock' = clock + 1
    /\ req' = [r \in Request |-> IF Verifies(r)
                                 THEN [req[r] EXCEPT !.left = @ - 1] ELSE req[r]]
    /\ entitled' = Remembered(provider, clock')
    /\ admitted' = Aged(admitted) /\ asked' = Aged(asked)
    /\ reply' = None
    /\ UNCHANGED <<inFlight, ipBuckets, keyBuckets, provider>>

-----------------------------------------------------------------------------
Init ==
    /\ clock = 0
    /\ inFlight = 0 /\ reply = None
    /\ ipBuckets = [c \in Client |-> None]
    /\ keyBuckets = [k \in Key |-> None]
    /\ req = [r \in Request |-> Blank]
    /\ provider \in [Key -> License \cup {None}]
    /\ admitted = [c \in Client |-> [age \in Age |-> 0]]
    /\ asked = [k \in Key |-> [age \in Age |-> 0]]
    /\ entitled = [k \in Key |-> IF Valid(provider[k]) THEN 0 ELSE -1]

Handle(r) ==
    \/ RefusesUntrusted(r)
    \/ \E client \in Client : RefusesClient(r, client) \/ \E service \in BOOLEAN : Arrives(r, client, service)
    \/ BodyFails(r) \/ BodyNamesNoKey(r)
    \/ \E key \in Key : RefusesKey(r, key) \/ \E wellFormed \in BOOLEAN : BodyNamesKey(r, key, wellFormed)
    \/ ProviderAnswers(r) \/ ProviderFails(r)
    \/ Denies(r) \/ Serves(r)

Next ==
    \/ \E r \in Request : Handle(r)
    \/ \E k \in Key, license \in License \cup {None} : SetProvider(k, license)
    \/ Tick

Spec == Init /\ [][Next]_vars

\* The server's requestTimeout ends a body, the AbortSignal a provider request,
\* and the event loop runs what is ready.
Fairness == \A r \in Request :
    WF_vars(BodyFails(r)) /\ WF_vars(ProviderFails(r)) /\ WF_vars(Denies(r) \/ Serves(r))

FairSpec == Spec /\ Fairness
-----------------------------------------------------------------------------
(* What the gateway must guarantee *)

\* Every variable has its type.
TypeOK ==
    /\ clock \in 0 .. MaxTime
    /\ inFlight \in Nat
    /\ ipBuckets \in [Client -> Bucket \cup {None}]
    /\ keyBuckets \in [Key -> Bucket \cup {None}]
    /\ req \in [Request -> RequestState]
    /\ reply \in Reply \cup {None}
    /\ provider \in [Key -> Expiry \cup {None}]
    /\ admitted \in [Client -> [Age -> Nat]]
    /\ asked \in [Key -> [Age -> Nat]]
    /\ entitled \in [Key -> Int]

\* The counter is the number of requests that hold a slot, never above the limit:
\* every path out of the handler gives its slot back once (`finally`).
SlotsAreExact == inFlight = Cardinality(Active) /\ inFlight <= MaxInFlight

Total(counts) ==
    LET sum[age \in -1 .. Window - 1] == IF age < 0 THEN 0 ELSE counts[age] + sum[age - 1]
    IN sum[Window - 1]

\* Whatever the windows and the sweeps of a full map, which never outgrows its bound,
\* within one window's length a client never gets 2 * limit requests in, nor a key
\* 2 * limit questions to the provider (allowWithinWindow; a refused request never
\* reaches the provider).
RateIsBounded ==
    /\ \A c \in Client : Total(admitted[c]) < 2 * IpLimit
    /\ \A k \in Key : Total(asked[k]) < 2 * KeyLimit
    /\ Cardinality(Used(ipBuckets)) <= MaxBuckets /\ Cardinality(Used(keyBuckets)) <= MaxBuckets

\* A client is refused only if it had its limit within the last window, or the map
\* is full of buckets of others that are still current.
RefusalIsEarned ==
    [][\A r \in Request, c \in Client :
          /\ req[r].pc = "idle" /\ req'[r].pc = "done"
          /\ reply' = [client |-> c, status |-> "limited"]
          =>
              \/ Total(admitted[c]) >= IpLimit
              \/ Cardinality({d \in Client \ {c} : Current(ipBuckets, d)}) >= MaxBuckets]_vars

\* Whatever is served to a request, the provider granted its key at most one
\* provider timeout ago: an expiry or a revocation is not outlived by the answer.
ServedWasEntitled ==
    [][\A r \in Request :
          req[r].pc = "answered" /\ req'[r].pc = "done" /\ reply'.status = "served" =>
              clock - entitled[req[r].key] <= Timeout]_vars

\* Every admitted request is answered, and gives its slot back.
SlotsReturn == \A r \in Request : r \in Active ~> req[r].pc = "done"
=============================================================================
