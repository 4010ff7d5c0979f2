------------------------------ MODULE ProClient ------------------------------
(***************************************************************************)
(* The paid commands of src/src/commercial/proClient.js (policy catalog,    *)
(* policy pack, support ticket) over the license sessions they share with   *)
(* every other command, and the gateway they ask.                           *)
(*                                                                          *)
(* An order validates the license live, reads the credential file AGAIN,    *)
(* and sends the key and the activation it then finds.  The gateway asks    *)
(* Polar about that pair and never learns what the client was told; what it *)
(* does with its own limits is module ProGateway.                           *)
(***************************************************************************)
EXTENDS License

CONSTANTS
    Order,          \* the paid commands of a behaviour, each given once
    OrderTimeout    \* the AbortSignal of sendRequest, in ticks

ASSUME OrderAssumption == OrderTimeout \in Nat /\ None \notin Order

VARIABLE order      \* the local state of every order

OrderRecord ==
    [pc: {"idle", "validating", "sent", "served", "done"},
     call: Call \cup {None}, key: Key \cup {None}, activation: Call \cup {None}, left: Nat,
     result: {"none", "refused", "delivered"}]

NoOrder == [pc |-> "idle", call |-> None, key |-> None, activation |-> None, left |-> 0,
            result |-> "none"]

Buyer(o) == IF order[o].call = None THEN None ELSE call[order[o].call].proc

OrderEnds(o, result) ==
    order' = [order EXCEPT ![o] = [NoOrder EXCEPT !.pc = "done", !.result = result]]

\* Pro and Team both have premium_policy_delivery and priority_support.
HasCapability(plan) == plan \in Paid

-----------------------------------------------------------------------------
\* obtainGrant: a forced validation is begun, and awaited.
PlaceOrder(o, c, p) ==
    /\ order[o].pc = "idle"
    /\ ValidateUnactivated(c, p) \/ StartValidate(c, p, TRUE)
    /\ order' = [order EXCEPT ![o].pc = "validating", ![o].call = c]

\* Mutant: any activation in the file will do.
Sendable_AnyOwner(o) == file # None /\ file.activation # None

\* What the file holds now is the selected key, with an activation.
Sendable(o) == file # None /\ file.activation # None /\ file.key = SelectedKey(Buyer(o))

Validated(o) ==
    /\ order[o].pc = "validating"
    /\ call[order[o].call].pc = "done"
    /\ Runs(Buyer(o))

Licensed(o) ==
    LET reply == call[order[o].call].reply IN reply.how = "live" /\ HasCapability(reply.plan)

SendOrder(o) ==
    /\ Validated(o) /\ Licensed(o) /\ Sendable(o)
    /\ order' = [order EXCEPT ![o].pc = "sent", ![o].left = OrderTimeout,
                              ![o].key = SelectedKey(Buyer(o)), ![o].activation = file.activation]
    /\ UNCHANGED vars

RefuseUnlicensed(o) ==
    /\ Validated(o)
    /\ ~(Licensed(o) /\ Sendable(o))
    /\ OrderEnds(o, "refused")
    /\ UNCHANGED vars

-----------------------------------------------------------------------------
(* The gateway, and the answer on its way back *)

\* verifyLicense: Polar knows the activation and grants a mapped, unexpired license.
Entitles(o) ==
    /\ order[o].activation \in activations
    /\ ParsedPlan(provider[order[o].key], clock) # "free"

GatewayServes(o) ==
    /\ order[o].pc = "sent" /\ Entitles(o)
    /\ order' = [order EXCEPT ![o].pc = "served"]
    /\ UNCHANGED vars

Delivered(o) ==
    /\ order[o].pc = "served" /\ Runs(Buyer(o))
    /\ OrderEnds(o, "delivered")
    /\ UNCHANGED vars

\* Mutant: no AbortSignal.
Undelivered_ServedOnly(o) ==
    /\ order[o].pc = "served" /\ Runs(Buyer(o))
    /\ OrderEnds(o, "refused")
    /\ UNCHANGED vars

\* Not entitled, or over a limit of the gateway; the AbortSignal; or an answer the
\* command does not accept: too large, no JSON, a bad catalog, another digest or
\* policy, no confirmation.
Undelivered(o) ==
    /\ order[o].pc \in {"sent", "served"} /\ Runs(Buyer(o))
    /\ OrderEnds(o, "refused")
    /\ UNCHANGED vars

-----------------------------------------------------------------------------
OrderAwaits(o) == order[o].pc \in {"sent", "served"}

OrderTick ==
    /\ \A o \in Order :
         Buyer(o) \in alive =>
            /\ OrderAwaits(o) => order[o].left > 0
            /\ order[o].pc = "validating" => call[order[o].call].pc # "done"
    /\ Tick
    /\ order' = [o \in Order |-> IF OrderAwaits(o) /\ order[o].left > 0
                                 THEN [order[o] EXCEPT !.left = @ - 1] ELSE order[o]]

OrderStep(o) ==
    \/ \E c \in Call, p \in Proc : PlaceOrder(o, c, p)
    \/ SendOrder(o) \/ RefuseUnlicensed(o)
    \/ GatewayServes(o) \/ Delivered(o) \/ Undelivered(o)

LicenseStep ==
    \/ \E c \in Call : (\E p \in Proc : Start(c, p)) \/ Polar(c) \/ Land(c)
    \/ \E k \in Key : \E license \in License[k] : SetProvider(k, license)
    \/ \E p \in Proc : Crash(p)

OrdersInit == Init /\ order = [o \in Order |-> NoOrder]

OrdersNext ==
    \/ \E o \in Order : OrderStep(o)
    \/ LicenseStep /\ UNCHANGED order
    \/ OrderTick

\* As in License; a command goes on when its validation or its answer is there,
\* and its AbortSignal ends the request otherwise.
OrdersFairness ==
    /\ Fairness
    /\ \A o \in Order : WF_order(SendOrder(o) \/ RefuseUnlicensed(o) \/ Undelivered(o))

OrdersSpec == OrdersInit /\ [][OrdersNext]_<<vars, order>> /\ OrdersFairness

-----------------------------------------------------------------------------
\* Every variable has its type; what was sent names a key and a device activation.
OrdersTypeOK ==
    /\ TypeOK
    /\ order \in [Order -> OrderRecord]
    /\ \A o \in Order : OrderAwaits(o) => order[o].key # None /\ order[o].activation # None

\* The credential a command sends need not be the one it validated (the file is
\* read again after the await): but a key always travels with an activation of its
\* own, never with one another key left in the file, an override included; and
\* what is delivered rests on a grant Polar held for that key while the request
\* was under way (obtainGrant, verifyLicense of proGateway.js).
DeliveredIsEntitled ==
    [][\A o \in Order :
         /\ order'[o].pc = "sent" /\ order[o].pc # "sent" =>
              /\ call[order'[o].activation].op = "activate"
              /\ call[order'[o].activation].key = order'[o].key
              /\ EnvKey[Buyer(o)] \in {None, order'[o].key}
         /\ order'[o].result = "delivered" /\ order[o].result # "delivered" =>
              \E q \in Paid : /\ entitled[order[o].key][q] >= 0
                              /\ clock - entitled[order[o].key][q] <= OrderTimeout]_<<vars, order>>

\* A paid command that was given ends, and so does every call of the licensing
\* interface, unless its process crashes: a provider or a gateway that says nothing
\* is ended by the AbortSignal of its request, and no answer is left unread.
EveryRequestEnds ==
    /\ EveryCallReturns
    /\ \A o \in Order : order[o].pc # "idle" ~> (order[o].pc = "done" \/ Buyer(o) \notin alive)
=============================================================================
