---------------------------- MODULE SupportQueue ----------------------------
(***************************************************************************)
(* The private ticket directory.  The gateway (proGateway.js, queueTicket)  *)
(* creates tickets; operators run the commands of pro-support-queue.js and  *)
(* pro-support-operations.js, each a process of its own.  No file is locked:*)
(* the processes interleave between any two of their file operations, and   *)
(* any of them may die, or throw, at any of them.                           *)
(*                                                                          *)
(* list, show, pending and a purge without --apply change nothing and are   *)
(* left out, and so is what only a hand edit can put into the directory     *)
(* (symbolic links, oversized or malformed files).                          *)
(***************************************************************************)
EXTENDS Integers

CONSTANTS
    Ticket,     \* ticket identifiers (random UUIDs)
    Job,        \* processes: gateway requests and operator commands, one each
    None,
    Partial,    \* a ticket file that is created but not yet written
    Days,       \* the age purge-closed asks for
    MaxDay      \* bound of the clock

Status == {"queued", "open", "responded", "closed"}
Record == [status: Status, updated: Nat \cup {None}]
\* The files next to a ticket: who created one, and whether its text is complete.
Kind == {"draft", "delivery", "hold"}
Aside == [by: Job, whole: BOOLEAN]

ASSUME ConstantsAssumption ==
    /\ Days \in Nat \ {0} /\ MaxDay \in Nat
    /\ None \notin Nat \cup Record \cup Aside \cup Ticket \cup {Partial}
    /\ Partial \notin Record

VARIABLES
    clock,       \* in days
    ticket,      \* <id>.json
    aside,       \* <id>.draft.json, <id>.delivery.json, <id>.hold.json
    temp,        \* <id>.json.<uuid>.tmp, the one a `status` command writes; it is about job[j].ticket
    job,         \* the local state of every process
    born,        \* identifiers drawn so far
    accepted,    \* history: tickets whose sender was told the identifier
    attested,    \* history: tickets whose delivery receipt was once complete
    disturbed,   \* history: for every purge, the tickets whose own file others wrote since it began
    late         \* history: the purges that looked at a ticket before others put a file next to it

vars == <<clock, ticket, aside, temp, job, born, accepted, attested, disturbed, late>>

JobState ==
    [pc: {"idle", "receiving", "checking", "opening", "filling", "renaming", "creating", "writing",
          "reading", "sparing", "applying", "unlinking", "done", "failed"},
     op: {"none", "receive", "purge", "open", "responded", "closed", "draft", "delivery", "hold"},
     ticket: Ticket \cup {None},  \* the ticket the command is about, or is at
     at: Nat,                     \* the moment the command took from the clock
     todo: SUBSET Ticket,         \* purge: still to be read, or to be held against a hold
     expired: SUBSET Ticket,      \* purge: what it set out to remove
     removed: SUBSET Ticket,      \* purge: what it has removed
     seen: SUBSET Kind]           \* purge: files found next to the current ticket

Blank == [pc |-> "idle", op |-> "none", ticket |-> None, at |-> 0,
          todo |-> {}, expired |-> {}, removed |-> {}, seen |-> {}]

-----------------------------------------------------------------------------

Readable(t) == ticket[t] \notin {None, Partial}

Moves(j, state) == job' = [job EXCEPT ![j] = state]

Goes(j, pc) == Moves(j, [job[j] EXCEPT !.pc = pc])

\* Remember for every purge but j itself that the file of ticket t was written.
Disturbs(j, t) ==
    disturbed' = [i \in Job |-> IF i # j THEN disturbed[i] \cup {t} ELSE disturbed[i]]

\* Remember of the purges about to remove t that a file appeared next to it.
Belates(t) ==
    late' = late \cup {i \in Job : job[i].pc = "unlinking" /\ job[i].ticket = t}

Queued == [status |-> "queued", updated |-> None]

-----------------------------------------------------------------------------
(* The gateway: queueTicket *)

\* The file is created under a fresh name before a byte is written.
Receive(j, t) ==
    /\ job[j].pc = "idle"
    /\ t \notin born
    /\ born' = born \cup {t}
    /\ ticket' = [ticket EXCEPT ![t] = Partial]
    /\ Moves(j, [Blank EXCEPT !.pc = "receiving", !.op = "receive", !.ticket = t])
    /\ Disturbs(j, t)
    /\ UNCHANGED <<clock, aside, temp, accepted, attested, late>>

ReceiveWrites(j) ==
    /\ job[j].pc = "receiving"
    /\ ticket' = [ticket EXCEPT ![job[j].ticket] = Queued]
    /\ accepted' = accepted \cup {job[j].ticket}
    /\ Goes(j, "done")
    /\ Disturbs(j, job[j].ticket)
    /\ UNCHANGED <<clock, aside, temp, born, attested, late>>

\* The write or the fsync fails; so may the removal of what it left.
ReceiveFails(j) ==
    /\ job[j].pc = "receiving"
    /\ \E left \in {None, Partial, Queued} : ticket' = [ticket EXCEPT ![job[j].ticket] = left]
    /\ Goes(j, "failed")
    /\ Disturbs(j, job[j].ticket)
    /\ UNCHANGED <<clock, aside, temp, born, accepted, attested, late>>

-----------------------------------------------------------------------------
(* status <id> open | responded | closed *)

StatusReads(j, t, status) ==
    /\ job[j].pc = "idle"
    /\ Readable(t)
    /\ Moves(j, [Blank EXCEPT !.op = status, !.ticket = t, !.at = clock,
                              !.pc = IF status = "responded" THEN "checking" ELSE "opening"])
    /\ UNCHANGED <<clock, ticket, aside, temp, born, accepted, attested, disturbed, late>>

\* Mutant: the receipt need only exist.
StatusChecks_Exists(j) ==
    /\ job[j].pc = "checking"
    /\ LET receipt == aside[job[j].ticket]["delivery"] IN
       IF receipt # None
       THEN Moves(j, [job[j] EXCEPT !.pc = "opening", !.at = clock])
       ELSE Goes(j, "failed")
    /\ UNCHANGED <<clock, ticket, aside, temp, born, accepted, attested, disturbed, late>>

\* requireDeliveryAttestation: a partial receipt does not parse.
StatusChecks(j) ==
    /\ job[j].pc = "checking"
    /\ LET receipt == aside[job[j].ticket]["delivery"] IN
       IF receipt # None /\ receipt.whole
       THEN Moves(j, [job[j] EXCEPT !.pc = "opening", !.at = clock])
       ELSE Goes(j, "failed")
    /\ UNCHANGED <<clock, ticket, aside, temp, born, accepted, attested, disturbed, late>>

\* The new record goes to a temporary file of the command's own.
StatusCreates(j) ==
    /\ job[j].pc = "opening"
    /\ temp' = [temp EXCEPT ![j] = Partial]
    /\ Goes(j, "filling")
    /\ UNCHANGED <<clock, ticket, aside, born, accepted, attested, disturbed, late>>

StatusWrites(j) ==
    /\ job[j].pc = "filling"
    /\ temp' = [temp EXCEPT ![j] = [status |-> job[j].op, updated |-> job[j].at]]
    /\ Goes(j, "renaming")
    /\ UNCHANGED <<clock, ticket, aside, born, accepted, attested, disturbed, late>>

\* Mutant: the file is renamed as soon as it is created.
StatusRenames_Early(j) ==
    LET t == job[j].ticket IN
    /\ job[j].pc \in {"filling", "renaming"}
    /\ ticket' = [ticket EXCEPT ![t] = temp[j]]
    /\ temp' = [temp EXCEPT ![j] = None]
    /\ Goes(j, "done")
    /\ Disturbs(j, t)
    /\ UNCHANGED <<clock, aside, born, accepted, attested, late>>

\* It replaces the ticket, or takes its place if that is gone.
StatusRenames(j) ==
    LET t == job[j].ticket IN
    /\ job[j].pc = "renaming"
    /\ ticket' = [ticket EXCEPT ![t] = temp[j]]
    /\ temp' = [temp EXCEPT ![j] = None]
    /\ Goes(j, "done")
    /\ Disturbs(j, t)
    /\ UNCHANGED <<clock, aside, born, accepted, attested, late>>

\* The write, the fsync or the rename throws: what was written is removed, if it can be.
StatusFails(j) ==
    /\ job[j].pc \in {"filling", "renaming"}
    /\ temp' = [temp EXCEPT ![j] = None]
    /\ Goes(j, "failed")
    /\ UNCHANGED <<clock, ticket, aside, born, accepted, attested, disturbed, late>>

-----------------------------------------------------------------------------
(* draft, attest-delivery and hold: writePrivate next to the ticket *)

PrivateReads(j, t, kind) ==
    /\ job[j].pc = "idle"
    /\ Readable(t)
    /\ kind \in {"draft", "delivery"} => ticket[t].status # "closed"
    /\ Moves(j, [Blank EXCEPT !.pc = "creating", !.op = kind, !.ticket = t])
    /\ UNCHANGED <<clock, ticket, aside, temp, born, accepted, attested, disturbed, late>>

\* 'wx' refuses an existing path.
PrivateCreates(j) ==
    LET t == job[j].ticket IN
    /\ job[j].pc = "creating"
    /\ \/ /\ aside[t][job[j].op] = None
          /\ aside' = [aside EXCEPT ![t][job[j].op] = [by |-> j, whole |-> FALSE]]
          /\ Goes(j, "writing")
          /\ Belates(t)
       \/ /\ aside[t][job[j].op] # None
          /\ Goes(j, "failed")
          /\ UNCHANGED <<aside, late>>
    /\ UNCHANGED <<clock, ticket, temp, born, accepted, attested, disturbed>>

\* The text goes to the file that was opened, even if its path is gone by now.
\* With "failed", the text is complete but its fsync has thrown.
PrivateWrites(j) ==
    LET t == job[j].ticket
        mine == [by |-> j, whole |-> FALSE]
    IN
    /\ job[j].pc = "writing"
    /\ IF aside[t][job[j].op] = mine
       THEN /\ aside' = [aside EXCEPT ![t][job[j].op] = [mine EXCEPT !.whole = TRUE]]
            /\ attested' = IF job[j].op = "delivery" THEN attested \cup {t} ELSE attested
       ELSE UNCHANGED <<aside, attested>>
    /\ \E pc \in {"done", "failed"} : Goes(j, pc)
    /\ UNCHANGED <<clock, ticket, temp, born, accepted, disturbed, late>>

-----------------------------------------------------------------------------
(* purge-closed <days> --apply *)

\* "Any hold path, even invalid or dangling, blocks".
Held(t) == aside[t]["hold"] # None

Expired(record, now) ==
    /\ record.status = "closed"
    /\ record.updated # None
    /\ now - record.updated >= Days

PurgeStarts(j) ==
    /\ job[j].pc = "idle"
    /\ Moves(j, [Blank EXCEPT !.pc = "reading", !.op = "purge", !.at = clock,
                              !.todo = {t \in Ticket : ticket[t] # None}])
    /\ disturbed' = [disturbed EXCEPT ![j] = {}]
    /\ UNCHANGED <<clock, ticket, aside, temp, born, accepted, attested, late>>

\* allTickets, in any order of the names: what cannot be read is passed over.
PurgeReads(j, t) ==
    /\ job[j].pc = "reading"
    /\ t \in job[j].todo
    /\ Moves(j, [job[j] EXCEPT
                   !.todo = @ \ {t},
                   !.expired = IF Readable(t) /\ Expired(ticket[t], job[j].at) THEN @ \cup {t} ELSE @])
    /\ UNCHANGED <<clock, ticket, aside, temp, born, accepted, attested, disturbed, late>>

PurgeHasRead(j) ==
    /\ job[j].pc = "reading"
    /\ job[j].todo = {}
    /\ Moves(j, [job[j] EXCEPT !.pc = "sparing", !.todo = job[j].expired])
    /\ UNCHANGED <<clock, ticket, aside, temp, born, accepted, attested, disturbed, late>>

PurgeSpares(j, t) ==
    /\ job[j].pc = "sparing"
    /\ t \in job[j].todo
    /\ Moves(j, [job[j] EXCEPT !.todo = @ \ {t},
                               !.expired = IF Held(t) THEN @ \ {t} ELSE @])
    /\ UNCHANGED <<clock, ticket, aside, temp, born, accepted, attested, disturbed, late>>

PurgeApplies(j) ==
    /\ job[j].pc = "sparing"
    /\ job[j].todo = {}
    /\ Goes(j, "applying")
    /\ UNCHANGED <<clock, ticket, aside, temp, born, accepted, attested, disturbed, late>>

\* Mutant: the last look is for the ticket alone.
PurgeChecks_TicketOnly(j, t) ==
    /\ job[j].pc = "applying"
    /\ t \in job[j].expired \ job[j].removed
    /\ IF ticket[t] = None
       THEN Goes(j, "failed") /\ late' = late
       ELSE /\ Moves(j, [job[j] EXCEPT !.pc = "unlinking", !.ticket = t,
                           !.seen = {k \in {"draft", "delivery"} : aside[t][k] # None}])
            /\ late' = late \ {j}
    /\ UNCHANGED <<clock, ticket, aside, temp, born, accepted, attested, disturbed>>

\* The last look before the removal: a hold or a missing ticket ends the purge.
PurgeChecks(j, t) ==
    /\ job[j].pc = "applying"
    /\ t \in job[j].expired \ job[j].removed
    /\ IF Held(t) \/ ticket[t] = None
       THEN Goes(j, "failed") /\ late' = late
       ELSE /\ Moves(j, [job[j] EXCEPT !.pc = "unlinking", !.ticket = t,
                           !.seen = {k \in {"draft", "delivery"} : aside[t][k] # None}])
            /\ late' = late \ {j}
    /\ UNCHANGED <<clock, ticket, aside, temp, born, accepted, attested, disturbed>>

\* The draft goes first, then the receipt; one that is gone by now ends the purge.
PurgeUnlinksAside(j, kind) ==
    LET t == job[j].ticket IN
    /\ job[j].pc = "unlinking"
    /\ kind \in job[j].seen
    /\ kind = "delivery" => "draft" \notin job[j].seen
    /\ \/ /\ aside[t][kind] # None
          /\ aside' = [aside EXCEPT ![t][kind] = None]
          /\ Moves(j, [job[j] EXCEPT !.seen = @ \ {kind}])
       \/ /\ aside[t][kind] = None
          /\ Goes(j, "failed")
          /\ aside' = aside
    /\ UNCHANGED <<clock, ticket, temp, born, accepted, attested, disturbed, late>>

PurgeUnlinksTicket(j) ==
    LET t == job[j].ticket IN
    /\ job[j].pc = "unlinking"
    /\ job[j].seen = {}
    /\ \/ /\ ticket[t] # None
          /\ ticket' = [ticket EXCEPT ![t] = None]
          /\ Moves(j, [job[j] EXCEPT !.pc = "applying", !.removed = @ \cup {t}])
          /\ Disturbs(j, t)
       \/ /\ ticket[t] = None
          /\ Goes(j, "failed")
          /\ UNCHANGED <<ticket, disturbed>>
    /\ UNCHANGED <<clock, aside, temp, born, accepted, attested, late>>

PurgeReports(j) ==
    /\ job[j].pc = "applying"
    /\ job[j].expired \subseteq job[j].removed
    /\ Goes(j, "done")
    /\ UNCHANGED <<clock, ticket, aside, temp, born, accepted, attested, disturbed, late>>

-----------------------------------------------------------------------------
(* The environment *)

\* The process dies, or a file operation throws and nothing undoes what came before;
\* so does the removal of a temporary file, which is best effort.
Stops(j) ==
    /\ job[j].pc \notin {"idle", "done", "failed"}
    /\ Goes(j, "failed")
    /\ UNCHANGED <<clock, ticket, aside, temp, born, accepted, attested, disturbed, late>>

\* The owner removes a hold by hand.
ReleasesHold(t) ==
    /\ aside[t]["hold"] # None
    /\ aside' = [aside EXCEPT ![t]["hold"] = None]
    /\ UNCHANGED <<clock, ticket, temp, job, born, accepted, attested, disturbed, late>>

Tick ==
    /\ clock < MaxDay
    /\ clock' = clock + 1
    /\ UNCHANGED <<ticket, aside, temp, job, born, accepted, attested, disturbed, late>>

-----------------------------------------------------------------------------
\* Tickets of earlier days: none, queued, or closed on day 0.
Init ==
    /\ clock = 0
    /\ ticket \in [Ticket -> {None, Queued, [status |-> "closed", updated |-> 0]}]
    /\ aside = [t \in Ticket |-> [k \in Kind |-> None]]
    /\ temp = [j \in Job |-> None]
    /\ job = [j \in Job |-> Blank]
    /\ born = {t \in Ticket : ticket[t] # None}
    /\ accepted = born
    /\ attested = {}
    /\ disturbed = [j \in Job |-> {}]
    /\ late = {}

Gateway(j) == (\E t \in Ticket : Receive(j, t)) \/ ReceiveWrites(j) \/ ReceiveFails(j)

SetStatus(j) ==
    \/ \E t \in Ticket, status \in {"open", "responded", "closed"} : StatusReads(j, t, status)
    \/ StatusChecks(j)
    \/ StatusCreates(j) \/ StatusWrites(j) \/ StatusRenames(j) \/ StatusFails(j)

WritePrivate(j) ==
    \/ \E t \in Ticket, kind \in Kind : PrivateReads(j, t, kind)
    \/ PrivateCreates(j)
    \/ PrivateWrites(j)

Purge(j) ==
    \/ PurgeStarts(j) \/ PurgeHasRead(j) \/ PurgeApplies(j) \/ PurgeReports(j)
    \/ \E t \in Ticket : PurgeReads(j, t) \/ PurgeSpares(j, t) \/ PurgeChecks(j, t)
    \/ \E kind \in {"draft", "delivery"} : PurgeUnlinksAside(j, kind)
    \/ PurgeUnlinksTicket(j)

Next ==
    \/ \E j \in Job : Gateway(j) \/ SetStatus(j) \/ WritePrivate(j) \/ Purge(j) \/ Stops(j)
    \/ \E t \in Ticket : ReleasesHold(t)
    \/ Tick

Spec == Init /\ [][Next]_vars
-----------------------------------------------------------------------------
(* What the queue must guarantee *)

\* Every variable has its type.
TypeOK ==
    /\ clock \in 0 .. MaxDay
    /\ ticket \in [Ticket -> Record \cup {None, Partial}]
    /\ aside \in [Ticket -> [Kind -> Aside \cup {None}]]
    /\ temp \in [Job -> Record \cup {None, Partial}]
    /\ job \in [Job -> JobState]
    /\ born \subseteq Ticket /\ accepted \subseteq Ticket /\ attested \subseteq Ticket
    /\ disturbed \in [Job -> SUBSET Ticket]
    /\ late \subseteq Job

\* A ticket whose sender was told its identifier can be read back until a purge
\* removes it, whatever status changes, failures and crashes come in between
\* (queueTicket answers after its fsync, `status` renames a complete file).
AcceptedIsStored ==
    \A t \in accepted : Readable(t) \/ \E j \in Job : t \in job[j].removed

\* No ticket says "responded" unless a complete delivery receipt for that very
\* ticket existed at some time: a draft, another ticket's receipt or a half-written
\* one does not do (requireDeliveryAttestation).
RespondedWasAttested ==
    \A t \in Ticket : Readable(t) /\ ticket[t].status = "responded" => t \in attested

Removes(j, t) == job'[j].removed # job[j].removed /\ job[j].ticket = t

\* A purge removes a ticket only if it was closed for the asked number of days, unless
\* somebody wrote the ticket while the purge ran; and only if it is not on hold, with
\* neither draft nor receipt left behind, unless somebody put that file there after the
\* purge's last look at this ticket: a hold placed while it was still reading, or busy
\* with other tickets, is heeded (pro-support-operations.js, purgeClosed).
PurgeIsJustified ==
    [][\A j \in Job, t \in Ticket :
          Removes(j, t) =>
              /\ t \notin disturbed[j] => /\ ticket[t].status = "closed"
                                         /\ clock - ticket[t].updated >= Days
              /\ j \notin late => \A k \in Kind : aside'[t][k] = None]_vars

\* A purge that reports its count has removed every ticket it counted.
PurgeReportsTruth ==
    \A j \in Job : job[j].op = "purge" /\ job[j].pc = "done" => job[j].expired \subseteq job[j].removed

\* docs/pro-fulfillment.md:106, "Open/queued/responded tickets are excluded".
OnlyClosedIsPurged ==
    [][\A j \in Job, t \in Ticket : Removes(j, t) => ticket[t].status = "closed"]_vars

\* docs/pro-fulfillment.md:106, the purge deletes "unless a retention hold path
\* is present".
HoldPreventsPurge ==
    [][\A j \in Job, t \in Ticket : Removes(j, t) => aside[t]["hold"] = None]_vars

\* docs/pro-fulfillment.md:106, --apply "irreversibly deletes these local closed
\* records": no later command brings one back.
PurgedStaysPurged ==
    \A t \in Ticket : (\E j \in Job : t \in job[j].removed) => ticket[t] = None

\* The same, "deletes these local closed records": of a record that is removed no copy,
\* with its contact and message, stays in another file.
PurgeLeavesNoCopy ==
    [][\A j, i \in Job, t \in Ticket :
          Removes(j, t) /\ temp'[i] # None => job[i].ticket # t]_vars

\* scripts/p6-support-contracts.js:113, "responded ticket must retain operator
\* attestation".
RespondedKeepsAttestation ==
    \A t \in Ticket : Readable(t) /\ ticket[t].status = "responded" => aside[t]["delivery"] # None
=============================================================================
