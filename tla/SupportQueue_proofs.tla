------------------------- MODULE SupportQueue_proofs -------------------------
(***************************************************************************)
(* For any number of tickets, processes, crashes and days: what was accepted *)
(* is stored, what was responded was attested, what was purged was due.      *)
(***************************************************************************)
EXTENDS SupportQueue, TLAPS

-----------------------------------------------------------------------------
(* The inductive invariant *)

\* A process in state s, with temporary file x, is where it has what it needs, when B
\* were drawn, A accepted and R attested.
Placed(s, x, B, A, R) ==
    /\ s.pc = "idle" => s.removed = {}
    /\ s.pc = "receiving" => s.ticket \in B \ A
    /\ s.pc \in {"checking", "opening", "filling", "renaming"} =>
          s.ticket \in Ticket /\ s.op \in {"open", "responded", "closed"}
    /\ s.pc \in {"opening", "filling"} /\ s.op = "responded" => s.ticket \in R
    /\ s.pc = "renaming" => x \in Record /\ (x.status = "responded" => s.ticket \in R)
    /\ s.pc \in {"creating", "writing"} => s.ticket \in Ticket /\ s.op \in Kind
    /\ s.pc = "unlinking" => s.ticket \in s.expired \ s.removed

\* A purge in state s may remove of the tickets, but for those in D that others wrote, only
\* what it should; and unless it is behind, it has seen what lies next to its ticket.
Purging(s, D, behind, now, tickets, files) ==
    s.pc \in {"reading", "sparing", "applying", "unlinking"} =>
        /\ s.at <= now
        /\ \A t \in s.expired \ (s.removed \cup D) :
              tickets[t] \notin {None, Partial} /\ Expired(tickets[t], s.at)
        /\ s.pc = "unlinking" /\ ~behind =>
              \A kind \in Kind : files[s.ticket][kind] # None => kind \in s.seen \ {"hold"}

\* A complete receipt was attested.
Receipts(files, R) ==
    \A t \in Ticket : files[t]["delivery"] # None /\ files[t]["delivery"].whole => t \in R

IInv ==
    /\ TypeOK
    /\ \A j \in Job : Placed(job[j], temp[j], born, accepted, attested)
    /\ \A j \in Job : Purging(job[j], disturbed[j], j \in late, clock, ticket, aside)
    /\ accepted \subseteq born
    /\ \A i, j \in Job :
          job[i].pc = "receiving" /\ job[j].pc = "receiving" /\ job[i].ticket = job[j].ticket => i = j
    /\ Receipts(aside, attested)
    /\ AcceptedIsStored
    /\ RespondedWasAttested

-----------------------------------------------------------------------------
(* One process moves *)

LEMMA Moved ==
    ASSUME TypeOK, NEW j \in Job, NEW s \in JobState, Moves(j, s)
    PROVE  /\ job' \in [Job -> JobState] /\ job'[j] = s
           /\ \A i \in Job \ {j} : job'[i] = job[i]
BY DEF TypeOK, Moves

\* What a process may do to the others without harm: it writes only what it disturbs,
\* takes no identifier another one is receiving, and the histories grow.
LEMMA ProcessStep ==
    ASSUME IInv, NEW j \in Job, NEW s \in JobState, Moves(j, s), clock' = clock,
           ticket' \in [Ticket -> Record \cup {None, Partial}],
           aside' \in [Ticket -> [Kind -> Aside \cup {None}]],
           temp' \in [Job -> Record \cup {None, Partial}], \A i \in Job \ {j} : temp'[i] = temp[i],
           disturbed' \in [Job -> SUBSET Ticket], late' \subseteq Job,
           born' \subseteq Ticket, attested' \subseteq Ticket,
           born \subseteq born', accepted' \subseteq born', attested \subseteq attested',
           \A i \in Job \ {j} : disturbed[i] \subseteq disturbed'[i],
           \A i \in Job \ {j}, t \in Ticket : t \in disturbed'[i] \/ ticket'[t] = ticket[t],
           \A i \in Job \ {j} : job[i].pc = "unlinking" =>
              \/ i \in late'
              \/ i \notin late /\ \A k \in Kind : aside'[job[i].ticket][k] # None =>
                                              aside[job[i].ticket][k] # None,
           \A i \in Job \ {j} : job[i].pc = "receiving" =>
              job[i].ticket \notin accepted' /\ (s.pc = "receiving" => s.ticket # job[i].ticket),
           Placed(s, temp'[j], born', accepted', attested'),
           Purging(s, disturbed'[j], j \in late', clock, ticket', aside'),
           Receipts(aside', attested'),
           job[j].removed \subseteq s.removed,
           \A t \in accepted' : ticket'[t] \notin {None, Partial} \/ \E i \in Job : t \in job'[i].removed,
           \A t \in Ticket : ticket'[t] \notin {None, Partial} /\ ticket'[t].status = "responded"
              => t \in attested'
    PROVE  IInv'
<1>1. /\ job' \in [Job -> JobState] /\ job'[j] = s
      /\ \A i \in Job \ {j} : job'[i] = job[i]
    BY Moved DEF IInv
<1>2. TypeOK'
    BY <1>1 DEF IInv, TypeOK
<1>3. \A i \in Job : Placed(job'[i], temp'[i], born', accepted', attested')
    <2> SUFFICES ASSUME NEW i \in Job \ {j} PROVE Placed(job[i], temp'[i], born', accepted', attested')
        BY <1>1
    <2> QED BY DEF IInv, Placed
<1>4. \A i \in Job : Purging(job'[i], disturbed'[i], i \in late', clock', ticket', aside')
    <2> SUFFICES ASSUME NEW i \in Job \ {j}
                 PROVE  Purging(job[i], disturbed'[i], i \in late', clock, ticket', aside')
        BY <1>1
    <2>1. Purging(job[i], disturbed[i], i \in late, clock, ticket, aside) /\ job[i].expired \subseteq Ticket
        BY DEF IInv, TypeOK, JobState
    <2> QED BY <2>1 DEF Purging
<1>5. accepted' \subseteq born'
    OBVIOUS
<1>6. \A i, k \in Job : job'[i].pc = "receiving" /\ job'[k].pc = "receiving"
                        /\ job'[i].ticket = job'[k].ticket => i = k
    BY <1>1 DEF IInv
<1>7. AcceptedIsStored' /\ RespondedWasAttested'
    BY DEF AcceptedIsStored, RespondedWasAttested, Readable
<1> QED BY <1>2, <1>3, <1>4, <1>5, <1>6, <1>7 DEF IInv

\* A process that writes nothing, but perhaps a temporary file of its own.
LEMMA TempStep ==
    ASSUME IInv, NEW j \in Job, NEW s \in JobState, Moves(j, s),
           UNCHANGED <<clock, ticket, aside, born, accepted, attested>>,
           temp' \in [Job -> Record \cup {None, Partial}], \A i \in Job \ {j} : temp'[i] = temp[i],
           disturbed' \in {disturbed, [disturbed EXCEPT ![j] = {}]}, late' \in {late, late \ {j}},
           Placed(s, temp'[j], born, accepted, attested), s.pc # "receiving",
           Purging(s, disturbed'[j], j \in late', clock, ticket, aside),
           job[j].removed = s.removed
    PROVE  IInv'
<1>1. /\ disturbed' \in [Job -> SUBSET Ticket] /\ late' \subseteq Job
      /\ \A i \in Job \ {j} : disturbed'[i] = disturbed[i] /\ (i \in late' <=> i \in late)
    BY DEF IInv, TypeOK
<1>2. \A i \in Job : job'[i].removed = job[i].removed
    BY Moved DEF IInv
<1>3. \A t \in accepted' : ticket'[t] \notin {None, Partial} \/ \E i \in Job : t \in job'[i].removed
    BY <1>2 DEF IInv, AcceptedIsStored, Readable
<1>4. \A t \in Ticket : ticket'[t] \notin {None, Partial} /\ ticket'[t].status = "responded"
          => t \in attested'
    BY DEF IInv, RespondedWasAttested, Readable
<1>5. /\ ticket' \in [Ticket -> Record \cup {None, Partial}]
      /\ aside' \in [Ticket -> [Kind -> Aside \cup {None}]]
      /\ born' \subseteq Ticket /\ attested' \subseteq Ticket /\ accepted' \subseteq born'
    BY DEF IInv, TypeOK
<1>6. \A i \in Job \ {j} : job[i].pc = "receiving" => job[i].ticket \notin accepted'
    BY DEF IInv, Placed
<1>7. Placed(s, temp'[j], born', accepted', attested') /\ Receipts(aside', attested')
    BY DEF IInv
<1>8. Purging(s, disturbed'[j], j \in late', clock, ticket', aside')
    OBVIOUS
<1> QED BY <1>1, <1>2, <1>3, <1>4, <1>5, <1>6, <1>7, <1>8, ProcessStep

\* A process that writes nothing.
LEMMA QuietStep ==
    ASSUME IInv, NEW j \in Job, NEW s \in JobState, Moves(j, s),
           UNCHANGED <<clock, ticket, aside, temp, born, accepted, attested>>,
           disturbed' \in {disturbed, [disturbed EXCEPT ![j] = {}]}, late' \in {late, late \ {j}},
           Placed(s, temp[j], born, accepted, attested), s.pc # "receiving",
           Purging(s, disturbed'[j], j \in late', clock, ticket, aside),
           job[j].removed = s.removed
    PROVE  IInv'
<1>1. temp' \in [Job -> Record \cup {None, Partial}] /\ \A i \in Job \ {j} : temp'[i] = temp[i]
    BY DEF IInv, TypeOK
<1>2. Placed(s, temp'[j], born, accepted, attested)
    OBVIOUS
<1> QED BY <1>1, <1>2, TempStep

\* A process that writes the file of ticket t.
LEMMA WriteStep ==
    ASSUME IInv, NEW j \in Job, NEW s \in JobState, Moves(j, s), clock' = clock,
           NEW t \in Ticket, Disturbs(j, t),
           ticket' \in [Ticket -> Record \cup {None, Partial}],
           temp' \in [Job -> Record \cup {None, Partial}], \A i \in Job \ {j} : temp'[i] = temp[i],
           \A u \in Ticket \ {t} : ticket'[u] = ticket[u],
           UNCHANGED <<aside, attested, late>>, born' \in {born, born \cup {t}},
           accepted' \in {accepted, accepted \cup {t}}, accepted' \subseteq born',
           \A i \in Job \ {j} : job[i].pc = "receiving" =>
              job[i].ticket \notin accepted' /\ (s.pc = "receiving" => s.ticket # job[i].ticket),
           Placed(s, temp'[j], born', accepted', attested'),
           Purging(s, disturbed[j], j \in late', clock, ticket', aside'),
           job[j].removed \subseteq s.removed,
           t \in accepted' => \/ ticket'[t] \notin {None, Partial} \/ t \in s.removed
                              \/ \E i \in Job : t \in job[i].removed,
           ticket'[t] \notin {None, Partial} /\ ticket'[t].status = "responded" => t \in attested'
    PROVE  IInv'
<1>1. /\ disturbed' \in [Job -> SUBSET Ticket] /\ disturbed'[j] = disturbed[j]
      /\ \A i \in Job \ {j} : disturbed'[i] = disturbed[i] \cup {t}
    BY DEF IInv, TypeOK, Disturbs
<1>2. job'[j] = s /\ \A i \in Job \ {j} : job'[i] = job[i]
    BY Moved DEF IInv
<1>3. \A u \in accepted' : ticket'[u] \notin {None, Partial} \/ \E i \in Job : u \in job'[i].removed
    <2> SUFFICES ASSUME NEW u \in accepted', ticket'[u] \in {None, Partial}
                 PROVE  \E i \in Job : u \in job'[i].removed
        OBVIOUS
    <2>1. u \in s.removed \/ \E i \in Job : u \in job[i].removed
        BY DEF IInv, TypeOK, AcceptedIsStored, Readable
    <2> QED BY <1>2, <2>1
<1>4. \A u \in Ticket : ticket'[u] \notin {None, Partial} /\ ticket'[u].status = "responded"
          => u \in attested'
    BY DEF IInv, RespondedWasAttested, Readable
<1>5. /\ born' \subseteq Ticket /\ attested' \subseteq Ticket /\ born \subseteq born'
      /\ late' \subseteq Job /\ aside' \in [Ticket -> [Kind -> Aside \cup {None}]]
    BY DEF IInv, TypeOK
<1>6. Receipts(aside', attested')
    BY DEF IInv
<1>7. Purging(s, disturbed'[j], j \in late', clock, ticket', aside')
    BY <1>1
<1>8. \A i \in Job \ {j} : disturbed[i] \subseteq disturbed'[i]
    BY <1>1
<1>9. \A i \in Job \ {j}, u \in Ticket : u \in disturbed'[i] \/ ticket'[u] = ticket[u]
    BY <1>1
<1> QED BY <1>1, <1>3, <1>4, <1>5, <1>6, <1>7, <1>8, <1>9, ProcessStep

\* A process that writes a file next to a ticket; who was about to remove the ticket is
\* late, unless the file was there before.
LEMMA AsideStep ==
    ASSUME IInv, NEW j \in Job, NEW s \in JobState, Moves(j, s),
           UNCHANGED <<clock, ticket, temp, born, accepted, disturbed>>,
           aside' \in [Ticket -> [Kind -> Aside \cup {None}]], late' \subseteq Job,
           \A i \in Job \ {j} : job[i].pc = "unlinking" =>
              \/ i \in late'
              \/ i \notin late /\ \A k \in Kind : aside'[job[i].ticket][k] # None =>
                                              aside[job[i].ticket][k] # None,
           attested' \subseteq Ticket, attested \subseteq attested', Receipts(aside', attested'),
           Placed(s, temp[j], born, accepted, attested'), s.pc # "receiving",
           Purging(s, disturbed[j], j \in late', clock, ticket, aside'),
           job[j].removed = s.removed
    PROVE  IInv'
<1>1. \A i \in Job : job'[i].removed = job[i].removed
    BY Moved DEF IInv
<1>2. \A t \in accepted' : ticket'[t] \notin {None, Partial} \/ \E i \in Job : t \in job'[i].removed
    BY <1>1 DEF IInv, AcceptedIsStored, Readable
<1>3. \A t \in Ticket : ticket'[t] \notin {None, Partial} /\ ticket'[t].status = "responded"
          => t \in attested'
    BY DEF IInv, RespondedWasAttested, Readable
<1>4. /\ ticket' \in [Ticket -> Record \cup {None, Partial}]
      /\ temp' \in [Job -> Record \cup {None, Partial}] /\ \A i \in Job \ {j} : temp'[i] = temp[i]
      /\ disturbed' \in [Job -> SUBSET Ticket] /\ born' \subseteq Ticket /\ accepted' \subseteq born'
    BY DEF IInv, TypeOK
<1>5. \A i \in Job \ {j} : job[i].pc = "receiving" => job[i].ticket \notin accepted'
    BY DEF IInv, Placed
<1>6. /\ \A i \in Job \ {j} : disturbed[i] \subseteq disturbed'[i]
      /\ \A i \in Job \ {j}, t \in Ticket : t \in disturbed'[i] \/ ticket'[t] = ticket[t]
    OBVIOUS
<1>7. /\ Placed(s, temp'[j], born', accepted', attested')
      /\ Purging(s, disturbed'[j], j \in late', clock, ticket', aside')
    OBVIOUS
<1> QED BY <1>1, <1>2, <1>3, <1>4, <1>5, <1>6, <1>7, ProcessStep

-----------------------------------------------------------------------------
(* What a process does next *)

Pc == {"idle", "receiving", "checking", "opening", "filling", "renaming", "creating", "writing",
       "reading", "sparing", "applying", "unlinking", "done", "failed"}

\* A process that goes elsewhere keeps what it has.
LEMMA Gone ==
    ASSUME IInv, NEW j \in Job, NEW pc \in Pc, NEW s, s = [job[j] EXCEPT !.pc = pc]
    PROVE  /\ s \in JobState /\ s.pc = pc /\ s.op = job[j].op /\ s.ticket = job[j].ticket
           /\ s.at = job[j].at /\ s.todo = job[j].todo /\ s.expired = job[j].expired
           /\ s.removed = job[j].removed /\ s.seen = job[j].seen
<1>1. job[j] \in JobState
    BY DEF IInv, TypeOK
<1> QED BY <1>1 DEF JobState, Pc

LEMMA EndsQuietly ==
    ASSUME IInv, NEW j \in Job, NEW pc \in {"done", "failed"}, Goes(j, pc),
           temp' \in {temp, [temp EXCEPT ![j] = None]},
           UNCHANGED <<clock, ticket, aside, born, accepted, attested, disturbed, late>>
    PROVE  IInv'
<1> DEFINE s == [job[j] EXCEPT !.pc = pc]
<1>1. s \in JobState /\ s.pc = pc /\ s.removed = job[j].removed
    BY Gone DEF Pc
<1>2. Moves(j, s)
    BY DEF Goes
<1> HIDE DEF s
<1>3. Placed(s, temp'[j], born, accepted, attested) /\ Purging(s, disturbed'[j], j \in late', clock, ticket, aside)
    BY <1>1 DEF Placed, Purging
<1>4. temp' \in [Job -> Record \cup {None, Partial}] /\ \A i \in Job \ {j} : temp'[i] = temp[i]
    BY DEF IInv, TypeOK
<1> QED BY <1>1, <1>2, <1>3, <1>4, TempStep

LEMMA StatusReadsStep ==
    ASSUME IInv, NEW j \in Job, NEW t \in Ticket,
           NEW status \in {"open", "responded", "closed"}, StatusReads(j, t, status)
    PROVE  IInv'
<1> DEFINE s == [Blank EXCEPT !.op = status, !.ticket = t, !.at = clock,
                              !.pc = IF status = "responded" THEN "checking" ELSE "opening"]
<1>1. clock \in Nat /\ Placed(job[j], temp[j], born, accepted, attested)
    BY ConstantsAssumption DEF IInv, TypeOK
<1>2. /\ s \in JobState /\ s.op = status /\ s.ticket = t /\ s.removed = {}
      /\ s.pc = IF status = "responded" THEN "checking" ELSE "opening"
    BY <1>1 DEF Blank, JobState
<1>3. Moves(j, s) /\ job[j].pc = "idle"
    BY DEF StatusReads
<1> HIDE DEF s
<1>4. Placed(s, temp[j], born, accepted, attested) /\ Purging(s, disturbed[j], j \in late', clock, ticket, aside)
    BY <1>2 DEF Placed, Purging
<1>5. job[j].removed = s.removed
    BY <1>1, <1>2, <1>3 DEF Placed
<1> QED BY <1>2, <1>3, <1>4, <1>5, QuietStep DEF StatusReads

LEMMA StatusChecksStep == ASSUME IInv, NEW j \in Job, StatusChecks(j) PROVE IInv'
<1>1. CASE Goes(j, "failed")
    BY <1>1, EndsQuietly DEF StatusChecks
<1>2. CASE Moves(j, [job[j] EXCEPT !.pc = "opening", !.at = clock])
           /\ aside[job[j].ticket]["delivery"] # None /\ aside[job[j].ticket]["delivery"].whole
    <2> DEFINE s == [job[j] EXCEPT !.pc = "opening", !.at = clock]
    <2>1. /\ clock \in Nat /\ job[j] \in JobState /\ Placed(job[j], temp[j], born, accepted, attested)
          /\ job[j].pc = "checking" /\ Receipts(aside, attested)
        BY ConstantsAssumption DEF IInv, TypeOK, StatusChecks
    <2>2. /\ s \in JobState /\ s.pc = "opening" /\ s.op = job[j].op /\ s.ticket = job[j].ticket
          /\ s.removed = job[j].removed
        BY <2>1 DEF JobState
    <2> HIDE DEF s
    <2>3. Placed(s, temp[j], born, accepted, attested) /\ Purging(s, disturbed[j], j \in late', clock, ticket, aside)
        BY <1>2, <2>1, <2>2 DEF Placed, Purging, Receipts
    <2>4. Moves(j, s)
        BY <1>2 DEF s
    <2> QED BY <2>2, <2>3, <2>4, QuietStep DEF StatusChecks
<1> QED BY <1>1, <1>2 DEF StatusChecks

\* The temporary file is created, then holds the record to be.
LEMMA StatusFillsStep ==
    ASSUME IInv, NEW j \in Job, StatusCreates(j) \/ StatusWrites(j) PROVE IInv'
<1> DEFINE x == [status |-> job[j].op, updated |-> job[j].at]
<1>1. /\ job[j] \in JobState /\ Placed(job[j], temp[j], born, accepted, attested)
      /\ temp \in [Job -> Record \cup {None, Partial}]
    BY DEF IInv, TypeOK
<1>2. PICK pc \in {"filling", "renaming"}, y \in {Partial, x} :
          /\ job[j].pc \in {"opening", "filling"} /\ (pc = "renaming" => y = x)
          /\ Goes(j, pc) /\ temp' = [temp EXCEPT ![j] = y]
          /\ UNCHANGED <<clock, ticket, aside, born, accepted, attested, disturbed, late>>
    BY DEF StatusCreates, StatusWrites
<1>3. job[j].ticket \in Ticket /\ x \in Record /\ x.status = job[j].op
      /\ (job[j].op = "responded" => job[j].ticket \in attested)
      /\ job[j].op \in {"open", "responded", "closed"}
    BY <1>1, <1>2 DEF Placed, Record, Status, JobState
<1> DEFINE s == [job[j] EXCEPT !.pc = pc]
<1>4. s \in JobState /\ s.pc = pc /\ s.removed = job[j].removed /\ s.ticket = job[j].ticket
      /\ s.op = job[j].op
    BY Gone DEF Pc
<1>5. Moves(j, s)
    BY <1>2 DEF Goes
<1> HIDE DEF s, x
<1>6. /\ temp' \in [Job -> Record \cup {None, Partial}] /\ temp'[j] = y
      /\ \A i \in Job \ {j} : temp'[i] = temp[i]
    BY <1>1, <1>2, <1>3
<1>7. Placed(s, temp'[j], born, accepted, attested) /\ Purging(s, disturbed'[j], j \in late', clock, ticket, aside)
    BY <1>2, <1>3, <1>4, <1>6 DEF Placed, Purging
<1> QED BY <1>2, <1>4, <1>5, <1>6, <1>7, TempStep

LEMMA PrivateReadsStep ==
    ASSUME IInv, NEW j \in Job, NEW t \in Ticket, NEW kind \in Kind, PrivateReads(j, t, kind)
    PROVE  IInv'
<1> DEFINE s == [Blank EXCEPT !.pc = "creating", !.op = kind, !.ticket = t]
<1>1. Placed(job[j], temp[j], born, accepted, attested)
    BY DEF IInv
<1>2. s \in JobState /\ s.op = kind /\ s.ticket = t /\ s.removed = {} /\ s.pc = "creating"
    BY DEF Blank, JobState, Kind
<1>3. Moves(j, s) /\ job[j].pc = "idle"
    BY DEF PrivateReads
<1> HIDE DEF s
<1>4. Placed(s, temp[j], born, accepted, attested) /\ Purging(s, disturbed[j], j \in late', clock, ticket, aside)
    BY <1>2 DEF Placed, Purging
<1>5. job[j].removed = s.removed
    BY <1>1, <1>2, <1>3 DEF Placed
<1> QED BY <1>2, <1>3, <1>4, <1>5, QuietStep DEF PrivateReads

LEMMA PurgeStartsStep == ASSUME IInv, NEW j \in Job, PurgeStarts(j) PROVE IInv'
<1> DEFINE todo == {t \in Ticket : ticket[t] # None}
           s == [Blank EXCEPT !.pc = "reading", !.op = "purge", !.at = clock, !.todo = todo]
<1>1. /\ clock \in Nat /\ Placed(job[j], temp[j], born, accepted, attested)
      /\ todo \in SUBSET Ticket
    BY ConstantsAssumption DEF IInv, TypeOK
<1> HIDE DEF todo
<1>2. /\ s \in JobState /\ s.pc = "reading" /\ s.at = clock /\ s.expired = {} /\ s.removed = {}
    BY <1>1 DEF Blank, JobState
<1>3. Moves(j, s) /\ job[j].pc = "idle" /\ disturbed' = [disturbed EXCEPT ![j] = {}]
    BY DEF PurgeStarts, todo
<1> HIDE DEF s
<1>4. Placed(s, temp[j], born, accepted, attested) /\ Purging(s, disturbed'[j], j \in late', clock, ticket, aside)
    BY <1>1, <1>2 DEF Placed, Purging
<1>5. job[j].removed = s.removed
    BY <1>1, <1>2, <1>3 DEF Placed
<1> QED BY <1>2, <1>3, <1>4, <1>5, QuietStep DEF PurgeStarts

LEMMA PurgeReadsStep ==
    ASSUME IInv, NEW j \in Job, NEW t \in Ticket, PurgeReads(j, t) PROVE IInv'
<1> DEFINE old == job[j]
           expired == IF Readable(t) /\ Expired(ticket[t], old.at) THEN old.expired \cup {t}
                      ELSE old.expired
           s == [old EXCEPT !.todo = @ \ {t}, !.expired = expired]
<1>1. /\ old \in JobState /\ Purging(old, disturbed[j], j \in late, clock, ticket, aside)
      /\ old.pc = "reading" /\ Moves(j, s)
    BY DEF IInv, TypeOK, PurgeReads
<1>2. expired \in SUBSET Ticket
    BY <1>1 DEF JobState
<1>3. /\ s \in JobState /\ s.pc = "reading" /\ s.at = old.at /\ s.expired = expired
      /\ s.removed = old.removed
    BY <1>1, <1>2 DEF JobState
<1>4. Purging(s, disturbed[j], j \in late', clock, ticket, aside)
    BY <1>1, <1>3 DEF Purging, Readable
<1> HIDE DEF s
<1>5. Placed(s, temp[j], born, accepted, attested)
    BY <1>3 DEF Placed
<1> QED BY <1>1, <1>3, <1>4, <1>5, QuietStep DEF PurgeReads

LEMMA PurgeHasReadStep == ASSUME IInv, NEW j \in Job, PurgeHasRead(j) PROVE IInv'
<1> DEFINE old == job[j]
           s == [old EXCEPT !.pc = "sparing", !.todo = old.expired]
<1>1. /\ old \in JobState /\ Purging(old, disturbed[j], j \in late, clock, ticket, aside)
      /\ old.pc = "reading" /\ Moves(j, s)
    BY DEF IInv, TypeOK, PurgeHasRead
<1>2. /\ s \in JobState /\ s.pc = "sparing" /\ s.at = old.at /\ s.expired = old.expired
      /\ s.removed = old.removed /\ s.todo = old.expired
    BY <1>1 DEF JobState
<1> HIDE DEF s
<1>3. Placed(s, temp[j], born, accepted, attested) /\ Purging(s, disturbed[j], j \in late', clock, ticket, aside)
    BY <1>1, <1>2 DEF Purging, Placed
<1> QED BY <1>1, <1>2, <1>3, QuietStep DEF PurgeHasRead

LEMMA PurgeSparesStep ==
    ASSUME IInv, NEW j \in Job, NEW t \in Ticket, PurgeSpares(j, t) PROVE IInv'
<1> DEFINE old == job[j]
           expired == IF Held(t) THEN old.expired \ {t} ELSE old.expired
           s == [old EXCEPT !.todo = @ \ {t}, !.expired = expired]
<1>1. /\ old \in JobState /\ Purging(old, disturbed[j], j \in late, clock, ticket, aside)
      /\ old.pc = "sparing" /\ Moves(j, s)
    BY DEF IInv, TypeOK, PurgeSpares
<1>2. expired \in SUBSET Ticket
    BY <1>1 DEF JobState
<1>3. /\ s \in JobState /\ s.pc = "sparing" /\ s.at = old.at /\ s.expired = expired
      /\ s.removed = old.removed /\ s.todo = old.todo \ {t}
    BY <1>1, <1>2 DEF JobState
<1>4. Purging(s, disturbed[j], j \in late', clock, ticket, aside)
    BY <1>1, <1>3 DEF Purging
<1> HIDE DEF s
<1>5. Placed(s, temp[j], born, accepted, attested)
    BY <1>3 DEF Placed
<1> QED BY <1>1, <1>3, <1>4, <1>5, QuietStep DEF PurgeSpares

LEMMA PurgeAppliesStep == ASSUME IInv, NEW j \in Job, PurgeApplies(j) PROVE IInv'
<1> DEFINE s == [job[j] EXCEPT !.pc = "applying"]
<1>1. /\ s \in JobState /\ s.pc = "applying" /\ s.at = job[j].at /\ s.expired = job[j].expired
      /\ s.removed = job[j].removed
    BY Gone DEF Pc
<1>2. /\ Purging(job[j], disturbed[j], j \in late, clock, ticket, aside) /\ job[j].pc = "sparing"
      /\ job[j].todo = {} /\ Moves(j, s)
    BY DEF IInv, PurgeApplies, Goes
<1> HIDE DEF s
<1>3. Placed(s, temp[j], born, accepted, attested) /\ Purging(s, disturbed[j], j \in late', clock, ticket, aside)
    BY <1>1, <1>2 DEF Purging, Placed
<1> QED BY <1>1, <1>2, <1>3, QuietStep DEF PurgeApplies

LEMMA PurgeChecksStep ==
    ASSUME IInv, NEW j \in Job, NEW t \in Ticket, PurgeChecks(j, t) PROVE IInv'
<1> DEFINE old == job[j]
           seen == {k \in {"draft", "delivery"} : aside[t][k] # None}
           s == [old EXCEPT !.pc = "unlinking", !.ticket = t, !.seen = seen]
<1>1. CASE Goes(j, "failed") /\ late' = late
    BY <1>1, EndsQuietly DEF PurgeChecks
<1>2. CASE Moves(j, s) /\ late' = late \ {j} /\ ~Held(t)
    <2>1. /\ old \in JobState /\ Purging(old, disturbed[j], j \in late, clock, ticket, aside)
          /\ old.pc = "applying" /\ t \in old.expired \ old.removed /\ seen \in SUBSET Kind
        BY DEF IInv, TypeOK, PurgeChecks, Kind
    <2>2. /\ s \in JobState /\ s.pc = "unlinking" /\ s.at = old.at /\ s.expired = old.expired
          /\ s.removed = old.removed /\ s.ticket = t /\ s.seen = seen
        BY <2>1 DEF JobState
    <2> HIDE DEF s
    <2>3. \A k \in Kind : aside[t][k] # None => k \in seen \ {"hold"}
        BY <1>2 DEF Kind, Held
    <2> HIDE DEF seen
    <2>4. Placed(s, temp[j], born, accepted, attested)
        BY <2>1, <2>2 DEF Placed
    <2>5. Purging(s, disturbed[j], j \in late', clock, ticket, aside)
        BY <2>1, <2>2, <2>3 DEF Purging
    <2> QED BY <1>2, <2>2, <2>4, <2>5, QuietStep DEF PurgeChecks
<1> QED BY <1>1, <1>2 DEF PurgeChecks

\* A file of a ticket holds a complete record, part of one, or nothing.
LEMMA FilesAre ==
    ASSUME IInv, NEW t \in Ticket, NEW x \in Record \cup {None, Partial},
           NEW k \in Kind, NEW y \in Aside \cup {None}
    PROVE  /\ [ticket EXCEPT ![t] = x] \in [Ticket -> Record \cup {None, Partial}]
           /\ [ticket EXCEPT ![t] = x][t] = x
           /\ \A u \in Ticket \ {t} : [ticket EXCEPT ![t] = x][u] = ticket[u]
           /\ [aside EXCEPT ![t][k] = y] \in [Ticket -> [Kind -> Aside \cup {None}]]
           /\ [aside EXCEPT ![t][k] = y][t][k] = y
           /\ \A l \in Kind \ {k} : [aside EXCEPT ![t][k] = y][t][l] = aside[t][l]
           /\ \A u \in Ticket \ {t} : [aside EXCEPT ![t][k] = y][u] = aside[u]
<1>1. ticket \in [Ticket -> Record \cup {None, Partial}] /\ aside \in [Ticket -> [Kind -> Aside \cup {None}]]
    BY DEF IInv, TypeOK
<1>2. [aside[t] EXCEPT ![k] = y] \in [Kind -> Aside \cup {None}]
    BY <1>1
<1>3. [aside EXCEPT ![t][k] = y] = [aside EXCEPT ![t] = [aside[t] EXCEPT ![k] = y]]
    BY <1>1
<1> QED BY <1>1, <1>2, <1>3

LEMMA QueuedIsRecord == Queued \in Record \ {None, Partial} /\ Queued.status = "queued"
BY ConstantsAssumption DEF Queued, Record, Status

\* No other process receives the ticket this one receives, nor one that was accepted.
LEMMA ReceiverIsAlone ==
    ASSUME IInv, NEW j \in Job, job[j].pc = "receiving"
    PROVE  /\ job[j].ticket \in Ticket /\ job[j].ticket \in born /\ job[j].ticket \notin accepted
           /\ \A i \in Job \ {j} : job[i].pc = "receiving" =>
                 job[i].ticket \notin accepted \cup {job[j].ticket}
BY DEF IInv, Placed, TypeOK

LEMMA ReceiveStep == ASSUME IInv, NEW j \in Job, NEW t \in Ticket, Receive(j, t) PROVE IInv'
<1> DEFINE s == [Blank EXCEPT !.pc = "receiving", !.op = "receive", !.ticket = t]
<1>1. s \in JobState /\ s.pc = "receiving" /\ s.ticket = t /\ s.removed = {}
    BY DEF Blank, JobState
<1>2. /\ Moves(j, s) /\ Disturbs(j, t) /\ t \notin born /\ born' = born \cup {t}
      /\ job[j].pc = "idle" /\ ticket' = [ticket EXCEPT ![t] = Partial]
      /\ UNCHANGED <<clock, aside, temp, accepted, attested, late>>
    BY DEF Receive
<1> HIDE DEF s
<1>3. /\ ticket' \in [Ticket -> Record \cup {None, Partial}] /\ ticket'[t] = Partial
      /\ temp' \in [Job -> Record \cup {None, Partial}]
      /\ \A u \in Ticket \ {t} : ticket'[u] = ticket[u]
    BY <1>2, FilesAre DEF IInv, TypeOK
<1>4. t \notin accepted /\ accepted \subseteq born'
    BY <1>2 DEF IInv
<1>5. \A i \in Job \ {j} : job[i].pc = "receiving" =>
          job[i].ticket \notin accepted' /\ (s.pc = "receiving" => s.ticket # job[i].ticket)
    BY <1>1, <1>2, ReceiverIsAlone
<1>6. Placed(s, temp'[j], born', accepted', attested') /\ Purging(s, disturbed[j], j \in late', clock, ticket', aside')
    BY <1>1, <1>2, <1>4 DEF Placed, Purging
<1>7. job[j].removed \subseteq s.removed
    BY <1>1, <1>2 DEF IInv, Placed
<1>8. /\ \A i \in Job \ {j} : temp'[i] = temp[i]
      /\ UNCHANGED <<aside, attested, late>> /\ clock' = clock
      /\ accepted' = accepted /\ accepted' \subseteq born' /\ t \notin accepted'
      /\ ticket'[t] \in {None, Partial}
    BY <1>2, <1>3, <1>4
<1>9. Moves(j, s) /\ Disturbs(j, t) /\ born' \in {born, born \cup {t}}
    BY <1>2
<1> QED BY <1>1, <1>3, <1>5, <1>6, <1>7, <1>8, <1>9, WriteStep

\* A command that writes ticket t and ends.
LEMMA WritesTicket ==
    ASSUME IInv, NEW j \in Job, NEW t \in Ticket, NEW x \in Record \cup {None, Partial},
           NEW pc \in {"done", "failed"}, Goes(j, pc), Disturbs(j, t),
           ticket' = [ticket EXCEPT ![t] = x],
           UNCHANGED <<clock, aside, born, attested, late>>, temp' \in {temp, [temp EXCEPT ![j] = None]},
           accepted' \in {accepted, accepted \cup {t}}, t \in accepted' => t \in born /\ x \notin {None, Partial},
           accepted' = accepted \/ job[j].pc = "receiving",
           x \notin {None, Partial} /\ x.status = "responded" => t \in attested,
           job[j].pc = "receiving" => t = job[j].ticket
    PROVE  IInv'
<1> DEFINE s == [job[j] EXCEPT !.pc = pc]
<1>1. s \in JobState /\ s.pc = pc /\ s.removed = job[j].removed
    BY Gone DEF Pc
<1>2. Moves(j, s)
    BY DEF Goes
<1> HIDE DEF s
<1>3. /\ ticket' \in [Ticket -> Record \cup {None, Partial}] /\ ticket'[t] = x
      /\ temp' \in [Job -> Record \cup {None, Partial}] /\ \A i \in Job \ {j} : temp'[i] = temp[i]
      /\ \A u \in Ticket \ {t} : ticket'[u] = ticket[u]
    BY FilesAre DEF IInv, TypeOK
<1>4. Placed(s, temp'[j], born', accepted', attested') /\ Purging(s, disturbed[j], j \in late', clock, ticket', aside')
    BY <1>1 DEF Placed, Purging
<1>5. accepted' \subseteq born'
    BY DEF IInv
<1>6. \A i \in Job \ {j} : job[i].pc = "receiving" =>
          job[i].ticket \notin accepted' /\ (s.pc = "receiving" => s.ticket # job[i].ticket)
    <2>1. \A i \in Job : job[i].pc = "receiving" => job[i].ticket \notin accepted
        BY ReceiverIsAlone
    <2> QED BY <1>1, <2>1, ReceiverIsAlone
<1> QED BY <1>1, <1>2, <1>3, <1>4, <1>5, <1>6, WriteStep

LEMMA ReceiveWritesStep == ASSUME IInv, NEW j \in Job, ReceiveWrites(j) PROVE IInv'
<1>1. job[j].pc = "receiving" /\ job[j].ticket \in Ticket /\ job[j].ticket \in born
    BY ReceiverIsAlone DEF ReceiveWrites
<1> QED BY <1>1, QueuedIsRecord, WritesTicket DEF ReceiveWrites

LEMMA ReceiveFailsStep == ASSUME IInv, NEW j \in Job, ReceiveFails(j) PROVE IInv'
<1>1. /\ job[j].pc = "receiving" /\ job[j].ticket \in Ticket /\ job[j].ticket \notin accepted
    BY ReceiverIsAlone DEF ReceiveFails
<1>2. PICK left \in {None, Partial, Queued} : ticket' = [ticket EXCEPT ![job[j].ticket] = left]
    BY DEF ReceiveFails
<1> QED BY <1>1, <1>2, QueuedIsRecord, WritesTicket DEF ReceiveFails

LEMMA StatusRenamesStep == ASSUME IInv, NEW j \in Job, StatusRenames(j) PROVE IInv'
<1> DEFINE t == job[j].ticket
           x == temp[j]
<1>1. Placed(job[j], x, born, accepted, attested) /\ job[j].pc = "renaming" /\ accepted \subseteq born
    BY DEF IInv, StatusRenames
<1>2. t \in Ticket /\ x \in Record /\ x \notin {None, Partial}
    BY <1>1, ConstantsAssumption DEF Placed
<1>3. x.status = "responded" => t \in attested
    BY <1>1 DEF Placed
<1>4. /\ ticket' = [ticket EXCEPT ![t] = x] /\ Goes(j, "done") /\ Disturbs(j, t)
      /\ temp' = [temp EXCEPT ![j] = None]
      /\ UNCHANGED <<clock, aside, born, attested, late>> /\ accepted' = accepted
    BY DEF StatusRenames
<1> HIDE DEF x, t
<1> QED BY <1>1, <1>2, <1>3, <1>4, WritesTicket

LEMMA PrivateCreatesStep == ASSUME IInv, NEW j \in Job, PrivateCreates(j) PROVE IInv'
<1> DEFINE t == job[j].ticket
           kind == job[j].op
           y == [by |-> j, whole |-> FALSE]
           s == [job[j] EXCEPT !.pc = "writing"]
<1>1. CASE Goes(j, "failed") /\ UNCHANGED <<aside, late>>
    BY <1>1, EndsQuietly DEF PrivateCreates
<1>2. CASE aside' = [aside EXCEPT ![t][kind] = y] /\ Goes(j, "writing") /\ Belates(t)
    <2>1. Placed(job[j], temp[j], born, accepted, attested) /\ job[j].pc = "creating"
        BY DEF IInv, PrivateCreates
    <2>2. t \in Ticket /\ kind \in Kind /\ y \in Aside /\ ~y.whole
        BY <2>1 DEF Placed, Aside
    <2>3. /\ s \in JobState /\ s.pc = "writing" /\ s.ticket = t /\ s.op = kind
          /\ s.removed = job[j].removed
        BY Gone DEF Pc
    <2>4. Moves(j, s) /\ UNCHANGED <<clock, ticket, temp, born, accepted, attested, disturbed>>
        BY <1>2 DEF Goes, PrivateCreates
    <2>5. /\ late' \subseteq Job /\ late \subseteq late'
          /\ \A i \in Job : job[i].pc = "unlinking" /\ job[i].ticket = t => i \in late'
        BY <1>2 DEF Belates, IInv, TypeOK
    <2> HIDE DEF s, t, kind, y
    <2>6. /\ aside' \in [Ticket -> [Kind -> Aside \cup {None}]]
          /\ aside'[t][kind] = y /\ \A l \in Kind \ {kind} : aside'[t][l] = aside[t][l]
          /\ \A u \in Ticket \ {t} : aside'[u] = aside[u]
        BY <1>2, <2>2, FilesAre
    <2>7. Placed(s, temp[j], born, accepted, attested')
          /\ Purging(s, disturbed[j], j \in late', clock, ticket, aside')
        BY <2>2, <2>3 DEF Placed, Purging
    <2>8. Receipts(aside', attested')
        BY <2>2, <2>4, <2>6 DEF IInv, Receipts, Kind
    <2>9. \A i \in Job \ {j} : job[i].pc = "unlinking" =>
              \/ i \in late'
              \/ i \notin late /\ \A k \in Kind : aside'[job[i].ticket][k] # None =>
                                              aside[job[i].ticket][k] # None
        <3> SUFFICES ASSUME NEW i \in Job \ {j}, job[i].pc = "unlinking", i \notin late'
                     PROVE  i \notin late /\ aside'[job[i].ticket] = aside[job[i].ticket]
            OBVIOUS
        <3>1. job[i].ticket \in Ticket \ {t}
            BY <2>5 DEF IInv, TypeOK, JobState, Placed
        <3> QED BY <2>5, <2>6, <3>1
    <2>10. attested' \subseteq Ticket /\ attested \subseteq attested' /\ s.pc # "receiving"
           /\ job[j].removed = s.removed
        BY <2>3, <2>4 DEF IInv, TypeOK
    <2> QED BY <2>3, <2>4, <2>5, <2>6, <2>7, <2>8, <2>9, <2>10, AsideStep
<1> QED BY <1>1, <1>2 DEF PrivateCreates

\* A file that is there when a process writes it was there before, so nobody is late.
LEMMA Undelayed ==
    ASSUME IInv, NEW j \in Job, late' = late,
           \A t \in Ticket, k \in Kind : aside'[t][k] # None => aside[t][k] # None
    PROVE  /\ late' \subseteq Job
           /\ \A i \in Job \ {j} : job[i].pc = "unlinking" =>
                 \/ i \in late'
                 \/ i \notin late /\ \A k \in Kind : aside'[job[i].ticket][k] # None =>
                                                 aside[job[i].ticket][k] # None
<1>1. \A i \in Job : job[i].pc = "unlinking" => job[i].ticket \in Ticket
    BY DEF IInv, Placed, TypeOK, JobState
<1> QED BY <1>1 DEF IInv, TypeOK

LEMMA PrivateWritesStep == ASSUME IInv, NEW j \in Job, PrivateWrites(j) PROVE IInv'
<1> DEFINE t == job[j].ticket
           kind == job[j].op
           mine == [by |-> j, whole |-> FALSE]
           y == [mine EXCEPT !.whole = TRUE]
<1>1. PICK pc \in {"done", "failed"} : Goes(j, pc)
    BY DEF PrivateWrites
<1>2. CASE UNCHANGED <<aside, attested>>
    BY <1>1, <1>2, EndsQuietly DEF PrivateWrites
<1>3. CASE /\ aside[t][kind] = mine /\ aside' = [aside EXCEPT ![t][kind] = y]
           /\ attested' = IF kind = "delivery" THEN attested \cup {t} ELSE attested
    <2> DEFINE s == [job[j] EXCEPT !.pc = pc]
    <2>1. Placed(job[j], temp[j], born, accepted, attested) /\ job[j].pc = "writing"
        BY DEF IInv, PrivateWrites
    <2>2. t \in Ticket /\ kind \in Kind /\ y \in Aside /\ mine \in Aside
        BY <2>1 DEF Placed, Aside
    <2>3. s \in JobState /\ s.pc = pc /\ s.removed = job[j].removed
        BY Gone DEF Pc
    <2>4. Moves(j, s) /\ UNCHANGED <<clock, ticket, temp, born, accepted, disturbed, late>>
        BY <1>1 DEF Goes, PrivateWrites
    <2>5. aside[t][kind] # None
        BY <1>3, <2>2, ConstantsAssumption
    <2> HIDE DEF s, t, kind, y, mine
    <2>6. /\ aside' \in [Ticket -> [Kind -> Aside \cup {None}]]
          /\ \A l \in Kind \ {kind} : aside'[t][l] = aside[t][l]
          /\ \A u \in Ticket \ {t} : aside'[u] = aside[u]
        BY <1>3, <2>2, FilesAre
    <2>7. Placed(s, temp[j], born, accepted, attested')
          /\ Purging(s, disturbed[j], j \in late', clock, ticket, aside')
        BY <2>3 DEF Placed, Purging
    <2>8. attested' \subseteq Ticket /\ attested \subseteq attested' /\ s.pc # "receiving"
          /\ job[j].removed = s.removed
        BY <1>3, <2>2, <2>3 DEF IInv, TypeOK
    <2>9. Receipts(aside', attested')
        BY <1>3, <2>2, <2>6 DEF IInv, Receipts, Kind
    <2>10. \A u \in Ticket, k \in Kind : aside'[u][k] # None => aside[u][k] # None
        BY <2>2, <2>5, <2>6
    <2> QED BY <2>3, <2>4, <2>6, <2>7, <2>8, <2>9, <2>10, Undelayed, AsideStep
<1> QED BY <1>2, <1>3 DEF PrivateWrites

LEMMA PurgeUnlinksAsideStep ==
    ASSUME IInv, NEW j \in Job, NEW kind \in {"draft", "delivery"}, PurgeUnlinksAside(j, kind)
    PROVE  IInv'
<1> DEFINE old == job[j]
           t == old.ticket
           s == [old EXCEPT !.seen = @ \ {kind}]
<1>1. CASE Goes(j, "failed") /\ aside' = aside
    BY <1>1, EndsQuietly DEF PurgeUnlinksAside
<1>2. CASE aside' = [aside EXCEPT ![t][kind] = None] /\ Moves(j, s)
    <2>1. /\ old \in JobState /\ Placed(old, temp[j], born, accepted, attested) /\ old.pc = "unlinking"
          /\ Purging(old, disturbed[j], j \in late, clock, ticket, aside)
        BY DEF IInv, TypeOK, PurgeUnlinksAside
    <2>2. t \in Ticket /\ t \in old.expired \ old.removed /\ kind \in Kind
        BY <2>1 DEF Placed, JobState, Kind
    <2>3. /\ s \in JobState /\ s.pc = "unlinking" /\ s.ticket = t /\ s.at = old.at
          /\ s.expired = old.expired /\ s.removed = old.removed /\ s.seen = old.seen \ {kind}
        BY <2>1 DEF JobState
    <2>4. UNCHANGED <<clock, ticket, temp, born, accepted, attested, disturbed, late>>
        BY DEF PurgeUnlinksAside
    <2> HIDE DEF s
    <2>5. /\ aside' \in [Ticket -> [Kind -> Aside \cup {None}]]
          /\ aside'[t][kind] = None /\ \A l \in Kind \ {kind} : aside'[t][l] = aside[t][l]
          /\ \A u \in Ticket \ {t} : aside'[u] = aside[u]
        BY <1>2, <2>2, FilesAre
    <2>6. Placed(s, temp[j], born, accepted, attested')
        BY <2>2, <2>3 DEF Placed
    <2>7. Purging(s, disturbed[j], j \in late', clock, ticket, aside')
        <3>1. \A k \in Kind : aside'[t][k] # None => k # kind /\ aside[t][k] # None
            BY <2>5
        <3> QED BY <2>1, <2>3, <2>4, <3>1 DEF Purging
    <2>8. Receipts(aside', attested')
        BY <2>2, <2>4, <2>5 DEF IInv, Receipts, Kind
    <2>9. \A u \in Ticket, k \in Kind : aside'[u][k] # None => aside[u][k] # None
        BY <2>2, <2>5
    <2>10. attested' \subseteq Ticket /\ attested \subseteq attested'
        BY <2>4 DEF IInv, TypeOK
    <2> QED BY <1>2, <2>3, <2>4, <2>5, <2>6, <2>7, <2>8, <2>9, <2>10, Undelayed, AsideStep
<1> QED BY <1>1, <1>2 DEF PurgeUnlinksAside

LEMMA PurgeUnlinksTicketStep == ASSUME IInv, NEW j \in Job, PurgeUnlinksTicket(j) PROVE IInv'
<1> DEFINE old == job[j]
           t == old.ticket
           s == [old EXCEPT !.pc = "applying", !.removed = @ \cup {t}]
<1>1. CASE Goes(j, "failed") /\ UNCHANGED <<ticket, disturbed>>
    BY <1>1, EndsQuietly DEF PurgeUnlinksTicket
<1>2. CASE ticket' = [ticket EXCEPT ![t] = None] /\ Moves(j, s) /\ Disturbs(j, t)
    <2>1. /\ old \in JobState /\ Placed(old, temp[j], born, accepted, attested) /\ old.pc = "unlinking"
          /\ Purging(old, disturbed[j], j \in late, clock, ticket, aside)
        BY DEF IInv, TypeOK, PurgeUnlinksTicket
    <2>2. t \in Ticket
        BY <2>1 DEF Placed, JobState
    <2>3. /\ s \in JobState /\ s.pc = "applying" /\ s.at = old.at /\ s.expired = old.expired
          /\ s.removed = old.removed \cup {t}
        BY <2>1, <2>2 DEF JobState
    <2>4. UNCHANGED <<clock, aside, temp, born, accepted, attested, late>>
        BY DEF PurgeUnlinksTicket
    <2> HIDE DEF s
    <2>5. /\ ticket' \in [Ticket -> Record \cup {None, Partial}] /\ ticket'[t] = None
          /\ temp' \in [Job -> Record \cup {None, Partial}]
          /\ \A u \in Ticket \ {t} : ticket'[u] = ticket[u]
        BY <1>2, <2>2, <2>4, FilesAre DEF IInv, TypeOK
    <2>6. Placed(s, temp'[j], born', accepted', attested')
        BY <2>3 DEF Placed
    <2>7. Purging(s, disturbed[j], j \in late', clock, ticket', aside')
        <3>1. old.expired \subseteq Ticket
            BY <2>1 DEF JobState
        <3> QED BY <2>1, <2>3, <2>4, <2>5, <3>1 DEF Purging
    <2>8. accepted' \subseteq born'
        BY <2>4 DEF IInv
    <2> QED BY <1>2, <2>2, <2>3, <2>4, <2>5, <2>6, <2>7, <2>8, WriteStep, ReceiverIsAlone
<1> QED BY <1>1, <1>2 DEF PurgeUnlinksTicket

LEMMA ReleasesHoldStep == ASSUME IInv, NEW t \in Ticket, ReleasesHold(t) PROVE IInv'
<1>1. /\ aside' \in [Ticket -> [Kind -> Aside \cup {None}]]
      /\ \A l \in Kind \ {"hold"} : aside'[t][l] = aside[t][l]
      /\ aside'[t]["hold"] = None
      /\ \A u \in Ticket \ {t} : aside'[u] = aside[u]
    BY FilesAre, ConstantsAssumption DEF ReleasesHold, Kind, IInv, TypeOK
<1>2. UNCHANGED <<clock, ticket, temp, job, born, accepted, attested, disturbed, late>>
    BY DEF ReleasesHold
<1>3. TypeOK'
    BY <1>1, <1>2 DEF IInv, TypeOK
<1>4. \A i \in Job : Purging(job[i], disturbed[i], i \in late, clock, ticket, aside')
    <2> SUFFICES ASSUME NEW i \in Job PROVE Purging(job[i], disturbed[i], i \in late, clock, ticket, aside')
        OBVIOUS
    <2>1. /\ Purging(job[i], disturbed[i], i \in late, clock, ticket, aside)
          /\ job[i].pc = "unlinking" => job[i].ticket \in Ticket
        BY DEF IInv, TypeOK, JobState, Placed
    <2>2. \A u \in Ticket, k \in Kind : aside'[u][k] # None => aside[u][k] # None
        BY <1>1
    <2> QED BY <2>1, <2>2 DEF Purging
<1>5. Receipts(aside', attested)
    BY <1>1 DEF IInv, Receipts, Kind
<1> QED BY <1>2, <1>3, <1>4, <1>5 DEF IInv, AcceptedIsStored, RespondedWasAttested, Readable

LEMMA TickStep == IInv /\ Tick => IInv'
<1> SUFFICES ASSUME IInv, Tick PROVE IInv'
    OBVIOUS
<1>1. clock \in Nat /\ clock' = clock + 1 /\ clock' \in 0..MaxDay
    BY ConstantsAssumption DEF IInv, TypeOK, Tick
<1>2. UNCHANGED <<ticket, aside, temp, job, born, accepted, attested, disturbed, late>>
    BY DEF Tick
<1>3. TypeOK'
    BY <1>1, <1>2 DEF IInv, TypeOK
<1>4. \A i \in Job : Purging(job[i], disturbed[i], i \in late, clock', ticket, aside)
    <2> SUFFICES ASSUME NEW i \in Job PROVE Purging(job[i], disturbed[i], i \in late, clock', ticket, aside)
        OBVIOUS
    <2>1. Purging(job[i], disturbed[i], i \in late, clock, ticket, aside) /\ job[i].at \in Nat
        BY DEF IInv, TypeOK, JobState
    <2> QED BY <1>1, <2>1 DEF Purging
<1> QED BY <1>2, <1>3, <1>4 DEF IInv, AcceptedIsStored, RespondedWasAttested, Readable

LEMMA InitIsSound == Init => IInv
<1> SUFFICES ASSUME Init PROVE IInv
    OBVIOUS
<1>1. TypeOK
    BY ConstantsAssumption, QueuedIsRecord DEF Init, TypeOK, Blank, JobState, Record, Status, Kind
<1>2. \A j \in Job : Placed(job[j], temp[j], born, accepted, attested)
                    /\ Purging(job[j], disturbed[j], j \in late, clock, ticket, aside)
    BY DEF Init, Placed, Purging, Blank
<1>3. AcceptedIsStored /\ RespondedWasAttested
    BY ConstantsAssumption, QueuedIsRecord
    DEF Init, AcceptedIsStored, RespondedWasAttested, Readable, Record, Status
<1>4. Receipts(aside, attested)
    BY DEF Init, Receipts, Kind
<1> QED BY <1>1, <1>2, <1>3, <1>4 DEF Init, IInv, Blank

LEMMA IInvStep == IInv /\ [Next]_vars => IInv'
<1> SUFFICES ASSUME IInv, [Next]_vars PROVE IInv'
    OBVIOUS
<1>1. ASSUME NEW j \in Job, Gateway(j) PROVE IInv'
    BY <1>1, ReceiveStep, ReceiveWritesStep, ReceiveFailsStep DEF Gateway
<1>2. ASSUME NEW j \in Job, SetStatus(j) PROVE IInv'
    <2>1. CASE StatusFails(j)
        BY <2>1, EndsQuietly DEF StatusFails
    <2> QED BY <1>2, <2>1, StatusReadsStep, StatusChecksStep, StatusFillsStep, StatusRenamesStep
            DEF SetStatus
<1>3. ASSUME NEW j \in Job, WritePrivate(j) PROVE IInv'
    BY <1>3, PrivateReadsStep, PrivateCreatesStep, PrivateWritesStep DEF WritePrivate
<1>4. ASSUME NEW j \in Job, Purge(j) PROVE IInv'
    <2>1. CASE PurgeReports(j)
        BY <2>1, EndsQuietly DEF PurgeReports
    <2> QED BY <1>4, <2>1, PurgeStartsStep, PurgeReadsStep, PurgeHasReadStep, PurgeSparesStep,
               PurgeAppliesStep, PurgeChecksStep, PurgeUnlinksAsideStep, PurgeUnlinksTicketStep
            DEF Purge
<1>5. ASSUME NEW j \in Job, Stops(j) PROVE IInv'
    BY <1>5, EndsQuietly DEF Stops
<1>6. CASE UNCHANGED vars
    BY <1>6 DEF vars, IInv, TypeOK, AcceptedIsStored, RespondedWasAttested, Readable
<1> QED BY <1>1, <1>2, <1>3, <1>4, <1>5, <1>6, ReleasesHoldStep, TickStep DEF Next

LEMMA Always == Spec => []IInv
<1> QED BY InitIsSound, IInvStep, PTL DEF Spec

-----------------------------------------------------------------------------
(* What the queue guarantees *)

\* For any number of processes that interleave and die at any file operation
\* (queueTicket, pro-support-queue.js, pro-support-operations.js), a ticket whose
\* sender was told its identifier can be read until a purge removes it.
THEOREM AcceptedStays == Spec => []AcceptedIsStored
<1>1. IInv => AcceptedIsStored
    BY DEF IInv
<1> QED BY <1>1, Always, PTL

\* Likewise no ticket says "responded" that had no complete delivery receipt of its own
\* (requireDeliveryAttestation), whichever commands ran beside `status`.
THEOREM RespondedIsAttested == Spec => []RespondedWasAttested
<1>1. IInv => RespondedWasAttested
    BY DEF IInv
<1> QED BY <1>1, Always, PTL

\* Only the unlinking of a ticket adds to what a purge has removed.
LEMMA RemovedStays ==
    ASSUME IInv, NEW j \in Job, Gateway(j) \/ SetStatus(j) \/ WritePrivate(j) \/ Purge(j) \/ Stops(j),
           ~PurgeUnlinksTicket(j)
    PROVE  \A i \in Job : job'[i].removed = job[i].removed
<1>1. /\ job \in [Job -> JobState] /\ job[j] \in JobState
      /\ job[j].pc = "idle" => job[j].removed = {}
    BY DEF IInv, TypeOK, Placed
<1>2. ASSUME NEW pc, Goes(j, pc) PROVE \A i \in Job : job'[i].removed = job[i].removed
    BY <1>1, <1>2 DEF Goes, Moves, JobState
<1>3. ASSUME NEW x, NEW y, NEW z,
             \/ Moves(j, [job[j] EXCEPT !.todo = x, !.expired = y])
             \/ Moves(j, [job[j] EXCEPT !.pc = x, !.at = y])
             \/ Moves(j, [job[j] EXCEPT !.pc = x, !.ticket = y, !.seen = z])
      PROVE  \A i \in Job : job'[i].removed = job[i].removed
    <2>1. CASE Moves(j, [job[j] EXCEPT !.todo = x, !.expired = y])
        BY <1>1, <2>1 DEF Moves, JobState
    <2>2. CASE Moves(j, [job[j] EXCEPT !.pc = x, !.at = y])
        BY <1>1, <2>2 DEF Moves, JobState
    <2>3. CASE Moves(j, [job[j] EXCEPT !.pc = x, !.ticket = y, !.seen = z])
        BY <1>1, <2>3 DEF Moves, JobState
    <2> QED BY <1>3, <2>1, <2>2, <2>3
<1>4. CASE Gateway(j)
    <2>1. ASSUME NEW t \in Ticket, Receive(j, t) PROVE \A i \in Job : job'[i].removed = job[i].removed
        BY <1>1, <2>1 DEF Receive, Moves, Blank, JobState
    <2> QED BY <1>2, <1>4, <2>1 DEF Gateway, ReceiveWrites, ReceiveFails
<1>5. CASE SetStatus(j)
    <2>1. ASSUME NEW t \in Ticket, NEW status \in {"open", "responded", "closed"},
                 StatusReads(j, t, status)
          PROVE  \A i \in Job : job'[i].removed = job[i].removed
        BY <1>1, <2>1 DEF StatusReads, Moves, Blank, JobState
    <2>2. CASE StatusChecks(j)
        BY <1>2, <1>3, <2>2 DEF StatusChecks
    <2> QED BY <1>2, <1>5, <2>1, <2>2 DEF SetStatus, StatusCreates, StatusWrites, StatusRenames, StatusFails
<1>6. CASE WritePrivate(j)
    <2>1. ASSUME NEW t \in Ticket, NEW kind \in Kind, PrivateReads(j, t, kind)
          PROVE  \A i \in Job : job'[i].removed = job[i].removed
        BY <1>1, <2>1 DEF PrivateReads, Moves, Blank, JobState
    <2> QED BY <1>2, <1>6, <2>1 DEF WritePrivate, PrivateCreates, PrivateWrites
<1>7. CASE Purge(j)
    <2>1. CASE PurgeStarts(j)
        BY <1>1, <2>1 DEF PurgeStarts, Moves, Blank, JobState
    <2>2. ASSUME NEW t \in Ticket, PurgeReads(j, t) \/ PurgeSpares(j, t)
          PROVE  \A i \in Job : job'[i].removed = job[i].removed
        BY <1>3, <2>2 DEF PurgeReads, PurgeSpares
    <2>3. CASE PurgeHasRead(j)
        BY <1>1, <2>3 DEF PurgeHasRead, Moves, JobState
    <2>4. ASSUME NEW t \in Ticket, PurgeChecks(j, t)
          PROVE  \A i \in Job : job'[i].removed = job[i].removed
        BY <1>2, <1>3, <2>4 DEF PurgeChecks
    <2>5. ASSUME NEW kind \in {"draft", "delivery"}, PurgeUnlinksAside(j, kind)
          PROVE  \A i \in Job : job'[i].removed = job[i].removed
        BY <1>1, <2>5 DEF PurgeUnlinksAside, Goes, Moves, JobState
    <2> QED BY <1>2, <1>7, <2>1, <2>2, <2>3, <2>4, <2>5 DEF Purge, PurgeApplies, PurgeReports
<1>8. CASE Stops(j)
    BY <1>2, <1>8 DEF Stops
<1> QED BY <1>4, <1>5, <1>6, <1>7, <1>8

Just(j, t) ==
    Removes(j, t) =>
        /\ t \notin disturbed[j] => ticket[t].status = "closed" /\ clock - ticket[t].updated >= Days
        /\ j \notin late => \A k \in Kind : aside'[t][k] = None

LEMMA RemovalIsJust == ASSUME IInv, NEW j \in Job, NEW t \in Ticket, [Next]_vars PROVE Just(j, t)
<1> SUFFICES ASSUME Removes(j, t) PROVE Just(j, t)
    BY DEF Just
<1>1. job'[j].removed # job[j].removed /\ job[j].ticket = t
    BY DEF Removes
<1>2. PICK i \in Job : Gateway(i) \/ SetStatus(i) \/ WritePrivate(i) \/ Purge(i) \/ Stops(i)
    BY <1>1 DEF Next, vars, ReleasesHold, Tick
<1>3. PurgeUnlinksTicket(i)
    BY <1>1, <1>2, RemovedStays
<1>4. job' = [job EXCEPT ![i] = job'[i]] /\ job \in [Job -> JobState]
    BY <1>3 DEF PurgeUnlinksTicket, Goes, Moves, IInv, TypeOK
<1>5. i = j
    BY <1>1, <1>4
<1>6. /\ job[j].pc = "unlinking" /\ job[j].seen = {} /\ aside' = aside
      /\ Placed(job[j], temp[j], born, accepted, attested) /\ job[j] \in JobState
      /\ Purging(job[j], disturbed[j], j \in late, clock, ticket, aside)
    BY <1>3, <1>5 DEF PurgeUnlinksTicket, IInv, TypeOK
<1>7. ASSUME t \notin disturbed[j]
      PROVE  ticket[t].status = "closed" /\ clock - ticket[t].updated >= Days
    <2>1. t \in job[j].expired \ (job[j].removed \cup disturbed[j])
        BY <1>1, <1>6, <1>7 DEF Placed
    <2>2. ticket[t] \in Record /\ Expired(ticket[t], job[j].at) /\ job[j].at <= clock
        BY <1>6, <2>1 DEF Purging, IInv, TypeOK
    <2>3. /\ ticket[t].status = "closed" /\ ticket[t].updated \in Nat
          /\ job[j].at - ticket[t].updated >= Days /\ job[j].at \in Nat /\ clock \in Nat /\ Days \in Nat
        BY <1>6, <2>2, ConstantsAssumption DEF Expired, Record, JobState, IInv, TypeOK
    <2> QED BY <2>2, <2>3
<1>8. ASSUME j \notin late PROVE \A k \in Kind : aside'[t][k] = None
    BY <1>1, <1>6, <1>8 DEF Purging
<1> QED BY <1>7, <1>8 DEF Just

\* Whatever runs beside it, a purge (pro-support-operations.js) removes of the tickets that
\* nobody wrote meanwhile only those that were closed for the days it was asked; and none
\* beside which a hold, a draft or a receipt lies, but for one that was put there after it
\* had looked at this ticket for the last time.
THEOREM PurgesAreJustified == Spec => PurgeIsJustified
<1>1. IInv /\ [Next]_vars => \A j \in Job, t \in Ticket : Just(j, t)
    BY RemovalIsJust
<1>2. (\A j \in Job, t \in Ticket : Just(j, t)) =>
          [\A j \in Job, t \in Ticket :
             Removes(j, t) =>
                 /\ t \notin disturbed[j] => /\ ticket[t].status = "closed"
                                            /\ clock - ticket[t].updated >= Days
                 /\ j \notin late => \A k \in Kind : aside'[t][k] = None]_vars
    BY DEF Just
<1> QED BY <1>1, <1>2, Always, PTL DEF Spec, PurgeIsJustified
=============================================================================
