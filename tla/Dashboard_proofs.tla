-------------------------- MODULE Dashboard_proofs --------------------------
(***************************************************************************)
(* For any reports, selections and evidence, any number of overlapping       *)
(* imports and edits: what the dashboard shows as verified was verified, and  *)
(* what it exports it restores.                                              *)
(***************************************************************************)
EXTENDS Dashboard, SequenceTheorems, TLAPS

-----------------------------------------------------------------------------
(* Findings and plans *)

\* A finding counts once, however many rules have its identity.
LEMMA FindingsAreUnique ==
    ASSUME NEW r \in Report, NEW f \in FindingsOf[r], NEW g \in FindingsOf[r],
           f.identity = g.identity
    PROVE  f = g
<1> DEFINE report == Content[r]
           Of(n) == Identities(report.rules[n], report)
           First(n) == Of(n) \ UNION {Of(m) : m \in 1..(n - 1)}
<1>1. /\ r \in DOMAIN Content /\ DOMAIN report.rules \subseteq Nat \ {0}
    BY ConstantsAssumption
<1>2. FindingsOf[r] = UNION {{[identity |-> i, check |-> report.rules[n].check] : i \in First(n)} :
                             n \in DOMAIN report.rules}
    BY <1>1 DEF FindingsOf, Findings
<1>3. PICK n \in DOMAIN report.rules : \E i \in First(n) :
          f = [identity |-> i, check |-> report.rules[n].check]
    BY <1>2
<1>4. PICK m \in DOMAIN report.rules : \E i \in First(m) :
          g = [identity |-> i, check |-> report.rules[m].check]
    BY <1>2
<1>5. f.identity \in First(n) /\ f.identity \in First(m)
    BY <1>3, <1>4
<1>6. n \in Nat \ {0} /\ m \in Nat \ {0}
    BY <1>1, <1>3, <1>4
<1>7. ~(n < m) /\ ~(m < n)
    <2>1. n < m => n \in 1..(m - 1)
        BY <1>6
    <2>2. m < n => m \in 1..(n - 1)
        BY <1>6
    <2> QED BY <1>5, <2>1, <2>2
<1>8. n = m
    BY <1>6, <1>7
<1> QED BY <1>3, <1>4, <1>8

IsItem(x) ==
    x = [id |-> x.id, finding |-> x.finding, instruction |-> x.instruction,
         state |-> x.state, status |-> x.status]

IsSession(s) == s = [items |-> s.items, defects |-> s.defects, number |-> s.number]

\* The findings of a report have their items among these.
Covers(r, items) == \A f \in FindingsOf[r] :
    \E x \in items : x.id = <<"finding", f.identity>> /\ x.finding = f.identity

\* A new item: untested, named after its finding if it has one, and no user's.
Fresh(x) ==
    /\ IsItem(x) /\ x.status = "untested" /\ x.state \in {"new", "current"}
    /\ x.finding # None => x.id = <<"finding", x.finding>>
    /\ x.id[1] # "user"

\* A plan has an item for every finding, and no two items of one id.
LEMMA PlanIsFresh ==
    ASSUME NEW r \in Report, NEW new
    PROVE  /\ Covers(r, Plan(r, new)) /\ HasUniqueIds(Plan(r, new))
           /\ \A x \in Plan(r, new) : Fresh(x)
<1> DEFINE suggested == Content[r].suggested
           associated == {f.check : f \in FindingsOf[r]} \ {None}
           FindingItem(f) == Item(<<"finding", f.identity>>, f.identity,
                                  IF f.check = None THEN "exercise" ELSE f.check,
                                  IF f.identity \in new THEN "new" ELSE "current")
           Extra(n) == Item(<<"suggested", n>>, None, suggested[n], "current")
           extras == {m \in DOMAIN suggested : suggested[m] \notin associated}
<1>1. Plan(r, new) = {FindingItem(f) : f \in FindingsOf[r]} \cup {Extra(n) : n \in extras}
    BY Zenon DEF Plan
<1>2. \A f : /\ FindingItem(f).id = <<"finding", f.identity>>
             /\ FindingItem(f).finding = f.identity
             /\ Fresh(FindingItem(f))
    BY DEF Item, Fresh, IsItem
<1>3. \A n : Extra(n).id = <<"suggested", n>> /\ Extra(n).finding = None /\ Fresh(Extra(n))
    BY DEF Item, Fresh, IsItem
<1>4. Covers(r, Plan(r, new))
    BY <1>1, <1>2 DEF Covers
<1>5. HasUniqueIds(Plan(r, new))
    <2> SUFFICES ASSUME NEW x \in Plan(r, new), NEW y \in Plan(r, new), x.id = y.id
                 PROVE  x = y
        BY DEF HasUniqueIds
    <2>1. CASE \E f \in FindingsOf[r] : x = FindingItem(f)
        <3>1. PICK f \in FindingsOf[r] : x = FindingItem(f)
            BY <2>1
        <3>2. ASSUME NEW n \in extras, y = Extra(n) PROVE FALSE
            <4>1. <<"finding", f.identity>> = <<"suggested", n>>
                BY <3>1, <3>2, <1>2, <1>3
            <4> QED BY <4>1
        <3>3. PICK g \in FindingsOf[r] : y = FindingItem(g)
            BY <1>1, <3>2
        <3>4. <<"finding", f.identity>> = <<"finding", g.identity>>
            BY <3>1, <3>3, <1>2
        <3>5. f = g
            BY <3>4, FindingsAreUnique
        <3> QED BY <3>1, <3>3, <3>5
    <2>2. CASE \E n \in extras : x = Extra(n)
        <3>1. PICK n \in extras : x = Extra(n)
            BY <2>2
        <3>2. ASSUME NEW f \in FindingsOf[r], y = FindingItem(f) PROVE FALSE
            <4>1. <<"finding", f.identity>> = <<"suggested", n>>
                BY <3>1, <3>2, <1>2, <1>3
            <4> QED BY <4>1
        <3>3. PICK m \in extras : y = Extra(m)
            BY <1>1, <3>2
        <3>4. <<"suggested", n>> = <<"suggested", m>>
            BY <3>1, <3>3, <1>3
        <3> QED BY <3>1, <3>3, <3>4
    <2> QED BY <1>1, <2>1, <2>2
<1> QED BY <1>1, <1>2, <1>3, <1>4, <1>5

-----------------------------------------------------------------------------
(* The inductive invariant *)

\* An item of a session of report r, when G was given and E edits were made.
ItemOK(r, x, G, E) ==
    /\ IsItem(x) /\ ValidItem(x)
    /\ x.status # "untested" => <<r, x.id, x.status>> \in G
    /\ x.finding # None => x.id = <<"finding", x.finding>>
    /\ x.id[1] = "user" => \E n \in 1..E : x.id = <<"user", n>>

DefectOK(r, d, G, E) ==
    /\ d.id \in 1..E
    /\ d.finding # None => <<r, <<"finding", d.finding>>, "fail">> \in G

SessionOK(r, s, G, E) ==
    /\ IsSession(s)
    /\ s.number \in {None, "positive", "other"}
    /\ HasUniqueIds(s.items) /\ HasUniqueIds(s.defects)
    /\ Covers(r, s.items)
    /\ \A x \in s.items : ItemOK(r, x, G, E)
    /\ \A d \in s.defects : DefectOK(r, d, G, E)

\* Evidence of a former sitting, or what was exported.
EvidenceOK(e, G, E) ==
    e # None =>
        /\ e.binding \in Report
        /\ \/ e.schema = 1 /\ e \in Legacy
           \/ e.schema = 2 /\ ValidNumber(e.identity) /\ SessionOK(e.binding, e.session, G, E)

\* What was selected is two reports at most.
ReportsOK(reports) == reports \in Seq(Report) /\ Len(reports) \in 0..2

IInv ==
    /\ edits \in Nat /\ earlier \in {1, 2} /\ ReportsOK(committed)
    /\ DOMAIN imports = Import /\ sessions = [r \in Report |-> sessions[r]]
    /\ \A i \in Import : imports[i] = [pc |-> imports[i].pc, batch |-> imports[i].batch]
    /\ \A i \in Import : imports[i].pc \in {"validating", "binding"} =>
          /\ ReportsOK(imports[i].batch.reports)
          /\ EvidenceOK(imports[i].batch.evidence, given, edits)
    /\ \A r \in Report : sessions[r] # None =>
          r \in ToSet(committed) /\ SessionOK(r, sessions[r], given, edits)
    /\ EvidenceOK(exported, given, edits) /\ (exported # None => exported.schema = 2)
    /\ \A e \in Legacy : \A f \in e.done : <<e.binding, <<"finding", f>>, "pass">> \in given
    /\ draft # None /\ draft.finding # None =>
          <<draft.binding, <<"finding", draft.finding>>, "fail">> \in given

-----------------------------------------------------------------------------
(* Sessions and evidence stay sound *)

\* More statements and more edits keep a session sound.
LEMMA SessionGrows ==
    ASSUME NEW r, NEW s, NEW G, NEW H, NEW E \in Nat, NEW F \in Nat,
           G \subseteq H, E <= F, SessionOK(r, s, G, E)
    PROVE  SessionOK(r, s, H, F)
<1>1. \A n \in 1..E : n \in 1..F
    OBVIOUS
<1>2. \A x \in s.items : ItemOK(r, x, H, F)
    BY <1>1 DEF SessionOK, ItemOK
<1>3. \A d \in s.defects : DefectOK(r, d, H, F)
    BY <1>1 DEF SessionOK, DefectOK
<1> QED BY <1>2, <1>3 DEF SessionOK

LEMMA EvidenceGrows ==
    ASSUME NEW e, NEW G, NEW H, NEW E \in Nat, NEW F \in Nat,
           G \subseteq H, E <= F, EvidenceOK(e, G, E)
    PROVE  EvidenceOK(e, H, F)
<1> SUFFICES ASSUME e # None PROVE EvidenceOK(e, H, F)
    BY DEF EvidenceOK
<1>1. CASE e.schema = 2 /\ ValidNumber(e.identity) /\ SessionOK(e.binding, e.session, G, E)
    <2>1. SessionOK(e.binding, e.session, H, F)
        BY <1>1, SessionGrows
    <2> QED BY <1>1, <2>1 DEF EvidenceOK
<1> QED BY <1>1 DEF EvidenceOK

\* A new session is sound, whatever was given.
LEMMA NewIsSound ==
    ASSUME NEW r \in Report, NEW new, NEW G, NEW E \in Nat
    PROVE  SessionOK(r, NewSession(r, new), G, E)
<1> DEFINE s == NewSession(r, new)
<1>1. /\ IsSession(s) /\ s.items = Plan(r, new) /\ s.defects = {}
      /\ s.number \in {None, "positive", "other"}
    BY DEF NewSession, IsSession, PullRequest
<1>2. \A x \in s.items : ItemOK(r, x, G, E)
    BY <1>1, PlanIsFresh DEF Fresh, ItemOK, ValidItem, Status
<1> QED BY <1>1, <1>2, PlanIsFresh DEF SessionOK, HasUniqueIds

\* What evidence restores is sound.
LEMMA RestoredIsSound ==
    ASSUME NEW e, NEW G, NEW E \in Nat, e # None, EvidenceOK(e, G, E),
           \A l \in Legacy : \A f \in l.done : <<l.binding, <<"finding", f>>, "pass">> \in G
    PROVE  SessionOK(e.binding, Restored(e), G, E)
<1>1. CASE e.schema = 2
    BY <1>1 DEF EvidenceOK, Restored
<1>2. CASE e.schema = 1
    <2> DEFINE r == e.binding
               fresh == NewSession(r, {})
               Migrate(x) == IF x.finding # None /\ x.finding \in e.done
                             THEN [x EXCEPT !.status = "pass"] ELSE x
               s == Migrated(e)
    <2>1. r \in Report /\ e \in Legacy /\ Restored(e) = s
        BY <1>2 DEF EvidenceOK, Restored
    <2>2. /\ IsSession(fresh) /\ fresh.items = Plan(r, {}) /\ fresh.defects = {}
          /\ fresh.number \in {None, "positive", "other"}
        BY DEF NewSession, IsSession, PullRequest
    <2>3. s = [fresh EXCEPT !.items = {Migrate(x) : x \in @}]
        BY DEF Migrated
    <2>4. /\ s.items = {Migrate(x) : x \in Plan(r, {})} /\ s.defects = {}
          /\ s.number = fresh.number /\ IsSession(s)
        BY <2>2, <2>3 DEF IsSession
    <2>5. \A x \in Plan(r, {}) : /\ Migrate(x).id = x.id /\ Migrate(x).finding = x.finding
                                 /\ IsItem(Migrate(x)) /\ Migrate(x).state = x.state
                                 /\ Migrate(x).status # "untested" =>
                                       /\ Migrate(x).status = "pass" /\ x.finding # None
                                       /\ x.finding \in e.done
                                 /\ Migrate(x).status \in {"untested", "pass"}
        BY <2>1, PlanIsFresh DEF Fresh, IsItem
    <2> HIDE DEF Migrate, s
    <2>6. Covers(r, s.items)
        <3> SUFFICES ASSUME NEW f \in FindingsOf[r]
                     PROVE  \E y \in s.items : y.id = <<"finding", f.identity>> /\ y.finding = f.identity
            BY DEF Covers
        <3>1. PICK x \in Plan(r, {}) : x.id = <<"finding", f.identity>> /\ x.finding = f.identity
            BY <2>1, PlanIsFresh DEF Covers
        <3>2. Migrate(x) \in s.items
            BY <2>4
        <3> QED BY <2>5, <3>1, <3>2
    <2>7. HasUniqueIds(s.items)
        <3> SUFFICES ASSUME NEW x \in Plan(r, {}), NEW y \in Plan(r, {}), Migrate(x).id = Migrate(y).id
                     PROVE  Migrate(x) = Migrate(y)
            BY <2>4 DEF HasUniqueIds
        <3>1. x.id = y.id
            BY <2>5
        <3>2. x = y
            BY <2>1, <3>1, PlanIsFresh DEF HasUniqueIds
        <3> QED BY <3>2
    <2>8. \A x \in s.items : ItemOK(r, x, G, E)
        <3> SUFFICES ASSUME NEW x \in Plan(r, {}) PROVE ItemOK(r, Migrate(x), G, E)
            BY <2>4
        <3>1. Fresh(x)
            BY <2>1, PlanIsFresh
        <3>2. Migrate(x).status # "untested" => <<r, Migrate(x).id, Migrate(x).status>> \in G
            BY <2>1, <2>5, <3>1 DEF Fresh
        <3> QED BY <2>5, <3>1, <3>2 DEF ItemOK, Fresh, ValidItem, Status
    <2> QED BY <2>1, <2>2, <2>4, <2>6, <2>7, <2>8 DEF SessionOK, HasUniqueIds
<1> QED BY <1>1, <1>2 DEF EvidenceOK

-----------------------------------------------------------------------------
(* Steps *)

LEMMA SelectionsAreReports == \A reports \in Selection : ReportsOK(reports)
<1> SUFFICES ASSUME NEW reports \in Selection PROVE ReportsOK(reports)
    OBVIOUS
<1>1. PICK m \in 0..2 : reports \in [1..m -> Report]
    BY ConstantsAssumption DEF SeqOf
<1> QED BY <1>1, IsASeq DEF ReportsOK

LEMMA InitIsSound == Init => IInv
<1> SUFFICES ASSUME Init PROVE IInv
    OBVIOUS
<1>1. ReportsOK(committed)
    BY DEF Init, ReportsOK
<1>2. \A e \in Legacy : \A f \in e.done : <<e.binding, <<"finding", f>>, "pass">> \in given
    BY DEF Init
<1> QED BY <1>1, <1>2 DEF Init, IInv, EvidenceOK

\* A step of a selection that changes nothing else.
LEMMA SelectionStep ==
    ASSUME IInv, UNCHANGED <<view, person>>, NEW i \in Import, NEW q, NEW b,
           imports' = [imports EXCEPT ![i] = [pc |-> q, batch |-> b]],
           q \in {"validating", "binding"} =>
               ReportsOK(b.reports) /\ EvidenceOK(b.evidence, given, edits)
    PROVE  IInv'
<1>1. /\ DOMAIN imports' = Import
      /\ \A j \in Import : imports'[j] = IF j = i THEN [pc |-> q, batch |-> b] ELSE imports[j]
    BY DEF IInv
<1>2. \A j \in Import : imports'[j] = [pc |-> imports'[j].pc, batch |-> imports'[j].batch]
    BY <1>1 DEF IInv
<1>3. \A j \in Import : imports'[j].pc \in {"validating", "binding"} =>
          /\ ReportsOK(imports'[j].batch.reports)
          /\ EvidenceOK(imports'[j].batch.evidence, given, edits)
    BY <1>1 DEF IInv
<1>4. /\ edits' = edits /\ earlier' = earlier /\ committed' = committed /\ sessions' = sessions
      /\ draft' = draft /\ exported' = exported /\ given' = given
    BY DEF view, person
<1> QED BY <1>1, <1>2, <1>3, <1>4 DEF IInv

LEMMA ImportStep == ASSUME IInv, NEW i \in Import, ImportFiles(i) PROVE IInv'
<1> DEFINE old == imports[i]
<1>1. old = [pc |-> old.pc, batch |-> old.batch] /\ i \in DOMAIN imports
    BY DEF IInv
<1>2. \A q : Goes(i, q) => imports' = [imports EXCEPT ![i] = [pc |-> q, batch |-> old.batch]]
    BY <1>1 DEF Goes
<1>3. \A q : Ends(i, q) => imports' = [imports EXCEPT ![i] = [pc |-> q, batch |-> None]]
    BY DEF Ends
<1>4. CASE Selects(i)
    BY <1>2, <1>4, SelectionStep DEF Selects
<1>5. CASE Reads(i)
    <2>1. CASE Ends(i, "failed")
        BY <1>3, <1>5, <2>1, SelectionStep DEF Reads
    <2>2. ASSUME NEW reports \in Selection, NEW evidence \in Legacy \cup {None, exported},
                 imports' = [imports EXCEPT ![i] =
                    [pc |-> "validating", batch |-> [reports |-> reports, evidence |-> evidence]]]
          PROVE  IInv'
        <3>1. EvidenceOK(evidence, given, edits)
            BY ConstantsAssumption DEF IInv, EvidenceOK
        <3>2. ReportsOK(reports)
            BY SelectionsAreReports
        <3> DEFINE b == [reports |-> reports, evidence |-> evidence]
        <3>3. b.reports = reports /\ b.evidence = evidence
            OBVIOUS
        <3> QED BY <1>5, <2>2, <3>1, <3>2, <3>3, SelectionStep DEF Reads
    <2> QED BY <1>5, <2>1, <2>2 DEF Reads
<1>6. CASE Fires(i)
    BY <1>3, <1>6, SelectionStep DEF Fires
<1>7. CASE Hears(i)
    <2>1. CASE Ends(i, "failed")
        BY <1>3, <1>7, <2>1, SelectionStep DEF Hears
    <2>2. CASE Goes(i, "binding")
        <3>1. ReportsOK(old.batch.reports) /\ EvidenceOK(old.batch.evidence, given, edits)
            BY <1>7 DEF Hears, IInv
        <3> QED BY <1>2, <1>7, <2>2, <3>1, SelectionStep DEF Hears
    <2> QED BY <1>7, <2>1, <2>2 DEF Hears
<1>8. CASE Commits(i)
    <2> DEFINE batch == imports[i].batch
               q == IF Drawable(batch.reports) THEN "loaded" ELSE "failed"
    <2>1. /\ committed' = batch.reports /\ sessions' = Applied(batch) /\ draft' = None
          /\ earlier' = 1 /\ exported' = exported /\ edits' = edits /\ given' = given
          /\ Ends(i, q)
        BY <1>8 DEF Commits, person
    <2>2. ReportsOK(batch.reports) /\ EvidenceOK(batch.evidence, given, edits)
        BY <1>8 DEF Commits, IInv
    <2>3. \A r \in Report : sessions'[r] # None =>
              r \in ToSet(committed') /\ SessionOK(r, sessions'[r], given, edits)
        <3> SUFFICES ASSUME NEW r \in Report, sessions'[r] # None
                     PROVE  r \in ToSet(committed') /\ SessionOK(r, sessions'[r], given, edits)
            OBVIOUS
        <3>1. /\ batch.evidence # None /\ batch.evidence.binding = r /\ r \in ToSet(batch.reports)
              /\ sessions'[r] = Restored(batch.evidence)
            BY <2>1 DEF Applied
        <3> QED BY <2>1, <2>2, <3>1, RestoredIsSound DEF IInv
    <2>4. sessions' = [r \in Report |-> sessions'[r]]
        BY <2>1 DEF Applied
    <2>5. imports' = [imports EXCEPT ![i] = [pc |-> q, batch |-> None]] /\ q \in {"loaded", "failed"}
        BY <1>3, <2>1
    <2> HIDE DEF q
    <2>6. /\ DOMAIN imports' = Import
          /\ \A j \in Import : imports'[j] = IF j = i THEN [pc |-> q, batch |-> None] ELSE imports[j]
        BY <2>5 DEF IInv
    <2>7. /\ \A j \in Import : imports'[j] = [pc |-> imports'[j].pc, batch |-> imports'[j].batch]
          /\ \A j \in Import : imports'[j].pc \in {"validating", "binding"} =>
                /\ ReportsOK(imports'[j].batch.reports)
                /\ EvidenceOK(imports'[j].batch.evidence, given, edits)
        BY <2>5, <2>6 DEF IInv
    <2> QED BY <2>1, <2>2, <2>3, <2>4, <2>6, <2>7 DEF IInv
<1>9. CASE BindingFails(i)
    BY <1>3, <1>9, SelectionStep DEF BindingFails
<1> QED BY <1>4, <1>5, <1>6, <1>7, <1>8, <1>9 DEF ImportFiles

\* A step of the person: sessions are replaced by sound ones or cleared, a draft is
\* kept, dropped, or about what was failed, evidence is kept or sound.
LEMMA PersonStep ==
    ASSUME IInv, UNCHANGED <<imports, committed>>, earlier' \in {1, 2},
           given \subseteq given', edits' \in Nat, edits <= edits',
           sessions' = [r \in Report |-> sessions'[r]],
           \A r \in Report : \/ sessions'[r] \in {sessions[r], None}
                             \/ r \in ToSet(committed) /\ SessionOK(r, sessions'[r], given', edits'),
           exported' = exported \/ (EvidenceOK(exported', given', edits') /\ exported'.schema = 2),
           \/ draft' \in {draft, None} \/ draft'.finding = None
           \/ <<draft'.binding, <<"finding", draft'.finding>>, "fail">> \in given'
    PROVE  IInv'
<1>1. edits \in Nat
    BY DEF IInv
<1>2. \A j \in Import : imports'[j].pc \in {"validating", "binding"} =>
          /\ ReportsOK(imports'[j].batch.reports)
          /\ EvidenceOK(imports'[j].batch.evidence, given', edits')
    BY <1>1, EvidenceGrows DEF IInv
<1>3. \A r \in Report : sessions'[r] # None =>
          r \in ToSet(committed') /\ SessionOK(r, sessions'[r], given', edits')
    BY <1>1, SessionGrows DEF IInv
<1>4. EvidenceOK(exported', given', edits') /\ (exported' # None => exported'.schema = 2)
    BY <1>1, EvidenceGrows DEF IInv
<1>5. \A e \in Legacy : \A f \in e.done : <<e.binding, <<"finding", f>>, "pass">> \in given'
    BY DEF IInv
<1>6. draft' # None /\ draft'.finding # None =>
          <<draft'.binding, <<"finding", draft'.finding>>, "fail">> \in given'
    BY DEF IInv
<1> QED BY <1>2, <1>3, <1>4, <1>5, <1>6 DEF IInv

\* The report under verification is one of those committed.
LEMMA CurrentIsCommitted ==
    ASSUME IInv, committed # <<>>
    PROVE  Current \in Report /\ Current \in ToSet(committed)
<1>1. committed \in Seq(Report) /\ Len(committed) \in {1, 2} /\ earlier \in {1, 2}
    BY EmptySeq DEF IInv, ReportsOK
<1>2. Current \in {committed[n] : n \in 1..Len(committed)}
    BY <1>1 DEF Current
<1> QED BY <1>1, <1>2 DEF ToSet

\* In a session, the session is a sound one of the current report.
LEMMA ShownIsSound ==
    ASSUME IInv, InSession
    PROVE  /\ Current \in Report /\ Current \in ToSet(committed) /\ Shown = sessions[Current]
           /\ SessionOK(Current, Shown, given, edits)
BY CurrentIsCommitted DEF InSession, Verifies, Shown, IInv

\* An edit that leaves a sound session.
LEMMA EditStep ==
    ASSUME IInv, InSession, NEW s, Becomes(s), given \subseteq given',
           SessionOK(Current, s, given', edits + 1),
           draft' \in {draft, None}
    PROVE  IInv'
<1>1. edits' = edits + 1 /\ edits \in Nat /\ earlier' = earlier /\ earlier \in {1, 2}
    BY DEF Becomes, IInv
<1>2. sessions' = [r \in Report |-> IF r = Current THEN s ELSE sessions[r]]
    BY ShownIsSound DEF Becomes, IInv
<1>3. sessions' = [r \in Report |-> sessions'[r]]
    BY <1>2
<1>4. \A r \in Report : \/ sessions'[r] \in {sessions[r], None}
                        \/ r \in ToSet(committed) /\ SessionOK(r, sessions'[r], given', edits')
    <2>1. Current \in ToSet(committed)
        BY ShownIsSound
    <2>2. SessionOK(Current, s, given', edits')
        BY <1>1
    <2> SUFFICES ASSUME NEW r \in Report
                 PROVE  \/ sessions'[r] \in {sessions[r], None}
                        \/ r \in ToSet(committed) /\ SessionOK(r, sessions'[r], given', edits')
        OBVIOUS
    <2>3. CASE r = Current
        <3>1. sessions'[r] = s
            BY <1>2, <2>3
        <3> QED BY <2>1, <2>2, <2>3, <3>1
    <2>4. CASE r # Current
        BY <1>2, <2>4
    <2> QED BY <2>3, <2>4
<1>5. UNCHANGED <<imports, committed>> /\ exported' = exported
    BY DEF Becomes
<1>6. earlier' \in {1, 2} /\ edits' \in Nat /\ edits <= edits'
    BY <1>1
<1> QED BY <1>3, <1>4, <1>5, <1>6, PersonStep

LEMMA JudgesStep == ASSUME IInv, Judges PROVE IInv'
<1>1. PICK x \in Shown.items, q \in Judgement :
          /\ Becomes([Shown EXCEPT !.items = (@ \ {x}) \cup {[x EXCEPT !.status = q]}])
          /\ given' = given \cup {<<Current, x.id, q>>}
    BY DEF Judges
<1> DEFINE y == [x EXCEPT !.status = q]
           s == [Shown EXCEPT !.items = (@ \ {x}) \cup {y}]
<1>2. /\ SessionOK(Current, Shown, given, edits) /\ Current \in Report /\ edits \in Nat
      /\ InSession /\ draft' = draft
    BY ShownIsSound DEF IInv, Judges
<1>3. SessionOK(Current, Shown, given', edits + 1)
    BY <1>1, <1>2, SessionGrows
<1>5. /\ IsItem(y) /\ y.id = x.id /\ y.finding = x.finding /\ y.state = x.state /\ y.status = q
      /\ ItemOK(Current, x, given', edits + 1)
    BY <1>3 DEF SessionOK, ItemOK, IsItem
<1> HIDE DEF y
<1>4. /\ IsSession(s) /\ s.items = (Shown.items \ {x}) \cup {y} /\ s.defects = Shown.defects
      /\ s.number = Shown.number
    BY <1>3 DEF SessionOK, IsSession
<1>6. q \in Status
    BY ConstantsAssumption
<1>7. ItemOK(Current, y, given', edits + 1)
    BY <1>1, <1>5, <1>6 DEF ItemOK, ValidItem
<1>8. HasUniqueIds(s.items)
    BY <1>3, <1>4, <1>5 DEF SessionOK, HasUniqueIds
<1>9. Covers(Current, s.items)
    <2> SUFFICES ASSUME NEW f \in FindingsOf[Current]
                 PROVE  \E z \in s.items : z.id = <<"finding", f.identity>> /\ z.finding = f.identity
        BY DEF Covers
    <2>1. PICK z \in Shown.items : z.id = <<"finding", f.identity>> /\ z.finding = f.identity
        BY <1>3 DEF SessionOK, Covers
    <2>2. CASE z = x
        BY <1>4, <1>5, <2>1, <2>2
    <2>3. CASE z # x
        BY <1>4, <2>1, <2>3
    <2> QED BY <2>2, <2>3
<1>10. SessionOK(Current, s, given', edits + 1)
    BY <1>3, <1>4, <1>7, <1>8, <1>9 DEF SessionOK
<1> HIDE DEF s
<1>11. Becomes(s)
    BY <1>1 DEF s, y
<1> QED BY <1>1, <1>2, <1>10, <1>11, EditStep

LEMMA AddsCheckStep == ASSUME IInv, AddsCheck PROVE IInv'
<1> DEFINE y == UserCheck(edits + 1)
           s == [Shown EXCEPT !.items = @ \cup {y}]
<1>1. SessionOK(Current, Shown, given, edits) /\ edits \in Nat
    BY ShownIsSound DEF IInv, AddsCheck
<1>2. SessionOK(Current, Shown, given, edits + 1)
    BY <1>1, SessionGrows
<1>3. /\ IsSession(s) /\ s.items = Shown.items \cup {y} /\ s.defects = Shown.defects
      /\ s.number = Shown.number
    BY <1>2 DEF SessionOK, IsSession
<1>4. y.id = <<"user", edits + 1>> /\ ItemOK(Current, y, given, edits + 1)
    BY <1>1 DEF UserCheck, Item, ItemOK, IsItem, ValidItem, Status
<1>5. \A x \in Shown.items : x.id # y.id
    <2> SUFFICES ASSUME NEW x \in Shown.items, x.id = y.id PROVE FALSE
        OBVIOUS
    <2>1. x.id[1] = "user" /\ ItemOK(Current, x, given, edits)
        BY <1>1, <1>4 DEF SessionOK
    <2>3. PICK n \in 1..edits : x.id = <<"user", n>>
        BY <2>1 DEF ItemOK
    <2>2. <<"user", n>> = <<"user", edits + 1>>
        BY <1>4, <2>3
    <2> QED BY <1>1, <2>2
<1> HIDE DEF y
<1>6. HasUniqueIds(s.items)
    BY <1>2, <1>3, <1>5 DEF SessionOK, HasUniqueIds
<1>7. SessionOK(Current, s, given, edits + 1)
    BY <1>2, <1>3, <1>4, <1>6 DEF SessionOK, Covers
<1> HIDE DEF s
<1>8. Becomes(s) /\ InSession /\ draft' = draft /\ given' = given
    BY DEF AddsCheck, s, y
<1> QED BY <1>7, <1>8, EditStep

LEMMA RemovesCheckStep == ASSUME IInv, RemovesCheck PROVE IInv'
<1>1. PICK x \in Shown.items : x.id[1] = "user" /\ Becomes([Shown EXCEPT !.items = @ \ {x}])
    BY DEF RemovesCheck
<1> DEFINE s == [Shown EXCEPT !.items = @ \ {x}]
<1>2. InSession /\ SessionOK(Current, Shown, given, edits) /\ edits \in Nat
    BY ShownIsSound DEF IInv, RemovesCheck
<1>3. SessionOK(Current, Shown, given, edits + 1)
    BY <1>2, SessionGrows
<1>4. /\ IsSession(s) /\ s.items = Shown.items \ {x} /\ s.defects = Shown.defects
      /\ s.number = Shown.number
    BY <1>3 DEF SessionOK, IsSession
<1>5. Covers(Current, s.items)
    <2> SUFFICES ASSUME NEW f \in FindingsOf[Current]
                 PROVE  \E z \in s.items : z.id = <<"finding", f.identity>> /\ z.finding = f.identity
        BY DEF Covers
    <2>1. PICK z \in Shown.items : z.id = <<"finding", f.identity>> /\ z.finding = f.identity
        BY <1>3 DEF SessionOK, Covers
    <2>2. z # x
        <3>1. z.id[1] = "finding"
            BY <2>1
        <3> QED BY <1>1, <3>1
    <2> QED BY <1>4, <2>1, <2>2
<1>6. SessionOK(Current, s, given, edits + 1)
    BY <1>3, <1>4, <1>5 DEF SessionOK, HasUniqueIds
<1> HIDE DEF s
<1>7. Becomes(s) /\ draft' = draft /\ given' = given
    BY <1>1 DEF RemovesCheck, s
<1> QED BY <1>2, <1>6, <1>7, EditStep

LEMMA DescribesStep == ASSUME IInv, Describes PROVE IInv'
<1> DEFINE s == [Shown EXCEPT !.number = "other"]
<1>1. InSession /\ SessionOK(Current, Shown, given, edits) /\ edits \in Nat
    BY ShownIsSound DEF IInv, Describes
<1>2. SessionOK(Current, Shown, given, edits + 1)
    BY <1>1, SessionGrows
<1>3. /\ IsSession(s) /\ s.items = Shown.items /\ s.defects = Shown.defects
      /\ s.number = "other"
    BY <1>2 DEF SessionOK, IsSession
<1>4. SessionOK(Current, s, given, edits + 1)
    BY <1>2, <1>3 DEF SessionOK
<1> HIDE DEF s
<1>5. Becomes(s) /\ draft' = draft /\ given' = given
    BY DEF Describes, s
<1> QED BY <1>1, <1>4, <1>5, EditStep

LEMMA SavesDefectStep == ASSUME IInv, SavesDefect PROVE IInv'
<1> DEFINE d == Defect(edits + 1, draft.item, draft.finding)
           s == [Shown EXCEPT !.defects = @ \cup {d}]
<1>1. InSession /\ SessionOK(Current, Shown, given, edits) /\ edits \in Nat
    BY ShownIsSound DEF IInv, SavesDefect, Drafting
<1>2. SessionOK(Current, Shown, given, edits + 1)
    BY <1>1, SessionGrows
<1>3. /\ IsSession(s) /\ s.items = Shown.items /\ s.defects = Shown.defects \cup {d}
      /\ s.number = Shown.number
    BY <1>2 DEF SessionOK, IsSession
<1>4. d.id = edits + 1 /\ d.finding = draft.finding
    BY DEF Defect
<1>5. DefectOK(Current, d, given, edits + 1)
    BY <1>1, <1>4 DEF DefectOK, SavesDefect, Drafting, IInv
<1>6. HasUniqueIds(s.defects)
    <2>1. \A x \in Shown.defects : x.id \in 1..edits
        BY <1>1 DEF SessionOK, DefectOK
    <2> QED BY <1>1, <1>2, <1>3, <1>4, <2>1 DEF SessionOK, HasUniqueIds
<1> HIDE DEF d
<1>7. SessionOK(Current, s, given, edits + 1)
    BY <1>2, <1>3, <1>5, <1>6 DEF SessionOK
<1> HIDE DEF s
<1>8. Becomes(s) /\ draft' = None /\ given' = given
    BY DEF SavesDefect, s, d
<1> QED BY <1>1, <1>7, <1>8, EditStep

\* A step that leaves statements and edits alone, and no session but the current one.
LEMMA PlainStep ==
    ASSUME IInv, UNCHANGED <<imports, committed, edits, given>>, earlier' \in {1, 2},
           \/ sessions' = sessions
           \/ \E s : /\ sessions' = [sessions EXCEPT ![Current] = s]
                     /\ Current \in ToSet(committed)
                     /\ s = None \/ SessionOK(Current, s, given, edits),
           exported' = exported \/ (EvidenceOK(exported', given, edits) /\ exported'.schema = 2),
           \/ draft' \in {draft, None} \/ draft'.finding = None
           \/ <<draft'.binding, <<"finding", draft'.finding>>, "fail">> \in given
    PROVE  IInv'
<1>1. /\ UNCHANGED <<imports, committed>> /\ given' = given /\ edits' = edits
      /\ edits \in Nat /\ sessions = [r \in Report |-> sessions[r]]
    BY DEF IInv
<1>2. sessions' = [r \in Report |-> sessions'[r]]
    <2>1. CASE sessions' = sessions
        BY <1>1, <2>1, Zenon
    <2>2. ASSUME NEW s, sessions' = [sessions EXCEPT ![Current] = s]
          PROVE  sessions' = [r \in Report |-> sessions'[r]]
        <3>1. sessions' = [r \in Report |-> IF r = Current THEN s ELSE sessions[r]]
            BY <1>1, <2>2
        <3> QED BY <3>1
    <2> QED BY <2>1, <2>2
<1>3. \A r \in Report : \/ sessions'[r] \in {sessions[r], None}
                        \/ r \in ToSet(committed) /\ SessionOK(r, sessions'[r], given', edits')
    <2> SUFFICES ASSUME NEW r \in Report, sessions'[r] # sessions[r], sessions'[r] # None
                 PROVE  r \in ToSet(committed) /\ SessionOK(r, sessions'[r], given', edits')
        OBVIOUS
    <2>1. PICK s : /\ sessions' = [sessions EXCEPT ![Current] = s]
                   /\ Current \in ToSet(committed)
                   /\ s = None \/ SessionOK(Current, s, given, edits)
        OBVIOUS
    <2>2. sessions' = [q \in Report |-> IF q = Current THEN s ELSE sessions[q]]
        BY <1>1, <2>1
    <2>3. sessions'[r] = IF r = Current THEN s ELSE sessions[r]
        BY <2>2
    <2>4. r = Current /\ sessions'[r] = s
        BY <2>3
    <2>5. SessionOK(Current, s, given, edits)
        BY <2>1, <2>4
    <2>6. SessionOK(Current, s, given', edits')
        BY <1>1, <2>5
    <2> QED BY <2>1, <2>4, <2>6
<1>4. given \subseteq given' /\ edits' \in Nat /\ edits <= edits'
    BY <1>1
<1>5. exported' = exported \/ (EvidenceOK(exported', given', edits') /\ exported'.schema = 2)
    BY <1>1
<1>6. \/ draft' \in {draft, None} \/ draft'.finding = None
      \/ <<draft'.binding, <<"finding", draft'.finding>>, "fail">> \in given'
    BY <1>1
<1> QED BY <1>1, <1>2, <1>4, <1>5, <1>6, <1>3, PersonStep

LEMMA StartsStep == ASSUME IInv, StartsVerification PROVE IInv'
<1> DEFINE s == NewSession(Current, New)
<1>1. /\ UNCHANGED <<imports, committed, edits, given>> /\ earlier' = earlier
      /\ exported' = exported /\ draft' = None /\ earlier \in {1, 2} /\ edits \in Nat
      /\ sessions' = [sessions EXCEPT ![Current] = s]
    BY DEF StartsVerification, person, IInv
<1>2. Current \in Report /\ Current \in ToSet(committed)
    BY CurrentIsCommitted DEF StartsVerification, Verifies
<1>3. SessionOK(Current, s, given, edits)
    BY <1>1, <1>2, NewIsSound
<1> HIDE DEF s
<1> QED BY <1>1, <1>2, <1>3, PlainStep

LEMMA ClearsStep == ASSUME IInv, Clears PROVE IInv'
<1>1. /\ UNCHANGED <<imports, committed, edits, given>> /\ earlier' = earlier
      /\ exported' = exported /\ draft' = None /\ earlier \in {1, 2}
      /\ sessions' = [sessions EXCEPT ![Current] = None]
    BY DEF Clears, person, IInv
<1>2. Current \in ToSet(committed)
    BY ShownIsSound DEF Clears
<1> QED BY <1>1, <1>2, PlainStep

LEMMA DraftsDefectStep == ASSUME IInv, DraftsDefect PROVE IInv'
<1>1. /\ UNCHANGED <<imports, committed, edits, given>> /\ earlier' = earlier
      /\ exported' = exported /\ sessions' = sessions /\ earlier \in {1, 2} /\ InSession
    BY DEF DraftsDefect, person, IInv
<1>2. \/ draft'.finding = None
      \/ \E x \in WithStatus(Shown, "fail") :
            draft'.binding = Current /\ draft'.finding = x.finding
    BY DEF DraftsDefect
<1>3. ASSUME NEW x \in WithStatus(Shown, "fail"), x.finding # None
      PROVE  <<Current, <<"finding", x.finding>>, "fail">> \in given
    <2>1. x.status = "fail" /\ ItemOK(Current, x, given, edits)
        BY <1>1, ShownIsSound DEF WithStatus, SessionOK
    <2> QED BY <1>3, <2>1 DEF ItemOK
<1>4. \/ draft'.finding = None
      \/ <<draft'.binding, <<"finding", draft'.finding>>, "fail">> \in given
    BY <1>2, <1>3
<1> QED BY <1>1, <1>4, PlainStep

LEMMA CancelsDefectStep == ASSUME IInv, CancelsDefect PROVE IInv'
<1>1. /\ UNCHANGED <<imports, committed, edits, given>> /\ earlier' = earlier
      /\ exported' = exported /\ sessions' = sessions /\ earlier \in {1, 2} /\ draft' = None
    BY DEF CancelsDefect, person, IInv
<1> QED BY <1>1, PlainStep

LEMMA ExportsStep == ASSUME IInv, Exports PROVE IInv'
<1>1. /\ UNCHANGED <<imports, committed, edits, given>> /\ earlier' = earlier
      /\ exported' = Progress(Current, Shown) /\ sessions' = sessions /\ earlier \in {1, 2}
      /\ draft' = draft /\ InSession
    BY DEF Exports, view, IInv
<1>2. /\ exported'.schema = 2 /\ exported'.binding = Current
      /\ exported'.identity = PullRequest(Current) /\ exported'.session = Shown
    BY <1>1 DEF Progress
<1>3. Current \in Report /\ SessionOK(Current, Shown, given, edits)
    BY <1>1, ShownIsSound
<1>4. ValidNumber(exported'.identity)
    BY <1>2 DEF ValidNumber, PullRequest
<1>5. EvidenceOK(exported', given, edits)
    BY <1>2, <1>3, <1>4 DEF EvidenceOK
<1> QED BY <1>1, <1>2, <1>5, PlainStep

LEMMA SwapsStep == ASSUME IInv, Swaps PROVE IInv'
<1>1. /\ UNCHANGED <<imports, committed, edits, given>> /\ exported' = exported
      /\ sessions' = sessions /\ earlier' \in {1, 2} /\ draft' = None
    BY DEF Swaps, person, IInv
<1> QED BY <1>1, PlainStep

LEMMA IInvStep == IInv /\ [Next]_vars => IInv'
<1> SUFFICES ASSUME IInv, [Next]_vars PROVE IInv'
    OBVIOUS
<1>1. CASE \E i \in Import : ImportFiles(i)
    BY <1>1, ImportStep
<1>2. CASE StartsVerification \/ Judges \/ AddsCheck \/ RemovesCheck \/ Describes
    BY <1>2, StartsStep, JudgesStep, AddsCheckStep, RemovesCheckStep, DescribesStep
<1>3. CASE DraftsDefect \/ SavesDefect \/ CancelsDefect \/ Exports \/ Clears \/ Swaps
    BY <1>3, DraftsDefectStep, SavesDefectStep, CancelsDefectStep, ExportsStep, ClearsStep,
       SwapsStep
<1>4. CASE UNCHANGED vars
    BY <1>4, PlainStep DEF vars, IInv
<1> QED BY <1>1, <1>2, <1>3, <1>4 DEF Next

LEMMA Always == Spec => []IInv
<1>1. Init => IInv
    BY InitIsSound
<1>2. IInv /\ [Next]_vars => IInv'
    BY IInvStep
<1> QED BY <1>1, <1>2, PTL DEF Spec

-----------------------------------------------------------------------------
(* What the dashboard guarantees *)

LEMMA SoundIsBound == IInv => PassIsBound
<1> SUFFICES ASSUME IInv, NEW r \in Report, sessions[r] # None
             PROVE  LET session == sessions[r]
                        Given(id, statuses) == \E status \in statuses : <<r, id, status>> \in given
                    IN /\ r \in ToSet(committed)
                       /\ \A item \in session.items :
                             item.status # "untested" => Given(item.id, {item.status})
                       /\ \A defect \in session.defects :
                             defect.finding # None => Given(<<"finding", defect.finding>>, {"fail"})
                       /\ Complete(session) =>
                             /\ Recorded(r, session)
                             /\ \A f \in FindingsOf[r] :
                                   Given(<<"finding", f.identity>>, {"pass", "na"})
    BY DEF PassIsBound
<1> DEFINE session == sessions[r]
<1>1. r \in ToSet(committed) /\ SessionOK(r, session, given, edits)
    BY DEF IInv
<1>2. \A x \in session.items : x.status # "untested" => <<r, x.id, x.status>> \in given
    BY <1>1 DEF SessionOK, ItemOK
<1>3. \A d \in session.defects :
          d.finding # None => <<r, <<"finding", d.finding>>, "fail">> \in given
    BY <1>1 DEF SessionOK, DefectOK
<1>4. ASSUME Complete(session), NEW f \in FindingsOf[r]
      PROVE  /\ \E x \in session.items : x.finding = f.identity /\ x.status # "untested"
             /\ \E status \in {"pass", "na"} : <<r, <<"finding", f.identity>>, status>> \in given
    <2>1. PICK x \in session.items : x.id = <<"finding", f.identity>> /\ x.finding = f.identity
        BY <1>1 DEF SessionOK, Covers
    <2>2. x.status \in {"pass", "na"}
        BY <1>1, <1>4 DEF Complete, WithStatus, SessionOK, ItemOK, ValidItem, Status
    <2> QED BY <1>2, <2>1, <2>2
<1> QED BY <1>1, <1>2, <1>3, <1>4 DEF Recorded

\* Whatever a person selects, judges, swaps, clears, exports and restores, and in whatever
\* order the selections end (app.js importFiles, human-verification.js), a status was
\* recorded for that check of that report, and "no failures recorded" is earned.
THEOREM VerifiedWasGiven == Spec => []PassIsBound
<1> QED BY Always, SoundIsBound, PTL

LEMMA SoundSurvives == IInv => EvidenceSurvives
<1> SUFFICES ASSUME IInv, exported # None, exported.session.number # "other"
             PROVE  Restorable(exported)
    BY DEF EvidenceSurvives
<1> DEFINE r == exported.binding
           s == exported.session
<1>1. /\ exported.schema = 2 /\ r \in Report /\ ValidNumber(exported.identity)
      /\ SessionOK(r, s, given, edits)
    BY DEF IInv, EvidenceOK
<1>2. Accepts(exported)
    BY <1>1 DEF Accepts, SessionOK, ItemOK, ValidNumber
<1>3. ASSUME NEW reports \in Selection, r \in ToSet(reports)
      PROVE  Applied([reports |-> reports, evidence |-> exported])[r] = s
    <2> DEFINE batch == [reports |-> reports, evidence |-> exported]
    <2>1. batch.reports = reports /\ batch.evidence = exported
        OBVIOUS
    <2> HIDE DEF batch
    <2>2. Applied(batch)[r] = Restored(exported)
        BY <1>1, <1>3, <2>1 DEF Applied
    <2> QED BY <1>1, <2>2 DEF Restored, batch
<1> QED BY <1>2, <1>3 DEF Restorable

\* The evidence that was downloaded (createVerificationProgress) is accepted again
\* (validateVerificationProgress) and restores the session as it was with any selection
\* of its report (applyVerificationProgress), whatever the person did before.
THEOREM ExportsRestore == Spec => []EvidenceSurvives
<1> QED BY Always, SoundSurvives, PTL
=============================================================================
