------------------------- MODULE CommandLine_proofs -------------------------
(***************************************************************************)
(* Proofs about the runs of the command line: a scan (Review), init beside  *)
(* other processes and people (InitConfig), and a plugin beside its thread  *)
(* (PluginWorker).  They are for any inputs, processes and messages.        *)
(*                                                                          *)
(* A scan: at every step the report is made from this run's diff and        *)
(* configuration, so what the lists of rules and of suppressions come to,   *)
(* candidate by candidate, is what the report says.  Those lists are worked *)
(* through by functions on 0..n; that such a function exists for every n is *)
(* shown first, and then what it does, from one place to the next.  The     *)
(* verdict is given with every rule that is added, so that it is of the     *)
(* rules listed after the last one too, whatever came before.  The plan is  *)
(* in order because dropping later duplicates keeps the first ones' order.  *)
(* Two scans are compared part by part: more changes and stricter settings  *)
(* only make sums, limits and matches larger, and a cap that comes off the  *)
(* one came off the other, so that no rule added turns their order.         *)
(*                                                                          *)
(* Init: what a process published was synced before and never written again, *)
(* and what stays under its temporary name has a reason.                    *)
(*                                                                          *)
(* A plugin: the caller settles with the first message it hears, so as long *)
(* as it has not settled nothing that was posted has left the mail.         *)
(***************************************************************************)
EXTENDS Review, InitConfig, PluginWorker, FiniteSetTheorems, SequenceTheorems, TLAPS

-----------------------------------------------------------------------------
(* The contract of a run *)

\* A run has no exit before its end and writes its report once.
RunsOnce ==
    /\ stage # "ended" => exit = None
    /\ stage \in {"input", "config", "analyze", "policy", "write"} => file = "none"
    /\ stage \in {"summary", "print"} => file = "whole"

LEMMA RunsOnceHolds == Spec => []RunsOnce
<1>1. Init => RunsOnce BY DEF Init, RunsOnce
<1>2. RunsOnce /\ [Next]_vars => RunsOnce'
  BY DEF RunsOnce, Next, vars, ReadInput, ResolveConfig, Analyze, ApplyPolicy, WriteReportJson,
         WriteStepSummary, Finish, Fail, written
<1> QED BY <1>1, <1>2, PTL DEF Spec

\* A run writes its report at most once, ends with 0 or 1, and with 0 only if the report
\* is there, whichever step fails (main, writeReportJson, writeGitHubStepSummary).
THEOREM KeepsContract == Spec => ImplementsContract
<1> USE DEF RunsOnce
<1>1. Init => Contract!Init BY DEF Init, Contract!Init
<1>2. RunsOnce /\ [Next]_vars => [Contract!Write \/ Contract!Finish]_<<exit, file = "whole">>
  <2> SUFFICES ASSUME RunsOnce, [Next]_vars
               PROVE  Contract!Write \/ Contract!Finish \/ UNCHANGED <<exit, file = "whole">>
    OBVIOUS
  <2>0. ASSUME stage # "ended", exit' = 1 \/ (exit' = 0 /\ file = "whole"),
               (file = "whole")' = (file = "whole")
        PROVE  Contract!Finish
    <3> DEFINE o == [exit |-> exit', wrote |-> file = "whole"]
               Possible == {p \in Contract!Outcomes : p.wrote = ((file = "whole") # FALSE)}
    <3>1. o \in Possible
      <4>1. CASE file # "whole"
        <5>1. o = [exit |-> 1, wrote |-> FALSE] BY <2>0, <4>1
        <5>2. ((file = "whole") # FALSE) = FALSE BY <4>1
        <5> QED BY <5>1, <5>2 DEF Contract!Outcomes
      <4>2. CASE file = "whole"
        <5>1. o = [exit |-> exit', wrote |-> TRUE] BY <4>2
        <5>2. ((file = "whole") # FALSE) = TRUE BY <4>2
        <5> QED BY <2>0, <5>1, <5>2 DEF Contract!Outcomes
      <4> QED BY <4>1, <4>2
    <3>2. o.exit = exit' OBVIOUS
    <3> HIDE DEF o
    <3>3. exit' \in {p.exit : p \in Possible} BY <3>1, <3>2
    <3> QED BY <2>0, <3>3 DEF Contract!Finish
  <2>1. ASSUME stage # "ended", Fail, UNCHANGED file PROVE Contract!Finish
    BY <2>0, <2>1 DEF Fail
  <2>2. CASE ReadInput BY <2>1, <2>2 DEF ReadInput, written
  <2>3. CASE ResolveConfig BY <2>1, <2>3 DEF ResolveConfig, written
  <2>4. CASE Analyze BY <2>4 DEF Analyze, written
  <2>5. CASE ApplyPolicy BY <2>1, <2>5 DEF ApplyPolicy, written
  <2>6. CASE WriteReportJson
    <3>1. stage = "write" /\ exit = None /\ file = "none" BY <2>6 DEF WriteReportJson
    <3>2. CASE Fail /\ file' \in {"none", "part"} BY <2>0, <3>1, <3>2 DEF Fail
    <3>3. CASE file' = "whole" /\ UNCHANGED exit BY <3>1, <3>3 DEF Contract!Write
    <3> QED BY <2>6, <3>2, <3>3 DEF WriteReportJson
  <2>7. CASE WriteStepSummary BY <2>1, <2>7 DEF WriteStepSummary
  <2>8. CASE Finish BY <2>0, <2>8 DEF Finish
  <2>9. CASE UNCHANGED vars BY <2>9 DEF vars
  <2> QED BY <2>2, <2>3, <2>4, <2>5, <2>6, <2>7, <2>8, <2>9 DEF Next
<1> QED BY RunsOnceHolds, <1>1, <1>2, PTL DEF Spec, ImplementsContract, Contract!Spec

-----------------------------------------------------------------------------
(* Lists that are worked through *)

\* What holds of 0 and passes from one number to the next holds of every one.
LEMMA Induct ==
    ASSUME NEW S, 0 \in S, \A n \in Nat : n \in S => n + 1 \in S
    PROVE  Nat \subseteq S
<1> SUFFICES ASSUME NEW k \in Nat, k \notin S PROVE FALSE
  OBVIOUS
<1> DEFINE Gaps == {U \in SUBSET Nat : \E m \in Nat \ S : U = 0 .. m}
<1>1. Gaps \subseteq FiniteSubsetsOf(Nat) BY FS_Interval DEF FiniteSubsetsOf
<1>2. 0 .. k \in Gaps OBVIOUS
<1>3. PICK U \in Gaps : \A V \in Gaps : ~(<<V, U>> \in StrictSubsetOrdering(Nat))
  <2> HIDE DEF Gaps
  <2> QED BY <1>1, <1>2, FS_StrictSubsetOrderingWellFounded, WFMin
<1>4. PICK m \in Nat \ S : U = 0 .. m BY <1>3
<1>5. m - 1 \in Nat \ S BY <1>4
<1>6. 0 .. m - 1 \in Gaps BY <1>5
<1>7. <<0 .. m - 1, U>> \in StrictSubsetOrdering(Nat)
  <2>1. 0 .. m - 1 \subseteq U /\ m \in U /\ m \notin 0 .. m - 1 BY <1>4, <1>5
  <2>2. 0 .. m - 1 \in SUBSET Nat /\ U \in SUBSET Nat BY <1>4
  <2> QED BY <2>1, <2>2 DEF StrictSubsetOrdering
<1> QED BY <1>3, <1>6, <1>7

\* What holds at no depth yet and passes down holds all the way.
LEMMA GoDown ==
    ASSUME NEW k \in Nat, NEW S, 0 \in S, \A n \in 1 .. k : n - 1 \in S => n \in S
    PROVE  0 .. k \subseteq S
<1> DEFINE N == {n \in Nat : n <= k => n \in S}
<1>1. 0 \in N OBVIOUS
<1>2. ASSUME NEW n \in Nat, n \in N PROVE n + 1 \in N
  <2>1. n + 1 <= k => n + 1 \in 1 .. k /\ (n + 1) - 1 = n OBVIOUS
  <2> QED BY <1>2, <2>1
<1>3. Nat \subseteq N
  <2> HIDE DEF N
  <2> QED BY <1>1, <1>2, Induct
<1> QED BY <1>3

\* A list of its own elements.
LEMMA IsList ==
    ASSUME NEW S, NEW s \in Seq(S)
    PROVE  IsSeq(s)
<1>1. DOMAIN s = 1 .. Len(s) /\ Len(s) \in Nat /\ s = [i \in 1 .. Len(s) |-> s[i]] OBVIOUS
<1>2. \A i \in 1 .. Len(s) : s[i] \in ToSet(s) BY <1>1 DEF ToSet
<1> QED BY <1>1, <1>2 DEF IsSeq

LEMMA BothAreLists ==
    ASSUME NEW s, NEW t, IsSeq(s), IsSeq(t)
    PROVE  IsSeq(s \o t)
<1> DEFINE X == ToSet(s)  Y == ToSet(t)
<1>1. s \in Seq(X) /\ t \in Seq(Y) BY DEF IsSeq
<1> HIDE DEF X, Y
<1>2. s \in Seq(X \cup Y) /\ t \in Seq(X \cup Y) BY <1>1
<1>3. s \o t \in Seq(X \cup Y) BY <1>2
<1> QED BY <1>3, IsList

LEMMA OneIsAList ==
    ASSUME NEW x
    PROVE  IsSeq(<<x>>) /\ IsSeq(<<>>)
<1>1. <<x>> \in Seq({x}) /\ <<>> \in Seq({x}) OBVIOUS
<1> QED BY <1>1, IsList

LEMMA OneMoreIsAList ==
    ASSUME NEW s, IsSeq(s), NEW x
    PROVE  IsSeq(Append(s, x))
<1> DEFINE X == ToSet(s)
<1>1. s \in Seq(X) BY DEF IsSeq
<1> HIDE DEF X
<1>2. Append(s, x) \in Seq(X \cup {x}) BY <1>1
<1> QED BY <1>2, IsList

LEMMA AppendToSet ==
    ASSUME NEW S, NEW s \in Seq(S), NEW x
    PROVE  ToSet(Append(s, x)) = ToSet(s) \cup {x}
<1>1. /\ DOMAIN s = 1 .. Len(s) /\ Len(s) \in Nat
      /\ DOMAIN Append(s, x) = 1 .. Len(s) + 1
      /\ \A i \in 1 .. Len(s) : Append(s, x)[i] = s[i]
      /\ Append(s, x)[Len(s) + 1] = x
  <2>1. s \in Seq(S \cup {x}) OBVIOUS
  <2> QED BY <2>1
<1>2. \A i \in DOMAIN Append(s, x) : i \in DOMAIN s \/ i = Len(s) + 1 BY <1>1
<1>3. DOMAIN s \subseteq DOMAIN Append(s, x) /\ Len(s) + 1 \in DOMAIN Append(s, x) BY <1>1
<1> QED BY <1>1, <1>2, <1>3 DEF ToSet

\* The sum of the first n numbers.
SumAt(numbers, sum, n) == IF n = 0 THEN 0 ELSE sum[n - 1] + numbers[n]

LEMMA SumsAreGiven ==
    ASSUME NEW numbers, Len(numbers) \in Nat
    PROVE  \E sum : /\ \A n \in 0 .. Len(numbers) : sum[n] = SumAt(numbers, sum, n)
                   /\ Total(numbers) = sum[Len(numbers)]
<1> DEFINE Is(at, k) == at = [n \in 0 .. k |-> SumAt(numbers, at, n)]
           S == {k \in Nat : \E at : Is(at, k)}
<1>1. Nat \subseteq S
  <2>1. 0 \in S
    <3> DEFINE d == [n \in 0 .. 0 |-> 0]
    <3>1. Is(d, 0) BY DEF SumAt
    <3> QED BY <3>1
  <2>2. ASSUME NEW k \in Nat, k \in S PROVE k + 1 \in S
    <3> PICK at : Is(at, k) BY <2>2
    <3> DEFINE more == [n \in 0 .. k + 1 |-> SumAt(numbers, at, n)]
    <3>1. \A n \in 0 .. k : more[n] = at[n] OBVIOUS
    <3>2. \A n \in 0 .. k + 1 : n = 0 \/ n - 1 \in 0 .. k OBVIOUS
    <3>3. \A n \in 0 .. k + 1 : SumAt(numbers, at, n) = SumAt(numbers, more, n)
      BY <3>1, <3>2 DEF SumAt
    <3>4. Is(more, k + 1) BY <3>3
    <3> HIDE DEF more, Is
    <3>5. \E d : Is(d, k + 1) BY <3>4
    <3> QED BY <3>5
  <2> HIDE DEF S
  <2> QED BY <2>1, <2>2, Induct
<1> DEFINE at == CHOOSE at : Is(at, Len(numbers))
<1>2. Total(numbers) = at[Len(numbers)] BY DEF Total, SumAt
<1>3. Is(at, Len(numbers))
  <2>1. \E d : Is(d, Len(numbers)) BY <1>1
  <2> HIDE DEF Is
  <2> QED BY <2>1
<1> HIDE DEF at
<1>4. \A n \in 0 .. Len(numbers) : at[n] = SumAt(numbers, at, n) BY <1>3
<1> HIDE DEF Is
<1> QED BY <1>2, <1>4

\* A sum of two lists is that of both.
LEMMA TotalOfBoth ==
    ASSUME NEW s \in Seq(Int), NEW t \in Seq(Int)
    PROVE  Total(s) \in Int /\ Total(t) \in Int /\ Total(s \o t) = Total(s) + Total(t)
<1> DEFINE k == Len(s)  m == Len(t)  u == s \o t
<1>1. /\ k \in Nat /\ m \in Nat /\ Len(u) = k + m
      /\ \A n \in 1 .. k : u[n] = s[n] /\ s[n] \in Int
      /\ \A n \in 1 .. m : u[k + n] = t[n] /\ t[n] \in Int
  OBVIOUS
<1>2. PICK a : (\A n \in 0 .. k : a[n] = SumAt(s, a, n)) /\ Total(s) = a[k]
  BY <1>1, SumsAreGiven
<1>3. PICK b : (\A n \in 0 .. m : b[n] = SumAt(t, b, n)) /\ Total(t) = b[m]
  BY <1>1, SumsAreGiven
<1>4. PICK c : (\A n \in 0 .. k + m : c[n] = SumAt(u, c, n)) /\ Total(u) = c[k + m]
  <2>1. Len(u) \in Nat BY <1>1
  <2> QED BY <1>1, <2>1, SumsAreGiven
<1> HIDE DEF k, m, u
<1> DEFINE First == {n \in 0 .. k : a[n] \in Int /\ c[n] = a[n]}
           Second == {n \in 0 .. m : b[n] \in Int /\ c[k + n] = a[k] + b[n]}
<1>5. 0 .. k \subseteq First
  <2>1. 0 \in First BY <1>1, <1>2, <1>4 DEF SumAt
  <2>2. ASSUME NEW n \in 1 .. k, n - 1 \in First PROVE n \in First
    <3>1. n \in 0 .. k /\ n \in 0 .. k + m /\ n # 0 BY <1>1
    <3>2. a[n] = a[n - 1] + s[n] BY <1>2, <3>1 DEF SumAt
    <3>3. c[n] = c[n - 1] + u[n] BY <1>4, <3>1 DEF SumAt
    <3> QED BY <1>1, <2>2, <3>1, <3>2, <3>3
  <2> HIDE DEF First
  <2> QED BY <1>1, <2>1, <2>2, GoDown
<1>6. a[k] \in Int /\ c[k] = a[k] BY <1>1, <1>5
<1>7. 0 .. m \subseteq Second
  <2>1. 0 \in Second BY <1>1, <1>3, <1>6 DEF SumAt
  <2>2. ASSUME NEW n \in 1 .. m, n - 1 \in Second PROVE n \in Second
    <3>1. n \in 0 .. m /\ n # 0 /\ k + n \in 0 .. k + m /\ k + n # 0 /\ (k + n) - 1 = k + (n - 1)
      BY <1>1
    <3>2. b[n] = b[n - 1] + t[n] BY <1>3, <3>1 DEF SumAt
    <3>3. c[k + n] = c[k + (n - 1)] + u[k + n] BY <1>4, <3>1 DEF SumAt
    <3>4. b[n - 1] \in Int /\ c[k + (n - 1)] = a[k] + b[n - 1] BY <2>2
    <3> QED BY <1>1, <1>6, <3>1, <3>2, <3>3, <3>4
  <2> HIDE DEF Second
  <2> QED BY <1>1, <2>1, <2>2, GoDown
<1>8. b[m] \in Int /\ c[k + m] = a[k] + b[m] BY <1>1, <1>7
<1> QED BY <1>2, <1>3, <1>4, <1>6, <1>8 DEF u

LEMMA TotalOfOne ==
    ASSUME NEW x \in Int
    PROVE  Total(<<x>>) = x /\ Total(<<>>) = 0
<1>1. PICK a : (\A n \in 0 .. Len(<<x>>) : a[n] = SumAt(<<x>>, a, n)) /\ Total(<<x>>) = a[Len(<<x>>)]
  BY SumsAreGiven
<1>2. PICK b : (\A n \in 0 .. Len(<<>>) : b[n] = SumAt(<<>>, b, n)) /\ Total(<<>>) = b[Len(<<>>)]
  BY SumsAreGiven
<1>3. a[0] = 0 /\ a[1] = a[0] + x /\ Total(<<x>>) = a[1] BY <1>1 DEF SumAt
<1>4. b[0] = 0 /\ Total(<<>>) = b[0] BY <1>2 DEF SumAt
<1> QED BY <1>3, <1>4

LEMMA TotalOfZeros ==
    ASSUME NEW s, Len(s) \in Nat, \A n \in 1 .. Len(s) : s[n] = 0
    PROVE  Total(s) = 0
<1>1. PICK a : (\A n \in 0 .. Len(s) : a[n] = SumAt(s, a, n)) /\ Total(s) = a[Len(s)]
  BY SumsAreGiven
<1> DEFINE Z == {n \in 0 .. Len(s) : a[n] = 0}
<1>2. 0 \in Z BY <1>1 DEF SumAt
<1>3. ASSUME NEW n \in 1 .. Len(s), n - 1 \in Z PROVE n \in Z
  <2>1. n \in 0 .. Len(s) /\ n # 0 OBVIOUS
  <2>2. a[n] = a[n - 1] + s[n] BY <1>1, <2>1 DEF SumAt
  <2> QED BY <1>3, <2>1, <2>2
<1>4. 0 .. Len(s) \subseteq Z
  <2> HIDE DEF Z
  <2> QED BY <1>2, <1>3, GoDown
<1> QED BY <1>1, <1>4

\* What of a list has been kept.
KeptAt(s, kept, n) == IF n = 0 THEN <<>> ELSE WithNew(kept[n - 1], s[n])

LEMMA KeptIsGiven ==
    ASSUME NEW s, Len(s) \in Nat
    PROVE  \E kept : /\ \A n \in 0 .. Len(s) : kept[n] = KeptAt(s, kept, n)
                    /\ Uniq(s) = kept[Len(s)]
<1> DEFINE Is(at, k) == at = [n \in 0 .. k |-> KeptAt(s, at, n)]
           S == {k \in Nat : \E at : Is(at, k)}
<1>1. Nat \subseteq S
  <2>1. 0 \in S
    <3> DEFINE d == [n \in 0 .. 0 |-> <<>>]
    <3>1. Is(d, 0) BY DEF KeptAt
    <3> QED BY <3>1
  <2>2. ASSUME NEW k \in Nat, k \in S PROVE k + 1 \in S
    <3> PICK at : Is(at, k) BY <2>2
    <3> DEFINE more == [n \in 0 .. k + 1 |-> KeptAt(s, at, n)]
    <3>1. \A n \in 0 .. k : more[n] = at[n] OBVIOUS
    <3>2. \A n \in 0 .. k + 1 : n = 0 \/ n - 1 \in 0 .. k OBVIOUS
    <3>3. \A n \in 0 .. k + 1 : KeptAt(s, at, n) = KeptAt(s, more, n)
      BY <3>1, <3>2 DEF KeptAt
    <3>4. Is(more, k + 1) BY <3>3
    <3> HIDE DEF more, Is
    <3>5. \E d : Is(d, k + 1) BY <3>4
    <3> QED BY <3>5
  <2> HIDE DEF S
  <2> QED BY <2>1, <2>2, Induct
<1> DEFINE at == CHOOSE at : Is(at, Len(s))
<1>2. Uniq(s) = at[Len(s)] BY DEF Uniq, KeptAt
<1>3. Is(at, Len(s))
  <2>1. \E d : Is(d, Len(s)) BY <1>1
  <2> HIDE DEF Is
  <2> QED BY <2>1
<1> HIDE DEF at
<1>4. \A n \in 0 .. Len(s) : at[n] = KeptAt(s, at, n) BY <1>3
<1> HIDE DEF Is
<1> QED BY <1>2, <1>4

\* [...new Set(values)] has each value, once.
LEMMA UniqIsExact ==
    ASSUME NEW s, IsSeq(s)
    PROVE  Uniq(s) \in Seq(ToSet(s)) /\ ToSet(Uniq(s)) = ToSet(s) /\ IsInjective(Uniq(s))
<1>1. Len(s) \in Nat /\ DOMAIN s = 1 .. Len(s) BY DEF IsSeq
<1>2. PICK kept : (\A n \in 0 .. Len(s) : kept[n] = KeptAt(s, kept, n)) /\ Uniq(s) = kept[Len(s)]
  BY <1>1, KeptIsGiven
<1> DEFINE Holds(n) == /\ kept[n] \in Seq(ToSet(s))
                       /\ ToSet(kept[n]) = {s[i] : i \in 1 .. n}
                       /\ IsInjective(kept[n])
           S == {n \in 0 .. Len(s) : Holds(n)}
<1>3. 0 \in S
  <2>1. kept[0] = <<>> BY <1>1, <1>2 DEF KeptAt
  <2>2. DOMAIN kept[0] = {} /\ kept[0] \in Seq(ToSet(s)) /\ 1 .. 0 = {} BY <2>1
  <2>3. ToSet(kept[0]) = {} /\ {s[i] : i \in 1 .. 0} = {} BY <2>2 DEF ToSet
  <2>4. IsInjective(kept[0]) BY <2>2 DEF IsInjective
  <2> QED BY <1>1, <2>2, <2>3, <2>4
<1>4. ASSUME NEW n \in 1 .. Len(s), n - 1 \in S PROVE n \in S
  <2> DEFINE was == kept[n - 1]
  <2>1. n \in 0 .. Len(s) /\ n # 0 /\ \A i \in 1 .. n : i \in 1 .. n - 1 \/ i = n BY <1>1
  <2>2. kept[n] = WithNew(was, s[n]) BY <1>2, <2>1 DEF KeptAt
  <2>3. was \in Seq(ToSet(s)) /\ ToSet(was) = {s[i] : i \in 1 .. n - 1} /\ IsInjective(was) BY <1>4
  <2>4. {s[i] : i \in 1 .. n} = ToSet(was) \cup {s[n]} BY <2>1, <2>3
  <2>5. s[n] \in ToSet(s) BY <1>1 DEF ToSet
  <2> HIDE DEF was
  <2>6. DOMAIN was = 1 .. Len(was) /\ Len(was) \in Nat BY <2>3
  <2>7. CASE Contains(was, s[n])
    <3>1. kept[n] = was BY <2>2, <2>7 DEF WithNew
    <3>2. s[n] \in ToSet(was) BY <2>6, <2>7 DEF Contains, ToSet
    <3> QED BY <2>1, <2>3, <2>4, <3>1, <3>2
  <2>8. CASE ~Contains(was, s[n])
    <3> DEFINE now == Append(was, s[n])
    <3>1. kept[n] = now BY <2>2, <2>8 DEF WithNew
    <3>2. now \in Seq(ToSet(s)) BY <2>3, <2>5
    <3>3. ToSet(now) = ToSet(was) \cup {s[n]} BY <2>3, AppendToSet
    <3>4. /\ DOMAIN now = 1 .. Len(was) + 1 /\ now[Len(was) + 1] = s[n]
          /\ \A i \in 1 .. Len(was) : now[i] = was[i] /\ now[i] # s[n]
      BY <2>3, <2>5, <2>8 DEF Contains
    <3>5. \A i \in DOMAIN now : i \in 1 .. Len(was) \/ i = Len(was) + 1 BY <2>6, <3>4
    <3> HIDE DEF now
    <3>6. IsInjective(now) BY <2>3, <2>6, <3>4, <3>5 DEF IsInjective
    <3> QED BY <2>1, <2>4, <3>1, <3>2, <3>3, <3>6
  <2> QED BY <2>7, <2>8
<1>5. Len(s) \in S
  <2> DEFINE k == Len(s)
  <2>1. k \in Nat /\ \A n \in 1 .. k : n - 1 \in S => n \in S BY <1>1, <1>4
  <2> HIDE DEF S, k
  <2>2. 0 .. k \subseteq S BY <1>3, <2>1, GoDown
  <2> QED BY <2>1, <2>2 DEF k
<1> QED BY <1>1, <1>2, <1>5 DEF ToSet

\* A finite set in the order of a relation that is one.
LEMMA OrderIsExact ==
    ASSUME NEW S, IsFiniteSet(S), NEW R,
           \A x \in S : <<x, x>> \notin R,
           \A x, y, z \in S : <<x, y>> \in R /\ <<y, z>> \in R => <<x, z>> \in R,
           \A x, y \in S : x # y => <<x, y>> \in R \/ <<y, x>> \in R
    PROVE  LET s == InOrder(S, R)
           IN /\ s \in Seq(S) /\ Len(s) = Cardinality(S) /\ ToSet(s) = S
              /\ \A i, j \in 1 .. Cardinality(S) : i < j => <<s[i], s[j]>> \in R
<1> DEFINE k == Cardinality(S)
           Behind(x) == {y \in S : <<y, x>> \in R}
           place == [x \in S |-> Cardinality(Behind(x)) + 1]
           s == InOrder(S, R)
<1>1. k \in Nat BY FS_CardinalityType
<1>2. ASSUME NEW x \in S
      PROVE  IsFiniteSet(Behind(x)) /\ Cardinality(Behind(x)) \in Nat /\ place[x] \in 1 .. k
  <2>1. IsFiniteSet(Behind(x)) BY FS_Subset
  <2>2. Cardinality(Behind(x)) \in Nat BY <2>1, FS_CardinalityType
  <2>3. Behind(x) # S OBVIOUS
  <2>4. Cardinality(Behind(x)) <= k /\ Cardinality(Behind(x)) # k
    <3> HIDE DEF k
    <3>1. Behind(x) \in SUBSET S OBVIOUS
    <3> HIDE DEF Behind
    <3> QED BY <2>3, <3>1, FS_Subset DEF k
  <2> HIDE DEF Behind, k
  <2> QED BY <1>1, <2>1, <2>2, <2>4
<1>3. ASSUME NEW x \in S, NEW y \in S, <<x, y>> \in R
      PROVE  place[x] < place[y]
  <2>1. Behind(x) \in SUBSET Behind(y) BY <1>3
  <2>2. x \in Behind(y) /\ x \notin Behind(x) BY <1>3
  <2>3. place[x] = Cardinality(Behind(x)) + 1 /\ place[y] = Cardinality(Behind(y)) + 1 OBVIOUS
  <2> HIDE DEF Behind, place
  <2>4. /\ Cardinality(Behind(x)) <= Cardinality(Behind(y))
        /\ Cardinality(Behind(x)) # Cardinality(Behind(y))
    BY <1>2, <2>1, <2>2, FS_Subset
  <2> QED BY <1>2, <2>3, <2>4
<1> HIDE DEF Behind
<1>4. place \in [S -> 1 .. k] BY <1>2
<1>5. \A x, y \in S : place[x] = place[y] => x = y
  <2> HIDE DEF place
  <2> SUFFICES ASSUME NEW x \in S, NEW y \in S, x # y, place[x] = place[y] PROVE FALSE
    OBVIOUS
  <2>1. place[x] \in Int /\ place[y] \in Int BY <1>4
  <2>2. <<x, y>> \notin R BY <1>3, <2>1
  <2>3. <<y, x>> \notin R BY <1>3, <2>1
  <2> QED BY <2>2, <2>3
<1>6. \A n \in 1 .. k : \E x \in S : place[x] = n
  <2> HIDE DEF place
  <2>1. IsFiniteSet(1 .. k) /\ Cardinality(1 .. k) = k BY <1>1, FS_Interval
  <2>2. SUFFICES ASSUME NEW n \in 1 .. k, \A x \in S : place[x] # n PROVE FALSE
    OBVIOUS
  <2>3. /\ IsFiniteSet((1 .. k) \ {n}) /\ Cardinality((1 .. k) \ {n}) = k - 1
    BY <2>1, FS_RemoveElement
  <2>4. place \in [S -> (1 .. k) \ {n}]
    <3>1. \A x \in S : place[x] \in (1 .. k) \ {n} BY <1>4, <2>2
    <3>2. place = [x \in S |-> place[x]] BY <1>4
    <3> QED BY <3>1, <3>2
  <2>5. Cardinality((1 .. k) \ {n}) < Cardinality(S) BY <1>1, <2>3 DEF k
  <2>6. \E x, y \in S : x # y /\ place[x] = place[y]
    <3> DEFINE T == (1 .. k) \ {n}
    <3>1. IsFiniteSet(T) /\ Cardinality(T) < Cardinality(S) /\ place \in [S -> T] BY <2>3, <2>4, <2>5
    <3> HIDE DEF T
    <3> QED BY <3>1, FS_PigeonHole
  <2> QED BY <1>5, <2>6
<1> DEFINE At(n) == CHOOSE x \in S : Cardinality({y \in S : <<y, x>> \in R}) + 1 = n
<1>7. s = [n \in 1 .. k |-> At(n)] BY DEF InOrder
<1>8. \A n \in 1 .. k : s[n] \in S /\ place[s[n]] = n
  <2> SUFFICES ASSUME NEW n \in 1 .. k PROVE At(n) \in S /\ place[At(n)] = n
    <3> HIDE DEF At, s
    <3> QED BY <1>7
  <2>1. \A x \in S : place[x] = Cardinality({y \in S : <<y, x>> \in R}) + 1 BY DEF Behind
  <2> HIDE DEF place
  <2>2. \E x \in S : Cardinality({y \in S : <<y, x>> \in R}) + 1 = n BY <1>6, <2>1
  <2>3. At(n) \in S /\ Cardinality({y \in S : <<y, At(n)>> \in R}) + 1 = n BY <2>2
  <2> HIDE DEF At
  <2> QED BY <2>1, <2>3
<1> HIDE DEF place, At
<1>9. s \in Seq(S) /\ Len(s) = k /\ DOMAIN s = 1 .. k
  <2>1. s \in [1 .. k -> S]
    <3> HIDE DEF s
    <3> QED BY <1>7, <1>8
  <2> QED BY <1>1, <2>1
<1>10. \A x \in S : s[place[x]] = x BY <1>4, <1>5, <1>8
<1> HIDE DEF s, k
<1>11. ToSet(s) = S BY <1>4, <1>8, <1>9, <1>10 DEF ToSet
<1>12. ASSUME NEW i \in 1 .. k, NEW j \in 1 .. k, i < j PROVE <<s[i], s[j]>> \in R
  <2>1. s[i] # s[j] BY <1>8, <1>12
  <2>2. ~(<<s[j], s[i]>> \in R)
    <3> SUFFICES ASSUME <<s[j], s[i]>> \in R PROVE FALSE
      OBVIOUS
    <3>1. place[s[j]] < place[s[i]] BY <1>3, <1>8
    <3> QED BY <1>8, <1>12, <3>1
  <2> QED BY <1>8, <2>1, <2>2
<1> QED BY <1>9, <1>11, <1>12 DEF s, k

\* The candidates looked at so far are given by those before.
CustomAt(candidates, at, n) ==
    IF n = 0 THEN [seen |-> {}, rules |-> <<>>, warnings |-> {}]
    ELSE NormalizeRule(at[n - 1], n, candidates[n])

LEMMA CandidatesAreGiven ==
    ASSUME NEW candidates, Len(candidates) \in Nat
    PROVE  \E at : /\ \A n \in 0 .. Len(candidates) : at[n] = CustomAt(candidates, at, n)
                  /\ NormalizeCustomRules(candidates) = at[Len(candidates)]
<1> DEFINE Is(at, k) == at = [n \in 0 .. k |-> CustomAt(candidates, at, n)]
           S == {k \in Nat : \E at : Is(at, k)}
<1>1. Nat \subseteq S
  <2>1. 0 \in S
    <3> DEFINE d == [n \in 0 .. 0 |-> [seen |-> {}, rules |-> <<>>, warnings |-> {}]]
    <3>1. Is(d, 0) BY DEF CustomAt
    <3> QED BY <3>1
  <2>2. ASSUME NEW k \in Nat, k \in S PROVE k + 1 \in S
    <3> PICK at : Is(at, k) BY <2>2
    <3> DEFINE more == [n \in 0 .. k + 1 |-> CustomAt(candidates, at, n)]
    <3>1. \A n \in 0 .. k : more[n] = at[n] OBVIOUS
    <3>2. \A n \in 0 .. k + 1 : n = 0 \/ n - 1 \in 0 .. k OBVIOUS
    <3>3. \A n \in 0 .. k + 1 : CustomAt(candidates, at, n) = CustomAt(candidates, more, n)
      BY <3>1, <3>2 DEF CustomAt
    <3>4. Is(more, k + 1) BY <3>3
    <3> HIDE DEF more, Is
    <3>5. \E d : Is(d, k + 1) BY <3>4
    <3> QED BY <3>5
  <2> HIDE DEF S
  <2> QED BY <2>1, <2>2, Induct
<1> DEFINE at == CHOOSE at : Is(at, Len(candidates))
<1>2. NormalizeCustomRules(candidates) = at[Len(candidates)] BY DEF NormalizeCustomRules, CustomAt
<1>3. Is(at, Len(candidates))
  <2>1. \E d : Is(d, Len(candidates)) BY <1>1
  <2> HIDE DEF Is
  <2> QED BY <2>1
<1> HIDE DEF at
<1>4. \A n \in 0 .. Len(candidates) : at[n] = CustomAt(candidates, at, n) BY <1>3
<1> HIDE DEF Is
<1> QED BY <1>2, <1>4

\* The entries looked at so far.
EntryAt(entries, at, n) ==
    IF n = 0 THEN [seen |-> {}, kept |-> {}, warnings |-> {}]
    ELSE NormalizeEntry(at[n - 1], n, entries[n])

LEMMA EntriesAreGiven ==
    ASSUME NEW entries, Len(entries) \in Nat
    PROVE  \E at : /\ \A n \in 0 .. Len(entries) : at[n] = EntryAt(entries, at, n)
                  /\ NormalizeSuppressions(entries) = at[Len(entries)]
<1> DEFINE Is(at, k) == at = [n \in 0 .. k |-> EntryAt(entries, at, n)]
           S == {k \in Nat : \E at : Is(at, k)}
<1>1. Nat \subseteq S
  <2>1. 0 \in S
    <3> DEFINE d == [n \in 0 .. 0 |-> [seen |-> {}, kept |-> {}, warnings |-> {}]]
    <3>1. Is(d, 0) BY DEF EntryAt
    <3> QED BY <3>1
  <2>2. ASSUME NEW k \in Nat, k \in S PROVE k + 1 \in S
    <3> PICK at : Is(at, k) BY <2>2
    <3> DEFINE more == [n \in 0 .. k + 1 |-> EntryAt(entries, at, n)]
    <3>1. \A n \in 0 .. k : more[n] = at[n] OBVIOUS
    <3>2. \A n \in 0 .. k + 1 : n = 0 \/ n - 1 \in 0 .. k OBVIOUS
    <3>3. \A n \in 0 .. k + 1 : EntryAt(entries, at, n) = EntryAt(entries, more, n)
      BY <3>1, <3>2 DEF EntryAt
    <3>4. Is(more, k + 1) BY <3>3
    <3> HIDE DEF more, Is
    <3>5. \E d : Is(d, k + 1) BY <3>4
    <3> QED BY <3>5
  <2> HIDE DEF S
  <2> QED BY <2>1, <2>2, Induct
<1> DEFINE at == CHOOSE at : Is(at, Len(entries))
<1>2. NormalizeSuppressions(entries) = at[Len(entries)] BY DEF NormalizeSuppressions, EntryAt
<1>3. Is(at, Len(entries))
  <2>1. \E d : Is(d, Len(entries)) BY <1>1
  <2> HIDE DEF Is
  <2> QED BY <2>1
<1> HIDE DEF at
<1>4. \A n \in 0 .. Len(entries) : at[n] = EntryAt(entries, at, n) BY <1>3
<1> HIDE DEF Is
<1> QED BY <1>2, <1>4

\* The report with the rules applied so far.
AppliedAt(before, changes, rules, prefix, at, n) ==
    IF n = 0 THEN before ELSE ApplyRule(at[n - 1], rules[n], changes, prefix)

LEMMA ApplicationsAreGiven ==
    ASSUME NEW before, NEW d, NEW candidates, NEW prefix,
           NEW rules, rules = NormalizeCustomRules(candidates).rules, Len(rules) \in Nat,
           NEW changes, changes = ParseFileChanges(d)
    PROVE  \E at : /\ \A n \in 0 .. Len(rules) : at[n] = AppliedAt(before, changes, rules, prefix, at, n)
                  /\ ApplyCustomRules(before, d, candidates, prefix) = Reconsidered(at[Len(rules)])
<1> DEFINE Is(at, k) == at = [n \in 0 .. k |-> AppliedAt(before, changes, rules, prefix, at, n)]
           S == {k \in Nat : \E at : Is(at, k)}
<1>1. Nat \subseteq S
  <2>1. 0 \in S
    <3> DEFINE f == [n \in 0 .. 0 |-> before]
    <3>1. Is(f, 0) BY DEF AppliedAt
    <3> QED BY <3>1
  <2>2. ASSUME NEW k \in Nat, k \in S PROVE k + 1 \in S
    <3> PICK at : Is(at, k) BY <2>2
    <3> DEFINE more == [n \in 0 .. k + 1 |-> AppliedAt(before, changes, rules, prefix, at, n)]
    <3>1. \A n \in 0 .. k : more[n] = at[n] OBVIOUS
    <3>2. \A n \in 0 .. k + 1 : n = 0 \/ n - 1 \in 0 .. k OBVIOUS
    <3>3. \A n \in 0 .. k + 1 : AppliedAt(before, changes, rules, prefix, at, n)
                                = AppliedAt(before, changes, rules, prefix, more, n)
      BY <3>1, <3>2 DEF AppliedAt
    <3>4. Is(more, k + 1) BY <3>3
    <3> HIDE DEF more, Is
    <3>5. \E f : Is(f, k + 1) BY <3>4
    <3> QED BY <3>5
  <2> HIDE DEF S
  <2> QED BY <2>1, <2>2, Induct
<1> DEFINE at == CHOOSE at : Is(at, Len(rules))
<1>2. ApplyCustomRules(before, d, candidates, prefix) = Reconsidered(at[Len(rules)]) BY DEF ApplyCustomRules, AppliedAt
<1>3. Is(at, Len(rules))
  <2>1. \E f : Is(f, Len(rules)) BY <1>1
  <2> HIDE DEF Is
  <2> QED BY <2>1
<1> HIDE DEF at
<1>4. \A n \in 0 .. Len(rules) : at[n] = AppliedAt(before, changes, rules, prefix, at, n) BY <1>3
<1> HIDE DEF Is
<1> QED BY <1>2, <1>4

-----------------------------------------------------------------------------
(* The rules of a project or a pack *)

\* Of the first n candidates: each is a rule or warned of, a rule is one that can be used,
\* and no two share a name.
Accepted(rule) == rule.complete /\ rule.weight \in 0..10
Sifted(candidates, at, n) ==
    /\ at[n] = [seen |-> at[n].seen, rules |-> at[n].rules, warnings |-> at[n].warnings]
    /\ at[n].rules \in Seq(ToSet(candidates))
    /\ at[n].warnings \subseteq 1 .. n
    /\ Len(at[n].rules) + Cardinality(at[n].warnings) = n
    /\ at[n].seen \subseteq {candidates[j].id : j \in 1 .. n}
    /\ \A i \in 1 .. Len(at[n].rules) :
          at[n].rules[i].id \in at[n].seen /\ Accepted(at[n].rules[i])
    /\ \A i, j \in 1 .. Len(at[n].rules) : at[n].rules[i].id = at[n].rules[j].id => i = j
    /\ ~FatalRules(candidates) => at[n].warnings = {}

LEMMA WarnOnce ==
    ASSUME NEW n \in Nat, NEW S, n - 1 \in Nat, S \subseteq 1 .. n - 1
    PROVE  /\ S \cup {n} \subseteq 1 .. n
           /\ Cardinality(S) \in Nat
           /\ Cardinality(S \cup {n}) = Cardinality(S) + 1
<1>1. IsFiniteSet(S)
  <2>1. IsFiniteSet(1 .. n - 1) BY FS_Interval
  <2> QED BY <2>1, FS_Subset
<1>2. n \notin S OBVIOUS
<1> QED BY <1>1, <1>2, FS_AddElement, FS_CardinalityType

LEMMA SiftedDown ==
    ASSUME NEW candidates, candidates \in Seq(ToSet(candidates)), NEW at,
           NEW n \in 1 .. Len(candidates), Sifted(candidates, at, n - 1),
           at[n] = CustomAt(candidates, at, n)
    PROVE  Sifted(candidates, at, n)
<1> DEFINE was == at[n - 1]
           now == at[n]
           c == candidates[n]
<1>0. /\ Len(candidates) \in Nat /\ n \in Nat /\ n - 1 \in Nat /\ n # 0
      /\ DOMAIN candidates = 1 .. Len(candidates)
      /\ c \in ToSet(candidates)
  BY DEF ToSet
<1>1. now = NormalizeRule(was, n, c) BY <1>0 DEF CustomAt
<1>2. /\ was = [seen |-> was.seen, rules |-> was.rules, warnings |-> was.warnings]
      /\ was.rules \in Seq(ToSet(candidates))
      /\ was.warnings \subseteq 1 .. n - 1
      /\ Len(was.rules) + Cardinality(was.warnings) = n - 1
      /\ was.seen \subseteq {candidates[j].id : j \in 1 .. n - 1}
      /\ \A i \in 1 .. Len(was.rules) : was.rules[i].id \in was.seen /\ Accepted(was.rules[i])
      /\ \A i, j \in 1 .. Len(was.rules) : was.rules[i].id = was.rules[j].id => i = j
      /\ ~FatalRules(candidates) => was.warnings = {}
  BY DEF Sifted
<1>3. /\ was.warnings \cup {n} \subseteq 1 .. n
      /\ Cardinality(was.warnings) \in Nat
      /\ Cardinality(was.warnings \cup {n}) = Cardinality(was.warnings) + 1
  <2> HIDE DEF was
  <2> QED BY <1>0, <1>2, WarnOnce
<1>4. /\ was.seen \subseteq {candidates[j].id : j \in 1 .. n}
      /\ was.seen \cup {c.id} \subseteq {candidates[j].id : j \in 1 .. n}
  <2>1. \A j \in 1 .. n - 1 : j \in 1 .. n BY <1>0
  <2>2. n \in 1 .. n BY <1>0
  <2> QED BY <1>2, <2>1, <2>2
<1>5. Len(was.rules) \in Nat BY <1>2
<1>6. ASSUME ~c.complete \/ c.id \in was.seen \/ c.weight \notin 0..10
      PROVE  FatalRules(candidates)
  <2>1. ASSUME c.id \in was.seen PROVE FatalRules(candidates)
    <3>1. PICK j \in 1 .. n - 1 : candidates[j].id = c.id BY <1>2, <2>1
    <3>2. j \in DOMAIN candidates /\ n \in DOMAIN candidates /\ j < n BY <1>0, <3>1
    <3> QED BY <3>1, <3>2 DEF FatalRules, DuplicateId
  <2> QED BY <1>0, <1>6, <2>1 DEF FatalRules
<1>7. ASSUME Unsafe \in {c.path, c.line} \/ {c.path, c.line} = {None}
      PROVE  FatalRules(candidates)
  BY <1>0, <1>7 DEF FatalRules
<1> HIDE DEF was, now, c
<1>8. CASE ~c.complete \/ c.id \in was.seen \/ c.weight \notin 0..10
  <2>1. now = [seen |-> was.seen, rules |-> was.rules, warnings |-> was.warnings \cup {n}]
    BY <1>1, <1>2, <1>8 DEF NormalizeRule
  <2>2. /\ now.seen = was.seen /\ now.rules = was.rules
        /\ now.warnings = was.warnings \cup {n}
    BY <2>1
  <2>3. Len(now.rules) + Cardinality(now.warnings) = n
    <3>1. Cardinality(now.warnings) = Cardinality(was.warnings) + 1 BY <1>3, <2>2
    <3>2. Len(now.rules) = Len(was.rules) BY <2>2
    <3>3. Len(was.rules) + Cardinality(was.warnings) = n - 1 BY <1>2
    <3> QED BY <1>0, <1>3, <1>5, <3>1, <3>2, <3>3
  <2>4. now = [seen |-> now.seen, rules |-> now.rules, warnings |-> now.warnings]
    BY <2>1, <2>2
  <2>5. ~FatalRules(candidates) => now.warnings = {} BY <1>6, <1>8
  <2> HIDE DEF Sifted
  <2> QED BY <1>2, <1>3, <1>4, <2>2, <2>3, <2>4, <2>5 DEF Sifted, now
<1>9. CASE /\ ~(~c.complete \/ c.id \in was.seen \/ c.weight \notin 0..10)
           /\ Unsafe \in {c.path, c.line} \/ {c.path, c.line} = {None}
  <2>1. now = [seen |-> was.seen \cup {c.id}, rules |-> was.rules, warnings |-> was.warnings \cup {n}]
    BY <1>1, <1>2, <1>9 DEF NormalizeRule
  <2>2. /\ now.seen = was.seen \cup {c.id} /\ now.rules = was.rules
        /\ now.warnings = was.warnings \cup {n}
    BY <2>1
  <2>3. Len(now.rules) + Cardinality(now.warnings) = n
    <3>1. Cardinality(now.warnings) = Cardinality(was.warnings) + 1 BY <1>3, <2>2
    <3>2. Len(now.rules) = Len(was.rules) BY <2>2
    <3>3. Len(was.rules) + Cardinality(was.warnings) = n - 1 BY <1>2
    <3> QED BY <1>0, <1>3, <1>5, <3>1, <3>2, <3>3
  <2>4. now = [seen |-> now.seen, rules |-> now.rules, warnings |-> now.warnings]
    BY <2>1, <2>2
  <2>5. ~FatalRules(candidates) => now.warnings = {} BY <1>7, <1>9
  <2> QED BY <1>2, <1>3, <1>4, <2>2, <2>3, <2>4, <2>5 DEF Sifted, now
<1>10. CASE /\ ~(~c.complete \/ c.id \in was.seen \/ c.weight \notin 0..10)
            /\ ~(Unsafe \in {c.path, c.line} \/ {c.path, c.line} = {None})
  <2>1. now = [seen |-> was.seen \cup {c.id}, rules |-> Append(was.rules, c), warnings |-> was.warnings]
    BY <1>1, <1>2, <1>10 DEF NormalizeRule
  <2>2. /\ now.seen = was.seen \cup {c.id} /\ now.rules = Append(was.rules, c)
        /\ now.warnings = was.warnings
    BY <2>1
  <2>3. /\ now.rules \in Seq(ToSet(candidates))
        /\ Len(now.rules) = Len(was.rules) + 1
        /\ \A i \in 1 .. Len(was.rules) : now.rules[i] = was.rules[i]
        /\ now.rules[Len(was.rules) + 1] = c
    <3> c \in ToSet(candidates) BY <1>0 DEF c
    <3> QED BY <1>2, <2>2
  <2>4. Len(now.rules) + Cardinality(now.warnings) = n BY <1>0, <1>2, <1>3, <1>5, <2>2, <2>3
  <2>5. \A i \in 1 .. Len(now.rules) : i \in 1 .. Len(was.rules) \/ i = Len(was.rules) + 1
    BY <1>5, <2>3
  <2>6. \A i \in 1 .. Len(now.rules) : now.rules[i].id \in now.seen /\ Accepted(now.rules[i])
    <3>1. Accepted(c) BY <1>10 DEF Accepted
    <3> QED BY <1>2, <2>2, <2>3, <2>5, <3>1
  <2>7. \A i, j \in 1 .. Len(now.rules) : now.rules[i].id = now.rules[j].id => i = j
    BY <1>2, <1>10, <2>3, <2>5
  <2>8. now = [seen |-> now.seen, rules |-> now.rules, warnings |-> now.warnings]
    BY <2>1, <2>2
  <2>9. now.warnings \subseteq 1 .. n BY <1>3, <2>2
  <2> QED BY <1>2, <1>4, <2>2, <2>3, <2>4, <2>6, <2>7, <2>8, <2>9 DEF Sifted, now
<1> QED BY <1>8, <1>9, <1>10

\* normalizeCustomRules makes a rule of a candidate or warns of it, and of a list that
\* validatePolicyPack accepts it warns of none.
LEMMA CandidatesAreSifted ==
    ASSUME NEW candidates, IsSeq(candidates)
    PROVE  LET sifted == NormalizeCustomRules(candidates)
           IN /\ sifted.rules \in Seq(ToSet(candidates))
              /\ Len(sifted.rules) + Cardinality(sifted.warnings) = Len(candidates)
              /\ \A i \in 1 .. Len(sifted.rules) : Accepted(sifted.rules[i])
              /\ \A i, j \in 1 .. Len(sifted.rules) :
                    sifted.rules[i].id = sifted.rules[j].id => i = j
              /\ ~FatalRules(candidates) => sifted.warnings = {}
<1>1. candidates \in Seq(ToSet(candidates)) /\ Len(candidates) \in Nat BY DEF IsSeq
<1>2. PICK at : /\ \A n \in 0 .. Len(candidates) : at[n] = CustomAt(candidates, at, n)
                /\ NormalizeCustomRules(candidates) = at[Len(candidates)]
  BY <1>1, CandidatesAreGiven
<1> DEFINE S == {n \in 0 .. Len(candidates) : Sifted(candidates, at, n)}
<1>3. 0 \in S
  <2>1. at[0] = [seen |-> {}, rules |-> <<>>, warnings |-> {}] BY <1>1, <1>2 DEF CustomAt
  <2>2. Cardinality({}) = 0 BY FS_EmptySet
  <2>3. Sifted(candidates, at, 0) BY <2>1, <2>2 DEF Sifted
  <2> QED BY <1>1, <2>3
<1>4. \A n \in 1 .. Len(candidates) : n - 1 \in S => n \in S
  <2> SUFFICES ASSUME NEW n \in 1 .. Len(candidates), Sifted(candidates, at, n - 1)
               PROVE  n \in S
    OBVIOUS
  <2>1. n \in 0 .. Len(candidates) BY <1>1
  <2> QED BY <1>1, <1>2, <2>1, SiftedDown
<1>5. Len(candidates) \in S
  <2> HIDE DEF S
  <2> QED BY <1>1, <1>3, <1>4, GoDown
<1> QED BY <1>2, <1>5 DEF Sifted

\* The finding a rule makes in some changes.
HitOf(rule, changes, prefix) ==
    RuleHit(prefix \o rule.id, rule.weight, MatchCustomRule(rule, changes), rule.check)

\* What the application of rules leaves of a report.
Touched == {"rules", "checks", "score", "files"}

\* A report a rule can be applied to.
Ruled(r) == {"rules", "checks", "score", "files", "level", "settings"} \subseteq DOMAIN r /\ IsSeq(r.rules)

\* Of n rules applied, each that matched a file has its finding, after those before.
Applied(before, rules, changes, prefix, at, n) ==
    /\ DOMAIN at[n] = DOMAIN before
    /\ \A f \in DOMAIN before \ Touched : at[n][f] = before[f]
    /\ at[n].rules \in Seq(ToSet(before.rules)
                           \cup {HitOf(rule, changes, prefix) : rule \in ToSet(rules)})
    /\ ToSet(before.rules) \subseteq ToSet(at[n].rules)
    /\ IsSeq(before.checks) => IsSeq(at[n].checks)
    /\ \A j \in 1 .. n : \/ MatchCustomRule(rules[j], changes) = {}
                         \/ HitOf(rules[j], changes, prefix) \in ToSet(at[n].rules)

LEMMA AppliedDown ==
    ASSUME NEW before, Ruled(before), NEW rules, IsSeq(rules), NEW changes, NEW prefix, NEW at,
           NEW n \in 1 .. Len(rules), Applied(before, rules, changes, prefix, at, n - 1),
           at[n] = AppliedAt(before, changes, rules, prefix, at, n)
    PROVE  Applied(before, rules, changes, prefix, at, n)
<1> DEFINE was == at[n - 1]
           now == at[n]
           rule == rules[n]
           hit == HitOf(rule, changes, prefix)
           X == ToSet(before.rules) \cup {HitOf(r, changes, prefix) : r \in ToSet(rules)}
<1>0. /\ Len(rules) \in Nat /\ n \in Nat /\ n - 1 \in Nat /\ n # 0
      /\ rule \in ToSet(rules)
      /\ \A j \in 1 .. n : j \in 1 .. n - 1 \/ j = n
  <2>1. DOMAIN rules = 1 .. Len(rules) /\ Len(rules) \in Nat BY DEF IsSeq
  <2> QED BY <2>1 DEF ToSet
<1>1. now = ApplyRule(was, rule, changes, prefix) BY <1>0 DEF AppliedAt
<1>2. /\ DOMAIN was = DOMAIN before
      /\ \A f \in DOMAIN before \ Touched : was[f] = before[f]
      /\ was.rules \in Seq(X)
      /\ ToSet(before.rules) \subseteq ToSet(was.rules)
      /\ IsSeq(before.checks) => IsSeq(was.checks)
      /\ \A j \in 1 .. n - 1 : \/ MatchCustomRule(rules[j], changes) = {}
                               \/ HitOf(rules[j], changes, prefix) \in ToSet(was.rules)
  BY DEF Applied
<1>3. hit \in X BY <1>0
<1>4. {"rules", "checks", "score", "files"} \subseteq DOMAIN was BY <1>2 DEF Ruled
<1> HIDE DEF was, now, rule, X
<1>5. CASE MatchCustomRule(rule, changes) = {}
  <2>1. now = was BY <1>1, <1>5 DEF ApplyRule
  <2>2. \A j \in 1 .. n : \/ MatchCustomRule(rules[j], changes) = {}
                          \/ HitOf(rules[j], changes, prefix) \in ToSet(was.rules)
    BY <1>0, <1>2, <1>5 DEF rule
  <2> QED BY <1>2, <2>1, <2>2 DEF Applied, X, now
<1>6. CASE MatchCustomRule(rule, changes) # {}
  <2>1. now = [was EXCEPT !.rules = Append(@, hit), !.checks = Uniq(Append(@, rule.check)),
                          !.score = @ + rule.weight,
                          !.files = UpdateFileBreakdown(@, hit, was.settings)]
    BY <1>1, <1>6 DEF ApplyRule, HitOf
  <2> HIDE DEF hit
  <2>2. DOMAIN now = DOMAIN was BY <2>1
  <2>3. \A f \in DOMAIN was \ Touched : now[f] = was[f] BY <2>1 DEF Touched
  <2>4. now.rules = Append(was.rules, hit) BY <1>4, <2>1
  <2>5. ToSet(now.rules) = ToSet(was.rules) \cup {hit} BY <1>2, <2>4, AppendToSet
  <2>6. now.rules \in Seq(X) BY <1>2, <1>3, <2>4
  <2>7. \A j \in 1 .. n : \/ MatchCustomRule(rules[j], changes) = {}
                          \/ HitOf(rules[j], changes, prefix) \in ToSet(now.rules)
    BY <1>0, <1>2, <2>5 DEF rule, hit
  <2>8. ToSet(before.rules) \subseteq ToSet(now.rules) BY <1>2, <2>5
  <2>9. \A f \in DOMAIN before \ Touched : now[f] = before[f] BY <1>2, <2>3
  <2>10. DOMAIN now = DOMAIN before BY <1>2, <2>2
  <2>11. ASSUME IsSeq(before.checks) PROVE IsSeq(now.checks)
    <3>1. now.checks = Uniq(Append(was.checks, rule.check)) BY <1>4, <2>1
    <3>2. IsSeq(Append(was.checks, rule.check)) BY <1>2, <2>11, OneMoreIsAList
    <3> QED BY <3>1, <3>2, UniqIsExact, IsList
  <2> QED BY <2>6, <2>7, <2>8, <2>9, <2>10, <2>11 DEF Applied, X, now
<1> QED BY <1>5, <1>6

\* A report after rules were applied to it: there is a finding for every rule that matches
\* a file and no other new one, and the fields it does not touch are as before.
WithRules(before, after, changes, candidates, prefix) ==
    /\ DOMAIN after = DOMAIN before
    /\ \A f \in DOMAIN before \ (Touched \cup {"level"}) : after[f] = before[f]
    /\ IsSeq(after.rules)
    /\ IsSeq(before.checks) => IsSeq(after.checks)
    /\ ToSet(before.rules) \subseteq ToSet(after.rules)
    /\ \A h \in ToSet(after.rules) \ ToSet(before.rules) :
          \E rule \in ToSet(candidates) : h = HitOf(rule, changes, prefix)
    /\ \A rule \in ToSet(NormalizeCustomRules(candidates).rules) :
          \/ MatchCustomRule(rule, changes) = {}
          \/ HitOf(rule, changes, prefix) \in ToSet(after.rules)

\* applyCustomRules adds what the rules find and touches nothing else.
LEMMA RulesAreApplied ==
    ASSUME NEW before, Ruled(before), NEW d, NEW candidates, IsSeq(candidates), NEW prefix
    PROVE  WithRules(before, ApplyCustomRules(before, d, candidates, prefix),
                     ParseFileChanges(d), candidates, prefix)
<1> DEFINE after == ApplyCustomRules(before, d, candidates, prefix)
           changes == ParseFileChanges(d)
           rules == NormalizeCustomRules(candidates).rules
<1>1. /\ rules \in Seq(ToSet(candidates)) /\ Len(rules) \in Nat /\ DOMAIN rules = 1 .. Len(rules)
      /\ ToSet(rules) \subseteq ToSet(candidates) /\ IsSeq(rules)
  <2>1. rules \in Seq(ToSet(candidates)) BY CandidatesAreSifted
  <2> HIDE DEF rules
  <2>2. Len(rules) \in Nat /\ DOMAIN rules = 1 .. Len(rules) BY <2>1
  <2>3. \A i \in DOMAIN rules : rules[i] \in ToSet(candidates) BY <2>1
  <2>4. \A i \in DOMAIN rules : rules[i] \in ToSet(rules) BY DEF ToSet
  <2>5. rules \in Seq(ToSet(rules))
    <3>1. rules = [i \in 1 .. Len(rules) |-> rules[i]] BY <2>1
    <3> QED BY <2>2, <2>4, <3>1
  <2> QED BY <2>1, <2>2, <2>3, <2>5 DEF ToSet, IsSeq
<1>2. PICK at : /\ \A n \in 0 .. Len(rules) : at[n] = AppliedAt(before, changes, rules, prefix, at, n)
                /\ after = Reconsidered(at[Len(rules)])
  <2> HIDE DEF after, changes, rules
  <2>1. rules = NormalizeCustomRules(candidates).rules BY DEF rules
  <2>2. changes = ParseFileChanges(d) BY DEF changes
  <2> QED BY <1>1, <2>1, <2>2, ApplicationsAreGiven DEF after
<1> HIDE DEF after, changes, rules
<1> DEFINE S == {n \in 0 .. Len(rules) : Applied(before, rules, changes, prefix, at, n)}
<1>3. 0 \in S
  <2>1. at[0] = before BY <1>1, <1>2 DEF AppliedAt
  <2>2. before.rules \in Seq(ToSet(before.rules)) BY DEF Ruled, IsSeq
  <2>3. before.rules \in Seq(ToSet(before.rules)
                           \cup {HitOf(rule, changes, prefix) : rule \in ToSet(rules)})
    <3> DEFINE Y == {HitOf(rule, changes, prefix) : rule \in ToSet(rules)}
               X == ToSet(before.rules)
               s == before.rules
    <3> HIDE DEF X, Y, s
    <3>1. s \in Seq(X) => s \in Seq(X \cup Y) OBVIOUS
    <3> QED BY <2>2, <3>1 DEF X, Y, s
  <2>4. Applied(before, rules, changes, prefix, at, 0) BY <2>1, <2>3 DEF Applied
  <2> QED BY <1>1, <2>4
<1>4. \A n \in 1 .. Len(rules) : n - 1 \in S => n \in S
  <2> SUFFICES ASSUME NEW n \in 1 .. Len(rules), Applied(before, rules, changes, prefix, at, n - 1)
               PROVE  n \in S
    OBVIOUS
  <2>1. n \in 0 .. Len(rules) BY <1>1
  <2> QED BY <1>1, <1>2, <2>1, AppliedDown
<1>5. Len(rules) \in S
  <2> HIDE DEF S
  <2> DEFINE k == Len(rules)
  <2>1. k \in Nat BY <1>1
  <2>2. \A n \in 1 .. k : n - 1 \in S => n \in S BY <1>4
  <2> HIDE DEF k
  <2>3. 0 .. k \subseteq S BY <1>3, <2>1, <2>2, GoDown
  <2> QED BY <2>1, <2>3 DEF k
<1> DEFINE last == at[Len(rules)]
<1>6. Applied(before, rules, changes, prefix, at, Len(rules)) BY <1>5
<1>7. /\ DOMAIN last = DOMAIN before
      /\ \A f \in DOMAIN before \ Touched : last[f] = before[f]
      /\ last.rules \in Seq(ToSet(before.rules)
                           \cup {HitOf(rule, changes, prefix) : rule \in ToSet(rules)})
      /\ ToSet(before.rules) \subseteq ToSet(last.rules)
      /\ IsSeq(before.checks) => IsSeq(last.checks)
      /\ \A j \in 1 .. Len(rules) : \/ MatchCustomRule(rules[j], changes) = {}
                                    \/ HitOf(rules[j], changes, prefix) \in ToSet(last.rules)
  BY <1>6 DEF Applied
<1> HIDE DEF last
<1>8. after = [last EXCEPT !.level = Level(last.score, last.settings)]
  BY <1>2 DEF Reconsidered, last
<1>9. /\ DOMAIN after = DOMAIN last /\ after.rules = last.rules /\ after.checks = last.checks
      /\ \A f \in DOMAIN last \ {"level"} : after[f] = last[f]
  BY <1>8
<1>10. \A h \in ToSet(last.rules) \ ToSet(before.rules) :
          \E rule \in ToSet(candidates) : h = HitOf(rule, changes, prefix)
  <2> DEFINE Y == {HitOf(rule, changes, prefix) : rule \in ToSet(rules)}
             X == ToSet(before.rules)
             s == last.rules
  <2>1. s \in Seq(X \cup Y) BY <1>7
  <2> HIDE DEF X, Y, s
  <2>2. \A h \in ToSet(s) : h \in X \cup Y BY <2>1 DEF ToSet
  <2> QED BY <1>1, <2>2 DEF X, Y, s
<1>11. IsSeq(last.rules)
  <2>1. PICK X : last.rules \in Seq(X) BY <1>7
  <2>2. DOMAIN last.rules = 1 .. Len(last.rules) /\ Len(last.rules) \in Nat BY <2>1
  <2>3. last.rules = [i \in 1 .. Len(last.rules) |-> last.rules[i]] BY <2>1
  <2>4. \A i \in 1 .. Len(last.rules) : last.rules[i] \in ToSet(last.rules) BY <2>2 DEF ToSet
  <2> QED BY <2>2, <2>3, <2>4 DEF IsSeq
<1>12. \A rule \in ToSet(rules) : \/ MatchCustomRule(rule, changes) = {}
                                  \/ HitOf(rule, changes, prefix) \in ToSet(last.rules)
  BY <1>1, <1>7 DEF ToSet
<1>13. \A f \in DOMAIN before \ (Touched \cup {"level"}) : after[f] = before[f] BY <1>7, <1>9
<1> QED BY <1>7, <1>9, <1>10, <1>11, <1>12, <1>13 DEF WithRules, after, changes, rules

-----------------------------------------------------------------------------
(* The report of the built-in rules *)

\* The hit of a built-in rule, and those met so far.
PatternHit(p, changes, settings) ==
    BuiltIn(p.id, AdjustedWeight(p.weight, settings), PatternFiles(p.id, changes))
MetAt(changes, settings, skipped, at, n) ==
    LET p == RiskPatterns[n]
    IN IF n = 0 THEN <<>>
       ELSE IF p.id \notin skipped /\ MatchRiskPattern(p.id, changes, settings)
            THEN Append(at[n - 1], PatternHit(p, changes, settings))
            ELSE at[n - 1]

\* The hits met so far are there for every place of the list.
LEMMA HitsAreGiven ==
    ASSUME NEW changes, NEW settings, NEW skipped
    PROVE  \E at : /\ \A n \in 0 .. Len(RiskPatterns) : at[n] = MetAt(changes, settings, skipped, at, n)
                   /\ PatternHits(changes, settings, skipped) = at[Len(RiskPatterns)]
<1> DEFINE k == Len(RiskPatterns)
           Is(at, m) == at = [n \in 0 .. m |-> MetAt(changes, settings, skipped, at, n)]
           S == {m \in Nat : \E at : Is(at, m)}
<1>0. k \in Nat BY DEF RiskPatterns
<1>1. Nat \subseteq S
  <2>1. 0 \in S
    <3> DEFINE d == [n \in 0 .. 0 |-> <<>>]
    <3>1. Is(d, 0) BY DEF MetAt
    <3> QED BY <3>1
  <2>2. ASSUME NEW m \in Nat, m \in S PROVE m + 1 \in S
    <3> PICK at : Is(at, m) BY <2>2
    <3> DEFINE more == [n \in 0 .. m + 1 |-> MetAt(changes, settings, skipped, at, n)]
    <3>1. \A n \in 0 .. m : more[n] = at[n] OBVIOUS
    <3>2. \A n \in 0 .. m + 1 : n = 0 \/ n - 1 \in 0 .. m OBVIOUS
    <3>3. \A n \in 0 .. m + 1 : MetAt(changes, settings, skipped, at, n)
                                = MetAt(changes, settings, skipped, more, n)
      BY <3>1, <3>2 DEF MetAt
    <3>4. Is(more, m + 1) BY <3>3
    <3> HIDE DEF more, Is
    <3>5. \E d : Is(d, m + 1) BY <3>4
    <3> QED BY <3>5
  <2> HIDE DEF S
  <2> QED BY <2>1, <2>2, Induct
<1> DEFINE at == CHOOSE at : Is(at, k)
<1>2. PatternHits(changes, settings, skipped) = at[k] BY DEF PatternHits, MetAt, PatternHit
<1>3. Is(at, k)
  <2>1. \E d : Is(d, k) BY <1>0, <1>1
  <2> HIDE DEF Is, k
  <2> QED BY <2>1
<1> HIDE DEF at
<1>4. \A n \in 0 .. k : at[n] = MetAt(changes, settings, skipped, at, n) BY <1>3
<1> HIDE DEF Is
<1> QED BY <1>2, <1>4

LEMMA HitsAreListed ==
    ASSUME NEW changes, NEW settings, NEW skipped
    PROVE  LET hits == PatternHits(changes, settings, skipped)
           IN /\ IsSeq(hits)
              /\ \A h \in ToSet(hits) : \E i \in DOMAIN RiskPatterns :
                    h = PatternHit(RiskPatterns[i], changes, settings)
<1> DEFINE k == Len(RiskPatterns)
<1>0. k \in Nat BY DEF RiskPatterns
<1>4. PICK at : /\ \A n \in 0 .. k : at[n] = MetAt(changes, settings, skipped, at, n)
                /\ PatternHits(changes, settings, skipped) = at[k]
  BY HitsAreGiven
<1> HIDE DEF k
<1> DEFINE Hit(i) == PatternHit(RiskPatterns[i], changes, settings)
           OfPatterns(hits) == IsSeq(hits) /\ \A h \in ToSet(hits) : \E i \in DOMAIN RiskPatterns : h = Hit(i)
           Reached == {n \in 0 .. k : OfPatterns(at[n])}
<1>5. 0 \in Reached
  <2>1. 0 \in 0 .. k BY <1>0
  <2>2. MetAt(changes, settings, skipped, at, 0) = <<>> BY DEF MetAt
  <2>3. IsSeq(<<>>) BY OneIsAList
  <2>4. ToSet(<<>>) = {} BY DEF ToSet
  <2> HIDE DEF Hit
  <2> QED BY <1>4, <2>1, <2>2, <2>3, <2>4
<1>6. ASSUME NEW n \in 1 .. k, n - 1 \in Reached PROVE n \in Reached
  <2>1. n \in 0 .. k /\ n # 0 /\ n \in DOMAIN RiskPatterns BY <1>0 DEF k, RiskPatterns
  <2> DEFINE hit == Hit(n)  was == at[n - 1]
  <2>2. at[n] = was \/ at[n] = Append(was, hit) BY <1>4, <2>1 DEF MetAt
  <2>3. OfPatterns(was) BY <1>6
  <2> HIDE DEF hit, was
  <2>4. IsSeq(Append(was, hit)) /\ ToSet(Append(was, hit)) = ToSet(was) \cup {hit}
    <3> DEFINE X == ToSet(was)
    <3>1. was \in Seq(X) BY <2>3 DEF IsSeq
    <3>2. ToSet(Append(was, hit)) = X \cup {hit} BY <3>1, AppendToSet
    <3> HIDE DEF X
    <3>3. Append(was, hit) \in Seq(X \cup {hit}) BY <3>1
    <3> QED BY <3>2, <3>3, IsList DEF X
  <2>5. OfPatterns(Append(was, hit))
    <3> HIDE DEF Hit
    <3>1. \E i \in DOMAIN RiskPatterns : hit = Hit(i) BY <2>1 DEF hit
    <3> QED BY <2>3, <2>4, <3>1
  <2> QED BY <2>1, <2>2, <2>3, <2>5
<1>7. 0 .. k \subseteq Reached
  <2> HIDE DEF Reached
  <2> QED BY <1>0, <1>5, <1>6, GoDown
<1>8. OfPatterns(at[k]) BY <1>0, <1>7
<1> QED BY <1>4, <1>8

\* The rules of analyzeDiff's report are a list, and the report has these fields.
LEMMA BuiltIsRuled ==
    ASSUME NEW d, NEW c
    PROVE  /\ Ruled(AnalyzeDiff(d, c))
           /\ DOMAIN AnalyzeDiff(d, c)
              = {"score", "level", "docsOnly", "settings", "rules", "files", "checks"}
<1> DEFINE settings == NormalizeConfig(c)
           changes == ParseFileChanges(d)
           rules == ScoreRisk(changes, settings).rules
           docsOnly == IsDocsOnly(changes)
           patterns == {RiskPatterns[i].id : i \in DOMAIN RiskPatterns}
           met == PatternHits(changes, settings, IF docsOnly THEN patterns \ {"test-change"} ELSE {})
           configured == ConfiguredHighRiskHits(changes, settings)
           missing == MissingTestsHits(changes, settings)
           docs == IF docsOnly THEN <<BuiltIn("docs-only", 0, Files(changes))>> ELSE <<>>
<1>1. rules = docs \o (met \o configured \o missing) BY DEF ScoreRisk
<1>2. IsSeq(met) BY HitsAreListed
<1>3. IsSeq(configured) BY OneIsAList DEF ConfiguredHighRiskHits
<1>4. IsSeq(missing) BY OneIsAList DEF MissingTestsHits
<1>5. IsSeq(docs) BY OneIsAList
<1>6. IsSeq(rules)
  <2> HIDE DEF rules, docs, met, configured, missing
  <2>1. IsSeq(met \o configured) BY <1>2, <1>3, BothAreLists
  <2>2. IsSeq(met \o configured \o missing) BY <2>1, <1>4, BothAreLists
  <2> QED BY <2>2, <1>1, <1>5, BothAreLists
<1>7. AnalyzeDiff(d, c).rules = rules BY DEF AnalyzeDiff
<1>8. DOMAIN AnalyzeDiff(d, c)
      = {"score", "level", "docsOnly", "settings", "rules", "files", "checks"}
  BY DEF AnalyzeDiff
<1> HIDE DEF rules
<1> QED BY <1>6, <1>7, <1>8 DEF Ruled

-----------------------------------------------------------------------------
(* Suppressions *)

\* An entry that can be used, and two entries for the same findings.
Usable(e) == e.complete /\ e.path # Unsafe
Alike(e, f) == e.ruleId = f.ruleId /\ e.path = f.path

\* Of the first n entries: those kept are usable, and warned of when their date is none;
\* one that is usable and not kept is warned of, for an earlier one like it.
Heard(entries, at, n) ==
    /\ at[n] = [seen |-> at[n].seen, kept |-> at[n].kept, warnings |-> at[n].warnings]
    /\ at[n].kept \subseteq 1 .. n
    /\ \A i \in at[n].kept : Usable(entries[i])
    /\ \A i \in at[n].kept : ~entries[i].real => i \in at[n].warnings
    /\ \A k \in at[n].seen : \E j \in 1 .. n : /\ Usable(entries[j])
                                              /\ k = <<entries[j].ruleId, entries[j].path>>
    /\ \A i \in (1 .. n) \ at[n].kept :
          Usable(entries[i]) => /\ i \in at[n].warnings
                                /\ \E j \in 1 .. (i - 1) : Usable(entries[j]) /\ Alike(entries[j], entries[i])

LEMMA HeardDown ==
    ASSUME NEW entries, IsSeq(entries), NEW at,
           NEW n \in 1 .. Len(entries), Heard(entries, at, n - 1),
           at[n] = EntryAt(entries, at, n)
    PROVE  Heard(entries, at, n)
<1> DEFINE was == at[n - 1]
           now == at[n]
           e == entries[n]
           key == <<e.ruleId, e.path>>
<1>0. /\ n \in Nat /\ n - 1 \in Nat /\ n # 0
      /\ \A i \in 1 .. n - 1 : i \in 1 .. n
      /\ \A i \in 1 .. n : i \in 1 .. n - 1 \/ i = n
  <2>1. Len(entries) \in Nat BY DEF IsSeq
  <2> QED BY <2>1
<1>1. now = NormalizeEntry(was, n, e) BY <1>0 DEF EntryAt
<1>2. /\ was = [seen |-> was.seen, kept |-> was.kept, warnings |-> was.warnings]
      /\ was.kept \subseteq 1 .. n - 1
      /\ \A i \in was.kept : Usable(entries[i])
      /\ \A i \in was.kept : ~entries[i].real => i \in was.warnings
      /\ \A k \in was.seen : \E j \in 1 .. n - 1 : /\ Usable(entries[j])
                                                   /\ k = <<entries[j].ruleId, entries[j].path>>
      /\ \A i \in (1 .. n - 1) \ was.kept :
            Usable(entries[i]) => /\ i \in was.warnings
                                  /\ \E j \in 1 .. (i - 1) : Usable(entries[j]) /\ Alike(entries[j], entries[i])
  BY DEF Heard
<1> HIDE DEF was, now, key
<1> DEFINE taken == key \in was.seen \/ e.path = Unsafe
<1>3. /\ now = [seen |-> now.seen, kept |-> now.kept, warnings |-> now.warnings]
      /\ now.kept = IF taken \/ ~e.complete THEN was.kept ELSE was.kept \cup {n}
      /\ now.seen = IF taken \/ ~e.complete THEN was.seen ELSE was.seen \cup {key}
      /\ was.warnings \subseteq now.warnings
      /\ taken => n \in now.warnings
      /\ ~e.real => n \in now.warnings
  <2> DEFINE warned == [was EXCEPT !.warnings = @ \cup {n}]
             heard == IF e.complete /\ e.real THEN was ELSE warned
  <2>0. was = [seen |-> was.seen, kept |-> was.kept, warnings |-> was.warnings] BY <1>2
  <2>1. warned = [seen |-> was.seen, kept |-> was.kept, warnings |-> was.warnings \cup {n}]
    <3> DEFINE a == was.seen  b == was.kept  w == was.warnings
    <3>1. was = [seen |-> a, kept |-> b, warnings |-> w] BY <2>0
    <3>2. warned = [was EXCEPT !.warnings = @ \cup {n}] OBVIOUS
    <3> HIDE DEF a, b, w, warned
    <3>3. warned = [seen |-> a, kept |-> b, warnings |-> w \cup {n}] BY <3>1, <3>2
    <3> QED BY <3>3 DEF a, b, w
  <2>2. /\ heard = [seen |-> was.seen, kept |-> was.kept, warnings |-> heard.warnings]
        /\ was.warnings \subseteq heard.warnings
        /\ ~e.real => n \in heard.warnings
    BY <2>0, <2>1
  <2>3. now = IF taken THEN warned
              ELSE IF ~e.complete THEN heard
              ELSE [heard EXCEPT !.seen = @ \cup {key}, !.kept = @ \cup {n}]
    BY <1>1 DEF NormalizeEntry, key
  <2> HIDE DEF warned, heard, taken
  <2>4. CASE taken BY <2>1, <2>3, <2>4
  <2>5. CASE ~taken /\ ~e.complete BY <2>2, <2>3, <2>5
  <2>6. CASE ~taken /\ e.complete
    <3>1. now = [seen |-> was.seen \cup {key}, kept |-> was.kept \cup {n}, warnings |-> heard.warnings]
      <4> DEFINE a == was.seen  b == was.kept  w == heard.warnings
      <4>1. heard = [seen |-> a, kept |-> b, warnings |-> w] BY <2>2
      <4>2. now = [heard EXCEPT !.seen = @ \cup {key}, !.kept = @ \cup {n}] BY <2>3, <2>6
      <4> HIDE DEF a, b, w
      <4>3. now = [seen |-> a \cup {key}, kept |-> b \cup {n}, warnings |-> w] BY <4>1, <4>2
      <4> QED BY <4>3 DEF a, b, w
    <3> QED BY <2>2, <2>6, <3>1
  <2> QED BY <2>4, <2>5, <2>6
<1>4. now.kept \subseteq 1 .. n BY <1>0, <1>2, <1>3
<1>5. /\ \A i \in now.kept : Usable(entries[i])
      /\ \A i \in now.kept : ~entries[i].real => i \in now.warnings
  <2>1. \A i \in now.kept : i \in was.kept \/ (i = n /\ ~taken /\ e.complete) BY <1>3
  <2>2. \A i \in now.kept : Usable(entries[i]) BY <1>2, <2>1 DEF Usable
  <2>3. \A i \in now.kept : ~entries[i].real => i \in now.warnings BY <1>2, <1>3, <2>1
  <2> QED BY <2>2, <2>3
<1>6. \A k \in now.seen : \E j \in 1 .. n : /\ Usable(entries[j])
                                            /\ k = <<entries[j].ruleId, entries[j].path>>
  <2>1. ASSUME NEW k \in was.seen
        PROVE  \E j \in 1 .. n : Usable(entries[j]) /\ k = <<entries[j].ruleId, entries[j].path>>
    BY <1>0, <1>2
  <2>2. ASSUME NEW k, k = key, ~taken, e.complete
        PROVE  \E j \in 1 .. n : Usable(entries[j]) /\ k = <<entries[j].ruleId, entries[j].path>>
    <3>1. n \in 1 .. n BY <1>0
    <3>2. Usable(entries[n]) BY <2>2 DEF Usable
    <3> QED BY <2>2, <3>1, <3>2 DEF key
  <2>3. CASE taken \/ ~e.complete BY <1>3, <2>1, <2>3
  <2>4. CASE ~taken /\ e.complete
    <3>1. now.seen = was.seen \cup {key} BY <1>3, <2>4
    <3> HIDE DEF taken
    <3> QED BY <2>1, <2>2, <2>4, <3>1
  <2> QED BY <2>3, <2>4
<1>7. ASSUME NEW i \in (1 .. n) \ now.kept, Usable(entries[i])
      PROVE  /\ i \in now.warnings
             /\ \E j \in 1 .. (i - 1) : Usable(entries[j]) /\ Alike(entries[j], entries[i])
  <2>1. was.kept \subseteq now.kept BY <1>3
  <2>2. CASE i \in 1 .. n - 1
    <3>1. i \in (1 .. n - 1) \ was.kept BY <1>7, <2>1, <2>2
    <3> QED BY <1>2, <1>3, <1>7, <3>1
  <2>3. CASE i = n
    <3>1. taken BY <1>3, <1>7, <2>3 DEF Usable
    <3>2. key \in was.seen BY <1>7, <2>3, <3>1 DEF Usable
    <3>3. PICK j \in 1 .. n - 1 : Usable(entries[j]) /\ key = <<entries[j].ruleId, entries[j].path>>
      BY <1>2, <3>2
    <3>4. Alike(entries[j], entries[n]) BY <3>3 DEF Alike, key
    <3> QED BY <1>3, <2>3, <3>1, <3>3, <3>4
  <2> QED BY <1>0, <2>2, <2>3
<1> QED BY <1>3, <1>4, <1>5, <1>6, <1>7 DEF Heard, now

\* normalizeSuppressions keeps usable entries only, and passes over no usable one without
\* a warning and an earlier one for the same rule and expression.
LEMMA EntriesAreHeard ==
    ASSUME NEW entries, IsSeq(entries)
    PROVE  LET heard == NormalizeSuppressions(entries)
           IN /\ heard.kept \subseteq DOMAIN entries
              /\ \A i \in heard.kept : Usable(entries[i])
              /\ \A i \in heard.kept : ~entries[i].real => i \in heard.warnings
              /\ \A i \in DOMAIN entries \ heard.kept :
                    Usable(entries[i]) =>
                        /\ i \in heard.warnings
                        /\ \E j \in 1 .. (i - 1) : Usable(entries[j]) /\ Alike(entries[j], entries[i])
<1> DEFINE k == Len(entries)
<1>1. k \in Nat /\ DOMAIN entries = 1 .. k BY DEF IsSeq
<1>2. PICK at : /\ \A n \in 0 .. k : at[n] = EntryAt(entries, at, n)
                /\ NormalizeSuppressions(entries) = at[k]
  BY <1>1, EntriesAreGiven
<1> DEFINE S == {n \in 0 .. k : Heard(entries, at, n)}
<1>3. 0 \in S
  <2>1. at[0] = [seen |-> {}, kept |-> {}, warnings |-> {}] BY <1>1, <1>2 DEF EntryAt
  <2>2. Heard(entries, at, 0) BY <2>1 DEF Heard
  <2> QED BY <1>1, <2>2
<1>4. ASSUME NEW n \in 1 .. k, n - 1 \in S PROVE n \in S
  <2>1. n \in 0 .. k BY <1>1
  <2> QED BY <1>2, <1>4, <2>1, HeardDown
<1>5. 0 .. k \subseteq S
  <2> HIDE DEF S, k
  <2> QED BY <1>1, <1>3, <1>4, GoDown
<1>6. Heard(entries, at, k) BY <1>1, <1>5
<1> HIDE DEF k
<1> QED BY <1>1, <1>2, <1>6 DEF Heard

-----------------------------------------------------------------------------
(* The reports of a run *)

\* There is a diff, and the configuration is a document's, the arguments aside.
Configured ==
    /\ diff \in Diff
    /\ \E document \in Document \ {Malformed} :
          /\ ~FatalConfig(document) /\ ~RefusedArguments(args)
          /\ config = ResolvedConfig(document, args)
\* The packs a run may have loaded, None for none.
Packs == {None} \cup {packFile.pack : packFile \in {p \in PackFile \ {None} : LoadStarterPolicyPack(p)}}
\* The report is as the scan left it, or as policy and owners did.
IsAnalyzed == \E project \in Project : report = Analyzed(diff, config, project)
IsGoverned ==
    \E project \in Project, pack \in Packs, locations \in Location :
        report = Governed(Analyzed(diff, config, project), diff, pack, locations)

\* At every step the report is made from this run's diff and configuration.
Made ==
    /\ stage \in {"input", "config", "analyze", "policy", "write", "summary", "print", "ended"}
    /\ args \in Args
    /\ stage = "config" => diff \in Diff
    /\ stage \in {"analyze", "policy", "write", "summary", "print"} => Configured
    /\ stage \in {"input", "config", "analyze"} => report = None
    /\ stage = "policy" => IsAnalyzed
    /\ stage \in {"write", "summary", "print"} => IsGoverned
    /\ stage = "ended" => \/ report = None
                          \/ Configured /\ (IsAnalyzed \/ IsGoverned)

LEMMA MadeHolds == Spec => []Made
<1>1. Init => Made BY DEF Init, Made
<1>2. Made /\ [Next]_vars => Made'
  <2> SUFFICES ASSUME Made, [Next]_vars PROVE Made'
    OBVIOUS
  <2>1. ASSUME UNCHANGED <<args, diff, config>>, Configured PROVE Configured'
    BY <2>1 DEF Configured
  <2>2. ASSUME UNCHANGED <<diff, config, report>>
        PROVE  /\ IsAnalyzed => IsAnalyzed'
               /\ IsGoverned => IsGoverned'
    BY <2>2 DEF IsAnalyzed, IsGoverned
  <2>3. CASE ReadInput BY <2>3 DEF ReadInput, Made, Fail
  <2>4. CASE ResolveConfig
    <3>1. PICK document \in Document :
             IF FatalConfig(document) \/ RefusedArguments(args) THEN Fail /\ UNCHANGED config
             ELSE stage' = "analyze" /\ config' = ResolvedConfig(document, args) /\ UNCHANGED exit
      BY <2>4 DEF ResolveConfig
    <3>2. report' = None /\ UNCHANGED <<args, diff>> /\ diff \in Diff /\ args \in Args
      BY <2>4 DEF ResolveConfig, Made
    <3>3. CASE FatalConfig(document) \/ RefusedArguments(args) BY <3>1, <3>2, <3>3 DEF Fail, Made
    <3>4. CASE ~FatalConfig(document) /\ ~RefusedArguments(args)
      <4>1. document \in Document \ {Malformed} BY <3>4 DEF FatalConfig
      <4>2. Configured' BY <3>1, <3>2, <3>4, <4>1 DEF Configured
      <4> QED BY <3>1, <3>2, <3>4, <4>2 DEF Made
    <3> QED BY <3>3, <3>4
  <2>5. CASE Analyze
    <3>1. PICK project \in Project : report' = Analyzed(diff, config, project) BY <2>5 DEF Analyze
    <3>2. UNCHANGED <<args, diff, config>> /\ stage' = "policy" BY <2>5 DEF Analyze
    <3>3. IsAnalyzed' BY <3>1, <3>2 DEF IsAnalyzed
    <3>4. Configured' BY <2>1, <2>5, <3>2 DEF Analyze, Made
    <3> QED BY <3>2, <3>3, <3>4 DEF Made
  <2>6. CASE ApplyPolicy
    <3>1. PICK packFile \in PackFile, locations \in Location :
             IF packFile # None /\ ~LoadStarterPolicyPack(packFile)
             THEN Fail /\ UNCHANGED report
             ELSE /\ report' = Governed(report, diff, IF packFile = None THEN None ELSE packFile.pack, locations)
                  /\ stage' = "write"
                  /\ UNCHANGED exit
      BY <2>6 DEF ApplyPolicy
    <3>2. UNCHANGED <<args, diff, config>> /\ IsAnalyzed /\ Configured BY <2>6 DEF ApplyPolicy, Made
    <3>3. Configured' /\ args' \in Args BY <2>1, <3>2 DEF Made
    <3>4. CASE packFile # None /\ ~LoadStarterPolicyPack(packFile)
      <4>1. IsAnalyzed' BY <2>2, <3>1, <3>2, <3>4
      <4> QED BY <3>1, <3>3, <3>4, <4>1 DEF Fail, Made
    <3>5. CASE ~(packFile # None /\ ~LoadStarterPolicyPack(packFile))
      <4>1. (IF packFile = None THEN None ELSE packFile.pack) \in Packs BY <3>5 DEF Packs
      <4>2. PICK project \in Project : report = Analyzed(diff, config, project) BY <3>2 DEF IsAnalyzed
      <4>3. PICK pack \in Packs : report' = Governed(Analyzed(diff, config, project), diff, pack, locations)
        BY <3>1, <3>5, <4>1, <4>2
      <4>4. IsGoverned' BY <3>2, <4>3 DEF IsGoverned
      <4> QED BY <3>1, <3>3, <3>5, <4>4 DEF Made
    <3> QED BY <3>4, <3>5
  <2>7. ASSUME UNCHANGED <<args, diff, config, report>>,
               stage \in {"write", "summary", "print"}, stage' \in {"write", "summary", "print", "ended"}
        PROVE  Made'
    <3>1. Configured /\ IsGoverned BY <2>7 DEF Made
    <3>2. Configured' /\ IsGoverned' BY <2>1, <2>2, <2>7, <3>1
    <3> QED BY <2>7, <3>2 DEF Made
  <2>8. CASE WriteReportJson BY <2>7, <2>8 DEF WriteReportJson, Fail
  <2>9. CASE WriteStepSummary BY <2>7, <2>9 DEF WriteStepSummary, Fail
  <2>10. CASE Finish BY <2>7, <2>10 DEF Finish
  <2>11. CASE UNCHANGED vars
    <3>1. UNCHANGED <<stage, args, diff, config, report>> BY <2>11 DEF vars
    <3> QED BY <2>1, <2>2, <3>1 DEF Made
  <2> QED BY <2>3, <2>4, <2>5, <2>6, <2>8, <2>9, <2>10, <2>11 DEF Next
<1> QED BY <1>1, <1>2, PTL DEF Spec

\* The fields of a report.
BuiltFields == {"score", "level", "docsOnly", "settings", "rules", "files", "checks"}
ExtraFields == {"customRuleWarnings", "suppressionWarnings", "suppressedFindings",
                "configDiagnostics", "policyRuleWarnings", "packs", "requiredChecks", "saves",
                "projectChecks", "guidance", "primaryChecks"}
\* The fields of the scan that policy and guidance leave alone.
ScanFields == {"customRuleWarnings", "suppressionWarnings", "suppressedFindings"}

LEMMA ConfigIsParsed ==
    ASSUME Configured
    PROVE  IsSeq(config.customRules) /\ IsSeq(config.suppressions)
<1>1. PICK document \in Document \ {Malformed} : config = ResolvedConfig(document, args)
  BY DEF Configured
<1>2. /\ "customRules" \in DOMAIN document /\ "suppressions" \in DOMAIN document
      /\ IsSeq(document.customRules) /\ IsSeq(document.suppressions)
  BY <1>1, InputAssumption
<1>3. config.customRules = document.customRules /\ config.suppressions = document.suppressions
  BY <1>1, <1>2 DEF ResolvedConfig
<1> QED BY <1>2, <1>3

\* A rule of the project has a finding among these, or matches no file.
IsFound(rule, changes, hits) ==
    \/ MatchCustomRule(rule, changes) = {}
    \/ \E h \in ToSet(hits) : h.id = <<"custom">> \o rule.id

\* What a scan reports is of the built-in and the project's rules.
LEMMA ScanReports ==
    ASSUME NEW d, NEW c, IsSeq(c.customRules), NEW project
    PROVE  LET r == Analyzed(d, c, project)
               ruled == ApplyCustomRules(AnalyzeDiff(d, c), d, c.customRules, <<"custom">>)
           IN /\ DOMAIN r = BuiltFields \cup ExtraFields
              /\ IsSeq(r.rules) /\ r.rules = ruled.rules
              /\ r.customRuleWarnings = NormalizeCustomRules(c.customRules).warnings
              /\ r.suppressionWarnings = SuppressionWarnings(c.suppressions, Today)
              /\ r.suppressedFindings = SuppressedFindings(ruled.rules, c.suppressions, Today)
              /\ r.policyRuleWarnings = {}
              /\ \A rule \in ToSet(NormalizeCustomRules(c.customRules).rules) :
                    IsFound(rule, ParseFileChanges(d), r.rules)
<1> DEFINE r == Analyzed(d, c, project)
           built == AnalyzeDiff(d, c)
           ruled == ApplyCustomRules(built, d, c.customRules, <<"custom">>)
           extras == [customRuleWarnings |-> NormalizeCustomRules(c.customRules).warnings,
                      suppressionWarnings |-> SuppressionWarnings(c.suppressions, Today),
                      suppressedFindings |->
                          SuppressedFindings(ruled.rules, c.suppressions, Today),
                      configDiagnostics |-> ConfigDiagnostics(c),
                      policyRuleWarnings |-> {}, packs |-> <<>>, requiredChecks |-> <<>>,
                      saves |-> [status |-> "none", concerns |-> {}, checks |-> <<>>],
                      projectChecks |-> <<>>, guidance |-> None, primaryChecks |-> <<>>]
           whole == Extended(ruled, extras)
<1>1. Ruled(built) /\ DOMAIN built = BuiltFields BY BuiltIsRuled DEF BuiltFields
<1>2. /\ DOMAIN ruled = BuiltFields
      /\ IsSeq(ruled.rules)
      /\ \A rule \in ToSet(NormalizeCustomRules(c.customRules).rules) :
            \/ MatchCustomRule(rule, ParseFileChanges(d)) = {}
            \/ HitOf(rule, ParseFileChanges(d), <<"custom">>) \in ToSet(ruled.rules)
  <2>1. WithRules(built, ruled, ParseFileChanges(d), c.customRules, <<"custom">>)
    BY <1>1, RulesAreApplied
  <2> HIDE DEF built, ruled
  <2> QED BY <1>1, <2>1 DEF WithRules
<1>3. r = ApplyProjectChecks(whole, project) BY DEF Analyzed
<1>4. DOMAIN extras = ExtraFields BY DEF ExtraFields
<1>5. /\ extras.customRuleWarnings = NormalizeCustomRules(c.customRules).warnings
      /\ extras.suppressionWarnings = SuppressionWarnings(c.suppressions, Today)
      /\ extras.suppressedFindings = SuppressedFindings(ruled.rules, c.suppressions, Today)
      /\ extras.policyRuleWarnings = {}
  OBVIOUS
<1> HIDE DEF r, ruled, built, extras
<1>6. whole = [x \in BuiltFields \cup ExtraFields |-> IF x \in BuiltFields THEN ruled[x] ELSE extras[x]]
  BY <1>2, <1>4 DEF Extended
<1> HIDE DEF whole
<1>7. /\ DOMAIN whole = BuiltFields \cup ExtraFields
      /\ whole.rules = ruled.rules
      /\ whole.customRuleWarnings = extras.customRuleWarnings
      /\ whole.suppressionWarnings = extras.suppressionWarnings
      /\ whole.suppressedFindings = extras.suppressedFindings
      /\ whole.policyRuleWarnings = extras.policyRuleWarnings
  BY <1>6 DEF BuiltFields, ExtraFields
<1>8. /\ DOMAIN r = DOMAIN whole
      /\ \A f \in DOMAIN whole \ {"projectChecks", "checks"} : r[f] = whole[f]
  BY <1>3 DEF ApplyProjectChecks
<1>9. {"rules", "customRuleWarnings", "suppressionWarnings", "suppressedFindings",
       "policyRuleWarnings"} \subseteq DOMAIN whole \ {"projectChecks", "checks"}
  BY <1>7 DEF BuiltFields, ExtraFields
<1>10. /\ r.rules = ruled.rules
       /\ r.customRuleWarnings = NormalizeCustomRules(c.customRules).warnings
       /\ r.suppressionWarnings = SuppressionWarnings(c.suppressions, Today)
       /\ r.suppressedFindings = SuppressedFindings(ruled.rules, c.suppressions, Today)
       /\ r.policyRuleWarnings = {}
  BY <1>5, <1>7, <1>8, <1>9
<1>11. \A rule : HitOf(rule, ParseFileChanges(d), <<"custom">>).id = <<"custom">> \o rule.id
  BY DEF HitOf, RuleHit
<1>12. \A rule \in ToSet(NormalizeCustomRules(c.customRules).rules) :
          IsFound(rule, ParseFileChanges(d), ruled.rules)
  BY <1>2, <1>11 DEF IsFound
<1> QED BY <1>2, <1>7, <1>8, <1>10, <1>12 DEF r, ruled, built

\* A report says of its diff and configuration what a scan does; policy adds to it.
SaysAsScanned(r, a) ==
    /\ \A f \in ScanFields : r[f] = a[f]
    /\ r.policyRuleWarnings = {}
    /\ ToSet(a.rules) \subseteq ToSet(r.rules)
    /\ \A h \in ToSet(r.rules) \ ToSet(a.rules) : h.id[1] = "policy"

\* Policy and guidance keep the findings, add only a policy's, and, where the pack was
\* accepted, warn of none of its rules.
LEMMA PolicyReports ==
    ASSUME NEW a, DOMAIN a = BuiltFields \cup ExtraFields, IsSeq(a.rules), a.policyRuleWarnings = {},
           NEW d, NEW pack \in Packs, NEW locations
    PROVE  /\ SaysAsScanned(Governed(a, d, pack, locations), a)
           /\ \E entries : Governed(a, d, pack, locations).guidance.codeOwners
                             = MatchCodeOwners(Files(d), entries)
<1> DEFINE r == Governed(a, d, pack, locations)
           policed == IF pack = None THEN a ELSE ApplyPolicyPack(a, d, pack)
           guidance == InspectReviewGuidance(d, IF pack = None THEN {} ELSE {pack}, locations)
           guided == [policed EXCEPT !.guidance = guidance]
           Kept == ScanFields \cup {"policyRuleWarnings", "rules"}
<1>1. /\ Kept \cup {"guidance", "primaryChecks"} \subseteq DOMAIN a
      /\ Touched \cup {"level", "settings"} \subseteq DOMAIN a
      /\ {"packs", "requiredChecks", "saves"} \subseteq DOMAIN a
  BY DEF BuiltFields, ExtraFields, ScanFields, Touched
<1>2. /\ DOMAIN policed = DOMAIN a
      /\ \A f \in ScanFields : policed[f] = a[f]
      /\ policed.policyRuleWarnings = {}
      /\ ToSet(a.rules) \subseteq ToSet(policed.rules)
      /\ \A h \in ToSet(policed.rules) \ ToSet(a.rules) : h.id[1] = "policy"
  <2>1. CASE pack = None BY <2>1
  <2>2. CASE pack # None
    <3> DEFINE prefix == <<"policy", pack.id>>
               ruled == ApplyCustomRules(a, d, pack.rules, prefix)
    <3>1. PICK packFile \in PackFile \ {None} : LoadStarterPolicyPack(packFile) /\ pack = packFile.pack
      BY <2>2 DEF Packs
    <3>2. ~FatalRules(pack.rules) BY <3>1 DEF LoadStarterPolicyPack, ValidatePolicyPack
    <3>3. /\ IsSeq(pack.rules)
          /\ \A rule \in ToSet(pack.rules) : IsSeq(rule.id)
      BY <3>1, InputAssumption
    <3>4. NormalizeCustomRules(pack.rules).warnings = {} BY <3>2, <3>3, CandidatesAreSifted
    <3>5. Ruled(a) BY <1>1 DEF Ruled, Touched
    <3>6. /\ DOMAIN ruled = DOMAIN a
          /\ \A f \in DOMAIN a \ (Touched \cup {"level"}) : ruled[f] = a[f]
          /\ ToSet(a.rules) \subseteq ToSet(ruled.rules)
          /\ \A h \in ToSet(ruled.rules) \ ToSet(a.rules) :
                \E rule \in ToSet(pack.rules) : h = HitOf(rule, ParseFileChanges(d), prefix)
      <4>1. WithRules(a, ruled, ParseFileChanges(d), pack.rules, prefix)
        BY <3>3, <3>5, RulesAreApplied
      <4> HIDE DEF ruled, prefix
      <4> QED BY <4>1 DEF WithRules
    <3>7. ASSUME NEW rule \in ToSet(pack.rules)
          PROVE  HitOf(rule, ParseFileChanges(d), prefix).id[1] = "policy"
      <4>1. IsSeq(rule.id) BY <3>3
      <4>2. HitOf(rule, ParseFileChanges(d), prefix).id = prefix \o rule.id BY DEF HitOf, RuleHit
      <4>3. PICK X : rule.id \in Seq(X) BY <4>1 DEF IsSeq
      <4>4. prefix \in Seq({"policy", pack.id}) /\ Len(prefix) = 2 /\ prefix[1] = "policy" OBVIOUS
      <4> DEFINE id == rule.id  Y == X \cup {"policy", pack.id}
      <4> HIDE DEF prefix, id, Y
      <4>5. prefix \in Seq(Y) /\ id \in Seq(Y) BY <4>3, <4>4 DEF id, Y
      <4>6. Len(id) \in Nat BY <4>5
      <4>7. 1 \in 1 .. Len(prefix) + Len(id) BY <4>4, <4>6
      <4>8. (prefix \o id)[1] = prefix[1] BY <4>4, <4>5, <4>7, ConcatProperties
      <4> QED BY <4>2, <4>4, <4>8 DEF id
    <3>8. \A h \in ToSet(ruled.rules) \ ToSet(a.rules) : h.id[1] = "policy" BY <3>6, <3>7
    <3>9. /\ DOMAIN policed = DOMAIN ruled
          /\ \A f \in DOMAIN ruled \ {"packs", "policyRuleWarnings", "requiredChecks", "saves", "checks"} :
                policed[f] = ruled[f]
          /\ policed.policyRuleWarnings = NormalizeCustomRules(pack.rules).warnings
      <4>1. "policyRuleWarnings" \in DOMAIN ruled BY <1>1, <3>6
      <4>2. policed = ApplyPolicyPack(a, d, pack) BY <2>2
      <4> HIDE DEF policed
      <4> QED BY <4>1, <4>2 DEF ApplyPolicyPack
    <3>10. ScanFields \subseteq DOMAIN a \ (Touched \cup {"level"})
      BY <1>1 DEF ScanFields, Touched
    <3>11. ScanFields \cup {"rules"} \subseteq
             DOMAIN ruled \ {"packs", "policyRuleWarnings", "requiredChecks", "saves", "checks"}
      BY <1>1, <3>6 DEF ScanFields
    <3> HIDE DEF policed, ruled
    <3>12. policed.rules = ruled.rules BY <3>9, <3>11
    <3>13. \A f \in ScanFields : policed[f] = a[f] BY <3>6, <3>9, <3>10, <3>11
    <3> QED BY <3>4, <3>6, <3>8, <3>9, <3>12, <3>13
  <2> QED BY <2>1, <2>2
<1>3. r = [guided EXCEPT !.primaryChecks = SelectPrimaryChecks(guided)] BY DEF Governed
<1> HIDE DEF policed, guidance
<1>4. /\ DOMAIN guided = DOMAIN a /\ guided.guidance = guidance
      /\ \A f \in DOMAIN a \ {"guidance"} : guided[f] = policed[f]
  BY <1>1, <1>2
<1> HIDE DEF guided, r
<1>5. /\ \A f \in DOMAIN a \ {"guidance", "primaryChecks"} : r[f] = policed[f]
      /\ r.guidance = guidance
  <2>1. "guidance" \in DOMAIN guided BY <1>1, <1>4
  <2> QED BY <1>3, <1>4, <2>1
<1>6. Kept \subseteq DOMAIN a \ {"guidance", "primaryChecks"} BY <1>1 DEF ScanFields
<1>7. \E entries : guidance.codeOwners = MatchCodeOwners(Files(d), entries)
  <2>1. {c.path : c \in ToSet(d)} = Files(d) BY DEF Files, ToSet
  <2>2. guidance.codeOwners = MatchCodeOwners({c.path : c \in ToSet(d)}, FindCodeOwners(locations).entries)
    BY DEF guidance, InspectReviewGuidance
  <2> QED BY <2>1, <2>2
<1>8. r.rules = policed.rules BY <1>5, <1>6
<1>9. r.policyRuleWarnings = {} BY <1>2, <1>5, <1>6
<1>10. \A f \in ScanFields : r[f] = a[f] BY <1>2, <1>5, <1>6
<1> QED BY <1>2, <1>5, <1>7, <1>8, <1>9, <1>10 DEF SaysAsScanned, r

LEMMA ReportIsScanned ==
    ASSUME Made, report # None
    PROVE  /\ IsSeq(config.customRules) /\ IsSeq(config.suppressions)
           /\ \E project : SaysAsScanned(report, Analyzed(diff, config, project))
<1>1. Configured /\ (IsAnalyzed \/ IsGoverned) BY DEF Made
<1>2. IsSeq(config.customRules) /\ IsSeq(config.suppressions) BY <1>1, ConfigIsParsed
<1>3. \A project : LET a == Analyzed(diff, config, project)
                   IN /\ DOMAIN a = BuiltFields \cup ExtraFields /\ IsSeq(a.rules)
                      /\ a.policyRuleWarnings = {}
  BY <1>2, ScanReports
<1>4. CASE IsAnalyzed
  <2>1. PICK project \in Project : report = Analyzed(diff, config, project) BY <1>4 DEF IsAnalyzed
  <2>2. SaysAsScanned(report, Analyzed(diff, config, project)) BY <1>3, <2>1 DEF SaysAsScanned
  <2> QED BY <1>2, <2>2
<1>5. CASE IsGoverned
  <2>1. PICK project \in Project, pack \in Packs, locations \in Location :
           report = Governed(Analyzed(diff, config, project), diff, pack, locations)
    BY <1>5 DEF IsGoverned
  <2> DEFINE a == Analyzed(diff, config, project)
  <2>2. DOMAIN a = BuiltFields \cup ExtraFields /\ IsSeq(a.rules) /\ a.policyRuleWarnings = {}
    BY <1>3
  <2>3. report = Governed(a, diff, pack, locations) BY <2>1
  <2> HIDE DEF a
  <2>4. SaysAsScanned(report, a) BY <2>2, <2>3, PolicyReports
  <2> QED BY <1>2, <2>4 DEF a
<1> QED BY <1>1, <1>4, <1>5

LEMMA JustifiedThen ==
    ASSUME Made
    PROVE  SuppressedIsJustified
<1> SUFFICES ASSUME report # None PROVE SuppressedIsJustified
  BY DEF SuppressedIsJustified
<1> DEFINE entries == config.suppressions
           heard == NormalizeSuppressions(entries)
           ruled == ApplyCustomRules(AnalyzeDiff(diff, config), diff, config.customRules, <<"custom">>)
<1>1. IsSeq(config.customRules) /\ IsSeq(config.suppressions) BY ReportIsScanned
<1>2. PICK project : SaysAsScanned(report, Analyzed(diff, config, project)) BY ReportIsScanned
<1> DEFINE a == Analyzed(diff, config, project)
<1>3. /\ a.rules = ruled.rules
      /\ a.suppressionWarnings = SuppressionWarnings(entries, Today)
      /\ a.suppressedFindings = SuppressedFindings(ruled.rules, entries, Today)
  BY <1>1, ScanReports
<1>4. SaysAsScanned(report, a) BY <1>2
<1> HIDE DEF a, ruled
<1>5. /\ report.suppressionWarnings = SuppressionWarnings(entries, Today)
      /\ report.suppressedFindings = SuppressedFindings(a.rules, entries, Today)
      /\ ToSet(a.rules) \subseteq ToSet(report.rules)
      /\ \A h \in ToSet(report.rules) \ ToSet(a.rules) : h.id[1] = "policy"
  BY <1>3, <1>4 DEF SaysAsScanned, ScanFields
<1>6. /\ heard.kept \subseteq DOMAIN entries
      /\ \A i \in heard.kept : Usable(entries[i])
      /\ \A i \in heard.kept : ~entries[i].real => i \in heard.warnings
      /\ \A i \in DOMAIN entries \ heard.kept :
            Usable(entries[i]) =>
                /\ i \in heard.warnings
                /\ \E j \in 1 .. (i - 1) : Usable(entries[j]) /\ Alike(entries[j], entries[i])
  BY <1>1, EntriesAreHeard
<1> HIDE DEF heard
<1>7. report.suppressedFindings =
        {f \in ToSet(a.rules) \X {entries[i] : i \in heard.kept} :
            f[2].expires >= Today /\ Suppresses(f[2], f[1])}
  BY <1>5 DEF SuppressedFindings, heard
<1>8. heard.warnings \subseteq report.suppressionWarnings
  BY <1>5 DEF SuppressionWarnings, heard
<1> HIDE DEF entries
<1>9. ASSUME NEW f \in report.suppressedFindings
      PROVE  /\ f[1] \in ToSet(report.rules) /\ f[2] \in ToSet(entries)
             /\ Usable(f[2]) /\ f[2].expires >= Today /\ Suppresses(f[2], f[1])
             /\ ~f[2].real => \E i \in report.suppressionWarnings :
                                i \in DOMAIN entries /\ entries[i] = f[2]
  <2>1. /\ f \in ToSet(a.rules) \X {entries[i] : i \in heard.kept}
        /\ f[2].expires >= Today /\ Suppresses(f[2], f[1])
    BY <1>7
  <2>2. f[1] \in ToSet(a.rules) /\ f[2] \in {entries[i] : i \in heard.kept} BY <2>1
  <2>3. PICK i \in heard.kept : f[2] = entries[i] BY <2>2
  <2>4. i \in DOMAIN entries /\ (~entries[i].real => i \in report.suppressionWarnings)
    BY <1>6, <1>8, <2>3
  <2> QED BY <1>5, <1>6, <2>1, <2>2, <2>3, <2>4 DEF ToSet
<1>10. ASSUME NEW i \in DOMAIN entries, NEW h \in ToSet(report.rules),
              Usable(entries[i]), entries[i].expires >= Today, Suppresses(entries[i], h),
              h.id[1] # "policy"
       PROVE  \/ <<h, entries[i]>> \in report.suppressedFindings
              \/ i \in report.suppressionWarnings
                 /\ \E j \in 1..(i - 1) : Usable(entries[j]) /\ Alike(entries[j], entries[i])
  <2>1. h \in ToSet(a.rules) BY <1>5, <1>10
  <2>2. CASE i \in heard.kept
    <3>1. <<h, entries[i]>> \in ToSet(a.rules) \X {entries[k] : k \in heard.kept} BY <2>1, <2>2
    <3> QED BY <1>7, <1>10, <3>1
  <2>3. CASE i \notin heard.kept BY <1>6, <1>8, <1>10, <2>3
  <2> QED BY <2>2, <2>3
<1> QED BY <1>9, <1>10 DEF SuppressedIsJustified, Usable, Alike, entries

\* A finding is listed as suppressed for an entry in force about it, and an entry in force
\* is passed over only for an earlier one like it (suppressions.js).
THEOREM SuppressedStaysJustified == Spec => []SuppressedIsJustified
BY MadeHolds, JustifiedThen, PTL

-----------------------------------------------------------------------------
(* What a run leaves aside *)

\* A path has owners, none, or no line.
LEMMA PathsAreShared ==
    ASSUME NEW paths, NEW entries
    PROVE  LET owners == MatchCodeOwners(paths, entries)
               suggested == {s[1] : s \in owners.suggestions}
           IN /\ paths = suggested \cup owners.unowned \cup owners.unmatched
              /\ suggested \cap (owners.unowned \cup owners.unmatched) = {}
              /\ owners.unowned \cap owners.unmatched = {}
<1> DEFINE Deciding(p) == SelectLastInSeq(entries, LAMBDA e : p \in e.pattern)
           Owners(p) == entries[Deciding(p)].owners
           owners == MatchCodeOwners(paths, entries)
           suggestions == {<<p, Owners(p)>> : p \in {q \in paths : Deciding(q) # 0 /\ Owners(q) # {}}}
           suggested == {s[1] : s \in suggestions}
           unowned == {p \in paths : Deciding(p) # 0 /\ Owners(p) = {}}
           unmatched == {p \in paths : Deciding(p) = 0}
<1>1. owners = [suggestions |-> suggestions, unowned |-> unowned, unmatched |-> unmatched]
  BY DEF MatchCodeOwners
<1> HIDE DEF Deciding, Owners
<1>2. suggested = {q \in paths : Deciding(q) # 0 /\ Owners(q) # {}}
  <2>1. ASSUME NEW q \in paths, Deciding(q) # 0, Owners(q) # {}
        PROVE  q \in suggested
    <3>1. <<q, Owners(q)>> \in suggestions BY <2>1
    <3>2. <<q, Owners(q)>>[1] = q OBVIOUS
    <3> HIDE DEF suggestions
    <3> QED BY <3>1, <3>2
  <2>2. ASSUME NEW s \in suggestions
        PROVE  s[1] \in {q \in paths : Deciding(q) # 0 /\ Owners(q) # {}}
    <3>1. PICK p \in {q \in paths : Deciding(q) # 0 /\ Owners(q) # {}} : s = <<p, Owners(p)>>
      OBVIOUS
    <3> QED BY <3>1
  <2> HIDE DEF suggestions
  <2> QED BY <2>1, <2>2
<1>3. owners.suggestions = suggestions /\ owners.unowned = unowned /\ owners.unmatched = unmatched
  BY <1>1
<1> HIDE DEF owners, suggestions
<1>4. /\ paths = suggested \cup unowned \cup unmatched
      /\ suggested \cap (unowned \cup unmatched) = {}
      /\ unowned \cap unmatched = {}
  BY <1>2
<1> QED BY <1>3, <1>4 DEF owners

\* A finding is annotated or listed as not.
LEMMA FindingsAreShown ==
    ASSUME NEW r, NEW d, NEW h \in ToSet(r.rules)
    PROVE  LET bundle == CreateAnnotationBundle(r, d)
           IN \E found \in bundle.annotations \cup bundle.unsupported : found[1] = h.id
<1> DEFINE Found(g) == {<<g.id, p>> : p \in CandidatePaths(g, r)}
           found == UNION {Found(g) : g \in ToSet(r.rules)}
           nowhere == {g.id : g \in {f \in ToSet(r.rules) : CandidatePaths(f, r) = {}}}
           shown == {f \in found : f[2] \in Anchored(d)}
           hidden == {f \in found : f[2] \notin Anchored(d)} \cup {<<id, None>> : id \in nowhere}
           bundle == CreateAnnotationBundle(r, d)
<1>1. bundle = [annotations |-> shown, unsupported |-> hidden] BY DEF CreateAnnotationBundle
<1>2. CASE CandidatePaths(h, r) = {}
  <2>1. h.id \in nowhere BY <1>2
  <2>2. <<h.id, None>> \in hidden BY <2>1
  <2> HIDE DEF hidden, shown, bundle
  <2>3. <<h.id, None>> \in bundle.annotations \cup bundle.unsupported BY <1>1, <2>2
  <2>4. <<h.id, None>>[1] = h.id OBVIOUS
  <2> QED BY <2>3, <2>4 DEF bundle
<1>3. CASE CandidatePaths(h, r) # {}
  <2>1. PICK p \in CandidatePaths(h, r) : TRUE BY <1>3
  <2>2. <<h.id, p>> \in Found(h) OBVIOUS
  <2> HIDE DEF Found
  <2>3. <<h.id, p>> \in found BY <2>2
  <2>4. <<h.id, p>>[1] = h.id OBVIOUS
  <2> HIDE DEF found, nowhere
  <2>5. <<h.id, p>> \in shown \cup hidden BY <2>3
  <2> HIDE DEF hidden, shown, bundle
  <2>6. <<h.id, p>> \in bundle.annotations \cup bundle.unsupported BY <1>1, <2>5
  <2> QED BY <2>4, <2>6 DEF bundle
<1> QED BY <1>2, <1>3

LEMMA NothingDroppedThen ==
    ASSUME Made
    PROVE  NothingIsDropped
<1> DEFINE applied == NormalizeCustomRules(config.customRules).rules
           owners == report.guidance.codeOwners
           bundle == CreateAnnotationBundle(report, diff)
           suggested == {s[1] : s \in owners.suggestions}
<1>1. ASSUME report # None
      PROVE  /\ Len(applied) + Cardinality(report.customRuleWarnings) = Len(config.customRules)
             /\ IsInjective([i \in DOMAIN applied |-> applied[i].id])
             /\ \A r \in ToSet(applied) :
                   \/ MatchCustomRule(r, ParseFileChanges(diff)) = {}
                   \/ \E h \in ToSet(report.rules) : h.id = <<"custom">> \o r.id
  <2>1. IsSeq(config.customRules) BY <1>1, ReportIsScanned
  <2>2. PICK project : SaysAsScanned(report, Analyzed(diff, config, project)) BY <1>1, ReportIsScanned
  <2> DEFINE a == Analyzed(diff, config, project)
  <2>3. a.customRuleWarnings = NormalizeCustomRules(config.customRules).warnings BY <2>1, ScanReports
  <2>4. \A r \in ToSet(applied) : IsFound(r, ParseFileChanges(diff), a.rules)
    BY <2>1, ScanReports
  <2>5. SaysAsScanned(report, a) BY <2>2
  <2>6. /\ applied \in Seq(ToSet(config.customRules))
        /\ Len(applied) + Cardinality(NormalizeCustomRules(config.customRules).warnings)
           = Len(config.customRules)
        /\ \A i, j \in 1 .. Len(applied) : applied[i].id = applied[j].id => i = j
    BY <2>1, CandidatesAreSifted
  <2> HIDE DEF a, applied
  <2>7. /\ report.customRuleWarnings = a.customRuleWarnings
        /\ ToSet(a.rules) \subseteq ToSet(report.rules)
    BY <2>5 DEF SaysAsScanned, ScanFields
  <2>8. DOMAIN applied = 1 .. Len(applied) BY <2>6
  <2>9. IsInjective([i \in DOMAIN applied |-> applied[i].id]) BY <2>6, <2>8 DEF IsInjective
  <2> QED BY <2>3, <2>4, <2>6, <2>7, <2>9 DEF IsFound
<1>2. ASSUME stage \in {"write", "summary", "print"}
      PROVE  /\ report.policyRuleWarnings = {}
             /\ Files(diff) = suggested \cup owners.unowned \cup owners.unmatched
             /\ suggested \cap (owners.unowned \cup owners.unmatched) = {}
             /\ owners.unowned \cap owners.unmatched = {}
             /\ \A h \in ToSet(report.rules) :
                   \E found \in bundle.annotations \cup bundle.unsupported : found[1] = h.id
  <2>1. Configured /\ IsGoverned BY <1>2 DEF Made
  <2>2. PICK project \in Project, pack \in Packs, locations \in Location :
           report = Governed(Analyzed(diff, config, project), diff, pack, locations)
    BY <2>1 DEF IsGoverned
  <2> DEFINE a == Analyzed(diff, config, project)
  <2>3. IsSeq(config.customRules) BY <2>1, ConfigIsParsed
  <2>4. DOMAIN a = BuiltFields \cup ExtraFields /\ IsSeq(a.rules) /\ a.policyRuleWarnings = {}
    BY <2>3, ScanReports
  <2>5. report = Governed(a, diff, pack, locations) BY <2>2
  <2> HIDE DEF a
  <2>6. /\ report.policyRuleWarnings = {}
        /\ \E entries : owners = MatchCodeOwners(Files(diff), entries)
    <3>1. SaysAsScanned(report, a) BY <2>4, <2>5, PolicyReports
    <3>2. \E entries : Governed(a, diff, pack, locations).guidance.codeOwners
                       = MatchCodeOwners(Files(diff), entries)
      BY <2>4, PolicyReports
    <3> QED BY <2>5, <3>1, <3>2 DEF SaysAsScanned
  <2>7. PICK entries : owners = MatchCodeOwners(Files(diff), entries) BY <2>6
  <2>8. /\ Files(diff) = suggested \cup owners.unowned \cup owners.unmatched
        /\ suggested \cap (owners.unowned \cup owners.unmatched) = {}
        /\ owners.unowned \cap owners.unmatched = {}
    BY <2>7, PathsAreShared
  <2>9. \A h \in ToSet(report.rules) :
           \E found \in bundle.annotations \cup bundle.unsupported : found[1] = h.id
    BY FindingsAreShown
  <2> QED BY <2>6, <2>8, <2>9
<1> HIDE DEF applied, suggested, owners, bundle
<1>3. report # None =>
        /\ Len(applied) + Cardinality(report.customRuleWarnings) = Len(config.customRules)
        /\ IsInjective([i \in DOMAIN applied |-> applied[i].id])
        /\ \A r \in ToSet(applied) :
              \/ MatchCustomRule(r, ParseFileChanges(diff)) = {}
              \/ \E h \in ToSet(report.rules) : h.id = <<"custom">> \o r.id
  BY <1>1
<1> QED BY <1>2, <1>3 DEF NothingIsDropped, applied, suggested, owners, bundle

\* Every rule of the project is applied or warned of, every rule of an accepted pack is
\* applied, every finding is shown or listed as not, and every path's owners are said
\* (customRules.js, policyPacks.js, githubReviewOutputs.js, reviewGuidance.js).
THEOREM NothingStaysUnsaid == Spec => []NothingIsDropped
BY MadeHolds, NothingDroppedThen, PTL

-----------------------------------------------------------------------------
(* The score of a list of rules *)

\* Where the elements of two lists are, one after the other.
LEMMA OneAfterTheOther ==
    ASSUME NEW a \in Seq(Int), NEW b \in Seq(Int)
    PROVE  /\ a \o b \in Seq(Int) /\ Len(a \o b) = Len(a) + Len(b)
           /\ \A i \in 1 .. Len(a) : (a \o b)[i] = a[i]
           /\ \A i \in 1 .. Len(b) : (a \o b)[Len(a) + i] = b[i]
OBVIOUS

\* Numbers that are those of two lists, one after the other.
LEMMA TotalOfJoined ==
    ASSUME NEW k \in Nat, NEW m \in Nat, NEW a \in [1 .. k -> Int], NEW b \in [1 .. m -> Int],
           NEW c \in [1 .. k + m -> Int],
           \A i \in 1 .. k + m : c[i] = IF i <= k THEN a[i] ELSE b[i - k]
    PROVE  Total(a) \in Int /\ Total(b) \in Int /\ Total(c) = Total(a) + Total(b)
<1>1. /\ a \in Seq(Int) /\ b \in Seq(Int) /\ Len(a) = k /\ Len(b) = m
      /\ DOMAIN a = 1 .. k /\ DOMAIN b = 1 .. m
  OBVIOUS
<1> DEFINE d == a \o b
<1>2. /\ d \in Seq(Int) /\ Len(d) = k + m
      /\ \A i \in 1 .. k : d[i] = a[i]
      /\ \A i \in 1 .. m : d[k + i] = b[i]
  BY <1>1, OneAfterTheOther
<1> HIDE DEF d
<1>3. c = d
  <2>1. d \in [1 .. k + m -> Int] BY <1>2
  <2>2. ASSUME NEW i \in 1 .. k + m PROVE c[i] = d[i]
    <3>1. CASE i \in 1 .. k BY <1>2, <3>1
    <3>2. CASE i \notin 1 .. k
      <4>1. i - k \in 1 .. m /\ k + (i - k) = i /\ ~(i <= k) BY <3>2
      <4> QED BY <1>2, <4>1
    <3> QED BY <3>1, <3>2
  <2> QED BY <2>1, <2>2
<1> QED BY <1>1, <1>3, TotalOfBoth DEF d

\* One number more.
LEMMA TotalOfMore ==
    ASSUME NEW k \in Nat, NEW a \in [1 .. k -> Int], NEW x \in Int,
           NEW c \in [1 .. k + 1 -> Int],
           \A i \in 1 .. k : c[i] = a[i], c[k + 1] = x
    PROVE  Total(a) \in Int /\ Total(c) = Total(a) + x
<1>1. <<x>> \in [1 .. 1 -> Int] OBVIOUS
<1>2. \A i \in 1 .. k + 1 : c[i] = IF i <= k THEN a[i] ELSE <<x>>[i - k]
  <2> SUFFICES ASSUME NEW i \in 1 .. k + 1 PROVE c[i] = IF i <= k THEN a[i] ELSE <<x>>[i - k]
    OBVIOUS
  <2>1. CASE i \in 1 .. k BY <2>1
  <2>2. CASE i = k + 1
    <3>1. i - k = 1 /\ ~(i <= k) BY <2>2
    <3>2. <<x>>[i - k] = x BY <3>1
    <3> QED BY <2>2, <3>1, <3>2
  <2> QED BY <2>1, <2>2
<1> DEFINE b == <<x>>
<1>3. 1 \in Nat /\ b \in [1 .. 1 -> Int] /\ Total(b) = x BY <1>1, TotalOfOne
<1>4. \A i \in 1 .. k + 1 : c[i] = IF i <= k THEN a[i] ELSE b[i - k] BY <1>2
<1> HIDE DEF b
<1> QED BY <1>3, <1>4, TotalOfJoined

\* The hits of a list, each with a weight.
Weighed(hits) == IsSeq(hits) /\ \A h \in ToSet(hits) : h.weight \in Int
Marked(hits) == \E h \in ToSet(hits) : h.id = <<"configured-high-risk-path">>

\* Lists of hits are lists.
LEMMA ListOfHits ==
    ASSUME NEW hits, IsSeq(hits)
    PROVE  /\ Len(hits) \in Nat /\ DOMAIN hits = 1 .. Len(hits)
           /\ \A i \in 1 .. Len(hits) : hits[i] \in ToSet(hits)
           /\ \A h \in ToSet(hits) : \E i \in 1 .. Len(hits) : h = hits[i]
BY DEF IsSeq, ToSet

\* What a list of two holds.
LEMMA JoinedHits ==
    ASSUME NEW s, NEW t, IsSeq(s), IsSeq(t)
    PROVE  /\ IsSeq(s \o t) /\ DOMAIN (s \o t) = 1 .. Len(s) + Len(t)
           /\ ToSet(s \o t) = ToSet(s) \cup ToSet(t)
           /\ \A i \in 1 .. Len(s) + Len(t) :
                 (s \o t)[i] = IF i <= Len(s) THEN s[i] ELSE t[i - Len(s)]
<1> DEFINE k == Len(s)  m == Len(t)  u == s \o t  Y == ToSet(s)  Z == ToSet(t)
<1>1. IsSeq(u) BY BothAreLists
<1>2. /\ k \in Nat /\ DOMAIN s = 1 .. k /\ \A i \in 1 .. k : s[i] \in Y
      /\ m \in Nat /\ DOMAIN t = 1 .. m /\ \A i \in 1 .. m : t[i] \in Z
      /\ \A h \in Y : \E i \in 1 .. k : h = s[i]
      /\ \A h \in Z : \E i \in 1 .. m : h = t[i]
  BY ListOfHits
<1>3. s \in Seq(Y \cup Z) /\ t \in Seq(Y \cup Z)
  <2>1. s \in Seq(Y) /\ t \in Seq(Z) BY DEF IsSeq
  <2> HIDE DEF Y, Z
  <2> QED BY <2>1
<1>4. Len(u) = k + m /\ \A i \in 1 .. k + m : u[i] = IF i <= k THEN s[i] ELSE t[i - k]
  BY <1>3, ConcatProperties
<1>5. DOMAIN u = 1 .. k + m BY <1>1, <1>4 DEF IsSeq
<1> HIDE DEF k, m, u, Y, Z
<1>6. \A i \in DOMAIN u : u[i] \in Y \cup Z
  <2>1. \A i \in 1 .. k + m : i \in 1 .. k \/ (~(i <= k) /\ i - k \in 1 .. m) BY <1>2
  <2> QED BY <1>2, <1>4, <1>5, <2>1
<1>7. \A h \in Y : \E i \in DOMAIN u : h = u[i]
  <2>1. \A i \in 1 .. k : i \in 1 .. k + m /\ i <= k BY <1>2
  <2> QED BY <1>2, <1>4, <1>5, <2>1
<1>8. \A h \in Z : \E i \in DOMAIN u : h = u[i]
  <2> SUFFICES ASSUME NEW i \in 1 .. m PROVE \E j \in DOMAIN u : t[i] = u[j]
    BY <1>2
  <2>1. k + i \in 1 .. k + m /\ ~(k + i <= k) /\ (k + i) - k = i BY <1>2
  <2>2. u[k + i] = t[i] BY <1>4, <2>1
  <2> QED BY <1>5, <2>1, <2>2
<1>9. ToSet(u) = Y \cup Z BY <1>6, <1>7, <1>8 DEF ToSet
<1> QED BY <1>1, <1>4, <1>5, <1>9 DEF k, m, u, Y, Z

\* The weights of two lists.
LEMMA WeightOfBoth ==
    ASSUME NEW s, NEW t, Weighed(s), Weighed(t)
    PROVE  Weighed(s \o t) /\ Weight(s) \in Int /\ Weight(t) \in Int
           /\ Weight(s \o t) = Weight(s) + Weight(t)
<1> DEFINE a == [i \in DOMAIN s |-> s[i].weight]
           b == [i \in DOMAIN t |-> t[i].weight]
           u == s \o t
           c == [i \in DOMAIN u |-> u[i].weight]
<1>1. /\ Len(s) \in Nat /\ DOMAIN s = 1 .. Len(s) /\ \A i \in 1 .. Len(s) : s[i] \in ToSet(s)
      /\ Len(t) \in Nat /\ DOMAIN t = 1 .. Len(t) /\ \A i \in 1 .. Len(t) : t[i] \in ToSet(t)
  BY ListOfHits DEF Weighed
<1>2. /\ IsSeq(u) /\ DOMAIN u = 1 .. Len(s) + Len(t) /\ ToSet(u) = ToSet(s) \cup ToSet(t)
      /\ \A i \in 1 .. Len(s) + Len(t) : u[i] = IF i <= Len(s) THEN s[i] ELSE t[i - Len(s)]
  BY JoinedHits DEF Weighed
<1>3. a \in [1 .. Len(s) -> Int] /\ b \in [1 .. Len(t) -> Int] BY <1>1 DEF Weighed
<1> DEFINE k == Len(s)  m == Len(t)
<1>4. /\ c \in [1 .. k + m -> Int]
      /\ \A i \in 1 .. k + m : c[i] = IF i <= k THEN a[i] ELSE b[i - k]
  <2>1. /\ k \in Nat /\ m \in Nat /\ DOMAIN s = 1 .. k /\ DOMAIN t = 1 .. m
        /\ DOMAIN u = 1 .. k + m
        /\ \A i \in 1 .. k + m : u[i] = IF i <= k THEN s[i] ELSE t[i - k]
        /\ \A i \in 1 .. k : s[i].weight \in Int
        /\ \A i \in 1 .. m : t[i].weight \in Int
    BY <1>1, <1>2 DEF Weighed
  <2>2. \A i \in 1 .. k + m : i \in 1 .. k \/ (~(i <= k) /\ i - k \in 1 .. m) BY <2>1
  <2> HIDE DEF u, k, m
  <2> QED BY <2>1, <2>2
<1>5. Total(a) \in Int /\ Total(b) \in Int /\ Total(c) = Total(a) + Total(b)
  <2>1. k \in Nat /\ m \in Nat /\ a \in [1 .. k -> Int] /\ b \in [1 .. m -> Int] BY <1>1, <1>3
  <2> HIDE DEF a, b, c, k, m
  <2> QED BY <1>4, <2>1, TotalOfJoined
<1>6. Weight(s) = Total(a) /\ Weight(t) = Total(b) /\ Weight(u) = Total(c) BY DEF Weight
<1>7. Weighed(u) BY <1>2 DEF Weighed
<1> QED BY <1>5, <1>6, <1>7

\* The weight of a single hit.
LEMMA WeightOfOne ==
    ASSUME NEW h, h.weight \in Int
    PROVE  /\ Weighed(<<h>>) /\ Weight(<<h>>) = h.weight /\ ToSet(<<h>>) = {h}
           /\ Weighed(<<>>) /\ Weight(<<>>) = 0 /\ ToSet(<<>>) = {}
<1>1. IsSeq(<<h>>) /\ IsSeq(<<>>) BY OneIsAList
<1>2. ToSet(<<h>>) = {h} /\ ToSet(<<>>) = {} BY DEF ToSet
<1>3. [i \in DOMAIN <<h>> |-> <<h>>[i].weight] = <<h.weight>> OBVIOUS
<1>4. [i \in DOMAIN <<>> |-> <<>>[i].weight] = <<>> OBVIOUS
<1> QED BY <1>1, <1>2, <1>3, <1>4, TotalOfOne DEF Weighed, Weight

\* Rules that are all built in add up to their weight, capped.
LEMMA TallyOfBuilt ==
    ASSUME NEW hits, Weighed(hits), \A h \in ToSet(hits) : IsBuiltIn(h), NEW docs
    PROVE  Tally(hits, docs) = Capped(Weight(hits), docs, Marked(hits))
<1> DEFINE built == [i \in DOMAIN hits |-> IF IsBuiltIn(hits[i]) THEN hits[i].weight ELSE 0]
           added == [i \in DOMAIN hits |-> IF IsBuiltIn(hits[i]) THEN 0 ELSE hits[i].weight]
           weights == [i \in DOMAIN hits |-> hits[i].weight]
<1>1. /\ Len(hits) \in Nat /\ DOMAIN hits = 1 .. Len(hits)
      /\ \A i \in DOMAIN hits : IsBuiltIn(hits[i])
  BY ListOfHits DEF Weighed
<1>2. built = weights BY <1>1
<1>3. Total(added) = 0
  <2>1. Len(added) = Len(hits) /\ \A n \in 1 .. Len(added) : added[n] = 0 BY <1>1
  <2> HIDE DEF added
  <2> QED BY <1>1, <2>1, TotalOfZeros
<1>4. Weight(hits) \in Int /\ Weight(hits) = Total(weights) BY WeightOfBoth DEF Weight
<1>5. Tally(hits, docs) = Capped(Total(built), docs, Marked(hits)) + Total(added)
  BY DEF Tally, Marked
<1> HIDE DEF built, added, weights
<1>6. Capped(Weight(hits), docs, Marked(hits)) \in Int
  BY <1>4 DEF Capped, Most, Least, DocsOnlyScoreCap
<1> QED BY <1>2, <1>3, <1>4, <1>5, <1>6

\* A rule of the project or of a policy adds its weight.
LEMMA TallyGrows ==
    ASSUME NEW hits, Weighed(hits), NEW h, h.weight \in Int, ~IsBuiltIn(h), NEW docs
    PROVE  /\ Tally(hits, docs) \in Int /\ Weighed(Append(hits, h))
           /\ ToSet(Append(hits, h)) = ToSet(hits) \cup {h}
           /\ Tally(Append(hits, h), docs) = Tally(hits, docs) + h.weight
<1> DEFINE Built(s) == [i \in DOMAIN s |-> IF IsBuiltIn(s[i]) THEN s[i].weight ELSE 0]
           Added(s) == [i \in DOMAIN s |-> IF IsBuiltIn(s[i]) THEN 0 ELSE s[i].weight]
           more == Append(hits, h)
           k == Len(hits)
<1>1. /\ k \in Nat /\ DOMAIN hits = 1 .. k
      /\ \A i \in 1 .. k : hits[i] \in ToSet(hits) /\ hits[i].weight \in Int
  BY ListOfHits DEF Weighed
<1>2. /\ DOMAIN more = 1 .. k + 1 /\ more[k + 1] = h
      /\ \A i \in 1 .. k : more[i] = hits[i]
      /\ IsSeq(more) /\ ToSet(more) = ToSet(hits) \cup {h}
  <2> DEFINE X == ToSet(hits)
  <2>1. hits \in Seq(X) BY DEF Weighed, IsSeq
  <2>2. ToSet(more) = X \cup {h} BY <2>1, AppendToSet
  <2> HIDE DEF X
  <2>3. hits \in Seq(X \cup {h}) BY <2>1
  <2>4. more \in Seq(X \cup {h}) BY <2>3
  <2>5. IsSeq(more) BY <2>4, IsList
  <2> HIDE DEF more
  <2>6. DOMAIN more = 1 .. k + 1 /\ more[k + 1] = h /\ \A i \in 1 .. k : more[i] = hits[i]
    BY <2>3 DEF more
  <2> QED BY <2>2, <2>5, <2>6 DEF X
<1> HIDE DEF more, k
<1>3. Total(Built(hits)) \in Int /\ Total(Built(more)) = Total(Built(hits))
  <2> DEFINE a == Built(hits)  c == Built(more)
  <2>1. a \in [1 .. k -> Int] BY <1>1
  <2>2. c \in [1 .. k + 1 -> Int]
    <3>1. \A i \in 1 .. k + 1 : i \in 1 .. k \/ i = k + 1 BY <1>1
    <3> QED BY <1>1, <1>2, <3>1
  <2>3. (\A i \in 1 .. k : c[i] = a[i]) /\ c[k + 1] = 0 BY <1>1, <1>2
  <2> HIDE DEF a, c
  <2>4. Total(a) \in Int /\ Total(c) = Total(a) + 0
    <3>1. 0 \in Int OBVIOUS
    <3> QED BY <1>1, <2>1, <2>2, <2>3, <3>1, TotalOfMore
  <2> QED BY <2>4 DEF a, c
<1>4. Total(Added(hits)) \in Int /\ Total(Added(more)) = Total(Added(hits)) + h.weight
  <2> DEFINE a == Added(hits)  c == Added(more)
  <2>1. a \in [1 .. k -> Int] BY <1>1
  <2>2. c \in [1 .. k + 1 -> Int]
    <3>1. \A i \in 1 .. k + 1 : i \in 1 .. k \/ i = k + 1 BY <1>1
    <3> QED BY <1>1, <1>2, <3>1
  <2>3. (\A i \in 1 .. k : c[i] = a[i]) /\ c[k + 1] = h.weight BY <1>1, <1>2
  <2> HIDE DEF a, c
  <2>4. Total(a) \in Int /\ Total(c) = Total(a) + h.weight BY <1>1, <2>1, <2>2, <2>3, TotalOfMore
  <2> QED BY <2>4 DEF a, c
<1>5. Marked(more) <=> Marked(hits)
  <2>1. h.id # <<"configured-high-risk-path">> BY DEF IsBuiltIn
  <2> QED BY <1>2, <2>1 DEF Marked
<1>6. /\ Tally(hits, docs) = Capped(Total(Built(hits)), docs, Marked(hits)) + Total(Added(hits))
      /\ Tally(more, docs) = Capped(Total(Built(more)), docs, Marked(more)) + Total(Added(more))
  BY DEF Tally, Marked
<1>7. Weighed(more) BY <1>2 DEF Weighed
<1> HIDE DEF Built, Added
<1>8. /\ Capped(Total(Built(hits)), docs, Marked(hits)) \in Int
      /\ Capped(Total(Built(more)), docs, Marked(more)) = Capped(Total(Built(hits)), docs, Marked(hits))
  BY <1>3, <1>5 DEF Capped, Most, Least, DocsOnlyScoreCap
<1> QED BY <1>2, <1>3, <1>4, <1>6, <1>7, <1>8 DEF more

-----------------------------------------------------------------------------
(* The order of the files *)

Levels == {"LOW", "MEDIUM", "HIGH"}
\* Files that can be ordered: no two of one path.
Ordered(files) ==
    /\ IsFiniteSet(files)
    /\ \A f \in files : f.level \in Levels /\ f.score \in Int /\ f.path \in Path
    /\ \A f, g \in files : f.path = g.path => f = g

\* The order of the files is total.
LEMMA BeforeIsAnOrder ==
    /\ \A p \in Path : ~Before(p, p)
    /\ \A p, q, r \in Path : Before(p, q) /\ Before(q, r) => Before(p, r)
    /\ \A p, q \in Path : p # q => Before(p, q) \/ Before(q, p)
<1> DEFINE k == Len(PathOrder)
<1>1. /\ k \in Nat /\ DOMAIN PathOrder = 1 .. k
      /\ \A i, j \in 1 .. k : PathOrder[i] = PathOrder[j] => i = j
      /\ \A p \in Path : \E i \in 1 .. k : PathOrder[i] = p
  <2>1. DOMAIN PathOrder = 1 .. k /\ k \in Nat BY PathAssumption
  <2> QED BY <2>1, PathAssumption DEF IsInjective, Path, ToSet
<1>2. \A p, q : Before(p, q) <=> \E i, j \in 1 .. k : i < j /\ PathOrder[i] = p /\ PathOrder[j] = q
  BY DEF Before
<1> HIDE DEF k
<1>3. \A p \in Path : ~Before(p, p)
  <2> SUFFICES ASSUME NEW p \in Path, Before(p, p) PROVE FALSE
    OBVIOUS
  <2>1. PICK i, j \in 1 .. k : i < j /\ PathOrder[i] = p /\ PathOrder[j] = p BY <1>2
  <2> QED BY <1>1, <2>1
<1>4. \A p, q, r \in Path : Before(p, q) /\ Before(q, r) => Before(p, r)
  <2> SUFFICES ASSUME NEW p \in Path, NEW q \in Path, NEW r \in Path, Before(p, q), Before(q, r)
               PROVE  Before(p, r)
    OBVIOUS
  <2>1. PICK i, j \in 1 .. k : i < j /\ PathOrder[i] = p /\ PathOrder[j] = q BY <1>2
  <2>2. PICK m, n \in 1 .. k : m < n /\ PathOrder[m] = q /\ PathOrder[n] = r BY <1>2
  <2>3. j = m BY <1>1, <2>1, <2>2
  <2>4. i < n BY <1>1, <2>1, <2>2, <2>3
  <2> QED BY <1>2, <2>1, <2>2, <2>4
<1>5. \A p, q \in Path : p # q => Before(p, q) \/ Before(q, p)
  <2> SUFFICES ASSUME NEW p \in Path, NEW q \in Path, p # q PROVE Before(p, q) \/ Before(q, p)
    OBVIOUS
  <2>1. PICK i \in 1 .. k : PathOrder[i] = p BY <1>1
  <2>2. PICK j \in 1 .. k : PathOrder[j] = q BY <1>1
  <2>3. i < j \/ j < i BY <1>1, <2>1, <2>2
  <2> QED BY <1>2, <2>1, <2>2, <2>3
<1> QED BY <1>3, <1>4, <1>5

\* sortFilesByRisk gives each file its place, whatever the order they come in.
LEMMA FilesAreSorted ==
    ASSUME NEW files, Ordered(files)
    PROVE  LET s == SortFilesByRisk(files)
           IN /\ s \in Seq(files) /\ ToSet(s) = files /\ IsSeq(s)
              /\ \A i, j \in 1 .. Len(s) : i < j => Riskier(s[i], s[j])
<1> DEFINE R == {pair \in files \X files : Riskier(pair[1], pair[2])}
           s == SortFilesByRisk(files)
<1>1. \A f, g \in files : <<f, g>> \in R <=> Riskier(f, g) OBVIOUS
<1>2. /\ Rank["LOW"] = 1 /\ Rank["MEDIUM"] = 2 /\ Rank["HIGH"] = 3 BY DEF Rank
<1>3. ASSUME NEW f \in files
      PROVE  /\ f.level \in Levels /\ f.score \in Int /\ f.path \in Path
             /\ Rank[f.level] \in Int
  BY <1>2 DEF Ordered, Levels
<1>4. \A f, g \in files : Rank[f.level] = Rank[g.level] => f.level = g.level
  BY <1>2, <1>3 DEF Levels
<1>5. \A f \in files : ~Riskier(f, f) BY <1>3, BeforeIsAnOrder DEF Riskier
<1>6. ASSUME NEW f \in files, NEW g \in files, NEW h \in files, Riskier(f, g), Riskier(g, h)
      PROVE  Riskier(f, h)
  <2>1. CASE f.level = g.level /\ g.level = h.level
    <3>1. Before(f.path, g.path) /\ Before(g.path, h.path) => Before(f.path, h.path)
      BY <1>3, BeforeIsAnOrder
    <3> QED BY <1>3, <1>6, <2>1, <3>1 DEF Riskier
  <2>2. CASE ~(f.level = g.level /\ g.level = h.level)
    <3>1. Rank[f.level] >= Rank[g.level] /\ Rank[g.level] >= Rank[h.level]
      BY <1>3, <1>6 DEF Riskier
    <3>2. Rank[f.level] # Rank[g.level] \/ Rank[g.level] # Rank[h.level] BY <1>4, <2>2
    <3>3. Rank[f.level] > Rank[h.level] BY <1>3, <3>1, <3>2
    <3> QED BY <3>3 DEF Riskier
  <2> QED BY <2>1, <2>2
<1>7. ASSUME NEW f \in files, NEW g \in files, f # g
      PROVE  Riskier(f, g) \/ Riskier(g, f)
  <2>1. f.path # g.path BY <1>7 DEF Ordered
  <2>2. Before(f.path, g.path) \/ Before(g.path, f.path) BY <1>3, <2>1, BeforeIsAnOrder
  <2> QED BY <1>3, <1>4, <2>2 DEF Riskier
<1> HIDE DEF R
<1>8. IsFiniteSet(files) BY DEF Ordered
<1>9. \A x \in files : <<x, x>> \notin R BY <1>1, <1>5
<1>10. \A x, y, z \in files : <<x, y>> \in R /\ <<y, z>> \in R => <<x, z>> \in R BY <1>1, <1>6
<1>11. \A x, y \in files : x # y => <<x, y>> \in R \/ <<y, x>> \in R BY <1>1, <1>7
<1>12. s = InOrder(files, R) BY DEF SortFilesByRisk, R
<1>13. /\ s \in Seq(files) /\ Len(s) = Cardinality(files) /\ ToSet(s) = files
       /\ \A i, j \in 1 .. Cardinality(files) : i < j => <<s[i], s[j]>> \in R
  BY <1>8, <1>9, <1>10, <1>11, <1>12, OrderIsExact
<1> HIDE DEF s
<1>14. IsSeq(s) BY <1>13, IsList
<1>15. \A i \in 1 .. Len(s) : s[i] \in files BY <1>13
<1> QED BY <1>1, <1>13, <1>14, <1>15 DEF s

\* A list has finitely many elements.
LEMMA ListIsFinite ==
    ASSUME NEW s, IsSeq(s)
    PROVE  IsFiniteSet(ToSet(s))
<1>1. /\ Len(s) \in Nat /\ DOMAIN s = 1 .. Len(s) /\ s = [i \in 1 .. Len(s) |-> s[i]]
  BY DEF IsSeq
<1>2. IsFiniteSet(1 .. Len(s)) BY <1>1, FS_Interval
<1>3. s \in Surjection(1 .. Len(s), ToSet(s)) BY <1>1 DEF Surjection, ToSet
<1> QED BY <1>2, <1>3, FS_Surjection

-----------------------------------------------------------------------------
(* The files of a diff *)

\* parseFileChanges makes one change of a path's sections.
LEMMA ChangesAreOfPaths ==
    ASSUME NEW d, IsSeq(d)
    PROVE  LET changes == ParseFileChanges(d)
           IN /\ IsSeq(changes)
              /\ Files(changes) = Files(d)
              /\ \A a, b \in ToSet(changes) : a.path = b.path => a = b
<1> DEFINE all == [i \in DOMAIN d |-> d[i].path]
           paths == Uniq(all)
           Of(p) == {s \in ToSet(d) : s.path = p}
           Count(p, side) == Total([i \in DOMAIN d |-> IF d[i].path = p THEN d[i][side] ELSE 0])
           Merged(p) == [path |-> p, added |-> Count(p, "added"), removed |-> Count(p, "removed"),
                         lines |-> UNION {s.lines : s \in Of(p)},
                         says |-> UNION {s.says : s \in Of(p)}]
           changes == ParseFileChanges(d)
<1>1. changes = [i \in DOMAIN paths |-> Merged(paths[i])] BY DEF ParseFileChanges
<1>2. \A p : Merged(p).path = p OBVIOUS
<1> HIDE DEF Of, Count, Merged, changes
<1>3. Len(d) \in Nat /\ DOMAIN d = 1 .. Len(d) BY DEF IsSeq
<1>4. IsSeq(all) /\ ToSet(all) = Files(d)
  <2>1. DOMAIN all = 1 .. Len(d) /\ all \in Seq({all[i] : i \in 1 .. Len(d)}) BY <1>3
  <2>2. ToSet(all) = Files(d) BY DEF ToSet, Files
  <2> HIDE DEF all
  <2> QED BY <2>1, <2>2, IsList
<1>5. paths \in Seq(ToSet(all)) /\ ToSet(paths) = ToSet(all) /\ IsInjective(paths)
  <2> HIDE DEF all
  <2> QED BY <1>4, UniqIsExact
<1> HIDE DEF all, paths
<1>6. Len(paths) \in Nat /\ DOMAIN paths = 1 .. Len(paths) BY <1>5
<1>7. IsSeq(changes)
  <2>1. changes \in Seq({changes[i] : i \in 1 .. Len(paths)}) BY <1>1, <1>6
  <2> QED BY <2>1, IsList
<1>8. DOMAIN changes = DOMAIN paths /\ \A i \in DOMAIN paths : changes[i].path = paths[i]
  BY <1>1, <1>2
<1>9. Files(changes) = Files(d) BY <1>4, <1>5, <1>8 DEF Files, ToSet
<1>10. ASSUME NEW a \in ToSet(changes), NEW b \in ToSet(changes), a.path = b.path
       PROVE  a = b
  <2>1. PICK i \in DOMAIN changes : a = changes[i] BY DEF ToSet
  <2>2. PICK j \in DOMAIN changes : b = changes[j] BY DEF ToSet
  <2>3. i = j BY <1>5, <1>8, <1>10, <2>1, <2>2 DEF IsInjective
  <2> QED BY <2>1, <2>2, <2>3
<1> QED BY <1>7, <1>9, <1>10 DEF changes

-----------------------------------------------------------------------------
(* A verdict that follows its rules *)

\* What a file of a report says: its score is its rules', its level its score's, and it
\* lists the added rules that matched it.
Earned(f, rules, changes, settings) ==
    /\ f = [path |-> f.path, score |-> f.score, level |-> f.level, rules |-> f.rules]
    /\ Weighed(f.rules) /\ f.score \in Int
    /\ \E c \in ToSet(changes) : c.path = f.path /\ f.score = Tally(f.rules, IsDocsLike(c))
    /\ f.level = Level(f.score, settings)
    /\ {h.id : h \in {g \in ToSet(f.rules) : ~IsBuiltIn(g)}}
        = {h.id : h \in {g \in ToSet(rules) : ~IsBuiltIn(g) /\ f.path \in g.matchedFiles}}

\* What a report says; its own level is given after the rules.
Follows(r, changes) ==
    /\ Weighed(r.rules) /\ r.score \in Int
    /\ r.score = Tally(r.rules, r.docsOnly)
    /\ IsSeq(r.files)
    /\ Files(changes) = {f.path : f \in ToSet(r.files)}
    /\ \A f, g \in ToSet(r.files) : f.path = g.path => f = g
    /\ \A f \in ToSet(r.files) : Earned(f, r.rules, changes, r.settings)
    /\ \A i, j \in 1 .. Len(r.files) : i < j => Riskier(r.files[i], r.files[j])

\* A level is one of three.
LEMMA LevelIsOne ==
    ASSUME NEW score, NEW settings
    PROVE  Level(score, settings) \in Levels
BY DEF Level, Levels

\* The settings are the preset's, but for a threshold of the project's own.
LEMMA SettingsAreThePresets ==
    ASSUME NEW c, c.preset \in DOMAIN Preset
    PROVE  LET s == NormalizeConfig(c)
               p == Preset[c.preset]
           IN /\ s.delta = p.delta /\ s.highRisk = p.highRisk /\ s.missingTests = p.missingTests
              /\ s.lines = p.lines /\ s.files = p.files /\ s.reviewThreshold = p.reviewThreshold
              /\ s.failThreshold = (IF c.failThreshold = None THEN p.failThreshold
                                    ELSE Most(1, c.failThreshold))
              /\ s.highRiskPaths = c.highRiskPaths
<1> DEFINE p == Preset[c.preset]
           threshold == IF c.failThreshold = None THEN p.failThreshold ELSE Most(1, c.failThreshold)
           a == [p EXCEPT !.failThreshold = threshold]
           b == [preset |-> c.preset, highRiskPaths |-> c.highRiskPaths, testCommands |-> c.testCommands]
<1>1. DOMAIN p = {"failThreshold", "reviewThreshold", "lines", "files", "delta", "highRisk", "missingTests"}
  <2>1. DOMAIN Preset = {"safe", "standard", "strict"} BY DEF Preset
  <2> QED BY <2>1 DEF Preset
<1>2. NormalizeConfig(c) = Extended(a, b) BY DEF NormalizeConfig
<1> HIDE DEF p, threshold
<1>3. /\ DOMAIN a = DOMAIN p /\ a.failThreshold = threshold
      /\ a.delta = p.delta /\ a.highRisk = p.highRisk /\ a.missingTests = p.missingTests
      /\ a.lines = p.lines /\ a.files = p.files /\ a.reviewThreshold = p.reviewThreshold
  BY <1>1
<1>4. "highRiskPaths" \in DOMAIN b /\ "highRiskPaths" \notin DOMAIN a
      /\ b.highRiskPaths = c.highRiskPaths
  BY <1>1, <1>3
<1> HIDE DEF a, b
<1> DEFINE s == NormalizeConfig(c)
<1>5. s = [x \in DOMAIN a \cup DOMAIN b |-> IF x \in DOMAIN a THEN a[x] ELSE b[x]]
  BY <1>2 DEF Extended
<1> HIDE DEF s
<1>6. \A x \in DOMAIN p : s[x] = a[x] BY <1>3, <1>5
<1>7. s.highRiskPaths = c.highRiskPaths BY <1>4, <1>5
<1> QED BY <1>1, <1>3, <1>6, <1>7 DEF p, threshold, s

\* The settings of a preset are numbers.
LEMMA SettingsAreNumbers ==
    ASSUME NEW c, c.preset \in DOMAIN Preset
    PROVE  LET settings == NormalizeConfig(c)
           IN settings.delta \in Int /\ settings.highRisk \in Int /\ settings.missingTests \in Int
<1> DEFINE p == Preset[c.preset]
<1>1. p.delta \in Int /\ p.highRisk \in Int /\ p.missingTests \in Int
  <2>1. DOMAIN Preset = {"safe", "standard", "strict"} BY DEF Preset
  <2> QED BY <2>1 DEF Preset
<1> HIDE DEF p
<1> QED BY <1>1, SettingsAreThePresets DEF p

\* The hits of built-in rules, and what they are not.
Plain(hits) == Weighed(hits) /\ (\A h \in ToSet(hits) : IsBuiltIn(h)) /\ ~Marked(hits)

LEMMA PatternHitsArePlain ==
    ASSUME NEW changes, NEW settings, settings.delta \in Int, NEW skipped
    PROVE  Plain(PatternHits(changes, settings, skipped))
<1> DEFINE hits == PatternHits(changes, settings, skipped)
<1>1. /\ IsSeq(hits)
      /\ \A h \in ToSet(hits) : \E i \in DOMAIN RiskPatterns :
            h = PatternHit(RiskPatterns[i], changes, settings)
  BY HitsAreListed
<1> HIDE DEF hits
<1>2. \A i \in DOMAIN RiskPatterns :
         /\ RiskPatterns[i].weight \in Int
         /\ RiskPatterns[i].id # "configured-high-risk-path"
  BY DEF RiskPatterns
<1>3. ASSUME NEW h \in ToSet(hits)
      PROVE  h.weight \in Int /\ IsBuiltIn(h) /\ h.id # <<"configured-high-risk-path">>
  <2>1. PICK i \in DOMAIN RiskPatterns : h = PatternHit(RiskPatterns[i], changes, settings)
    BY <1>1
  <2>2. /\ h.id = <<RiskPatterns[i].id>>
        /\ h.weight = AdjustedWeight(RiskPatterns[i].weight, settings)
    BY <2>1 DEF PatternHit, BuiltIn, RuleHit
  <2>3. AdjustedWeight(RiskPatterns[i].weight, settings) \in Int
    BY <1>2 DEF AdjustedWeight, Most
  <2> QED BY <1>2, <2>2, <2>3 DEF IsBuiltIn
<1> QED BY <1>1, <1>3 DEF Plain, Weighed, Marked, hits

\* A hit that is in the list or not (addRule).
LEMMA OneHitIsPlain ==
    ASSUME NEW id, NEW weight \in Int, NEW files
    PROVE  LET hits == <<BuiltIn(id, weight, files)>>
           IN /\ Weighed(hits) /\ (\A h \in ToSet(hits) : IsBuiltIn(h))
              /\ Weight(hits) = weight
              /\ Marked(hits) <=> id = "configured-high-risk-path"
              /\ Plain(<<>>) /\ Weight(<<>>) = 0
<1> DEFINE h == BuiltIn(id, weight, files)
<1>1. h.id = <<id>> /\ h.weight = weight BY DEF BuiltIn, RuleHit
<1> HIDE DEF h
<1>2. /\ Weighed(<<h>>) /\ Weight(<<h>>) = weight /\ ToSet(<<h>>) = {h}
      /\ Weighed(<<>>) /\ Weight(<<>>) = 0 /\ ToSet(<<>>) = {}
  BY <1>1, WeightOfOne
<1>3. IsBuiltIn(h) BY <1>1 DEF IsBuiltIn
<1>4. Marked(<<h>>) <=> id = "configured-high-risk-path" BY <1>1, <1>2 DEF Marked
<1>5. Plain(<<>>) BY <1>2 DEF Plain, Marked
<1> QED BY <1>2, <1>3, <1>4, <1>5 DEF h

\* The rules for marked paths have hits if there are any.
LEMMA ConfiguredIsMarked ==
    ASSUME NEW changes, NEW settings, settings.highRisk \in Int
    PROVE  LET hits == ConfiguredHighRiskHits(changes, settings)
           IN /\ Weighed(hits) /\ (\A h \in ToSet(hits) : IsBuiltIn(h))
              /\ Marked(hits) <=> hits # <<>>
<1> DEFINE files == Files(changes) \cap settings.highRiskPaths
           hits == ConfiguredHighRiskHits(changes, settings)
           one == <<BuiltIn("configured-high-risk-path", settings.highRisk, files)>>
<1>1. hits = IF files = {} THEN <<>> ELSE one BY DEF ConfiguredHighRiskHits
<1>2. /\ Weighed(one) /\ (\A h \in ToSet(one) : IsBuiltIn(h)) /\ Marked(one)
      /\ Plain(<<>>)
  BY OneHitIsPlain
<1>3. one # <<>> OBVIOUS
<1> HIDE DEF one, hits, files
<1> QED BY <1>1, <1>2, <1>3 DEF Plain, hits

\* Lists of built-in hits, one after the other.
LEMMA BothAreBuilt ==
    ASSUME NEW s, NEW t, Weighed(s), Weighed(t),
           \A h \in ToSet(s) : IsBuiltIn(h), \A h \in ToSet(t) : IsBuiltIn(h)
    PROVE  /\ Weighed(s \o t) /\ \A h \in ToSet(s \o t) : IsBuiltIn(h)
           /\ Weight(s) \in Int /\ Weight(t) \in Int /\ Weight(s \o t) = Weight(s) + Weight(t)
           /\ Marked(s \o t) <=> Marked(s) \/ Marked(t)
<1>1. ToSet(s \o t) = ToSet(s) \cup ToSet(t) BY JoinedHits DEF Weighed
<1> QED BY <1>1, WeightOfBoth DEF Marked

\* scoreRisk: the score of the change is its rules'.
LEMMA RiskIsTallied ==
    ASSUME NEW changes, NEW settings,
           settings.delta \in Int, settings.highRisk \in Int, settings.missingTests \in Int
    PROVE  LET risk == ScoreRisk(changes, settings)
           IN /\ Weighed(risk.rules) /\ \A h \in ToSet(risk.rules) : IsBuiltIn(h)
              /\ risk.score \in Int
              /\ risk.score = Tally(risk.rules, risk.docsOnly)
<1> DEFINE docsOnly == IsDocsOnly(changes)
           patterns == {RiskPatterns[i].id : i \in DOMAIN RiskPatterns}
           met == PatternHits(changes, settings, IF docsOnly THEN patterns \ {"test-change"} ELSE {})
           configured == ConfiguredHighRiskHits(changes, settings)
           missing == MissingTestsHits(changes, settings)
           hits == met \o configured \o missing
           docs == IF docsOnly THEN <<BuiltIn("docs-only", 0, Files(changes))>> ELSE <<>>
           risk == ScoreRisk(changes, settings)
<1>1. /\ risk.rules = docs \o hits /\ risk.docsOnly = docsOnly
      /\ risk.score = Capped(Weight(hits), docsOnly, configured # <<>>)
  BY DEF ScoreRisk
<1>2. Plain(met) BY PatternHitsArePlain
<1>3. /\ Weighed(configured) /\ (\A h \in ToSet(configured) : IsBuiltIn(h))
      /\ Marked(configured) <=> configured # <<>>
  BY ConfiguredIsMarked
<1>4. Plain(missing) BY OneHitIsPlain DEF MissingTestsHits, Plain
<1>5. Plain(docs) /\ Weight(docs) = 0
  <2>1. 0 \in Int OBVIOUS
  <2> QED BY <2>1, OneHitIsPlain DEF Plain
<1> HIDE DEF met, configured, missing, docs, risk, docsOnly
<1> DEFINE some == met \o configured
<1>6. /\ Weighed(some) /\ (\A h \in ToSet(some) : IsBuiltIn(h))
      /\ Marked(some) <=> configured # <<>>
  BY <1>2, <1>3, BothAreBuilt DEF Plain
<1> HIDE DEF some
<1>7. /\ Weighed(some \o missing) /\ (\A h \in ToSet(some \o missing) : IsBuiltIn(h))
      /\ Marked(some \o missing) <=> configured # <<>>
  BY <1>4, <1>6, BothAreBuilt DEF Plain
<1>8. hits = some \o missing BY DEF some
<1> HIDE DEF hits
<1>9. /\ Weighed(docs \o hits) /\ (\A h \in ToSet(docs \o hits) : IsBuiltIn(h))
      /\ Weight(hits) \in Int /\ Weight(docs \o hits) = Weight(hits)
      /\ Marked(docs \o hits) <=> configured # <<>>
  BY <1>5, <1>7, <1>8, BothAreBuilt DEF Plain
<1>10. Tally(docs \o hits, docsOnly) = Capped(Weight(docs \o hits), docsOnly, Marked(docs \o hits))
  BY <1>9, TallyOfBuilt
<1>11. /\ Capped(Weight(hits), docsOnly, configured # <<>>) \in Int
       /\ Capped(Weight(docs \o hits), docsOnly, Marked(docs \o hits))
          = Capped(Weight(hits), docsOnly, configured # <<>>)
  BY <1>9 DEF Capped, Most, Least, DocsOnlyScoreCap
<1> QED BY <1>1, <1>9, <1>10, <1>11 DEF risk

\* scoreSingleFile: so is a file's.
LEMMA FileIsTallied ==
    ASSUME NEW c, NEW settings, settings.delta \in Int, settings.highRisk \in Int
    PROVE  LET f == ScoreSingleFile(c, settings)
           IN /\ f = [path |-> c.path, score |-> f.score, level |-> f.level, rules |-> f.rules]
              /\ Weighed(f.rules) /\ (\A h \in ToSet(f.rules) : IsBuiltIn(h))
              /\ f.score \in Int
              /\ f.score = Tally(f.rules, IsDocsLike(c))
              /\ f.level = Level(f.score, settings)
<1> DEFINE f == ScoreSingleFile(c, settings)
           configured == ConfiguredHighRiskHits(<<c>>, settings)
           met == IF IsDocsLike(c) THEN <<>> ELSE PatternHits(<<c>>, settings, {})
           hits == met \o configured
           docs == IF IsDocsLike(c) /\ configured = <<>>
                   THEN <<BuiltIn("docs-or-comment-only-file", 0, {c.path})>> ELSE <<>>
           score == Capped(Weight(hits), IsDocsLike(c), configured # <<>>)
           like == IsDocsLike(c)
<1>1. f = [path |-> c.path, score |-> score, level |-> Level(score, settings), rules |-> hits \o docs]
  BY DEF ScoreSingleFile
<1>2. Plain(met)
  <2>1. 0 \in Int OBVIOUS
  <2> QED BY <2>1, PatternHitsArePlain, OneHitIsPlain
<1>3. /\ Weighed(configured) /\ (\A h \in ToSet(configured) : IsBuiltIn(h))
      /\ Marked(configured) <=> configured # <<>>
  BY ConfiguredIsMarked
<1>4. Plain(docs) /\ Weight(docs) = 0
  <2>1. 0 \in Int OBVIOUS
  <2> HIDE DEF configured
  <2> QED BY <2>1, OneHitIsPlain DEF Plain
<1> HIDE DEF met, configured, docs, f, like
<1>5. /\ Weighed(hits) /\ (\A h \in ToSet(hits) : IsBuiltIn(h))
      /\ Marked(hits) <=> configured # <<>>
  BY <1>2, <1>3, BothAreBuilt DEF Plain
<1> HIDE DEF hits
<1>6. /\ Weighed(hits \o docs) /\ (\A h \in ToSet(hits \o docs) : IsBuiltIn(h))
      /\ Weight(hits) \in Int /\ Weight(hits \o docs) = Weight(hits)
      /\ Marked(hits \o docs) <=> configured # <<>>
  BY <1>4, <1>5, BothAreBuilt DEF Plain
<1>7. Tally(hits \o docs, like) = Capped(Weight(hits \o docs), like, Marked(hits \o docs))
  BY <1>6, TallyOfBuilt
<1>8. score \in Int /\ Tally(hits \o docs, like) = score
  BY <1>6, <1>7 DEF Capped, Most, Least, DocsOnlyScoreCap, like
<1> HIDE DEF score
<1> QED BY <1>1, <1>6, <1>8 DEF f, like

\* The report of the built-in rules follows them.
LEMMA BuiltFollows ==
    ASSUME NEW d, IsSeq(d), \A s \in ToSet(d) : s.path \in Path,
           NEW c, c.preset \in DOMAIN Preset
    PROVE  LET r == AnalyzeDiff(d, c)
               changes == ParseFileChanges(d)
           IN /\ Follows(r, changes) /\ r.settings = NormalizeConfig(c)
              /\ ToSet(r.files) = {ScoreSingleFile(x, NormalizeConfig(c)) : x \in ToSet(changes)}
<1> DEFINE settings == NormalizeConfig(c)
           changes == ParseFileChanges(d)
           risk == ScoreRisk(changes, settings)
           files == {ScoreSingleFile(x, settings) : x \in ToSet(changes)}
           r == AnalyzeDiff(d, c)
<1>1. /\ r.score = risk.score /\ r.docsOnly = risk.docsOnly /\ r.settings = settings
      /\ r.rules = risk.rules /\ r.files = SortFilesByRisk(files)
  BY DEF AnalyzeDiff
<1>2. settings.delta \in Int /\ settings.highRisk \in Int /\ settings.missingTests \in Int
  BY SettingsAreNumbers
<1>3. /\ Weighed(risk.rules) /\ \A h \in ToSet(risk.rules) : IsBuiltIn(h)
      /\ risk.score \in Int
      /\ risk.score = Tally(risk.rules, risk.docsOnly)
  <2> HIDE DEF settings, changes
  <2> QED BY <1>2, RiskIsTallied
<1>4. /\ IsSeq(changes) /\ Files(changes) = Files(d)
      /\ \A a, b \in ToSet(changes) : a.path = b.path => a = b
  BY ChangesAreOfPaths
<1> HIDE DEF settings, changes, risk, r
<1>5. ASSUME NEW x \in ToSet(changes)
      PROVE  LET f == ScoreSingleFile(x, settings)
             IN /\ f.path = x.path /\ f.level \in Levels /\ f.score \in Int
                /\ Earned(f, r.rules, changes, settings)
  <2> DEFINE f == ScoreSingleFile(x, settings)
  <2>1. /\ f = [path |-> x.path, score |-> f.score, level |-> f.level, rules |-> f.rules]
        /\ Weighed(f.rules) /\ (\A h \in ToSet(f.rules) : IsBuiltIn(h))
        /\ f.score \in Int
        /\ f.score = Tally(f.rules, IsDocsLike(x))
        /\ f.level = Level(f.score, settings)
    BY <1>2, FileIsTallied
  <2> HIDE DEF f
  <2>2. f.path = x.path BY <2>1
  <2>3. /\ {h.id : h \in {g \in ToSet(f.rules) : ~IsBuiltIn(g)}} = {}
        /\ {h.id : h \in {g \in ToSet(r.rules) : ~IsBuiltIn(g) /\ f.path \in g.matchedFiles}} = {}
    BY <1>1, <1>3, <2>1
  <2>4. Earned(f, r.rules, changes, settings) BY <2>1, <2>2, <2>3 DEF Earned
  <2>5. f.level \in Levels BY <2>1, LevelIsOne
  <2> QED BY <2>1, <2>2, <2>4, <2>5 DEF f
<1>6. {f.path : f \in files} = Files(changes) BY <1>5 DEF Files, ToSet
<1>7. Ordered(files)
  <2>1. IsFiniteSet(files)
    <3> DEFINE F == [x \in ToSet(changes) |-> ScoreSingleFile(x, settings)]
    <3>1. IsFiniteSet(ToSet(changes)) BY <1>4, ListIsFinite
    <3>2. F \in Surjection(ToSet(changes), files) BY DEF Surjection
    <3> HIDE DEF files, F
    <3> QED BY <3>1, <3>2, FS_Surjection
  <2>2. Files(d) \subseteq Path BY DEF Files, ToSet
  <2>3. \A x \in ToSet(changes) : x.path \in Files(changes) BY DEF Files, ToSet
  <2>4. ASSUME NEW f \in files
        PROVE  f.level \in Levels /\ f.score \in Int /\ f.path \in Path
    BY <1>4, <1>5, <2>2, <2>3
  <2>5. ASSUME NEW f \in files, NEW g \in files, f.path = g.path PROVE f = g
    <3>1. PICK x \in ToSet(changes) : f = ScoreSingleFile(x, settings) OBVIOUS
    <3>2. PICK y \in ToSet(changes) : g = ScoreSingleFile(y, settings) OBVIOUS
    <3>3. x.path = y.path BY <1>5, <2>5, <3>1, <3>2
    <3> QED BY <1>4, <3>1, <3>2, <3>3
  <2> HIDE DEF files
  <2> QED BY <2>1, <2>4, <2>5 DEF Ordered
<1>8. \A f \in files : Earned(f, r.rules, changes, settings) BY <1>5
<1> HIDE DEF files
<1>9. /\ IsSeq(r.files) /\ ToSet(r.files) = files
      /\ \A i, j \in 1 .. Len(r.files) : i < j => Riskier(r.files[i], r.files[j])
  BY <1>1, <1>7, FilesAreSorted
<1>10. \A f, g \in files : f.path = g.path => f = g BY <1>7 DEF Ordered
<1>11. Follows(r, changes) BY <1>1, <1>3, <1>6, <1>8, <1>9, <1>10 DEF Follows
<1> QED BY <1>1, <1>9, <1>11 DEF r, changes, settings, files

\* The finding of a rule that was added.
IsAdded(rule, prefix) ==
    Accepted(rule) /\ \A changes : ~IsBuiltIn(HitOf(rule, changes, prefix))

\* A rule applied is in the score of the report and of the files it matched, and in
\* their order.
LEMMA RuleFollows ==
    ASSUME NEW r, NEW changes, Follows(r, changes),
           {"rules", "checks", "score", "files"} \subseteq DOMAIN r,
           Files(changes) \subseteq Path,
           NEW rule, NEW prefix, IsAdded(rule, prefix)
    PROVE  Follows(ApplyRule(r, rule, changes, prefix), changes)
<1> DEFINE matched == MatchCustomRule(rule, changes)
           hit == HitOf(rule, changes, prefix)
           now == ApplyRule(r, rule, changes, prefix)
<1>1. CASE matched = {} BY <1>1 DEF ApplyRule
<1>2. CASE matched # {}
  <2>1. now = [r EXCEPT !.rules = Append(@, hit), !.checks = Uniq(Append(@, rule.check)),
                        !.score = @ + rule.weight,
                        !.files = UpdateFileBreakdown(@, hit, r.settings)]
    BY <1>2 DEF ApplyRule, HitOf
  <2>2. /\ hit.weight = rule.weight /\ hit.matchedFiles = matched /\ ~IsBuiltIn(hit)
        /\ rule.weight \in Int
    BY DEF HitOf, RuleHit, IsAdded, Accepted
  <2> HIDE DEF hit, now, matched
  <2>3. /\ now.rules = Append(r.rules, hit) /\ now.score = r.score + hit.weight
        /\ now.files = UpdateFileBreakdown(r.files, hit, r.settings)
        /\ now.docsOnly = r.docsOnly /\ now.settings = r.settings
    BY <2>1, <2>2
  <2>4. /\ Weighed(r.rules) /\ r.score \in Int /\ r.score = Tally(r.rules, r.docsOnly)
        /\ IsSeq(r.files) /\ Files(changes) = {f.path : f \in ToSet(r.files)}
        /\ \A f, g \in ToSet(r.files) : f.path = g.path => f = g
        /\ \A f \in ToSet(r.files) : Earned(f, r.rules, changes, r.settings)
    BY DEF Follows
  <2>5. /\ Weighed(now.rules) /\ ToSet(now.rules) = ToSet(r.rules) \cup {hit}
        /\ Tally(now.rules, r.docsOnly) = r.score + hit.weight
    BY <2>2, <2>3, <2>4, TallyGrows
  <2> DEFINE settings == r.settings
             New(f) == IF f.path \in matched
                       THEN [f EXCEPT !.score = @ + hit.weight,
                                      !.level = Level(f.score + hit.weight, settings),
                                      !.rules = Append(@, hit)]
                       ELSE f
             files == {New(f) : f \in ToSet(r.files)}
  <2>6. ASSUME NEW f \in ToSet(r.files)
        PROVE  New(f).path = f.path /\ Earned(New(f), now.rules, changes, settings)
    <3>1. /\ f = [path |-> f.path, score |-> f.score, level |-> f.level, rules |-> f.rules]
          /\ Weighed(f.rules) /\ f.score \in Int /\ f.level = Level(f.score, settings)
          /\ {h.id : h \in {g \in ToSet(f.rules) : ~IsBuiltIn(g)}}
              = {h.id : h \in {g \in ToSet(r.rules) : ~IsBuiltIn(g) /\ f.path \in g.matchedFiles}}
      BY <2>4 DEF Earned
    <3>2. PICK c \in ToSet(changes) : c.path = f.path /\ f.score = Tally(f.rules, IsDocsLike(c))
      BY <2>4 DEF Earned
    <3>3. CASE f.path \notin matched
      <4>1. New(f) = f BY <3>3
      <4>2. {g \in ToSet(now.rules) : ~IsBuiltIn(g) /\ f.path \in g.matchedFiles}
            = {g \in ToSet(r.rules) : ~IsBuiltIn(g) /\ f.path \in g.matchedFiles}
        BY <2>2, <2>5, <3>3
      <4> QED BY <3>1, <3>2, <4>1, <4>2 DEF Earned
    <3>4. CASE f.path \in matched
      <4> DEFINE n == New(f)
                 p == f.path  s == f.score  l == f.level  rs == f.rules
      <4>1. n = [path |-> p, score |-> s + hit.weight,
                 level |-> Level(s + hit.weight, settings), rules |-> Append(rs, hit)]
        <5>1. n = [f EXCEPT !.score = @ + hit.weight,
                            !.level = Level(f.score + hit.weight, settings),
                            !.rules = Append(@, hit)]
          BY <3>4
        <5>2. f = [path |-> p, score |-> s, level |-> l, rules |-> rs] BY <3>1
        <5> HIDE DEF n, p, s, l, rs
        <5> QED BY <5>1, <5>2
      <4> HIDE DEF n
      <4>2. /\ n.path = p /\ n.score = s + hit.weight /\ n.rules = Append(rs, hit)
            /\ n.level = Level(n.score, settings)
            /\ n = [path |-> n.path, score |-> n.score, level |-> n.level, rules |-> n.rules]
        BY <4>1
      <4>3. /\ Weighed(n.rules) /\ ToSet(n.rules) = ToSet(rs) \cup {hit}
            /\ Tally(n.rules, IsDocsLike(c)) = Tally(rs, IsDocsLike(c)) + hit.weight
        BY <2>2, <3>1, <4>2, TallyGrows
      <4>4. n.score \in Int /\ n.score = Tally(n.rules, IsDocsLike(c))
        BY <2>2, <3>1, <3>2, <4>2, <4>3
      <4>5. {g \in ToSet(n.rules) : ~IsBuiltIn(g)} = {g \in ToSet(rs) : ~IsBuiltIn(g)} \cup {hit}
        BY <2>2, <4>3
      <4>6. {g \in ToSet(now.rules) : ~IsBuiltIn(g) /\ p \in g.matchedFiles}
            = {g \in ToSet(r.rules) : ~IsBuiltIn(g) /\ p \in g.matchedFiles} \cup {hit}
        BY <2>2, <2>5, <3>4
      <4>7. {h.id : h \in {g \in ToSet(n.rules) : ~IsBuiltIn(g)}}
            = {h.id : h \in {g \in ToSet(now.rules) : ~IsBuiltIn(g) /\ p \in g.matchedFiles}}
        <5> DEFINE A == {g \in ToSet(rs) : ~IsBuiltIn(g)}
                   B == {g \in ToSet(r.rules) : ~IsBuiltIn(g) /\ p \in g.matchedFiles}
        <5>1. {h.id : h \in A} = {h.id : h \in B} BY <3>1
        <5> HIDE DEF A, B
        <5>2. {h.id : h \in A \cup {hit}} = {h.id : h \in A} \cup {hit.id} OBVIOUS
        <5>3. {h.id : h \in B \cup {hit}} = {h.id : h \in B} \cup {hit.id} OBVIOUS
        <5> QED BY <4>5, <4>6, <5>1, <5>2, <5>3 DEF A, B
      <4> QED BY <3>2, <4>2, <4>3, <4>4, <4>7 DEF Earned, n
    <3> QED BY <3>3, <3>4
  <2> HIDE DEF New
  <2>7. {f.path : f \in files} = Files(changes) BY <2>4, <2>6
  <2>8. ASSUME NEW f \in files
        PROVE  /\ f.level \in Levels /\ f.score \in Int /\ f.path \in Path
               /\ Earned(f, now.rules, changes, settings)
    <3>1. Earned(f, now.rules, changes, settings) BY <2>6
    <3>2. f.path \in Path BY <2>7
    <3> QED BY <3>1, <3>2, LevelIsOne DEF Earned
  <2>9. ASSUME NEW f \in files, NEW g \in files, f.path = g.path PROVE f = g
    <3>1. PICK x \in ToSet(r.files) : f = New(x) OBVIOUS
    <3>2. PICK y \in ToSet(r.files) : g = New(y) OBVIOUS
    <3>3. x = y BY <2>4, <2>6, <2>9, <3>1, <3>2
    <3> QED BY <3>1, <3>2, <3>3
  <2>10. IsFiniteSet(files)
    <3> DEFINE F == [x \in ToSet(r.files) |-> New(x)]
    <3>1. IsFiniteSet(ToSet(r.files)) BY <2>4, ListIsFinite
    <3>2. F \in Surjection(ToSet(r.files), files) BY DEF Surjection
    <3> HIDE DEF files, F
    <3> QED BY <3>1, <3>2, FS_Surjection
  <2>11. now.files = SortFilesByRisk(files)
    BY <2>2, <2>3 DEF UpdateFileBreakdown, New
  <2> HIDE DEF files
  <2>12. Ordered(files) BY <2>8, <2>9, <2>10 DEF Ordered
  <2>13. /\ IsSeq(now.files) /\ ToSet(now.files) = files
         /\ \A i, j \in 1 .. Len(now.files) : i < j => Riskier(now.files[i], now.files[j])
    BY <2>11, <2>12, FilesAreSorted
  <2>14. now.score \in Int /\ now.score = Tally(now.rules, now.docsOnly)
    BY <2>2, <2>3, <2>4, <2>5
  <2>15. Follows(now, changes)
    BY <2>3, <2>5, <2>7, <2>8, <2>9, <2>13, <2>14 DEF Follows
  <2> QED BY <2>15 DEF now
<1> QED BY <1>1, <1>2

\* What a verdict is made of.
VerdictFields == {"score", "level", "docsOnly", "settings", "rules", "files"}
Verdict(r, changes) == Follows(r, changes) /\ r.level = Level(r.score, r.settings)

\* Fields beside a verdict leave it as it is.
LEMMA VerdictStays ==
    ASSUME NEW r, NEW s, NEW changes, Verdict(r, changes), \A f \in VerdictFields : s[f] = r[f]
    PROVE  Verdict(s, changes)
<1>1. /\ s.score = r.score /\ s.level = r.level /\ s.docsOnly = r.docsOnly
      /\ s.settings = r.settings /\ s.rules = r.rules /\ s.files = r.files
  BY DEF VerdictFields
<1> QED BY <1>1 DEF Verdict, Follows

\* applyCustomRules gives its verdict after the last rule.
LEMMA RulesFollow ==
    ASSUME NEW before, NEW d, NEW changes, changes = ParseFileChanges(d), Follows(before, changes),
           VerdictFields \cup {"checks"} \subseteq DOMAIN before,
           Files(changes) \subseteq Path,
           NEW candidates, IsSeq(candidates), NEW prefix,
           \A rule \in ToSet(candidates) : Accepted(rule) => IsAdded(rule, prefix)
    PROVE  Verdict(ApplyCustomRules(before, d, candidates, prefix), changes)
<1> DEFINE after == ApplyCustomRules(before, d, candidates, prefix)
           rules == NormalizeCustomRules(candidates).rules
<1>1. /\ rules \in Seq(ToSet(candidates)) /\ \A i \in 1 .. Len(rules) : Accepted(rules[i])
  BY CandidatesAreSifted
<1>2. Len(rules) \in Nat /\ \A i \in 1 .. Len(rules) : IsAdded(rules[i], prefix)
  <2> HIDE DEF rules
  <2>1. Len(rules) \in Nat /\ \A i \in 1 .. Len(rules) : rules[i] \in ToSet(candidates) BY <1>1
  <2> QED BY <1>1, <2>1
<1>3. PICK at : /\ \A n \in 0 .. Len(rules) : at[n] = AppliedAt(before, changes, rules, prefix, at, n)
                /\ after = Reconsidered(at[Len(rules)])
  <2> HIDE DEF after, rules
  <2>1. rules = NormalizeCustomRules(candidates).rules BY DEF rules
  <2> QED BY <1>2, <2>1, ApplicationsAreGiven DEF after
<1> HIDE DEF after, rules
<1> DEFINE k == Len(rules)
           Fine(r) == Follows(r, changes) /\ VerdictFields \cup {"checks"} \subseteq DOMAIN r
           S == {n \in 0 .. k : Fine(at[n])}
<1>4. 0 \in S
  <2>1. at[0] = before BY <1>2, <1>3 DEF AppliedAt
  <2> QED BY <1>2, <2>1
<1>5. ASSUME NEW n \in 1 .. k, n - 1 \in S PROVE n \in S
  <2> DEFINE was == at[n - 1]
             now == ApplyRule(was, rules[n], changes, prefix)
  <2>1. n \in 0 .. k /\ n # 0 BY <1>2
  <2>2. at[n] = now BY <1>3, <2>1 DEF AppliedAt
  <2>3. Fine(was) BY <1>5
  <2>4. {"rules", "checks", "score", "files"} \subseteq DOMAIN was BY <2>3 DEF VerdictFields
  <2>5. Follows(now, changes) BY <1>2, <2>3, <2>4, RuleFollows
  <2>6. DOMAIN now = DOMAIN was BY DEF ApplyRule
  <2> HIDE DEF was, now
  <2> QED BY <2>1, <2>2, <2>3, <2>5, <2>6
<1>6. 0 .. k \subseteq S
  <2>1. k \in Nat BY <1>2
  <2> HIDE DEF S, k
  <2> QED BY <1>4, <1>5, <2>1, GoDown
<1> DEFINE last == at[k]
<1>7. Fine(last) BY <1>2, <1>6
<1> HIDE DEF last
<1>8. after = [last EXCEPT !.level = Level(last.score, last.settings)]
  BY <1>3 DEF Reconsidered, last
<1>9. /\ after.level = Level(after.score, after.settings)
      /\ after.score = last.score /\ after.docsOnly = last.docsOnly
      /\ after.settings = last.settings /\ after.rules = last.rules /\ after.files = last.files
  BY <1>7, <1>8 DEF VerdictFields
<1>10. Follows(after, changes) BY <1>7, <1>9 DEF Follows
<1> QED BY <1>9, <1>10 DEF Verdict, after

\* A name behind a prefix of two, or one of one's own behind a prefix of one, is longer
\* than a built-in rule's.
LEMMA PrefixedIsAdded ==
    ASSUME NEW rule, IsSeq(rule.id), Accepted(rule), NEW prefix, IsSeq(prefix),
           Len(prefix) = 2 \/ (Len(prefix) = 1 /\ rule.id # <<>>)
    PROVE  IsAdded(rule, prefix)
<1> DEFINE id == rule.id
<1>1. Len(id) \in Nat /\ (id # <<>> => Len(id) # 0)
  <2>1. PICK X : id \in Seq(X) BY DEF IsSeq
  <2> HIDE DEF id
  <2> QED BY <2>1
<1>2. Len(prefix \o id) = Len(prefix) + Len(id)
  <2> HIDE DEF id
  <2>1. IsSeq(id) BY DEF id
  <2> DEFINE u == prefix \o id
  <2>2. IsSeq(u) /\ DOMAIN u = 1 .. Len(prefix) + Len(id) BY <2>1, JoinedHits
  <2>3. Len(u) \in Nat /\ DOMAIN u = 1 .. Len(u) BY <2>2, ListOfHits
  <2> HIDE DEF u
  <2>4. 1 .. Len(u) = 1 .. Len(prefix) + Len(id) BY <2>2, <2>3
  <2>5. Len(u) = Len(prefix) + Len(id)
    <3> DEFINE a == Len(u)  b == Len(prefix) + Len(id)
    <3>1. a \in Nat /\ b \in Nat /\ 1 .. a = 1 .. b
      <4> DEFINE m == Len(prefix)  n == Len(id)
      <4>1. m \in Nat /\ n \in Nat /\ b = m + n BY <1>1
      <4> HIDE DEF m, n, b
      <4>2. b \in Nat BY <4>1
      <4> QED BY <2>3, <2>4, <4>2 DEF b
    <3> HIDE DEF a, b
    <3>2. \A i \in Nat : i \in 1 .. a <=> i \in 1 .. b BY <3>1
    <3>3. ~(a < b) BY <3>1, <3>2
    <3>4. ~(b < a) BY <3>1, <3>2
    <3>5. a = b BY <3>1, <3>3, <3>4
    <3> QED BY <3>5 DEF a, b
  <2> QED BY <2>5 DEF u
<1>3. Len(prefix \o id) # 1
  <2> DEFINE m == Len(prefix)  n == Len(id)  k == Len(prefix \o id)
  <2>1. /\ m = 2 \/ (m = 1 /\ n # 0)
        /\ n \in Nat /\ k = m + n
    BY <1>1, <1>2
  <2> HIDE DEF m, n, k, id
  <2>2. k # 1 BY <2>1
  <2> QED BY <2>2 DEF k
<1>4. \A changes : HitOf(rule, changes, prefix).id = prefix \o id BY DEF HitOf, RuleHit
<1> HIDE DEF id
<1> QED BY <1>3, <1>4 DEF IsAdded, IsBuiltIn

\* The preset of a run's configuration is one, and its own rules have names.
LEMMA ConfigIsResolved ==
    ASSUME Configured, args \in Args
    PROVE  /\ config.preset \in DOMAIN Preset
           /\ \A rule \in ToSet(config.customRules) :
                 rule.complete => IsSeq(rule.id) /\ rule.id # <<>>
           /\ IsSeq(diff) /\ \A s \in ToSet(diff) : s.path \in Path
<1>1. PICK document \in Document \ {Malformed} :
         /\ ~FatalConfig(document) /\ ~RefusedArguments(args)
         /\ config = ResolvedConfig(document, args)
  BY DEF Configured
<1>2. /\ "customRules" \in DOMAIN document /\ "preset" \in DOMAIN document
      /\ document.preset \in DOMAIN Preset \cup {None, Malformed}
      /\ \A rule \in ToSet(document.customRules) :
            rule.complete => IsSeq(rule.id) /\ rule.id # <<>>
      /\ args.preset \in DOMAIN Preset \cup {None}
  BY <1>1, InputAssumption DEF RefusedArguments
<1>3. document.preset # Malformed BY <1>1 DEF FatalConfig
<1>4. "standard" \in DOMAIN Preset BY DEF Preset
<1>5. /\ config.customRules = document.customRules
      /\ config.preset = IF args.preset # None THEN args.preset
                         ELSE IF document.preset = None THEN "standard" ELSE document.preset
  BY <1>1, <1>2 DEF ResolvedConfig
<1>6. config.preset \in DOMAIN Preset BY <1>2, <1>3, <1>4, <1>5
<1>7. IsSeq(diff) /\ \A s \in ToSet(diff) : s.path \in Path BY InputAssumption DEF Configured
<1> QED BY <1>2, <1>5, <1>6, <1>7

\* A configuration whose own rules have names, of a known preset.
Resolved(c) ==
    /\ c.preset \in DOMAIN Preset /\ IsSeq(c.customRules)
    /\ \A rule \in ToSet(c.customRules) : rule.complete => IsSeq(rule.id) /\ rule.id # <<>>

\* The built-in and the project's rules give their verdict of any configuration.
LEMMA ScanIsVerdict ==
    ASSUME NEW d, IsSeq(d), \A s \in ToSet(d) : s.path \in Path, NEW c, Resolved(c)
    PROVE  /\ Verdict(Scan(d, c), ParseFileChanges(d)) /\ DOMAIN Scan(d, c) = BuiltFields
           /\ Scan(d, c).settings = NormalizeConfig(c)
           /\ Files(ParseFileChanges(d)) \subseteq Path
           /\ VerdictFields \cup {"checks"} \subseteq DOMAIN AnalyzeDiff(d, c)
           /\ \A rule \in ToSet(c.customRules) : Accepted(rule) => IsAdded(rule, <<"custom">>)
<1> DEFINE changes == ParseFileChanges(d)
           built == AnalyzeDiff(d, c)
           ruled == ApplyCustomRules(built, d, c.customRules, <<"custom">>)
<1>1. /\ c.preset \in DOMAIN Preset /\ IsSeq(c.customRules)
      /\ \A rule \in ToSet(c.customRules) : rule.complete => IsSeq(rule.id) /\ rule.id # <<>>
  BY DEF Resolved
<1>2. Follows(built, changes) /\ built.settings = NormalizeConfig(c) BY <1>1, BuiltFollows
<1>3. /\ VerdictFields \cup {"checks"} \subseteq DOMAIN built /\ Ruled(built)
      /\ DOMAIN built = BuiltFields
  BY BuiltIsRuled DEF VerdictFields, BuiltFields
<1>4. Files(changes) \subseteq Path
  <2> HIDE DEF changes
  <2>1. \A i \in DOMAIN d : d[i] \in ToSet(d) BY DEF ToSet
  <2>2. Files(d) \subseteq Path BY <2>1 DEF Files
  <2> QED BY <2>2, ChangesAreOfPaths DEF changes
<1>5. \A rule \in ToSet(c.customRules) : Accepted(rule) => IsAdded(rule, <<"custom">>)
  <2> SUFFICES ASSUME NEW rule \in ToSet(c.customRules), Accepted(rule)
               PROVE  IsAdded(rule, <<"custom">>)
    OBVIOUS
  <2>1. IsSeq(rule.id) /\ rule.id # <<>> BY <1>1 DEF Accepted
  <2>2. IsSeq(<<"custom">>) /\ Len(<<"custom">>) = 1 BY OneIsAList
  <2> QED BY <2>1, <2>2, PrefixedIsAdded
<1>6. Verdict(ruled, changes)
  <2> HIDE DEF built
  <2>1. changes = ParseFileChanges(d) OBVIOUS
  <2> HIDE DEF changes
  <2> QED BY <1>1, <1>2, <1>3, <1>4, <1>5, <2>1, RulesFollow
<1>7. DOMAIN ruled = BuiltFields /\ ruled.settings = built.settings
  <2>1. WithRules(built, ruled, changes, c.customRules, <<"custom">>)
    BY <1>1, <1>3, RulesAreApplied
  <2>2. "settings" \in BuiltFields \ (Touched \cup {"level"}) BY DEF BuiltFields, Touched
  <2> HIDE DEF built, ruled, changes
  <2> QED BY <1>3, <2>1, <2>2 DEF WithRules
<1>8. Scan(d, c) = ruled BY DEF Scan
<1> HIDE DEF built, ruled, changes
<1> QED BY <1>2, <1>3, <1>4, <1>5, <1>6, <1>7, <1>8 DEF built, changes

\* A scan's verdict follows the built-in and the project's rules.
LEMMA ScanFollows ==
    ASSUME Configured, args \in Args, NEW project
    PROVE  Verdict(Analyzed(diff, config, project), ParseFileChanges(diff))
<1> DEFINE changes == ParseFileChanges(diff)
           built == AnalyzeDiff(diff, config)
           ruled == ApplyCustomRules(built, diff, config.customRules, <<"custom">>)
           extras == [customRuleWarnings |-> NormalizeCustomRules(config.customRules).warnings,
                      suppressionWarnings |-> SuppressionWarnings(config.suppressions, Today),
                      suppressedFindings |-> SuppressedFindings(ruled.rules, config.suppressions, Today),
                      configDiagnostics |-> ConfigDiagnostics(config),
                      policyRuleWarnings |-> {}, packs |-> <<>>, requiredChecks |-> <<>>,
                      saves |-> [status |-> "none", concerns |-> {}, checks |-> <<>>],
                      projectChecks |-> <<>>, guidance |-> None, primaryChecks |-> <<>>]
           whole == Extended(ruled, extras)
           r == Analyzed(diff, config, project)
<1>1. /\ IsSeq(diff) /\ (\A s \in ToSet(diff) : s.path \in Path) /\ Resolved(config)
  BY ConfigIsResolved, ConfigIsParsed DEF Resolved
<1>6. Verdict(ruled, changes) BY <1>1, ScanIsVerdict DEF Scan
<1>7. DOMAIN ruled = BuiltFields BY <1>1, ScanIsVerdict DEF Scan
<1>8. r = ApplyProjectChecks(whole, project) BY DEF Analyzed
<1>9. DOMAIN extras = ExtraFields BY DEF ExtraFields
<1> HIDE DEF r, ruled, built, extras, changes
<1>10. /\ DOMAIN whole = BuiltFields \cup ExtraFields
       /\ \A f \in BuiltFields : whole[f] = ruled[f]
  BY <1>7, <1>9 DEF Extended
<1> HIDE DEF whole
<1>11. \A f \in DOMAIN whole \ {"projectChecks", "checks"} : r[f] = whole[f]
  BY <1>8 DEF ApplyProjectChecks
<1>12. \A f \in VerdictFields : f \in BuiltFields /\ f \in DOMAIN whole \ {"projectChecks", "checks"}
  BY <1>10 DEF VerdictFields, BuiltFields
<1>13. \A f \in VerdictFields : r[f] = ruled[f] BY <1>10, <1>11, <1>12
<1> QED BY <1>6, <1>13, VerdictStays DEF r, changes

\* A verdict with a policy's rules follows those too.
LEMMA PolicyFollows ==
    ASSUME NEW a, DOMAIN a = BuiltFields \cup ExtraFields,
           NEW d, IsSeq(d), \A s \in ToSet(d) : s.path \in Path,
           Verdict(a, ParseFileChanges(d)), NEW pack \in Packs, NEW locations
    PROVE  Verdict(Governed(a, d, pack, locations), ParseFileChanges(d))
<1> DEFINE changes == ParseFileChanges(d)
           r == Governed(a, d, pack, locations)
           policed == IF pack = None THEN a ELSE ApplyPolicyPack(a, d, pack)
           guidance == InspectReviewGuidance(d, IF pack = None THEN {} ELSE {pack}, locations)
           guided == [policed EXCEPT !.guidance = guidance]
<1>1. VerdictFields \cup {"checks"} \subseteq DOMAIN a BY DEF VerdictFields, BuiltFields
<1>2. Files(changes) \subseteq Path BY ChangesAreOfPaths DEF Files, ToSet
<1>3. Verdict(policed, changes) /\ VerdictFields \subseteq DOMAIN policed
  <2>1. CASE pack = None BY <1>1, <2>1
  <2>2. CASE pack # None
    <3> DEFINE prefix == <<"policy", pack.id>>
               ruled == ApplyCustomRules(a, d, pack.rules, prefix)
    <3>1. PICK packFile \in PackFile \ {None} : pack = packFile.pack BY <2>2 DEF Packs
    <3>2. IsSeq(pack.rules) /\ \A rule \in ToSet(pack.rules) : IsSeq(rule.id)
      BY <3>1, InputAssumption
    <3>3. IsSeq(prefix) /\ Len(prefix) = 2
      <4>1. prefix \in Seq({"policy", pack.id}) OBVIOUS
      <4> QED BY <4>1, IsList
    <3>4. \A rule \in ToSet(pack.rules) : Accepted(rule) => IsAdded(rule, prefix)
      <4> HIDE DEF prefix
      <4> QED BY <3>2, <3>3, PrefixedIsAdded
    <3>5. Verdict(ruled, changes)
      <4>1. changes = ParseFileChanges(d) /\ Follows(a, changes) BY DEF Verdict
      <4> HIDE DEF changes, prefix
      <4> QED BY <1>1, <1>2, <3>2, <3>4, <4>1, RulesFollow
    <3>6. VerdictFields \subseteq DOMAIN ruled
      <4>1. Ruled(a) BY <1>1 DEF Verdict, Follows, Weighed, Ruled, VerdictFields
      <4>2. WithRules(a, ruled, changes, pack.rules, prefix) BY <3>2, <4>1, RulesAreApplied
      <4> HIDE DEF ruled, changes, prefix
      <4> QED BY <1>1, <4>2 DEF WithRules
    <3>7. /\ DOMAIN policed = DOMAIN ruled
          /\ \A f \in DOMAIN ruled \ {"packs", "policyRuleWarnings", "requiredChecks", "saves", "checks"} :
                policed[f] = ruled[f]
      <4>1. policed = ApplyPolicyPack(a, d, pack) BY <2>2
      <4> HIDE DEF policed
      <4> QED BY <4>1 DEF ApplyPolicyPack
    <3>8. VerdictFields \subseteq
             DOMAIN ruled \ {"packs", "policyRuleWarnings", "requiredChecks", "saves", "checks"}
      BY <3>6 DEF VerdictFields
    <3> HIDE DEF policed, ruled
    <3>9. \A f \in VerdictFields : policed[f] = ruled[f] BY <3>7, <3>8
    <3> QED BY <3>5, <3>6, <3>7, <3>9, VerdictStays
  <2> QED BY <2>1, <2>2
<1>4. r = [guided EXCEPT !.primaryChecks = SelectPrimaryChecks(guided)] BY DEF Governed
<1> HIDE DEF policed, guidance, r
<1>5. \A f \in DOMAIN policed \ {"guidance", "primaryChecks"} : r[f] = policed[f] BY <1>4
<1>6. \A f \in VerdictFields : f \in DOMAIN policed \ {"guidance", "primaryChecks"}
  BY <1>3 DEF VerdictFields
<1> QED BY <1>3, <1>5, <1>6, VerdictStays DEF r

\* Before and after its policy, a run's report has the verdict of its rules.
LEMMA VerdictOfReport ==
    ASSUME Made, report # None
    PROVE  Verdict(report, ParseFileChanges(diff)) /\ Files(ParseFileChanges(diff)) = Files(diff)
<1>1. Configured /\ args \in Args /\ (IsAnalyzed \/ IsGoverned) BY DEF Made
<1>2. IsSeq(diff) /\ \A s \in ToSet(diff) : s.path \in Path BY <1>1, ConfigIsResolved
<1>3. Files(ParseFileChanges(diff)) = Files(diff) BY <1>2, ChangesAreOfPaths
<1>4. CASE IsAnalyzed BY <1>1, <1>3, <1>4, ScanFollows DEF IsAnalyzed
<1>5. CASE IsGoverned
  <2>1. PICK project \in Project, pack \in Packs, locations \in Location :
           report = Governed(Analyzed(diff, config, project), diff, pack, locations)
    BY <1>5 DEF IsGoverned
  <2> DEFINE a == Analyzed(diff, config, project)
  <2>2. Verdict(a, ParseFileChanges(diff)) BY <1>1, ScanFollows
  <2>3. DOMAIN a = BuiltFields \cup ExtraFields BY <1>1, ConfigIsParsed, ScanReports
  <2>4. report = Governed(a, diff, pack, locations) BY <2>1
  <2> HIDE DEF a
  <2> QED BY <1>2, <1>3, <2>2, <2>3, <2>4, PolicyFollows
<1> QED BY <1>1, <1>4, <1>5

\* What a run printed and ended with is of its verdict.
EndIsEarned ==
    /\ stage # "ended" => out = None
    /\ out # None => (exit = 1 <=> args.ci /\ report.level = "HIGH")

\* The end of a CI run is of the score, and so of the level.
LEMMA EndHolds == Spec => []EndIsEarned
<1>1. Init => EndIsEarned BY DEF Init, EndIsEarned
<1>2. Made /\ EndIsEarned /\ [Next]_vars => EndIsEarned'
  <2> SUFFICES ASSUME Made, EndIsEarned, [Next]_vars PROVE EndIsEarned'
    OBVIOUS
  <2>1. CASE ReadInput BY <2>1 DEF ReadInput, EndIsEarned, written
  <2>2. CASE ResolveConfig BY <2>2 DEF ResolveConfig, EndIsEarned, written
  <2>3. CASE Analyze BY <2>3 DEF Analyze, EndIsEarned, written
  <2>4. CASE ApplyPolicy BY <2>4 DEF ApplyPolicy, EndIsEarned, written
  <2>5. CASE WriteReportJson BY <2>5 DEF WriteReportJson, EndIsEarned
  <2>6. CASE WriteStepSummary BY <2>6 DEF WriteStepSummary, EndIsEarned
  <2>7. CASE Finish
    <3>2. IsGoverned /\ Configured /\ args \in Args BY <2>7 DEF Finish, Made
    <3>3. report.level = Level(report.score, report.settings)
      <4>1. PICK project \in Project, pack \in Packs, locations \in Location :
               report = Governed(Analyzed(diff, config, project), diff, pack, locations)
        BY <3>2 DEF IsGoverned
      <4> DEFINE a == Analyzed(diff, config, project)
      <4>2. Verdict(a, ParseFileChanges(diff)) BY <3>2, ScanFollows
      <4>3. DOMAIN a = BuiltFields \cup ExtraFields BY <3>2, ConfigIsParsed, ScanReports
      <4>4. IsSeq(diff) /\ \A s \in ToSet(diff) : s.path \in Path BY <3>2, ConfigIsResolved
      <4>5. report = Governed(a, diff, pack, locations) BY <4>1
      <4> HIDE DEF a
      <4>6. Verdict(report, ParseFileChanges(diff)) BY <4>2, <4>3, <4>4, <4>5, PolicyFollows
      <4> QED BY <4>6 DEF Verdict
    <3>4. report.level = "HIGH" <=> report.score >= report.settings.failThreshold
      BY <3>3 DEF Level
    <3>5. /\ exit' = IF args.ci /\ report.score >= report.settings.failThreshold THEN 1 ELSE 0
          /\ stage' = "ended" /\ UNCHANGED <<args, report>>
      BY <2>7 DEF Finish
    <3> QED BY <3>4, <3>5 DEF EndIsEarned
  <2>8. CASE UNCHANGED vars BY <2>8 DEF vars, EndIsEarned
  <2> QED BY <2>1, <2>2, <2>3, <2>4, <2>5, <2>6, <2>7, <2>8 DEF Next
<1> QED BY MadeHolds, <1>1, <1>2, PTL DEF Spec

\* VerdictFollowsRules, of a report so made.
LEMMA VerdictThen ==
    ASSUME Made, EndIsEarned
    PROVE  VerdictFollowsRules
<1> SUFFICES ASSUME report # None
             PROVE  /\ report.score = Tally(report.rules, report.docsOnly)
                    /\ report.level = Level(report.score, report.settings)
                    /\ Files(diff) = {f.path : f \in ToSet(report.files)}
                    /\ \A i \in DOMAIN report.files :
                          LET f == report.files[i]
                          IN /\ \E c \in ToSet(ParseFileChanges(diff)) :
                                   c.path = f.path /\ f.score = Tally(f.rules, IsDocsLike(c))
                             /\ f.level = Level(f.score, report.settings)
                             /\ {h.id : h \in {g \in ToSet(f.rules) : ~IsBuiltIn(g)}}
                                 = {h.id : h \in {g \in ToSet(report.rules) :
                                                     ~IsBuiltIn(g) /\ f.path \in g.matchedFiles}}
                             /\ \A j \in 1..(i - 1) : Riskier(report.files[j], f)
  BY DEF VerdictFollowsRules, EndIsEarned
<1> DEFINE changes == ParseFileChanges(diff)
<1>1. Verdict(report, changes) /\ Files(changes) = Files(diff) BY VerdictOfReport
<1> HIDE DEF changes
<1>2. /\ report.score = Tally(report.rules, report.docsOnly)
      /\ report.level = Level(report.score, report.settings)
      /\ Files(diff) = {f.path : f \in ToSet(report.files)}
      /\ \A f \in ToSet(report.files) : Earned(f, report.rules, changes, report.settings)
      /\ IsSeq(report.files)
      /\ \A i, j \in 1 .. Len(report.files) : i < j => Riskier(report.files[i], report.files[j])
  BY <1>1 DEF Verdict, Follows
<1>3. /\ Len(report.files) \in Nat /\ DOMAIN report.files = 1 .. Len(report.files)
      /\ \A i \in 1 .. Len(report.files) : report.files[i] \in ToSet(report.files)
  BY <1>2, ListOfHits
<1>4. ASSUME NEW i \in DOMAIN report.files, NEW j \in 1..(i - 1)
      PROVE  Riskier(report.files[j], report.files[i])
  <2>1. i \in 1 .. Len(report.files) /\ j \in 1 .. Len(report.files) /\ j < i BY <1>3
  <2> QED BY <1>2, <2>1
<1>5. \A i \in DOMAIN report.files : Earned(report.files[i], report.rules, changes, report.settings)
  BY <1>2, <1>3
<1> QED BY <1>2, <1>4, <1>5 DEF Earned, changes

\* The score, the level, the files and their order, and the end of a CI run all say what
\* the rules listed come to, though the project's rules and a policy's were added to a
\* verdict given without them (analyzeDiff.js, customRules.js, starterPolicies.js, cli.js).
THEOREM VerdictStaysEarned == Spec => []VerdictFollowsRules
BY MadeHolds, EndHolds, VerdictThen, PTL

-----------------------------------------------------------------------------
(* The order of the plan *)

\* What a list keeps of itself is a list.
LEMMA AmongIsAList ==
    ASSUME NEW s, IsSeq(s), NEW S
    PROVE  IsSeq(Among(s, S)) /\ ToSet(Among(s, S)) \subseteq ToSet(s)
<1> DEFINE At(at, n) == IF n = 0 THEN <<>>
                        ELSE IF s[n] \in S THEN Append(at[n - 1], s[n]) ELSE at[n - 1]
           Is(at, k) == at = [n \in 0 .. k |-> At(at, n)]
           K == {k \in Nat : \E at : Is(at, k)}
<1>1. Nat \subseteq K
  <2>1. 0 \in K
    <3> DEFINE d == [n \in 0 .. 0 |-> <<>>]
    <3>1. Is(d, 0) OBVIOUS
    <3> QED BY <3>1
  <2>2. ASSUME NEW k \in Nat, k \in K PROVE k + 1 \in K
    <3> PICK at : Is(at, k) BY <2>2
    <3> DEFINE more == [n \in 0 .. k + 1 |-> At(at, n)]
    <3>1. \A n \in 0 .. k : more[n] = at[n]
      <4>1. \A n \in 0 .. k : n \in 0 .. k + 1 OBVIOUS
      <4>2. \A n \in 0 .. k : at[n] = At(at, n) OBVIOUS
      <4> HIDE DEF At, Is
      <4> QED BY <4>1, <4>2
    <3>2. \A n \in 0 .. k + 1 : n = 0 \/ n - 1 \in 0 .. k OBVIOUS
    <3>3. \A n \in 0 .. k + 1 : At(at, n) = At(more, n) BY <3>1, <3>2
    <3>4. Is(more, k + 1) BY <3>3
    <3> HIDE DEF more, Is
    <3>5. \E d : Is(d, k + 1) BY <3>4
    <3> QED BY <3>5
  <2> HIDE DEF K
  <2> QED BY <2>1, <2>2, Induct
<1>2. Len(s) \in Nat /\ DOMAIN s = 1 .. Len(s) BY DEF IsSeq
<1> DEFINE at == CHOOSE at : Is(at, Len(s))
<1>3. Among(s, S) = at[Len(s)] BY DEF Among
<1>4. Is(at, Len(s))
  <2>1. \E d : Is(d, Len(s)) BY <1>1, <1>2
  <2> HIDE DEF Is
  <2> QED BY <2>1
<1> HIDE DEF at
<1>5. \A n \in 0 .. Len(s) : at[n] = At(at, n) BY <1>4
<1> HIDE DEF Is
<1> DEFINE Kept == {n \in 0 .. Len(s) : at[n] \in Seq(ToSet(s))}
<1>6. 0 \in Kept
  <2>1. 0 \in 0 .. Len(s) BY <1>2
  <2>2. at[0] = <<>> BY <1>5, <2>1
  <2>3. <<>> \in Seq(ToSet(s)) OBVIOUS
  <2> QED BY <2>1, <2>2, <2>3
<1>7. ASSUME NEW n \in 1 .. Len(s), n - 1 \in Kept PROVE n \in Kept
  <2>1. n \in 0 .. Len(s) /\ n # 0 BY <1>2
  <2>2. at[n] = Append(at[n - 1], s[n]) \/ at[n] = at[n - 1] BY <1>5, <2>1
  <2>3. s[n] \in ToSet(s) BY <1>2 DEF ToSet
  <2> DEFINE was == at[n - 1]  x == s[n]  X == ToSet(s)
  <2>4. was \in Seq(X) BY <1>7
  <2>5. x \in X /\ (at[n] = Append(was, x) \/ at[n] = was) BY <2>2, <2>3
  <2> HIDE DEF was, x, X
  <2>6. at[n] \in Seq(X) BY <2>4, <2>5
  <2> QED BY <2>1, <2>6 DEF X
<1>8. at[Len(s)] \in Seq(ToSet(s))
  <2> DEFINE k == Len(s)
  <2>1. k \in Nat /\ \A n \in 1 .. k : n - 1 \in Kept => n \in Kept BY <1>2, <1>7
  <2> HIDE DEF Kept, k
  <2>2. 0 .. k \subseteq Kept BY <1>6, <2>1, GoDown
  <2>3. k \in Kept BY <2>1, <2>2
  <2> QED BY <2>3 DEF Kept, k
<1> DEFINE kept == at[Len(s)]  X == ToSet(s)
<1> HIDE DEF kept, X
<1>9. kept \in Seq(X) BY <1>8 DEF kept, X
<1>10. ToSet(kept) \subseteq X BY <1>9 DEF ToSet
<1> QED BY <1>3, <1>9, <1>10, IsList DEF kept, X

\* Lists one after the other are a list.
LEMMA FlattenedIsAList ==
    ASSUME NEW lists, IsSeq(lists), \A s \in ToSet(lists) : IsSeq(s)
    PROVE  IsSeq(FlattenSeq(lists))
<1> DEFINE Flat(at, n) == IF n = 1 THEN lists[n] ELSE at[n - 1] \o lists[n]
           Is(at, k) == at = [n \in 1 .. k |-> Flat(at, n)]
           K == {k \in Nat : \E at : Is(at, k)}
<1>1. Len(lists) \in Nat /\ DOMAIN lists = 1 .. Len(lists) BY DEF IsSeq
<1>2. CASE Len(lists) = 0 BY <1>2 DEF FlattenSeq
<1>3. CASE Len(lists) # 0
  <2>1. Nat \subseteq K
    <3>1. 0 \in K
      <4> DEFINE d == [n \in 1 .. 0 |-> <<>>]
      <4>1. Is(d, 0) OBVIOUS
      <4> QED BY <4>1
    <3>2. ASSUME NEW k \in Nat, k \in K PROVE k + 1 \in K
      <4> PICK at : Is(at, k) BY <3>2
      <4> DEFINE more == [n \in 1 .. k + 1 |-> Flat(at, n)]
      <4>1. \A n \in 1 .. k : more[n] = at[n]
        <5>1. \A n \in 1 .. k : n \in 1 .. k + 1 OBVIOUS
        <5>2. \A n \in 1 .. k : at[n] = Flat(at, n) OBVIOUS
        <5> HIDE DEF Flat, Is
        <5> QED BY <5>1, <5>2
      <4>2. \A n \in 1 .. k + 1 : n = 1 \/ n - 1 \in 1 .. k OBVIOUS
      <4>3. \A n \in 1 .. k + 1 : Flat(at, n) = Flat(more, n) BY <4>1, <4>2
      <4>4. Is(more, k + 1) BY <4>3
      <4> HIDE DEF more, Is
      <4>5. \E d : Is(d, k + 1) BY <4>4
      <4> QED BY <4>5
    <3> HIDE DEF K
    <3> QED BY <3>1, <3>2, Induct
  <2> DEFINE at == CHOOSE at : Is(at, Len(lists))
  <2>2. FlattenSeq(lists) = at[Len(lists)] BY <1>3 DEF FlattenSeq
  <2>3. Is(at, Len(lists))
    <3>1. \E d : Is(d, Len(lists)) BY <1>1, <2>1
    <3> HIDE DEF Is
    <3> QED BY <3>1
  <2> HIDE DEF at
  <2>4. \A n \in 1 .. Len(lists) : at[n] = Flat(at, n) BY <2>3
  <2> HIDE DEF Is
  <2> DEFINE S == {n \in 0 .. Len(lists) : n # 0 => IsSeq(at[n])}
  <2>5. 0 \in S BY <1>1
  <2>6. ASSUME NEW n \in 1 .. Len(lists), n - 1 \in S PROVE n \in S
    <3>1. n \in 0 .. Len(lists) /\ (n = 1 \/ n - 1 # 0) BY <1>1
    <3>2. IsSeq(lists[n]) BY <1>1 DEF ToSet
    <3>3. IsSeq(at[n]) BY <2>4, <2>6, <3>1, <3>2, BothAreLists
    <3> QED BY <3>1, <3>3
  <2>7. 0 .. Len(lists) \subseteq S
    <3> HIDE DEF S
    <3> QED BY <1>1, <2>5, <2>6, GoDown
  <2>8. IsSeq(at[Len(lists)]) BY <1>1, <1>3, <2>7
  <2> QED BY <2>2, <2>8
<1> QED BY <1>2, <1>3

\* A list of something of each element.
LEMMA ListOver ==
    ASSUME NEW s, IsSeq(s), NEW f, DOMAIN f = DOMAIN s, f = [i \in DOMAIN s |-> f[i]]
    PROVE  IsSeq(f)
<1>1. Len(s) \in Nat /\ DOMAIN s = 1 .. Len(s) BY DEF IsSeq
<1>2. \A i \in DOMAIN s : f[i] \in ToSet(f) BY DEF ToSet
<1>3. f \in [1 .. Len(s) -> ToSet(f)] BY <1>1, <1>2
<1>4. f \in Seq(ToSet(f)) BY <1>1, <1>3
<1> QED BY <1>4 DEF IsSeq

\* [...new Set(values)] keeps the order in which values first come.
LEMMA UniqKeepsOrder ==
    ASSUME NEW s, IsSeq(s), NEW i \in DOMAIN Uniq(s), NEW j \in DOMAIN Uniq(s), i < j,
           NEW q \in DOMAIN s, s[q] = Uniq(s)[j]
    PROVE  \E p \in 1 .. q - 1 : s[p] = Uniq(s)[i]
<1>1. Len(s) \in Nat /\ DOMAIN s = 1 .. Len(s) BY DEF IsSeq
<1>2. PICK kept : (\A n \in 0 .. Len(s) : kept[n] = KeptAt(s, kept, n)) /\ Uniq(s) = kept[Len(s)]
  BY <1>1, KeptIsGiven
<1> DEFINE Holds(n) == /\ kept[n] \in Seq(ToSet(s))
                       /\ ToSet(kept[n]) = {s[x] : x \in 1 .. n}
                       /\ \A x, y \in DOMAIN kept[n] : \A at \in 1 .. n :
                             x < y /\ s[at] = kept[n][y] =>
                                 \E p \in 1 .. at - 1 : s[p] = kept[n][x]
           S == {n \in 0 .. Len(s) : Holds(n)}
<1>3. 0 \in S
  <2>1. kept[0] = <<>> BY <1>1, <1>2 DEF KeptAt
  <2>2. DOMAIN kept[0] = {} /\ kept[0] \in Seq(ToSet(s)) /\ 1 .. 0 = {} BY <2>1
  <2>3. ToSet(kept[0]) = {} /\ {s[x] : x \in 1 .. 0} = {} BY <2>2 DEF ToSet
  <2> QED BY <1>1, <2>2, <2>3
<1>4. ASSUME NEW n \in 1 .. Len(s), n - 1 \in S PROVE n \in S
  <2> DEFINE was == kept[n - 1]
  <2>1. n \in 0 .. Len(s) /\ n # 0 /\ \A x \in 1 .. n : x \in 1 .. n - 1 \/ x = n BY <1>1
  <2>2. kept[n] = WithNew(was, s[n]) BY <1>2, <2>1 DEF KeptAt
  <2>3. /\ was \in Seq(ToSet(s)) /\ ToSet(was) = {s[x] : x \in 1 .. n - 1}
        /\ \A x, y \in DOMAIN was : \A at \in 1 .. n - 1 :
              x < y /\ s[at] = was[y] => \E p \in 1 .. at - 1 : s[p] = was[x]
    BY <1>4
  <2>4. {s[x] : x \in 1 .. n} = ToSet(was) \cup {s[n]} BY <2>1, <2>3
  <2>5. s[n] \in ToSet(s) BY <1>1 DEF ToSet
  <2> HIDE DEF was
  <2>6. DOMAIN was = 1 .. Len(was) /\ Len(was) \in Nat BY <2>3
  <2>7. \A x \in DOMAIN was : \E p \in 1 .. n - 1 : s[p] = was[x]
    <3>1. \A x \in DOMAIN was : was[x] \in ToSet(was) BY DEF ToSet
    <3> QED BY <2>3, <3>1
  <2>8. CASE Contains(was, s[n])
    <3>1. kept[n] = was BY <2>2, <2>8 DEF WithNew
    <3>2. s[n] \in ToSet(was) BY <2>6, <2>8 DEF Contains, ToSet
    <3>3. PICK old \in 1 .. n - 1 : s[old] = s[n] BY <2>3, <3>2
    <3>4. ASSUME NEW x \in DOMAIN was, NEW y \in DOMAIN was, NEW at \in 1 .. n,
                 x < y, s[at] = was[y]
          PROVE  \E p \in 1 .. at - 1 : s[p] = was[x]
      <4>1. CASE at \in 1 .. n - 1 BY <2>3, <3>4, <4>1
      <4>2. CASE at = n
        <5>1. \E p \in 1 .. old - 1 : s[p] = was[x] BY <2>3, <3>3, <3>4, <4>2
        <5> QED BY <1>1, <3>3, <4>2, <5>1
      <4> QED BY <2>1, <4>1, <4>2
    <3> QED BY <2>1, <2>3, <2>4, <3>1, <3>2, <3>4
  <2>9. CASE ~Contains(was, s[n])
    <3> DEFINE now == Append(was, s[n])
    <3>1. kept[n] = now BY <2>2, <2>9 DEF WithNew
    <3>2. now \in Seq(ToSet(s)) BY <2>3, <2>5
    <3>3. ToSet(now) = ToSet(was) \cup {s[n]} BY <2>3, AppendToSet
    <3>4. /\ DOMAIN now = 1 .. Len(was) + 1 /\ now[Len(was) + 1] = s[n]
          /\ \A x \in 1 .. Len(was) : now[x] = was[x] /\ now[x] # s[n]
      BY <2>3, <2>5, <2>9 DEF Contains
    <3>5. s[n] \notin ToSet(was) BY <2>6, <3>4 DEF ToSet
    <3> HIDE DEF now
    <3>6. ASSUME NEW x \in DOMAIN now, NEW y \in DOMAIN now, NEW at \in 1 .. n,
                 x < y, s[at] = now[y]
          PROVE  \E p \in 1 .. at - 1 : s[p] = now[x]
      <4>1. x \in DOMAIN was /\ now[x] = was[x] BY <2>6, <3>4, <3>6
      <4>2. CASE y = Len(was) + 1
        <5>1. s[at] = s[n] BY <3>4, <3>6, <4>2
        <5>2. at \notin 1 .. n - 1
          <6> SUFFICES ASSUME at \in 1 .. n - 1 PROVE FALSE
            OBVIOUS
          <6>1. s[at] \in ToSet(was) BY <2>3
          <6> QED BY <3>5, <5>1, <6>1
        <5>3. at = n BY <2>1, <5>2
        <5> QED BY <2>7, <4>1, <5>3
      <4>3. CASE y # Len(was) + 1
        <5>1. y \in DOMAIN was /\ now[y] = was[y] /\ now[y] # s[n] BY <2>6, <3>4, <4>3
        <5>2. at \in 1 .. n - 1 BY <2>1, <3>6, <5>1
        <5> QED BY <2>3, <3>6, <4>1, <5>1, <5>2
      <4> QED BY <4>2, <4>3
    <3> QED BY <2>1, <2>4, <3>1, <3>2, <3>3, <3>6
  <2> QED BY <2>8, <2>9
<1>5. Len(s) \in S
  <2> DEFINE k == Len(s)
  <2>1. k \in Nat /\ \A n \in 1 .. k : n - 1 \in S => n \in S BY <1>1, <1>4
  <2> HIDE DEF S, k
  <2>2. 0 .. k \subseteq S BY <1>3, <2>1, GoDown
  <2> QED BY <2>1, <2>2 DEF k
<1> QED BY <1>1, <1>2, <1>5

\* Of finitely many numbers one is the largest.
LEMMA LargestIsOne ==
    ASSUME NEW n \in Nat, NEW f \in [1 .. n -> Int], NEW P \in SUBSET (1 .. n), P # {}
    PROVE  LET V == {f[i] : i \in P} IN Max(V) \in V /\ \A v \in V : Max(V) >= v
<1> DEFINE Has(Q) == \E m \in Q : \A i \in Q : f[m] >= f[i]
           S == {k \in 0 .. n : \A Q \in SUBSET (1 .. k) : Q # {} => Has(Q)}
<1>1. 0 \in S
  <2>1. 0 \in 0 .. n /\ 1 .. 0 = {} OBVIOUS
  <2> HIDE DEF Has
  <2>2. \A Q \in SUBSET (1 .. 0) : Q = {} BY <2>1
  <2> QED BY <2>1, <2>2
<1>2. ASSUME NEW k \in 1 .. n, k - 1 \in S PROVE k \in S
  <2> SUFFICES ASSUME NEW Q \in SUBSET (1 .. k), Q # {} PROVE Has(Q)
    OBVIOUS
  <2> DEFINE R == Q \ {k}
  <2>1. R \in SUBSET (1 .. k - 1) OBVIOUS
  <2>2. CASE R = {}
    <3>1. Q = {k} BY <2>2
    <3> QED BY <3>1
  <2>3. CASE R # {}
    <3>1. PICK m \in R : \A i \in R : f[m] >= f[i] BY <1>2, <2>1, <2>3
    <3>2. \A i \in Q : i \in R \/ i = k OBVIOUS
    <3>3. \A i \in Q : f[i] \in Int OBVIOUS
    <3>4. CASE k \in Q /\ f[k] >= f[m]
      <4>1. \A i \in Q : f[k] >= f[i] BY <3>1, <3>2, <3>3, <3>4
      <4> QED BY <3>4, <4>1
    <3>5. CASE ~(k \in Q /\ f[k] >= f[m])
      <4>1. \A i \in Q : f[m] >= f[i] BY <3>1, <3>2, <3>3, <3>5
      <4> QED BY <3>1, <4>1
    <3> QED BY <3>4, <3>5
  <2> QED BY <2>2, <2>3
<1>3. 0 .. n \subseteq S
  <2> HIDE DEF S
  <2> QED BY <1>1, <1>2, GoDown
<1>4. PICK m \in P : \A i \in P : f[m] >= f[i]
  <2>1. n \in 0 .. n OBVIOUS
  <2>2. n \in S
    <3> HIDE DEF S
    <3> QED BY <1>3, <2>1
  <2> QED BY <2>2
<1> DEFINE V == {f[i] : i \in P}
<1>5. f[m] \in V /\ \A v \in V : f[m] >= v BY <1>4
<1> HIDE DEF V
<1>6. Max(V) \in V /\ \A v \in V : Max(V) >= v BY <1>5 DEF Max
<1> QED BY <1>6 DEF V

\* The checks of candidates, the more urgent first.
LEMMA OrderOfChecks ==
    ASSUME NEW all, IsSeq(all), \A c \in ToSet(all) : c.priority \in Int
    PROVE  LET distinct == ByPriority(all)
           IN /\ Len(distinct) \in Nat /\ DOMAIN distinct = 1 .. Len(distinct)
              /\ IsSeq(distinct) /\ IsInjective(distinct)
              /\ ToSet(distinct) = {c.check : c \in ToSet(all)}
              /\ \A i, j \in DOMAIN distinct, c \in ToSet(all) :
                    i < j /\ c.check = distinct[j] =>
                        \E b \in ToSet(all) : b.check = distinct[i] /\ b.priority >= c.priority
<1> DEFINE places == DOMAIN all
           Sooner(i, j) == \/ all[i].priority > all[j].priority
                           \/ all[i].priority = all[j].priority /\ i < j
           R == {p \in places \X places : Sooner(p[1], p[2])}
           order == InOrder(places, R)
           s == [i \in DOMAIN order |-> all[order[i]].check]
           distinct == ByPriority(all)
<1>1. distinct = Uniq(s) BY DEF ByPriority
<1>2. /\ Len(all) \in Nat /\ places = 1 .. Len(all)
      /\ \A i \in places : all[i] \in ToSet(all) /\ all[i].priority \in Int
      /\ \A c \in ToSet(all) : \E i \in places : c = all[i]
  BY DEF IsSeq, ToSet
<1>3. \A x, y \in places : <<x, y>> \in R <=> Sooner(x, y) OBVIOUS
<1>4. /\ order \in Seq(places) /\ ToSet(order) = places
      /\ \A i, j \in 1 .. Len(order) : i < j => <<order[i], order[j]>> \in R
  <2>1. IsFiniteSet(places) BY <1>2, FS_Interval
  <2>2. \A x \in places : <<x, x>> \notin R BY <1>2, <1>3
  <2>3. \A x, y, z \in places : <<x, y>> \in R /\ <<y, z>> \in R => <<x, z>> \in R
    <3> SUFFICES ASSUME NEW x \in places, NEW y \in places, NEW z \in places,
                        Sooner(x, y), Sooner(y, z)
                 PROVE  Sooner(x, z)
      BY <1>3
    <3>1. x \in Nat /\ y \in Nat /\ z \in Nat BY <1>2
    <3>2. all[x].priority \in Int /\ all[y].priority \in Int /\ all[z].priority \in Int BY <1>2
    <3> QED BY <3>1, <3>2
  <2>4. \A x, y \in places : x # y => <<x, y>> \in R \/ <<y, x>> \in R
    <3> SUFFICES ASSUME NEW x \in places, NEW y \in places, x # y
                 PROVE  Sooner(x, y) \/ Sooner(y, x)
      BY <1>3
    <3>1. x \in Nat /\ y \in Nat BY <1>2
    <3>2. all[x].priority \in Int /\ all[y].priority \in Int BY <1>2
    <3> QED BY <3>1, <3>2
  <2> HIDE DEF places, R
  <2>5. /\ order \in Seq(places) /\ Len(order) = Cardinality(places) /\ ToSet(order) = places
        /\ \A i, j \in 1 .. Cardinality(places) : i < j => <<order[i], order[j]>> \in R
    BY <2>1, <2>2, <2>3, <2>4, OrderIsExact
  <2> QED BY <2>5
<1> HIDE DEF order
<1>5. /\ Len(order) \in Nat /\ DOMAIN order = 1 .. Len(order)
      /\ \A i \in 1 .. Len(order) : order[i] \in places
      /\ \A x \in places : \E i \in 1 .. Len(order) : order[i] = x
  <2> HIDE DEF places, R
  <2>1. Len(order) \in Nat /\ DOMAIN order = 1 .. Len(order) BY <1>4
  <2>2. \A i \in 1 .. Len(order) : order[i] \in places BY <1>4
  <2> QED BY <1>4, <2>1, <2>2 DEF ToSet
<1> HIDE DEF R, places
<1>6. IsSeq(s) /\ DOMAIN s = 1 .. Len(order)
  <2>1. IsSeq(order) BY <1>4, IsList
  <2>2. s = [i \in DOMAIN order |-> s[i]] /\ DOMAIN s = DOMAIN order OBVIOUS
  <2> HIDE DEF s
  <2> QED BY <1>5, <2>1, <2>2, ListOver
<1>7. /\ \A i \in 1 .. Len(order) : s[i] = all[order[i]].check
  BY <1>5
<1>8. ToSet(s) = {c.check : c \in ToSet(all)}
  <2>1. \A i \in 1 .. Len(order) : \E c \in ToSet(all) : s[i] = c.check BY <1>2, <1>5, <1>7
  <2>2. ASSUME NEW c \in ToSet(all) PROVE \E i \in 1 .. Len(order) : s[i] = c.check
    <3>1. PICK x \in places : c = all[x] BY <1>2
    <3>2. PICK i \in 1 .. Len(order) : order[i] = x BY <1>5, <3>1
    <3>3. s[i] = c.check BY <1>7, <3>1, <3>2
    <3> QED BY <3>3
  <2> HIDE DEF s
  <2> QED BY <1>6, <2>1, <2>2 DEF ToSet
<1> HIDE DEF s, distinct
<1>9. /\ distinct \in Seq(ToSet(s)) /\ ToSet(distinct) = ToSet(s) /\ IsInjective(distinct)
  BY <1>1, <1>6, UniqIsExact
<1>10. Len(distinct) \in Nat /\ DOMAIN distinct = 1 .. Len(distinct) /\ IsSeq(distinct)
  <2> DEFINE X == ToSet(s)
  <2>1. distinct \in Seq(X) BY <1>9
  <2> HIDE DEF X
  <2> QED BY <2>1, IsList
<1>11. ASSUME NEW i \in DOMAIN distinct, NEW j \in DOMAIN distinct, NEW c \in ToSet(all),
              i < j, c.check = distinct[j]
       PROVE  \E b \in ToSet(all) : b.check = distinct[i] /\ b.priority >= c.priority
  <2>1. PICK x \in places : c = all[x] BY <1>2
  <2>2. PICK q \in 1 .. Len(order) : order[q] = x BY <1>5, <2>1
  <2>3. q \in DOMAIN s /\ s[q] = distinct[j] BY <1>6, <1>7, <1>11, <2>1, <2>2
  <2>4. PICK p \in 1 .. q - 1 : s[p] = distinct[i] BY <1>1, <1>6, <1>11, <2>3, UniqKeepsOrder
  <2>5. p \in 1 .. Len(order) /\ p < q BY <1>5, <2>2
  <2>6. <<order[p], order[q]>> \in R /\ order[p] \in places /\ order[q] \in places
    BY <1>4, <1>5, <2>5
  <2>7. Sooner(order[p], order[q]) BY <1>3, <2>6
  <2>8. all[order[p]].priority >= all[order[q]].priority BY <1>2, <2>6, <2>7
  <2>9. all[order[p]].check = distinct[i] /\ all[order[p]] \in ToSet(all)
    BY <1>2, <1>7, <2>4, <2>5, <2>6
  <2> QED BY <2>1, <2>2, <2>8, <2>9
<1> QED BY <1>8, <1>9, <1>10, <1>11 DEF distinct

\* The first k numbers.
LEMMA FilledInterval ==
    ASSUME NEW k \in Nat
    PROVE  IsFiniteSet(1 .. k) /\ Cardinality(1 .. k) = k
<1>1. /\ IsFiniteSet(1 .. k)
      /\ Cardinality(1 .. k) = IF 1 > k THEN 0 ELSE k - 1 + 1
  BY FS_Interval
<1> QED BY <1>1

\* A list without repetition has as many places as elements.
LEMMA InjectiveLength ==
    ASSUME NEW s, IsSeq(s), IsInjective(s)
    PROVE  Cardinality(ToSet(s)) = Len(s)
<1>1. Len(s) \in Nat /\ DOMAIN s = 1 .. Len(s) BY DEF IsSeq
<1>2. s \in [1 .. Len(s) -> ToSet(s)] BY <1>1 DEF IsSeq, ToSet
<1> DEFINE k == Len(s)  X == ToSet(s)
<1>3. s \in Bijection(1 .. k, X)
  <2>1. \A x \in X : \E i \in 1 .. k : s[i] = x BY <1>1 DEF ToSet
  <2> HIDE DEF k, X
  <2>2. s \in Surjection(1 .. k, X) BY <1>2, <2>1 DEF Surjection, k, X
  <2>3. s \in Injection(1 .. k, X) BY <1>2 DEF Injection, k, X
  <2> QED BY <2>2, <2>3 DEF Bijection
<1>4. IsFiniteSet(1 .. k) /\ Cardinality(1 .. k) = k BY <1>1, FilledInterval
<1>5. Cardinality(X) = k
  <2> HIDE DEF k, X
  <2>1. ExistsBijection(1 .. k, X) BY <1>3 DEF ExistsBijection
  <2> QED BY <1>4, <2>1, FS_Bijection
<1> QED BY <1>5

\* How urgent candidates make a check.
UrgencyIn(all, check) == Max({c.priority : c \in {d \in ToSet(all) : d.check = check}})

\* The urgency of a check among candidates is that of one of them, and no less than any.
LEMMA UrgencyIsLargest ==
    ASSUME NEW all, IsSeq(all), \A c \in ToSet(all) : c.priority \in Int,
           NEW check \in {c.check : c \in ToSet(all)}
    PROVE  LET V == {c.priority : c \in {d \in ToSet(all) : d.check = check}}
           IN Max(V) \in V /\ \A v \in V : Max(V) >= v
<1>1. /\ Len(all) \in Nat /\ DOMAIN all = 1 .. Len(all)
      /\ \A i \in 1 .. Len(all) : all[i] \in ToSet(all) /\ all[i].priority \in Int
      /\ \A c \in ToSet(all) : \E i \in 1 .. Len(all) : c = all[i]
  BY DEF IsSeq, ToSet
<1> DEFINE n == Len(all)
           f == [i \in 1 .. n |-> all[i].priority]
           P == {i \in 1 .. n : all[i].check = check}
           V == {c.priority : c \in {d \in ToSet(all) : d.check = check}}
<1>2. f \in [1 .. n -> Int] BY <1>1
<1>3. P # {} BY <1>1
<1>4. V = {f[i] : i \in P} BY <1>1
<1> HIDE DEF f, V
<1>5. LET W == {f[i] : i \in P} IN Max(W) \in W /\ \A v \in W : Max(W) >= v
  BY <1>1, <1>2, <1>3, LargestIsOne
<1> QED BY <1>4, <1>5 DEF V

\* The first three checks of candidates.
LEMMA PlanOfChecks ==
    ASSUME NEW all, IsSeq(all), \A c \in ToSet(all) : c.priority \in Int,
           NEW plan, plan = SubSeq(ByPriority(all), 1, Least(PrimaryCheckLimit, Len(ByPriority(all))))
    PROVE  LET checks == {c.check : c \in ToSet(all)}
           IN /\ IsInjective(plan) /\ ToSet(plan) \subseteq checks
              /\ Len(plan) = Least(PrimaryCheckLimit, Cardinality(checks))
              /\ Len(plan) \in Nat /\ Len(plan) <= Len(ByPriority(all))
              /\ \A i \in 1 .. Len(plan) : plan[i] = ByPriority(all)[i]
              /\ \A shown \in ToSet(plan), left \in checks \ ToSet(plan) :
                    UrgencyIn(all, shown) >= UrgencyIn(all, left)
<1> DEFINE distinct == ByPriority(all)
           k == Least(PrimaryCheckLimit, Len(distinct))
           checks == {c.check : c \in ToSet(all)}
           V(check) == {c.priority : c \in {d \in ToSet(all) : d.check = check}}
<1>1. /\ Len(distinct) \in Nat /\ DOMAIN distinct = 1 .. Len(distinct)
      /\ IsSeq(distinct) /\ IsInjective(distinct) /\ ToSet(distinct) = checks
      /\ \A i, j \in DOMAIN distinct, c \in ToSet(all) :
            i < j /\ c.check = distinct[j] =>
                \E b \in ToSet(all) : b.check = distinct[i] /\ b.priority >= c.priority
  BY OrderOfChecks
<1>2. plan = SubSeq(distinct, 1, k) OBVIOUS
<1> HIDE DEF distinct
<1>3. k \in Nat /\ k <= Len(distinct) BY <1>1 DEF Least, PrimaryCheckLimit
<1> HIDE DEF k
<1>4. /\ Len(plan) = k /\ DOMAIN plan = 1 .. k
      /\ \A i \in 1 .. k : plan[i] = distinct[i] /\ i \in DOMAIN distinct
  <2> DEFINE X == ToSet(distinct)
  <2>1. distinct \in Seq(X) BY <1>1 DEF IsSeq
  <2> HIDE DEF X
  <2>2. /\ Len(SubSeq(distinct, 1, k)) = k
        /\ \A i \in 1 .. k : SubSeq(distinct, 1, k)[i] = distinct[i]
        /\ SubSeq(distinct, 1, k) \in Seq(X)
    <3>1. /\ 1 \in Int /\ k \in Int /\ \A i \in 1 .. k : distinct[i] \in X
          /\ k - 1 + 1 = k /\ \A i \in 1 .. k : 1 + i - 1 = i
          /\ (IF 1 <= k THEN k ELSE 0) = k
      BY <1>1, <1>3, <2>1
    <3>2. /\ SubSeq(distinct, 1, k) \in Seq(X)
          /\ Len(SubSeq(distinct, 1, k)) = IF 1 <= k THEN k - 1 + 1 ELSE 0
          /\ \A i \in 1 .. k - 1 + 1 : SubSeq(distinct, 1, k)[i] = distinct[1 + i - 1]
      BY <3>1, SubSeqProperties
    <3> QED BY <3>1, <3>2
  <2>3. Len(plan) = k /\ DOMAIN plan = 1 .. k /\ \A i \in 1 .. k : plan[i] = distinct[i]
    <3> DEFINE sub == SubSeq(distinct, 1, k)
    <3>1. Len(sub) = k /\ sub \in Seq(X) /\ \A i \in 1 .. k : sub[i] = distinct[i] BY <2>2
    <3>2. plan = sub BY <1>2
    <3> HIDE DEF sub
    <3>3. DOMAIN sub = 1 .. k
      <4>1. DOMAIN sub = 1 .. Len(sub) BY <3>1
      <4> QED BY <3>1, <4>1
    <3> QED BY <3>1, <3>2, <3>3, Zenon
  <2>4. \A i \in 1 .. k : i \in DOMAIN distinct BY <1>1, <1>3
  <2> QED BY <2>3, <2>4
<1>5. IsInjective(plan) BY <1>1, <1>4 DEF IsInjective
<1>6. ToSet(plan) \subseteq checks
  <2> HIDE DEF checks
  <2>1. \A i \in DOMAIN distinct : distinct[i] \in checks BY <1>1 DEF ToSet
  <2> QED BY <1>4, <2>1 DEF ToSet
<1>7. Len(plan) = Least(PrimaryCheckLimit, Cardinality(checks))
  <2>1. Cardinality(checks) = Len(distinct) BY <1>1, InjectiveLength
  <2> HIDE DEF checks
  <2> QED BY <1>4, <2>1 DEF k
<1>8. ASSUME NEW shown \in ToSet(plan), NEW left \in checks \ ToSet(plan)
      PROVE  Max(V(shown)) >= Max(V(left))
  <2>1. shown \in checks /\ left \in checks BY <1>6, <1>8
  <2>2. Max(V(left)) \in V(left) BY <2>1, UrgencyIsLargest
  <2>3. \A v \in V(shown) : Max(V(shown)) >= v BY <2>1, UrgencyIsLargest
  <2>4. Max(V(shown)) \in V(shown) BY <2>1, UrgencyIsLargest
  <2>5. PICK i \in 1 .. k : shown = distinct[i] BY <1>4, <1>8 DEF ToSet
  <2>6. PICK j \in DOMAIN distinct : left = distinct[j]
    <3>1. left \in ToSet(distinct) BY <1>1, <2>1
    <3> QED BY <3>1 DEF ToSet
  <2>7. j \notin 1 .. k
    <3> SUFFICES ASSUME j \in 1 .. k PROVE FALSE
      OBVIOUS
    <3>1. left = plan[j] BY <1>4, <2>6
    <3> QED BY <1>4, <1>8, <3>1 DEF ToSet
  <2>8. i < j /\ i \in DOMAIN distinct BY <1>1, <1>3, <1>4, <2>5, <2>6, <2>7
  <2>9. PICK c \in ToSet(all) : c.check = left /\ c.priority = Max(V(left)) BY <2>2
  <2>10. PICK b \in ToSet(all) : b.check = shown /\ b.priority >= c.priority
    <3>1. c.check = distinct[j] BY <2>6, <2>9
    <3>2. \E b \in ToSet(all) : b.check = distinct[i] /\ b.priority >= c.priority
      BY <1>1, <2>6, <2>8, <3>1
    <3> QED BY <2>5, <3>2
  <2>11. b.priority \in V(shown) BY <2>10
  <2> DEFINE u == Max(V(shown))
  <2>12. u \in Int /\ u >= b.priority BY <2>3, <2>4, <2>11
  <2> HIDE DEF u
  <2>13. u >= Max(V(left)) BY <2>9, <2>10, <2>12
  <2> QED BY <2>13 DEF u
<1>9. \A shown \in ToSet(plan), left \in checks \ ToSet(plan) :
         UrgencyIn(all, shown) >= UrgencyIn(all, left)
  BY <1>8 DEF UrgencyIn
<1> QED BY <1>3, <1>4, <1>5, <1>6, <1>7, <1>9 DEF distinct, checks

\* What is more urgent than everything else comes first.
LEMMA MostUrgentFirst ==
    ASSUME NEW all, IsSeq(all), \A c \in ToSet(all) : c.priority \in Int,
           NEW first, IsSeq(first), IsInjective(first), NEW top \in Int,
           \A check \in ToSet(first) : \E c \in ToSet(all) : c.check = check /\ c.priority >= top,
           \A c \in ToSet(all) : c.priority >= top => c.check \in ToSet(first),
           NEW i \in DOMAIN ByPriority(all), i <= Len(first)
    PROVE  ByPriority(all)[i] \in ToSet(first)
<1> DEFINE distinct == ByPriority(all)  m == Len(first)
<1>1. /\ Len(distinct) \in Nat /\ DOMAIN distinct = 1 .. Len(distinct)
      /\ ToSet(distinct) = {c.check : c \in ToSet(all)}
      /\ \A x, y \in DOMAIN distinct, c \in ToSet(all) :
            x < y /\ c.check = distinct[y] =>
                \E b \in ToSet(all) : b.check = distinct[x] /\ b.priority >= c.priority
  BY OrderOfChecks
<1> HIDE DEF distinct
<1>2. m \in Nat /\ DOMAIN first = 1 .. m /\ \A k \in 1 .. m : first[k] \in ToSet(first)
  BY DEF IsSeq, ToSet
<1>3. i \in 1 .. Len(distinct) /\ i <= m BY <1>1 DEF distinct
<1> SUFFICES ASSUME distinct[i] \notin ToSet(first) PROVE FALSE
  BY DEF distinct
<1>4. ASSUME NEW k \in 1 .. m PROVE \E j \in 1 .. i - 1 : distinct[j] = first[k]
  <2>1. PICK c \in ToSet(all) : c.check = first[k] /\ c.priority >= top BY <1>2
  <2>2. PICK j \in DOMAIN distinct : distinct[j] = first[k]
    <3>1. first[k] \in ToSet(distinct) BY <1>1, <2>1
    <3> QED BY <3>1 DEF ToSet
  <2>3. j # i BY <1>2, <2>2
  <2>4. ~(i < j)
    <3> SUFFICES ASSUME i < j PROVE FALSE
      OBVIOUS
    <3>1. PICK b \in ToSet(all) : b.check = distinct[i] /\ b.priority >= c.priority
      BY <1>1, <1>3, <2>1, <2>2
    <3>2. b.priority \in Int /\ c.priority \in Int OBVIOUS
    <3>3. b.priority >= top BY <2>1, <3>1, <3>2
    <3> QED BY <3>1, <3>3
  <2>5. j \in 1 .. i - 1 BY <1>1, <1>3, <2>2, <2>3, <2>4
  <2> QED BY <2>2, <2>5
<1> DEFINE g == [k \in 1 .. m |-> CHOOSE j \in 1 .. i - 1 : distinct[j] = first[k]]
<1>5. g \in [1 .. m -> 1 .. i - 1] /\ \A k \in 1 .. m : distinct[g[k]] = first[k] BY <1>4
<1> HIDE DEF g, m
<1>6. /\ IsFiniteSet(1 .. m) /\ Cardinality(1 .. m) = m
      /\ IsFiniteSet(1 .. i - 1) /\ Cardinality(1 .. i - 1) = i - 1
  BY <1>2, <1>3, FilledInterval
<1>7. PICK x, y \in 1 .. m : x # y /\ g[x] = g[y]
  <2> DEFINE S == 1 .. m  T == 1 .. i - 1
  <2>1. IsFiniteSet(S) /\ IsFiniteSet(T) /\ Cardinality(T) < Cardinality(S) /\ g \in [S -> T]
    BY <1>1, <1>2, <1>3, <1>5, <1>6
  <2> HIDE DEF S, T
  <2>2. \E x, y \in S : x # y /\ g[x] = g[y] BY <2>1, FS_PigeonHole
  <2> QED BY <2>2 DEF S
<1>8. first[x] = first[y] BY <1>5, <1>7
<1> QED BY <1>2, <1>7, <1>8 DEF IsInjective

-----------------------------------------------------------------------------
(* What the plan is made of *)

\* A report with the lists of a plan: the commands of the project have priorities, and no
\* check of a save comes twice.
Plannable(r) ==
    /\ IsSeq(r.rules) /\ IsSeq(r.checks) /\ IsSeq(r.requiredChecks)
    /\ IsSeq(r.projectChecks)
    /\ \A command \in ToSet(r.projectChecks) : ProjectPriority(command) \in 0 .. 100
    /\ IsSeq(r.saves.checks) /\ IsInjective(r.saves.checks)

\* Checks of one priority.
LEMMA RankedIsAList ==
    ASSUME NEW checks, IsSeq(checks), NEW priority
    PROVE  LET ranked == [i \in DOMAIN checks |-> [check |-> checks[i], priority |-> priority]]
           IN /\ IsSeq(ranked)
              /\ ToSet(ranked) = {[check |-> c, priority |-> priority] : c \in ToSet(checks)}
<1> DEFINE ranked == [i \in DOMAIN checks |-> [check |-> checks[i], priority |-> priority]]
<1>1. ranked = [i \in DOMAIN checks |-> ranked[i]] /\ DOMAIN ranked = DOMAIN checks OBVIOUS
<1>2. \A i \in DOMAIN checks : ranked[i] = [check |-> checks[i], priority |-> priority] OBVIOUS
<1> HIDE DEF ranked
<1>3. IsSeq(ranked) BY <1>1, ListOver
<1>4. ToSet(ranked) = {[check |-> c, priority |-> priority] : c \in ToSet(checks)}
  BY <1>1, <1>2 DEF ToSet
<1> QED BY <1>3, <1>4 DEF ranked

\* The candidates of a plan have priorities, those of the saves the highest.
LEMMA CandidatesAreRanked ==
    ASSUME NEW r, Plannable(r)
    PROVE  LET all == Candidates(r)
               first == r.saves.checks
           IN /\ IsSeq(all) /\ \A c \in ToSet(all) : c.priority \in Int
              /\ \A check \in ToSet(first) :
                    \E c \in ToSet(all) : c.check = check /\ c.priority >= 110
              /\ \A c \in ToSet(all) : c.priority >= 110 => c.check \in ToSet(first)
<1> DEFINE Ranked(checks, priority) ==
               [i \in DOMAIN checks |-> [check |-> checks[i], priority |-> priority]]
           ruled == Among(r.rules, {h \in ToSet(r.rules) : h.weight > 0})
           asked == [i \in DOMAIN ruled |-> ruled[i].check]
           first == r.saves.checks
           A == Ranked(first, 110)
           B == Ranked(asked, 100)
           C == Ranked(r.requiredChecks, 90)
           D == [i \in DOMAIN r.projectChecks |->
                    [check |-> ProjectCheck(r.projectChecks[i]),
                     priority |-> ProjectPriority(r.projectChecks[i])]]
           E == Ranked(r.checks, 20)
           all == Candidates(r)
           Low(s) == IsSeq(s) /\ \A c \in ToSet(s) : c.priority \in Int /\ c.priority < 110
<1>1. all = A \o B \o C \o D \o E BY DEF Candidates
<1>2. /\ IsSeq(first)
      /\ IsSeq(r.rules) /\ IsSeq(r.requiredChecks) /\ IsSeq(r.projectChecks) /\ IsSeq(r.checks)
      /\ \A command \in ToSet(r.projectChecks) : ProjectPriority(command) \in 0 .. 100
  BY DEF Plannable
<1>3. ASSUME NEW checks, IsSeq(checks), NEW priority \in {100, 90, 20}
      PROVE  Low(Ranked(checks, priority))
  <2> DEFINE s == Ranked(checks, priority)
  <2>1. IsSeq(s) /\ ToSet(s) = {[check |-> c, priority |-> priority] : c \in ToSet(checks)}
    BY <1>3, RankedIsAList
  <2> HIDE DEF s
  <2>2. \A c \in ToSet(s) : c.priority = priority BY <2>1
  <2> QED BY <2>1, <2>2 DEF s
<1>4. IsSeq(asked)
  <2>1. IsSeq(ruled) BY <1>2, AmongIsAList
  <2> HIDE DEF ruled
  <2>2. asked = [i \in DOMAIN ruled |-> asked[i]] /\ DOMAIN asked = DOMAIN ruled OBVIOUS
  <2> HIDE DEF asked
  <2> QED BY <2>1, <2>2, ListOver
<1>5. Low(D)
  <2> DEFINE commands == r.projectChecks
  <2>1. /\ D = [i \in DOMAIN commands |-> D[i]] /\ DOMAIN D = DOMAIN commands
        /\ \A i \in DOMAIN commands : D[i].priority = ProjectPriority(commands[i])
    OBVIOUS
  <2>2. \A i \in DOMAIN commands : commands[i] \in ToSet(commands) BY DEF ToSet
  <2> HIDE DEF D
  <2>3. IsSeq(D) BY <1>2, <2>1, ListOver
  <2>4. \A i \in DOMAIN D : D[i].priority \in 0 .. 100 BY <1>2, <2>1, <2>2
  <2>5. \A c \in ToSet(D) : c.priority \in 0 .. 100 BY <2>4 DEF ToSet
  <2>6. \A c \in ToSet(D) : c.priority \in Int /\ c.priority < 110 BY <2>5
  <2> QED BY <2>3, <2>6
<1>6. /\ IsSeq(A) /\ ToSet(A) = {[check |-> c, priority |-> 110] : c \in ToSet(first)}
  BY <1>2, RankedIsAList
<1>7. Low(B) /\ Low(C) /\ Low(E)
  <2> HIDE DEF Low, Ranked, asked
  <2> QED BY <1>2, <1>3, <1>4
<1> HIDE DEF A, B, C, D, E, first
<1>8. IsSeq(all) /\ ToSet(all) = ToSet(A) \cup ToSet(B) \cup ToSet(C) \cup ToSet(D) \cup ToSet(E)
  <2>1. IsSeq(A \o B) /\ ToSet(A \o B) = ToSet(A) \cup ToSet(B) BY <1>6, <1>7, JoinedHits
  <2>e. IsSeq(E) BY <1>7
  <2> DEFINE two == A \o B  three == two \o C  four == three \o D
  <2> HIDE DEF two
  <2>2. IsSeq(three) /\ ToSet(three) = ToSet(two) \cup ToSet(C) BY <1>7, <2>1, JoinedHits DEF two
  <2> HIDE DEF three
  <2>3. IsSeq(four) /\ ToSet(four) = ToSet(three) \cup ToSet(D) BY <1>5, <2>2, JoinedHits
  <2> HIDE DEF four
  <2>4. IsSeq(four \o E) /\ ToSet(four \o E) = ToSet(four) \cup ToSet(E) BY <2>e, <2>3, JoinedHits
  <2>5. all = four \o E BY <1>1 DEF two, three, four
  <2> QED BY <2>1, <2>2, <2>3, <2>4, <2>5 DEF two
<1>9. \A c \in ToSet(A) : c.priority = 110 /\ c.check \in ToSet(first) BY <1>6
<1>10. \A check \in ToSet(first) : \E c \in ToSet(A) : c.check = check /\ c.priority = 110
  <2> SUFFICES ASSUME NEW check \in ToSet(first)
               PROVE  \E c \in ToSet(A) : c.check = check /\ c.priority = 110
    OBVIOUS
  <2> DEFINE c == [check |-> check, priority |-> 110]
  <2>1. c \in ToSet(A) /\ c.check = check /\ c.priority = 110 BY <1>6
  <2> QED BY <2>1
<1> HIDE DEF all
<1>11. \A c \in ToSet(all) : \/ c \in ToSet(A)
                             \/ c.priority \in Int /\ c.priority < 110
  BY <1>5, <1>7, <1>8
<1>12. ToSet(A) \subseteq ToSet(all) BY <1>8
<1>13. \A c \in ToSet(all) : c.priority \in Int BY <1>9, <1>11
<1>14. \A c \in ToSet(all) : c.priority >= 110 => c.check \in ToSet(first)
  BY <1>9, <1>11
<1>15. \A check \in ToSet(first) : \E c \in ToSet(all) : c.check = check /\ c.priority >= 110
  BY <1>10, <1>12
<1> QED BY <1>8, <1>13, <1>14, <1>15 DEF all, first

\* The plan of such a report.
LEMMA PlanIsMade ==
    ASSUME NEW r, Plannable(r), r.primaryChecks = SelectPrimaryChecks(r)
    PROVE  LET plan == r.primaryChecks
               all == Candidates(r)
               checks == {c.check : c \in ToSet(all)}
           IN /\ IsInjective(plan) /\ ToSet(plan) \subseteq checks
              /\ Len(plan) = Least(PrimaryCheckLimit, Cardinality(checks))
              /\ \A shown \in ToSet(plan), left \in checks \ ToSet(plan) :
                    UrgencyIn(all, shown) >= UrgencyIn(all, left)
              /\ \A i \in 1 .. Least(Len(r.saves.checks), Len(plan)) :
                    Contains(r.saves.checks, plan[i])
<1> DEFINE plan == r.primaryChecks
           all == Candidates(r)
           first == r.saves.checks
           checks == {c.check : c \in ToSet(all)}
<1>1. /\ IsSeq(all) /\ \A c \in ToSet(all) : c.priority \in Int
      /\ \A check \in ToSet(first) : \E c \in ToSet(all) : c.check = check /\ c.priority >= 110
      /\ \A c \in ToSet(all) : c.priority >= 110 => c.check \in ToSet(first)
  BY CandidatesAreRanked
<1>2. plan = SubSeq(ByPriority(all), 1, Least(PrimaryCheckLimit, Len(ByPriority(all))))
  BY DEF SelectPrimaryChecks
<1>3. IsSeq(first) /\ IsInjective(first) BY DEF Plannable
<1> HIDE DEF all, plan, first
<1>4. /\ IsInjective(plan) /\ ToSet(plan) \subseteq checks
      /\ Len(plan) = Least(PrimaryCheckLimit, Cardinality(checks))
      /\ Len(plan) \in Nat /\ Len(plan) <= Len(ByPriority(all))
      /\ \A i \in 1 .. Len(plan) : plan[i] = ByPriority(all)[i]
      /\ \A shown \in ToSet(plan), left \in checks \ ToSet(plan) : 
            UrgencyIn(all, shown) >= UrgencyIn(all, left)
  <2>1. IsSeq(all) /\ \A c \in ToSet(all) : c.priority \in Int BY <1>1
  <2>2. LET named == {c.check : c \in ToSet(all)}
        IN /\ IsInjective(plan) /\ ToSet(plan) \subseteq named
           /\ Len(plan) = Least(PrimaryCheckLimit, Cardinality(named))
           /\ Len(plan) \in Nat /\ Len(plan) <= Len(ByPriority(all))
           /\ \A i \in 1 .. Len(plan) : plan[i] = ByPriority(all)[i]
           /\ \A shown \in ToSet(plan), left \in named \ ToSet(plan) :
                 UrgencyIn(all, shown) >= UrgencyIn(all, left)
    BY <1>2, <2>1, PlanOfChecks
  <2> QED BY <2>2
<1>5. Len(first) \in Nat /\ DOMAIN first = 1 .. Len(first) BY <1>3, ListOfHits
<1>6. Len(ByPriority(all)) \in Nat /\ DOMAIN ByPriority(all) = 1 .. Len(ByPriority(all))
  BY <1>1, OrderOfChecks
<1>7. ASSUME NEW i \in 1 .. Least(Len(first), Len(plan)) PROVE Contains(first, plan[i])
  <2>1. i \in 1 .. Len(first) /\ i \in 1 .. Len(plan)
    <3> DEFINE m == Len(first)  n == Len(plan)
    <3>1. m \in Nat /\ n \in Nat /\ i \in 1 .. Least(m, n) BY <1>4, <1>5, <1>7
    <3> HIDE DEF m, n
    <3>2. i \in 1 .. m /\ i \in 1 .. n BY <3>1 DEF Least
    <3> QED BY <3>2 DEF m, n
  <2>2. i \in DOMAIN ByPriority(all) /\ i <= Len(first) /\ plan[i] = ByPriority(all)[i]
    BY <1>4, <1>5, <1>6, <2>1
  <2>3. 110 \in Int OBVIOUS
  <2>4. ByPriority(all)[i] \in ToSet(first) BY <1>1, <1>3, <2>2, <2>3, MostUrgentFirst
  <2> QED BY <1>5, <2>2, <2>4 DEF ToSet, Contains
<1> QED BY <1>4, <1>7 DEF all, plan, first

\* [...new Set(values)] of a list is one.
LEMMA UniqIsAList ==
    ASSUME NEW s, IsSeq(s)
    PROVE  IsSeq(Uniq(s)) /\ ToSet(Uniq(s)) = ToSet(s)
<1> DEFINE u == Uniq(s)  X == ToSet(s)
<1>1. u \in Seq(X) /\ ToSet(u) = X BY UniqIsExact
<1> HIDE DEF u, X
<1>2. IsSeq(u) BY <1>1, IsList
<1> QED BY <1>1, <1>2 DEF u, X

\* The checks the built-in rules and the configuration ask for.
LEMMA BuiltChecksAreListed ==
    ASSUME NEW d, NEW c, c.preset \in DOMAIN Preset, IsSeq(c.testCommands)
    PROVE  IsSeq(AnalyzeDiff(d, c).checks)
<1> DEFINE settings == NormalizeConfig(c)
           changes == ParseFileChanges(d)
           docsOnly == IsDocsOnly(changes)
           patterns == {RiskPatterns[i].id : i \in DOMAIN RiskPatterns}
           met == PatternHits(changes, settings, IF docsOnly THEN patterns \ {"test-change"} ELSE {})
           configured == ConfiguredHighRiskHits(changes, settings)
           missing == MissingTestsHits(changes, settings)
           docs == IF docsOnly THEN <<BuiltIn("docs-only", 0, Files(changes))>> ELSE <<>>
           ruled == met \o configured \o missing \o docs
           commands == settings.testCommands
           first == [i \in DOMAIN ruled |-> ruled[i].check]
           second == [i \in DOMAIN commands |-> Check("configured", commands[i])]
           risk == ScoreRisk(changes, settings)
<1>1. IsSeq(ruled)
  <2>1. IsSeq(met) BY HitsAreListed
  <2>2. IsSeq(configured) BY OneIsAList DEF ConfiguredHighRiskHits
  <2>3. IsSeq(missing) BY OneIsAList DEF MissingTestsHits
  <2>4. IsSeq(docs) BY OneIsAList
  <2> HIDE DEF met, configured, missing, docs
  <2>5. IsSeq(met \o configured) BY <2>1, <2>2, BothAreLists
  <2>6. IsSeq(met \o configured \o missing) BY <2>3, <2>5, BothAreLists
  <2> QED BY <2>4, <2>6, BothAreLists
<1>2. IsSeq(commands)
  <2> DEFINE a == [Preset[c.preset] EXCEPT !.failThreshold =
                      IF c.failThreshold = None THEN @ ELSE Most(1, c.failThreshold)]
             b == [preset |-> c.preset, highRiskPaths |-> c.highRiskPaths,
                   testCommands |-> c.testCommands]
  <2>1. settings = Extended(a, b) BY DEF NormalizeConfig
  <2>2. "testCommands" \notin DOMAIN a
    <3> DEFINE p == Preset[c.preset]
    <3>1. DOMAIN a = DOMAIN p OBVIOUS
    <3>2. DOMAIN Preset = {"safe", "standard", "strict"} BY DEF Preset
    <3>3. DOMAIN p = {"failThreshold", "reviewThreshold", "lines", "files", "delta", "highRisk",
                      "missingTests"}
      BY <3>2 DEF Preset
    <3> HIDE DEF p, a
    <3> QED BY <3>1, <3>3
  <2>3. b.testCommands = c.testCommands /\ "testCommands" \in DOMAIN b OBVIOUS
  <2> HIDE DEF a, b
  <2>4. settings.testCommands = c.testCommands BY <2>1, <2>2, <2>3 DEF Extended
  <2> QED BY <2>4
<1>3. risk.checks = Uniq(first \o second) BY DEF ScoreRisk
<1> HIDE DEF ruled, commands
<1>4. /\ first = [i \in DOMAIN ruled |-> first[i]] /\ DOMAIN first = DOMAIN ruled
      /\ second = [i \in DOMAIN commands |-> second[i]] /\ DOMAIN second = DOMAIN commands
  OBVIOUS
<1> HIDE DEF first, second
<1>5. IsSeq(first) BY <1>1, <1>4, ListOver
<1>6. IsSeq(second) BY <1>2, <1>4, ListOver
<1>7. IsSeq(first \o second) BY <1>5, <1>6, BothAreLists
<1>8. IsSeq(risk.checks) BY <1>3, <1>7, UniqIsAList
<1> HIDE DEF risk
<1>9. AnalyzeDiff(d, c).checks = IF risk.checks = <<>> THEN <<Check("default", <<>>)>> ELSE risk.checks
  BY DEF AnalyzeDiff, risk
<1>10. IsSeq(<<Check("default", <<>>)>>) BY OneIsAList
<1> QED BY <1>8, <1>9, <1>10

\* What is detected in a repository is a list of commands that have priorities.
LEMMA DetectedAreListed ==
    ASSUME NEW project \in Project
    PROVE  LET commands == DetectProjectChecks(project)
           IN IsSeq(commands) /\ \A command \in ToSet(commands) : ProjectPriority(command) \in 0 .. 100
<1> DEFINE commands == DetectProjectChecks(project)
           scripts == PackageScripts(project)
           python == PythonMetadata(project)
           smoke == RootSmoke(project)
           readme == ReadmeCommands(project)
<1>1. /\ IsSeq(project.scripts) /\ IsSeq(project.tools) /\ IsSeq(project.smoke)
      /\ IsSeq(project.readmes) /\ \A lines \in ToSet(project.readmes) : IsSeq(lines)
      /\ ToSet(commands) \subseteq PreferredCommand \cup DOMAIN CategoryPriority
  BY InputAssumption
<1>2. IsSeq(scripts)
  <2>1. IsSeq(ScriptPriority)
    <3> DEFINE s == ScriptPriority
    <3>1. s = [i \in 1 .. 12 |-> s[i]] /\ DOMAIN s = 1 .. 12 BY DEF ScriptPriority
    <3> HIDE DEF s
    <3>2. \A i \in 1 .. 12 : s[i] \in ToSet(s) BY <3>1 DEF ToSet
    <3>3. s \in Seq(ToSet(s)) BY <3>1, <3>2
    <3> QED BY <3>3 DEF IsSeq, s
  <2> DEFINE preferred == Among(ScriptPriority, ToSet(project.scripts))
  <2>2. IsSeq(preferred) BY <2>1, AmongIsAList
  <2>3. scripts = preferred \o project.scripts BY DEF PackageScripts
  <2> HIDE DEF scripts, preferred
  <2> QED BY <1>1, <2>2, <2>3, BothAreLists
<1>3. IsSeq(python)
  <2>1. PICK more \in {<<>>, <<"unittest">>} : python = project.tools \o more BY DEF PythonMetadata
  <2>2. IsSeq(more) BY OneIsAList
  <2> HIDE DEF python
  <2> QED BY <1>1, <2>1, <2>2, BothAreLists
<1>4. IsSeq(smoke)
  <2> DEFINE files == Among(project.smoke, {e \in ToSet(project.smoke) : e.kind = "file"})
  <2>1. IsSeq(files) BY <1>1, AmongIsAList
  <2>2. smoke = [i \in DOMAIN files |-> files[i].command] BY DEF RootSmoke
  <2> HIDE DEF files, smoke
  <2>3. smoke = [i \in DOMAIN files |-> smoke[i]] /\ DOMAIN smoke = DOMAIN files BY <2>2
  <2> QED BY <2>1, <2>3, ListOver
<1>5. IsSeq(readme)
  <2> DEFINE lines == FlattenSeq(project.readmes)
  <2>1. IsSeq(lines) BY <1>1, FlattenedIsAList
  <2>2. readme = Among(lines, ToSet(lines) \ {"prose"}) BY DEF ReadmeCommands
  <2> HIDE DEF lines, readme
  <2> QED BY <2>1, <2>2, AmongIsAList
<1>6. IsSeq(commands)
  <2>1. commands = Uniq(scripts \o python \o smoke \o readme) BY DEF DetectProjectChecks
  <2> HIDE DEF commands, scripts, python, smoke, readme
  <2>2. IsSeq(scripts \o python) BY <1>2, <1>3, BothAreLists
  <2>3. IsSeq(scripts \o python \o smoke) BY <1>4, <2>2, BothAreLists
  <2>4. IsSeq(scripts \o python \o smoke \o readme) BY <1>5, <2>3, BothAreLists
  <2> QED BY <2>1, <2>4, UniqIsAList
<1>7. ASSUME NEW command \in PreferredCommand \cup DOMAIN CategoryPriority
      PROVE  ProjectPriority(command) \in 0 .. 100
  <2>1. CASE command \in PreferredCommand
    <3> DEFINE priority == ProjectPriority(command)
    <3> SUFFICES priority \in {100, 95, 90, 85}
      <4> HIDE DEF priority
      <4>1. priority \in {100, 95, 90, 85} => priority \in 0 .. 100 OBVIOUS
      <4> QED BY <4>1 DEF priority
    <3>1. \/ command = "npm run smoke" \/ command = "npm test"
          \/ command = "npm run check" \/ command = "npm run release:check"
      BY <2>1, Zenon DEF PreferredCommand
    <3>2. CASE command = "npm run smoke" BY <3>2, Zenon DEF ProjectPriority
    <3>3. CASE command = "npm test" BY <3>3, Zenon DEF ProjectPriority
    <3>4. CASE command = "npm run check" BY <3>4, Zenon DEF ProjectPriority
    <3>5. CASE command = "npm run release:check" BY <3>5, Zenon DEF ProjectPriority
    <3> QED BY <3>1, <3>2, <3>3, <3>4, <3>5, Zenon
  <2>2. CASE command \notin PreferredCommand
    <3>1. CategoryPriority[command] \in {80, 70, 60, 50} BY <1>7, <2>2, CategoryAssumption
    <3>2. ProjectPriority(command) = CategoryPriority[command]
      BY <2>2 DEF PreferredCommand, ProjectPriority
    <3>3. CategoryPriority[command] \in 0 .. 100 BY <3>1
    <3> QED BY <3>2, <3>3
  <2> QED BY <2>1, <2>2
<1> HIDE DEF commands
<1> QED BY <1>1, <1>6, <1>7 DEF commands

\* A scan's report can be planned for: no policy has asked for a check yet.
LEMMA ScanIsPlannable ==
    ASSUME NEW d, NEW c, c.preset \in DOMAIN Preset, IsSeq(c.testCommands), IsSeq(c.customRules),
           NEW project \in Project
    PROVE  Plannable(Analyzed(d, c, project))
<1> DEFINE r == Analyzed(d, c, project)
           built == AnalyzeDiff(d, c)
           ruled == ApplyCustomRules(built, d, c.customRules, <<"custom">>)
           extras == [customRuleWarnings |-> NormalizeCustomRules(c.customRules).warnings,
                      suppressionWarnings |-> SuppressionWarnings(c.suppressions, Today),
                      suppressedFindings |->
                          SuppressedFindings(ruled.rules, c.suppressions, Today),
                      configDiagnostics |-> ConfigDiagnostics(c),
                      policyRuleWarnings |-> {}, packs |-> <<>>, requiredChecks |-> <<>>,
                      saves |-> [status |-> "none", concerns |-> {}, checks |-> <<>>],
                      projectChecks |-> <<>>, guidance |-> None, primaryChecks |-> <<>>]
           whole == Extended(ruled, extras)
           commands == DetectProjectChecks(project)
           words == [i \in DOMAIN commands |-> ProjectCheck(commands[i])]
<1>1. Ruled(built) /\ DOMAIN built = BuiltFields /\ IsSeq(built.checks)
  BY BuiltIsRuled, BuiltChecksAreListed DEF BuiltFields
<1>2. DOMAIN ruled = BuiltFields /\ IsSeq(ruled.rules) /\ IsSeq(ruled.checks)
  <2>1. WithRules(built, ruled, ParseFileChanges(d), c.customRules, <<"custom">>)
    BY <1>1, RulesAreApplied
  <2> HIDE DEF built, ruled
  <2> QED BY <1>1, <2>1 DEF WithRules
<1>3. r = ApplyProjectChecks(whole, project) BY DEF Analyzed
<1>4. DOMAIN extras = ExtraFields BY DEF ExtraFields
<1>5. extras.requiredChecks = <<>> /\ extras.saves.checks = <<>> OBVIOUS
<1> HIDE DEF r, ruled, built, extras
<1>6. /\ DOMAIN whole = BuiltFields \cup ExtraFields
      /\ whole.rules = ruled.rules /\ whole.checks = ruled.checks
      /\ whole.requiredChecks = extras.requiredChecks /\ whole.saves = extras.saves
  BY <1>2, <1>4 DEF Extended, BuiltFields, ExtraFields
<1> HIDE DEF whole
<1>7. IsSeq(commands) /\ \A command \in ToSet(commands) : ProjectPriority(command) \in 0 .. 100
  BY DetectedAreListed
<1>8. /\ r.rules = whole.rules /\ r.requiredChecks = whole.requiredChecks /\ r.saves = whole.saves
      /\ r.projectChecks = commands
      /\ r.checks = IF commands = <<>> THEN whole.checks ELSE Uniq(words \o whole.checks)
  <2>1. {"rules", "requiredChecks", "saves", "projectChecks", "checks"} \subseteq DOMAIN whole
    BY <1>6 DEF BuiltFields, ExtraFields
  <2> QED BY <1>3, <2>1 DEF ApplyProjectChecks
<1>9. IsSeq(words)
  <2>1. words = [i \in DOMAIN commands |-> words[i]] /\ DOMAIN words = DOMAIN commands OBVIOUS
  <2> HIDE DEF words, commands
  <2> QED BY <1>7, <2>1, ListOver
<1> HIDE DEF words, commands
<1>10. IsSeq(r.checks) BY <1>2, <1>6, <1>8, <1>9, BothAreLists, UniqIsAList
<1>11. IsSeq(<<>>) /\ IsInjective(<<>>)
  <2>1. DOMAIN <<>> = {} OBVIOUS
  <2>2. IsInjective(<<>>) BY <2>1 DEF IsInjective
  <2> QED BY <2>2, OneIsAList
<1> QED BY <1>2, <1>5, <1>6, <1>7, <1>8, <1>10, <1>11 DEF Plannable, r

\* The checks of a save are a list without repetition.
LEMMA SavesAreListed ==
    ASSUME NEW d
    PROVE  LET checks == InspectSaveCompatibility(d).checks IN IsSeq(checks) /\ IsInjective(checks)
<1> DEFINE checks == InspectSaveCompatibility(d).checks
           version == Check("save", "version")
           key == Check("save", "key")
<1>1. PICK one \in {<<>>, <<version>>}, two \in {<<>>, <<key>>} : checks = one \o two
  BY DEF InspectSaveCompatibility
<1>2. version # key BY DEF Check
<1> HIDE DEF checks, version, key
<1>3. IsSeq(checks)
  <2>1. IsSeq(one) /\ IsSeq(two) BY OneIsAList
  <2> QED BY <1>1, <2>1, BothAreLists
<1>4. IsInjective(checks)
  <2>1. checks \in {<<>>, <<version>>, <<key>>, <<version, key>>}
    <3>2. <<>> \o <<>> = <<>> OBVIOUS
    <3>3. <<version>> \o <<>> = <<version>> OBVIOUS
    <3>4. <<>> \o <<key>> = <<key>> OBVIOUS
    <3>5. <<version>> \o <<key>> = <<version, key>>
      <4> DEFINE s == <<version>>  t == <<key>>  u == s \o t  v == <<version, key>>
      <4>1. IsSeq(s) /\ IsSeq(t) BY OneIsAList
      <4>2. Len(s) = 1 /\ Len(t) = 1 /\ s[1] = version /\ t[1] = key OBVIOUS
      <4> HIDE DEF s, t
      <4>3. /\ IsSeq(u) /\ DOMAIN u = 1 .. 2
            /\ \A i \in 1 .. 2 : u[i] = IF i <= 1 THEN s[i] ELSE t[i - 1]
        <5>1. /\ IsSeq(u) /\ DOMAIN u = 1 .. Len(s) + Len(t)
              /\ \A i \in 1 .. Len(s) + Len(t) : u[i] = IF i <= Len(s) THEN s[i] ELSE t[i - Len(s)]
          BY <4>1, JoinedHits
        <5>2. Len(s) + Len(t) = 2 BY <4>2
        <5> HIDE DEF u
        <5> QED BY <4>2, <5>1, <5>2
      <4>4. u = [i \in DOMAIN u |-> u[i]]
        <5> DEFINE U == ToSet(u)
        <5>1. u \in Seq(U) BY <4>3 DEF IsSeq
        <5> HIDE DEF u, U
        <5> QED BY <5>1
      <4>5. u[1] = version /\ u[2] = key BY <4>2, <4>3
      <4> HIDE DEF u
      <4>6. \A i \in 1 .. 2 : u[i] = v[i] BY <4>5
      <4>7. DOMAIN v = 1 .. 2 /\ v = [i \in 1 .. 2 |-> v[i]] OBVIOUS
      <4> HIDE DEF v
      <4>8. u = v BY <4>3, <4>4, <4>6, <4>7
      <4> QED BY <4>8 DEF u, v, s, t
    <3> QED BY <1>1, <3>2, <3>3, <3>4, <3>5, Zenon
  <2>2. \A i, j \in DOMAIN checks : checks[i] = checks[j] => i = j
    <3>1. CASE checks = <<>> BY <3>1
    <3>2. CASE checks = <<version>> BY <3>2
    <3>3. CASE checks = <<key>> BY <3>3
    <3>4. CASE checks = <<version, key>> BY <1>2, <3>4
    <3> QED BY <2>1, <3>1, <3>2, <3>3, <3>4
  <2> QED BY <2>2 DEF IsInjective
<1> QED BY <1>3, <1>4 DEF checks

\* Policy and guidance leave a report that can be planned for, and plan for it.
LEMMA PolicyIsPlannable ==
    ASSUME NEW a, DOMAIN a = BuiltFields \cup ExtraFields, Plannable(a),
           NEW d, NEW pack \in Packs, NEW locations
    PROVE  LET r == Governed(a, d, pack, locations)
           IN Plannable(r) /\ r.primaryChecks = SelectPrimaryChecks(r)
<1> DEFINE r == Governed(a, d, pack, locations)
           policed == IF pack = None THEN a ELSE ApplyPolicyPack(a, d, pack)
           guidance == InspectReviewGuidance(d, IF pack = None THEN {} ELSE {pack}, locations)
           guided == [policed EXCEPT !.guidance = guidance]
           Fields == {"rules", "checks", "requiredChecks", "projectChecks", "saves"}
<1>1. DOMAIN policed = DOMAIN a /\ Plannable(policed)
  <2>1. CASE pack = None BY <2>1
  <2>2. CASE pack # None
    <3> DEFINE prefix == <<"policy", pack.id>>
               ruled == ApplyCustomRules(a, d, pack.rules, prefix)
               asked == pack.requiredChecks
               listed == [i \in DOMAIN asked |-> Listed(pack, asked[i])]
               planned == [i \in DOMAIN asked |-> Planned(asked[i])]
               saves == IF pack.id = BrowserGame THEN InspectSaveCompatibility(d) ELSE a.saves
               urgent == IF pack.id = BrowserGame THEN saves.checks ELSE <<>>
    <3>1. PICK packFile \in PackFile \ {None} : pack = packFile.pack BY <2>2 DEF Packs
    <3>2. IsSeq(pack.rules) /\ IsSeq(asked) BY <3>1, InputAssumption
    <3>3. Ruled(a) BY DEF Plannable, Ruled, BuiltFields
    <3>4. /\ DOMAIN ruled = DOMAIN a /\ IsSeq(ruled.rules) /\ IsSeq(ruled.checks)
          /\ ruled.requiredChecks = a.requiredChecks /\ ruled.projectChecks = a.projectChecks
      <4>1. WithRules(a, ruled, ParseFileChanges(d), pack.rules, prefix)
        BY <3>2, <3>3, RulesAreApplied
      <4>2. {"requiredChecks", "projectChecks"} \subseteq DOMAIN a \ (Touched \cup {"level"})
        BY DEF ExtraFields, Touched
      <4> HIDE DEF ruled, prefix
      <4> QED BY <4>1, <4>2 DEF WithRules, Plannable
    <3>5. IsSeq(saves.checks) /\ IsInjective(saves.checks) /\ IsSeq(urgent)
      BY SavesAreListed, OneIsAList DEF Plannable
    <3>6. IsSeq(listed) /\ IsSeq(planned)
      <4>1. /\ listed = [i \in DOMAIN asked |-> listed[i]] /\ DOMAIN listed = DOMAIN asked
            /\ planned = [i \in DOMAIN asked |-> planned[i]] /\ DOMAIN planned = DOMAIN asked
        OBVIOUS
      <4> HIDE DEF listed, planned, asked
      <4> QED BY <3>2, <4>1, ListOver
    <3>7. /\ DOMAIN policed = DOMAIN ruled
          /\ policed.rules = ruled.rules /\ policed.projectChecks = ruled.projectChecks
          /\ policed.requiredChecks = ruled.requiredChecks \o planned
          /\ policed.saves = saves
          /\ policed.checks = Uniq(urgent \o Uniq(listed \o ruled.checks))
      <4>1. Fields \cup {"packs", "policyRuleWarnings"} \subseteq DOMAIN ruled
        BY <3>4 DEF BuiltFields, ExtraFields
      <4>2. policed = ApplyPolicyPack(a, d, pack) BY <2>2
      <4> HIDE DEF policed
      <4> QED BY <4>1, <4>2 DEF ApplyPolicyPack
    <3> HIDE DEF policed, ruled, listed, planned, saves, urgent
    <3>8. IsSeq(policed.requiredChecks) BY <3>4, <3>6, <3>7, BothAreLists DEF Plannable
    <3>9. IsSeq(policed.checks)
      <4>1. IsSeq(Uniq(listed \o ruled.checks)) BY <3>4, <3>6, BothAreLists, UniqIsAList
      <4> QED BY <3>5, <3>7, <4>1, BothAreLists, UniqIsAList
    <3> QED BY <3>4, <3>5, <3>7, <3>8, <3>9 DEF Plannable
  <2> QED BY <2>1, <2>2
<1>2. r = [guided EXCEPT !.primaryChecks = SelectPrimaryChecks(guided)] BY DEF Governed
<1> HIDE DEF policed, guidance
<1>3. /\ DOMAIN guided = DOMAIN a
      /\ \A f \in DOMAIN a \ {"guidance"} : guided[f] = policed[f]
  BY <1>1
<1> HIDE DEF guided, r
<1>4. /\ \A f \in DOMAIN a \ {"primaryChecks"} : r[f] = guided[f]
      /\ r.primaryChecks = SelectPrimaryChecks(guided)
  <2>1. "primaryChecks" \in DOMAIN guided BY <1>3 DEF ExtraFields
  <2> QED BY <1>2, <1>3, <2>1
<1>5. Fields \subseteq DOMAIN a \ {"guidance", "primaryChecks"} BY DEF BuiltFields, ExtraFields
<1>6. /\ r.rules = guided.rules /\ r.checks = guided.checks /\ r.saves = guided.saves
      /\ r.requiredChecks = guided.requiredChecks /\ r.projectChecks = guided.projectChecks
      /\ r.rules = policed.rules /\ r.checks = policed.checks /\ r.saves = policed.saves
      /\ r.requiredChecks = policed.requiredChecks /\ r.projectChecks = policed.projectChecks
  BY <1>3, <1>4, <1>5
<1>7. Plannable(r) BY <1>1, <1>6 DEF Plannable
<1>8. Candidates(r) = Candidates(guided) BY <1>6 DEF Candidates
<1>9. SelectPrimaryChecks(r) = SelectPrimaryChecks(guided) BY <1>8 DEF SelectPrimaryChecks
<1> QED BY <1>4, <1>7, <1>9 DEF r

LEMMA PlanThen ==
    ASSUME Made
    PROVE  PlanIsUrgent
<1> SUFFICES ASSUME stage \in {"write", "summary", "print"} PROVE PlanIsUrgent
  BY DEF PlanIsUrgent
<1>1. Configured /\ args \in Args /\ IsGoverned BY DEF Made
<1>2. PICK project \in Project, pack \in Packs, locations \in Location :
         report = Governed(Analyzed(diff, config, project), diff, pack, locations)
  BY <1>1 DEF IsGoverned
<1> DEFINE a == Analyzed(diff, config, project)
<1>3. config.preset \in DOMAIN Preset /\ IsSeq(config.customRules)
  BY <1>1, ConfigIsResolved, ConfigIsParsed
<1>4. IsSeq(config.testCommands)
  <2>1. PICK document \in Document \ {Malformed} :
           ~FatalConfig(document) /\ config = ResolvedConfig(document, args)
    BY <1>1 DEF Configured
  <2>2. "testCommands" \in DOMAIN document /\ IsSeq(document.testCommands)
    BY <2>1, InputAssumption DEF FatalConfig
  <2>3. config.testCommands = document.testCommands BY <2>1, <2>2 DEF ResolvedConfig
  <2> QED BY <2>2, <2>3
<1>5. Plannable(a) BY <1>3, <1>4, ScanIsPlannable
<1>6. DOMAIN a = BuiltFields \cup ExtraFields BY <1>3, ScanReports
<1>7. report = Governed(a, diff, pack, locations) BY <1>2
<1> HIDE DEF a
<1>8. Plannable(report) /\ report.primaryChecks = SelectPrimaryChecks(report)
  BY <1>5, <1>6, <1>7, PolicyIsPlannable
<1>9. LET plan == report.primaryChecks
          all == Candidates(report)
          checks == {c.check : c \in ToSet(all)}
      IN /\ IsInjective(plan) /\ ToSet(plan) \subseteq checks
         /\ Len(plan) = Least(PrimaryCheckLimit, Cardinality(checks))
         /\ \A shown \in ToSet(plan), left \in checks \ ToSet(plan) :
               UrgencyIn(all, shown) >= UrgencyIn(all, left)
         /\ \A i \in 1 .. Least(Len(report.saves.checks), Len(plan)) :
               Contains(report.saves.checks, plan[i])
  BY <1>8, PlanIsMade
<1> QED BY <1>9 DEF PlanIsUrgent, UrgencyIn

\* The check plan (projectChecks.js, selectPrimaryChecks) a reviewer is shown, in every
\* output of every run, is of distinct checks of which none left out is more urgent, and
\* what a save needs checked comes before everything.
THEOREM PlanStaysUrgent == Spec => []PlanIsUrgent
BY MadeHolds, PlanThen, PTL

-----------------------------------------------------------------------------
(* Sums compared *)

\* Numbers that are no more, place by place, add up to no more.
LEMMA TotalCompares ==
    ASSUME NEW k \in Nat, NEW a \in [1 .. k -> Int], NEW b \in [1 .. k -> Int],
           \A i \in 1 .. k : a[i] <= b[i]
    PROVE  Total(a) \in Int /\ Total(b) \in Int /\ Total(a) <= Total(b)
<1>1. Len(a) = k /\ Len(b) = k OBVIOUS
<1>2. PICK s : (\A n \in 0 .. k : s[n] = SumAt(a, s, n)) /\ Total(a) = s[k]
  BY <1>1, SumsAreGiven
<1>3. PICK t : (\A n \in 0 .. k : t[n] = SumAt(b, t, n)) /\ Total(b) = t[k]
  BY <1>1, SumsAreGiven
<1> DEFINE S == {n \in 0 .. k : s[n] \in Int /\ t[n] \in Int /\ s[n] <= t[n]}
<1>4. 0 \in S BY <1>2, <1>3 DEF SumAt
<1>5. ASSUME NEW n \in 1 .. k, n - 1 \in S PROVE n \in S
  <2>1. n \in 0 .. k /\ n # 0 OBVIOUS
  <2>2. s[n] = s[n - 1] + a[n] /\ t[n] = t[n - 1] + b[n] BY <1>2, <1>3, <2>1 DEF SumAt
  <2> QED BY <1>5, <2>1, <2>2
<1>6. 0 .. k \subseteq S
  <2> HIDE DEF S
  <2> QED BY <1>4, <1>5, GoDown
<1> QED BY <1>2, <1>3, <1>6

\* Numbers that are not negative.
LEMMA TotalOfCounts ==
    ASSUME NEW k \in Nat, NEW a \in [1 .. k -> Nat]
    PROVE  Total(a) \in Nat
<1> DEFINE z == [i \in 1 .. k |-> 0]
<1>1. z \in [1 .. k -> Int] /\ Len(z) = k /\ \A i \in 1 .. k : z[i] = 0 OBVIOUS
<1> HIDE DEF z
<1>2. a \in [1 .. k -> Int] /\ \A i \in 1 .. k : z[i] <= a[i] BY <1>1
<1>3. Total(z) = 0 BY <1>1, TotalOfZeros
<1>4. Total(a) \in Int /\ Total(z) <= Total(a) BY <1>1, <1>2, TotalCompares
<1> QED BY <1>3, <1>4

\* Two numbers in every place.
LEMMA TotalOfSums ==
    ASSUME NEW k \in Nat, NEW a \in [1 .. k -> Int], NEW b \in [1 .. k -> Int],
           NEW c \in [1 .. k -> Int], \A i \in 1 .. k : c[i] = a[i] + b[i]
    PROVE  Total(a) \in Int /\ Total(b) \in Int /\ Total(c) = Total(a) + Total(b)
<1>1. Len(a) = k /\ Len(b) = k /\ Len(c) = k OBVIOUS
<1>2. PICK s : (\A n \in 0 .. k : s[n] = SumAt(a, s, n)) /\ Total(a) = s[k]
  BY <1>1, SumsAreGiven
<1>3. PICK t : (\A n \in 0 .. k : t[n] = SumAt(b, t, n)) /\ Total(b) = t[k]
  BY <1>1, SumsAreGiven
<1>4. PICK u : (\A n \in 0 .. k : u[n] = SumAt(c, u, n)) /\ Total(c) = u[k]
  BY <1>1, SumsAreGiven
<1> DEFINE S == {n \in 0 .. k : s[n] \in Int /\ t[n] \in Int /\ u[n] = s[n] + t[n]}
<1>5. 0 \in S
  <2>1. s[0] = 0 BY <1>2 DEF SumAt
  <2>2. t[0] = 0 BY <1>3 DEF SumAt
  <2>3. u[0] = 0 BY <1>4 DEF SumAt
  <2> QED BY <2>1, <2>2, <2>3
<1>6. ASSUME NEW n \in 1 .. k, n - 1 \in S PROVE n \in S
  <2>1. n \in 0 .. k /\ n # 0 OBVIOUS
  <2>2. s[n] = s[n - 1] + a[n] BY <1>2, <2>1 DEF SumAt
  <2>3. t[n] = t[n - 1] + b[n] BY <1>3, <2>1 DEF SumAt
  <2>4. u[n] = u[n - 1] + c[n] BY <1>4, <2>1 DEF SumAt
  <2>5. c[n] = a[n] + b[n] /\ a[n] \in Int /\ b[n] \in Int OBVIOUS
  <2>6. s[n - 1] \in Int /\ t[n - 1] \in Int /\ u[n - 1] = s[n - 1] + t[n - 1] BY <1>6
  <2> DEFINE x == s[n - 1]  y == t[n - 1]  p == a[n]  q == b[n]
  <2>7. /\ x \in Int /\ y \in Int /\ p \in Int /\ q \in Int /\ c[n] = p + q
        /\ s[n] = x + p /\ t[n] = y + q /\ u[n] = (x + y) + c[n]
    BY <2>2, <2>3, <2>4, <2>5, <2>6
  <2> HIDE DEF x, y, p, q
  <2>8. s[n] \in Int /\ t[n] \in Int /\ u[n] = s[n] + t[n] BY <2>7
  <2> QED BY <2>1, <2>8
<1>7. 0 .. k \subseteq S
  <2> HIDE DEF S
  <2> QED BY <1>5, <1>6, GoDown
<1> QED BY <1>2, <1>3, <1>4, <1>7

\* One place that counts.
LEMMA TotalOfOnly ==
    ASSUME NEW k \in Nat, NEW a \in [1 .. k -> Int], NEW j \in 1 .. k,
           \A i \in 1 .. k : i # j => a[i] = 0
    PROVE  Total(a) = a[j]
<1>1. Len(a) = k OBVIOUS
<1>2. PICK s : (\A n \in 0 .. k : s[n] = SumAt(a, s, n)) /\ Total(a) = s[k]
  BY <1>1, SumsAreGiven
<1> DEFINE S == {n \in 0 .. k : s[n] = IF n < j THEN 0 ELSE a[j]}
<1>3. 0 \in S BY <1>2 DEF SumAt
<1>4. ASSUME NEW n \in 1 .. k, n - 1 \in S PROVE n \in S
  <2>1. n \in 0 .. k /\ n # 0 OBVIOUS
  <2>2. s[n] = s[n - 1] + a[n] BY <1>2, <2>1 DEF SumAt
  <2>3. a[n] \in Int /\ a[j] \in Int /\ s[n - 1] = IF n - 1 < j THEN 0 ELSE a[j] BY <1>4
  <2>4. CASE n = j BY <2>1, <2>2, <2>3, <2>4
  <2>5. CASE n # j BY <2>1, <2>2, <2>3, <2>5
  <2> QED BY <2>4, <2>5
<1>5. 0 .. k \subseteq S
  <2> HIDE DEF S
  <2> QED BY <1>3, <1>4, GoDown
<1> QED BY <1>2, <1>5

\* One number left out of many that are not negative.
LEMMA TotalOfFewer ==
    ASSUME NEW k \in Nat, NEW a \in [1 .. k -> Nat], NEW j \in 1 .. k,
           NEW b \in [1 .. k - 1 -> Nat],
           \A i \in 1 .. k - 1 : b[i] = IF i < j THEN a[i] ELSE a[i + 1]
    PROVE  Total(b) \in Nat /\ Total(a) \in Nat /\ Total(b) <= Total(a)
<1>1. Len(a) = k /\ Len(b) = k - 1 /\ k - 1 \in Nat OBVIOUS
<1>2. PICK s : (\A n \in 0 .. k : s[n] = SumAt(a, s, n)) /\ Total(a) = s[k]
  BY <1>1, SumsAreGiven
<1>3. PICK t : (\A n \in 0 .. k - 1 : t[n] = SumAt(b, t, n)) /\ Total(b) = t[k - 1]
  BY <1>1, SumsAreGiven
<1> DEFINE N == {n \in 0 .. k : s[n] \in Nat}
           m == k - 1
           S == {n \in 0 .. m : t[n] \in Nat /\ (n < j => t[n] <= s[n]) /\ (n >= j => t[n] <= s[n + 1])}
<1>4. 0 .. k \subseteq N
  <2>1. 0 \in N BY <1>2 DEF SumAt
  <2>2. ASSUME NEW n \in 1 .. k, n - 1 \in N PROVE n \in N
    <3>1. n \in 0 .. k /\ n # 0 OBVIOUS
    <3>2. s[n] = s[n - 1] + a[n] BY <1>2, <3>1 DEF SumAt
    <3> QED BY <2>2, <3>1, <3>2
  <2> HIDE DEF N
  <2> QED BY <2>1, <2>2, GoDown
<1>5. \A n \in 1 .. k : s[n] = s[n - 1] + a[n] /\ s[n - 1] \in Nat /\ s[n] \in Nat
  <2> TAKE n \in 1 .. k
  <2>1. n \in 0 .. k /\ n - 1 \in 0 .. k /\ n # 0 OBVIOUS
  <2> QED BY <1>2, <1>4, <2>1 DEF SumAt
<1>6. 0 \in S BY <1>1, <1>2, <1>3 DEF SumAt
<1>7. ASSUME NEW n \in 1 .. m, n - 1 \in S PROVE n \in S
  <2>1. n \in 0 .. k - 1 /\ n # 0 /\ n \in 1 .. k /\ n + 1 \in 1 .. k /\ (n + 1) - 1 = n
        /\ (n - 1) + 1 = n
    OBVIOUS
  <2>2. t[n] = t[n - 1] + b[n] BY <1>3, <2>1 DEF SumAt
  <2>3. /\ s[n] = s[n - 1] + a[n] /\ s[n - 1] \in Nat /\ s[n] \in Nat
        /\ s[n + 1] = s[n] + a[n + 1] /\ s[n + 1] \in Nat
    BY <1>5, <2>1
  <2>4. t[n - 1] \in Nat /\ (n - 1 < j => t[n - 1] <= s[n - 1]) /\ (n - 1 >= j => t[n - 1] <= s[n])
    BY <1>7, <2>1
  <2>5. a[n] \in Nat /\ a[n + 1] \in Nat /\ b[n] = IF n < j THEN a[n] ELSE a[n + 1] BY <2>1
  <2>6. t[n] \in Nat /\ (n < j => t[n] <= s[n]) /\ (n >= j => t[n] <= s[n + 1])
    <3>1. CASE n < j BY <2>2, <2>3, <2>4, <2>5, <3>1
    <3>2. CASE n = j
      <4> DEFINE x == a[n + 1]  y == t[n - 1]
      <4>1. t[n] = y + x /\ y <= s[n] /\ y \in Nat /\ x \in Nat /\ s[n + 1] = s[n] + x /\ s[n] \in Nat
        BY <2>1, <2>2, <2>3, <2>4, <2>5, <3>2
      <4> HIDE DEF x, y
      <4>2. t[n] \in Nat /\ t[n] <= s[n + 1] BY <4>1
      <4> QED BY <3>2, <4>2
    <3>3. CASE n > j BY <2>2, <2>3, <2>4, <2>5, <3>3
    <3> QED BY <2>1, <3>1, <3>2, <3>3
  <2> QED BY <2>1, <2>6
<1>8. 0 .. m \subseteq S
  <2>1. m \in Nat BY <1>1
  <2> HIDE DEF S, m
  <2> QED BY <1>6, <1>7, <2>1, GoDown
<1>9. m \in S /\ k \in 1 .. k BY <1>1, <1>8
<1>10. s[k] = s[k - 1] + a[k] /\ s[k - 1] \in Nat /\ s[k] \in Nat /\ a[k] \in Nat BY <1>5, <1>9
<1> QED BY <1>2, <1>3, <1>9, <1>10

\* Rows and columns add up to the same.
LEMMA TotalOfTotals ==
    ASSUME NEW m \in Nat, NEW k \in Nat, NEW M \in [1 .. m -> [1 .. k -> Int]]
    PROVE  Total([j \in 1 .. k |-> Total([i \in 1 .. m |-> M[i][j]])])
            = Total([i \in 1 .. m |-> Total([j \in 1 .. k |-> M[i][j]])])
<1> DEFINE Column(n, j) == [i \in 1 .. n |-> M[i][j]]
           Row(i) == [j \in 1 .. k |-> M[i][j]]
           Columns(n) == [j \in 1 .. k |-> Total(Column(n, j))]
           Rows(n) == [i \in 1 .. n |-> Total(Row(i))]
           S == {n \in 0 .. m : Total(Columns(n)) = Total(Rows(n))}
<1>1. \A i \in 1 .. m : Row(i) \in [1 .. k -> Int] /\ Total(Row(i)) \in Int
  <2> TAKE i \in 1 .. m
  <2> DEFINE r == Row(i)
  <2>1. r \in [1 .. k -> Int] OBVIOUS
  <2> HIDE DEF r
  <2>2. \A j \in 1 .. k : r[j] <= r[j] BY <2>1
  <2>3. Total(r) \in Int BY <2>1, <2>2, TotalCompares
  <2> QED BY <2>1, <2>3 DEF r
<1>2. \A n \in 0 .. m, j \in 1 .. k : Column(n, j) \in [1 .. n -> Int] /\ Total(Column(n, j)) \in Int
  <2> TAKE n \in 0 .. m, j \in 1 .. k
  <2> DEFINE c == Column(n, j)
  <2>1. c \in [1 .. n -> Int] OBVIOUS
  <2> HIDE DEF c
  <2>2. n \in Nat /\ \A i \in 1 .. n : c[i] <= c[i] BY <2>1
  <2>3. Total(c) \in Int BY <2>1, <2>2, TotalCompares
  <2> QED BY <2>1, <2>3 DEF c
<1>3. 0 \in S
  <2> DEFINE cs == Columns(0)  rs == Rows(0)
  <2>1. Len(cs) = k /\ Len(rs) = 0 OBVIOUS
  <2>2. \A j \in 1 .. k : cs[j] = 0
    <3> TAKE j \in 1 .. k
    <3> DEFINE c == Column(0, j)
    <3>1. Len(c) \in Nat /\ \A i \in 1 .. Len(c) : c[i] = 0 OBVIOUS
    <3> HIDE DEF c
    <3>2. Total(c) = 0 BY <3>1, TotalOfZeros
    <3> QED BY <3>2 DEF c
  <2> HIDE DEF cs, rs
  <2>3. Total(cs) = 0 BY <2>1, <2>2, TotalOfZeros
  <2>4. Total(rs) = 0
    <3>1. \A i \in 1 .. Len(rs) : rs[i] = 0 BY <2>1
    <3> QED BY <2>1, <3>1, TotalOfZeros
  <2> QED BY <2>3, <2>4 DEF cs, rs
<1>4. ASSUME NEW n \in 1 .. m, n - 1 \in S PROVE n \in S
  <2> DEFINE l == n - 1
             was == Columns(l)  now == Columns(n)  row == Row(n)
             before == Rows(l)  after == Rows(n)
  <2>1. l \in Nat /\ l \in 0 .. m /\ n \in 0 .. m /\ l + 1 = n OBVIOUS
  <2>2. \A j \in 1 .. k : Total(Column(n, j)) = Total(Column(l, j)) + M[n][j]
    <3> TAKE j \in 1 .. k
    <3> DEFINE a == Column(l, j)  c == Column(n, j)  x == M[n][j]
    <3>1. a \in [1 .. l -> Int] /\ c \in [1 .. n -> Int] BY <1>2, <2>1
    <3>2. x \in Int OBVIOUS
    <3>3. (\A i \in 1 .. l : c[i] = a[i]) /\ c[l + 1] = x BY <2>1
    <3>4. c \in [1 .. l + 1 -> Int] BY <2>1, <3>1
    <3> HIDE DEF a, c, x, l
    <3>5. Total(c) = Total(a) + x BY <2>1, <3>1, <3>2, <3>3, <3>4, TotalOfMore
    <3> QED BY <3>5 DEF a, c, x
  <2>3. was \in [1 .. k -> Int] /\ now \in [1 .. k -> Int] /\ row \in [1 .. k -> Int]
    BY <1>1, <1>2, <2>1
  <2>4. \A j \in 1 .. k : now[j] = was[j] + row[j] BY <2>2
  <2>5. before \in [1 .. l -> Int] /\ after \in [1 .. n -> Int]
        /\ (\A i \in 1 .. l : after[i] = before[i]) /\ after[l + 1] = Total(row)
        /\ Total(row) \in Int
    <3>1. (\A i \in 1 .. l : i \in 1 .. n /\ i \in 1 .. m) /\ (\A i \in 1 .. n : i \in 1 .. m)
      BY <2>1
    <3>2. \A i \in 1 .. m : Total(Row(i)) \in Int BY <1>1
    <3> HIDE DEF Row, l
    <3> QED BY <2>1, <3>1, <3>2
  <2> DEFINE x == Total(row)
  <2>6. x \in Int /\ after[l + 1] = x /\ after \in [1 .. l + 1 -> Int] BY <2>1, <2>5
  <2> HIDE DEF x, l, was, now, row, before, after
  <2>7. Total(was) \in Int /\ Total(now) = Total(was) + Total(row) BY <2>3, <2>4, TotalOfSums
  <2>8. Total(after) = Total(before) + x BY <2>1, <2>5, <2>6, TotalOfMore
  <2>9. Total(was) = Total(before) BY <1>4 DEF was, before, l
  <2> QED BY <2>1, <2>7, <2>8, <2>9 DEF now, after, x
<1>5. 0 .. m \subseteq S
  <2> HIDE DEF S
  <2> QED BY <1>3, <1>4, GoDown
<1> QED BY <1>5

-----------------------------------------------------------------------------
(* A diff with a section less *)

\* What is left of a list without one of its elements.
LEMMA RemovedAt ==
    ASSUME NEW s, IsSeq(s), NEW j \in DOMAIN s
    PROVE  LET r == RemoveAt(s, j)
           IN /\ Len(s) \in Nat /\ DOMAIN s = 1 .. Len(s) /\ Len(s) >= 1
              /\ IsSeq(r) /\ Len(r) = Len(s) - 1 /\ DOMAIN r = 1 .. Len(s) - 1
              /\ \A i \in 1 .. Len(s) - 1 : r[i] = IF i < j THEN s[i] ELSE s[i + 1]
              /\ ToSet(r) = {s[i] : i \in DOMAIN s \ {j}}
<1> DEFINE X == ToSet(s)  k == Len(s)
           a == SubSeq(s, 1, j - 1)  b == SubSeq(s, j + 1, k)  r == a \o b
<1>1. s \in Seq(X) /\ k \in Nat /\ DOMAIN s = 1 .. k /\ k >= 1 /\ j \in 1 .. k BY DEF IsSeq
<1> HIDE DEF X
<1>2. /\ a \in Seq(X) /\ Len(a) = j - 1 /\ \A i \in 1 .. j - 1 : a[i] = s[i]
  BY <1>1
<1>3. /\ b \in Seq(X) /\ Len(b) = k - j /\ \A i \in 1 .. k - j : b[i] = s[j + i]
  <2>1. Len(b) = k - j BY <1>1
  <2>2. b \in Seq(X) BY <1>1
  <2>3. \A i \in 1 .. k - j : b[i] = s[(j + 1) + i - 1] BY <1>1
  <2>4. \A i \in 1 .. k - j : (j + 1) + i - 1 = j + i BY <1>1
  <2> QED BY <2>1, <2>2, <2>3, <2>4
<1> HIDE DEF a, b, k
<1>4. /\ r \in Seq(X) /\ Len(r) = k - 1
      /\ \A i \in 1 .. k - 1 : r[i] = IF i <= j - 1 THEN a[i] ELSE b[i - (j - 1)]
  <2>1. /\ r \in Seq(X) /\ Len(r) = Len(a) + Len(b)
        /\ \A i \in 1 .. Len(a) + Len(b) : r[i] = IF i <= Len(a) THEN a[i] ELSE b[i - Len(a)]
    BY <1>2, <1>3, ConcatProperties
  <2>2. Len(a) + Len(b) = k - 1 BY <1>1, <1>2, <1>3
  <2> HIDE DEF r
  <2> QED BY <1>2, <2>1, <2>2
<1> HIDE DEF r
<1>5. \A i \in 1 .. k - 1 : r[i] = IF i < j THEN s[i] ELSE s[i + 1]
  <2> TAKE i \in 1 .. k - 1
  <2>1. CASE i < j
    <3>1. i \in 1 .. j - 1 /\ i <= j - 1 BY <1>1, <2>1
    <3> QED BY <1>2, <1>4, <2>1, <3>1
  <2>2. CASE ~(i < j)
    <3>1. i - (j - 1) \in 1 .. k - j /\ ~(i <= j - 1) /\ j + (i - (j - 1)) = i + 1 BY <1>1, <2>2
    <3> QED BY <1>3, <1>4, <2>2, <3>1
  <2> QED BY <2>1, <2>2
<1>6. IsSeq(r) /\ DOMAIN r = 1 .. k - 1 BY <1>1, <1>4, IsList
<1>7. ToSet(r) = {s[i] : i \in (1 .. k) \ {j}}
  <2>1. \A i \in 1 .. k - 1 : \E n \in (1 .. k) \ {j} : r[i] = s[n]
    <3> TAKE i \in 1 .. k - 1
    <3>1. CASE i < j
      <4>1. i \in (1 .. k) \ {j} BY <1>1, <3>1
      <4> QED BY <1>5, <3>1, <4>1
    <3>2. CASE ~(i < j)
      <4>1. i + 1 \in (1 .. k) \ {j} BY <1>1, <3>2
      <4> QED BY <1>5, <3>2, <4>1
    <3> QED BY <3>1, <3>2
  <2>2. \A n \in (1 .. k) \ {j} : \E i \in 1 .. k - 1 : r[i] = s[n]
    <3> TAKE n \in (1 .. k) \ {j}
    <3>1. CASE n < j
      <4>1. n \in 1 .. k - 1 BY <1>1, <3>1
      <4> QED BY <1>5, <3>1, <4>1
    <3>2. CASE ~(n < j)
      <4>1. n - 1 \in 1 .. k - 1 /\ ~(n - 1 < j) /\ (n - 1) + 1 = n BY <1>1, <3>2
      <4> QED BY <1>5, <4>1
    <3> QED BY <3>1, <3>2
  <2>3. ToSet(r) = {r[i] : i \in 1 .. k - 1} BY <1>6 DEF ToSet
  <2> DEFINE K == (1 .. k) \ {j}  L == 1 .. k - 1
  <2>4. (\A i \in L : \E n \in K : r[i] = s[n]) /\ (\A n \in K : \E i \in L : r[i] = s[n])
    BY <2>1, <2>2
  <2> HIDE DEF K, L
  <2>5. {r[i] : i \in L} = {s[n] : n \in K} BY <2>4
  <2> QED BY <2>3, <2>5 DEF K, L
<1>8. RemoveAt(s, j) = r BY DEF RemoveAt, r, a, b, k
<1> QED BY <1>1, <1>4, <1>5, <1>6, <1>7, <1>8 DEF k

\* The lines a diff adds to a path or removes from it, and what becomes of its sections.
LineCounts(d, p, side) == [i \in DOMAIN d |-> IF d[i].path = p THEN d[i][side] ELSE 0]
LinesOf(d, p, side) == Total(LineCounts(d, p, side))
SectionsOf(d, p) == {s \in ToSet(d) : s.path = p}
ChangeOf(d, p) ==
    [path |-> p, added |-> LinesOf(d, p, "added"), removed |-> LinesOf(d, p, "removed"),
     lines |-> UNION {s.lines : s \in SectionsOf(d, p)},
     says |-> UNION {s.says : s \in SectionsOf(d, p)}]

\* A diff whose lines are counted.
Counted(d) == IsSeq(d) /\ \A s \in ToSet(d) : s.added \in Nat /\ s.removed \in Nat

\* parseFileChanges has one change for every path.
LEMMA ChangesAreMerged ==
    ASSUME NEW d, IsSeq(d)
    PROVE  LET changes == ParseFileChanges(d)
           IN \E paths : /\ IsSeq(paths) /\ IsInjective(paths) /\ ToSet(paths) = Files(d)
                         /\ changes = [i \in DOMAIN paths |-> ChangeOf(d, paths[i])]
                         /\ ToSet(changes) = {ChangeOf(d, p) : p \in Files(d)}
                         /\ IsSeq(changes) /\ Len(changes) = Len(paths)
                         /\ IsFiniteSet(Files(d)) /\ Len(changes) = Cardinality(Files(d))
<1> DEFINE all == [i \in DOMAIN d |-> d[i].path]
           paths == Uniq(all)
           changes == ParseFileChanges(d)
<1>1. changes = [i \in DOMAIN paths |-> ChangeOf(d, paths[i])]
  BY DEF ParseFileChanges, ChangeOf, LinesOf, LineCounts, SectionsOf
<1> HIDE DEF changes
<1>2. Len(d) \in Nat /\ DOMAIN d = 1 .. Len(d) BY DEF IsSeq
<1>3. IsSeq(all) /\ ToSet(all) = Files(d)
  <2>1. all = [i \in DOMAIN d |-> all[i]] /\ DOMAIN all = DOMAIN d OBVIOUS
  <2>2. ToSet(all) = Files(d) BY DEF ToSet, Files
  <2> HIDE DEF all
  <2> QED BY <2>1, <2>2, ListOver
<1>4. IsSeq(paths) /\ ToSet(paths) = Files(d) /\ IsInjective(paths)
  <2> HIDE DEF all
  <2> QED BY <1>3, UniqIsAList, UniqIsExact
<1> HIDE DEF all, paths
<1>5. Len(paths) \in Nat /\ DOMAIN paths = 1 .. Len(paths) BY <1>4 DEF IsSeq
<1>6. IsSeq(changes) /\ Len(changes) = Len(paths)
  <2>1. DOMAIN changes = DOMAIN paths /\ changes = [i \in DOMAIN paths |-> changes[i]] BY <1>1
  <2>2. IsSeq(changes) BY <1>4, <2>1, ListOver
  <2> QED BY <1>1, <1>5, <2>2
<1>7. ToSet(changes) = {ChangeOf(d, p) : p \in Files(d)}
  <2>1. \A p \in Files(d) : \E i \in DOMAIN paths : paths[i] = p BY <1>4 DEF ToSet
  <2>2. \A i \in DOMAIN paths : paths[i] \in Files(d) BY <1>4 DEF ToSet
  <2> HIDE DEF ChangeOf
  <2> QED BY <1>1, <2>1, <2>2 DEF ToSet
<1>8. IsFiniteSet(Files(d)) /\ Cardinality(Files(d)) = Len(paths)
  BY <1>4, ListIsFinite, InjectiveLength
<1> QED BY <1>1, <1>4, <1>6, <1>7, <1>8 DEF changes

\* The lines of a path are counted.
LEMMA LinesAreCounted ==
    ASSUME NEW d, Counted(d), NEW p, NEW side \in {"added", "removed"}
    PROVE  /\ Len(d) \in Nat /\ LineCounts(d, p, side) \in [1 .. Len(d) -> Nat]
           /\ LinesOf(d, p, side) \in Nat
<1> DEFINE k == Len(d)
           a == LineCounts(d, p, side)
<1>1. k \in Nat /\ DOMAIN d = 1 .. k /\ \A i \in 1 .. k : d[i] \in ToSet(d)
  BY ListOfHits DEF Counted
<1>2. \A i \in 1 .. k : d[i][side] \in Nat BY <1>1 DEF Counted
<1>3. a \in [1 .. k -> Nat] BY <1>1, <1>2 DEF LineCounts
<1> HIDE DEF a, k
<1>4. Total(a) \in Nat BY <1>1, <1>3, TotalOfCounts
<1> QED BY <1>1, <1>3, <1>4 DEF LinesOf, a, k

\* totals: every line of the diff is a changed line of one change.
LEMMA LinesAreShared ==
    ASSUME NEW d, Counted(d)
    PROVE  LET a == [i \in DOMAIN d |-> d[i].added + d[i].removed]
           IN /\ a \in [1 .. Len(d) -> Nat] /\ Len(d) \in Nat
              /\ ChangedLines(ParseFileChanges(d)) = Total(a) /\ Total(a) \in Nat
<1> DEFINE m == Len(d)
           a == [i \in DOMAIN d |-> d[i].added + d[i].removed]
           changes == ParseFileChanges(d)
<1>1. m \in Nat /\ DOMAIN d = 1 .. m /\ \A i \in 1 .. m : d[i] \in ToSet(d)
  BY ListOfHits DEF Counted
<1>2. a \in [1 .. m -> Nat] /\ \A i \in 1 .. m : a[i] = d[i].added + d[i].removed
  BY <1>1 DEF Counted
<1>3. PICK paths : /\ IsSeq(paths) /\ IsInjective(paths) /\ ToSet(paths) = Files(d)
                   /\ changes = [i \in DOMAIN paths |-> ChangeOf(d, paths[i])]
  BY ChangesAreMerged DEF Counted
<1> DEFINE k == Len(paths)
<1>4. k \in Nat /\ DOMAIN paths = 1 .. k BY <1>3 DEF IsSeq
<1> DEFINE M == [i \in 1 .. m |-> [j \in 1 .. k |-> IF d[i].path = paths[j] THEN a[i] ELSE 0]]
           Lines == [i \in DOMAIN changes |-> changes[i].added + changes[i].removed]
<1> HIDE DEF m, k, a, changes
<1>5. M \in [1 .. m -> [1 .. k -> Int]] BY <1>2
<1>6. \A i \in 1 .. m : Total([j \in 1 .. k |-> M[i][j]]) = a[i]
  <2> TAKE i \in 1 .. m
  <2> DEFINE row == [j \in 1 .. k |-> M[i][j]]
  <2>1. d[i].path \in Files(d) BY <1>1 DEF Files
  <2>2. PICK n \in 1 .. k : paths[n] = d[i].path BY <1>3, <1>4, <2>1 DEF ToSet
  <2>3. row \in [1 .. k -> Int] /\ row[n] = a[i] BY <1>2, <2>2
  <2>4. \A j \in 1 .. k : j # n => row[j] = 0 BY <1>3, <1>4, <2>2 DEF IsInjective
  <2> HIDE DEF row
  <2>5. Total(row) = row[n] BY <1>4, <2>3, <2>4, TotalOfOnly
  <2> QED BY <2>3, <2>5 DEF row
<1>7. \A j \in 1 .. k : Total([i \in 1 .. m |-> M[i][j]]) = Lines[j]
  <2> TAKE j \in 1 .. k
  <2> DEFINE p == paths[j]
             x == LineCounts(d, p, "added")
             y == LineCounts(d, p, "removed")
             column == [i \in 1 .. m |-> M[i][j]]
  <2>1. /\ x \in [1 .. m -> Nat] /\ LinesOf(d, p, "added") = Total(x)
        /\ y \in [1 .. m -> Nat] /\ LinesOf(d, p, "removed") = Total(y)
    BY LinesAreCounted DEF LinesOf, m
  <2>2. column \in [1 .. m -> Int] BY <1>2
  <2>3. \A i \in 1 .. m : column[i] = x[i] + y[i] BY <1>1, <1>2 DEF Counted, LineCounts
  <2>4. Lines[j] = LinesOf(d, p, "added") + LinesOf(d, p, "removed")
    BY <1>3, <1>4 DEF ChangeOf
  <2> HIDE DEF x, y, column, p
  <2>5. x \in [1 .. m -> Int] /\ y \in [1 .. m -> Int] BY <2>1
  <2>6. Total(column) = Total(x) + Total(y) BY <1>1, <2>2, <2>3, <2>5, TotalOfSums
  <2>7. Total(column) = Lines[j] BY <2>1, <2>4, <2>6
  <2> QED BY <2>7 DEF column
<1>8. DOMAIN Lines = 1 .. k /\ Lines = [j \in 1 .. k |-> Lines[j]] BY <1>3, <1>4
<1> HIDE DEF Lines, M
<1>9. Lines = [j \in 1 .. k |-> Total([i \in 1 .. m |-> M[i][j]])] BY <1>7, <1>8
<1>10. a = [i \in 1 .. m |-> Total([j \in 1 .. k |-> M[i][j]])] BY <1>2, <1>6
<1>11. Total(Lines) = Total(a) BY <1>1, <1>4, <1>5, <1>9, <1>10, TotalOfTotals
<1>12. ChangedLines(changes) = Total(Lines) BY DEF ChangedLines, Lines
<1>13. Total(a) \in Nat BY <1>1, <1>2, TotalOfCounts
<1> QED BY <1>1, <1>2, <1>11, <1>12, <1>13 DEF m, a, changes

\* What the sections that are left are.
LEMMA SectionsLeft ==
    ASSUME NEW d, Counted(d), NEW j \in DOMAIN d
    PROVE  LET less == RemoveAt(d, j)
               q == d[j].path
           IN /\ Counted(less) /\ ToSet(less) \subseteq ToSet(d)
              /\ Files(less) \subseteq Files(d) /\ Files(d) \subseteq Files(less) \cup {q}
              /\ \A p : p # q => SectionsOf(less, p) = SectionsOf(d, p)
              /\ {s.lines : s \in SectionsOf(less, q)} = Others(d, j)
              /\ q \in Files(less) <=> Others(d, j) # {}
<1> DEFINE less == RemoveAt(d, j)  q == d[j].path
<1>1. /\ IsSeq(less) /\ ToSet(less) = {d[i] : i \in DOMAIN d \ {j}}
  BY RemovedAt DEF Counted
<1> HIDE DEF less
<1>2. ToSet(less) \subseteq ToSet(d) /\ ToSet(d) = ToSet(less) \cup {d[j]} BY <1>1 DEF ToSet
<1>3. Counted(less) BY <1>1, <1>2 DEF Counted
<1>4. /\ Files(less) = {s.path : s \in ToSet(less)}
      /\ Files(d) = {s.path : s \in ToSet(d)}
  BY DEF Files, ToSet
<1>5. Files(less) \subseteq Files(d) /\ Files(d) \subseteq Files(less) \cup {q}
  BY <1>2, <1>4
<1>6. \A p : p # q => SectionsOf(less, p) = SectionsOf(d, p) BY <1>2 DEF SectionsOf
<1>7. {s.lines : s \in SectionsOf(less, q)} = Others(d, j)
  BY <1>1 DEF SectionsOf, Others
<1>8. q \in Files(less) <=> Others(d, j) # {}
  <2>1. q \in Files(less) <=> SectionsOf(less, q) # {} BY <1>4 DEF SectionsOf
  <2> QED BY <1>7, <2>1
<1> QED BY <1>2, <1>3, <1>5, <1>6, <1>7, <1>8 DEF less

\* Fewer sections, no more lines of a path.
LEMMA LinesLeft ==
    ASSUME NEW d, Counted(d), NEW j \in DOMAIN d, NEW p, NEW side \in {"added", "removed"}
    PROVE  /\ LinesOf(RemoveAt(d, j), p, side) \in Nat /\ LinesOf(d, p, side) \in Nat
           /\ LinesOf(RemoveAt(d, j), p, side) <= LinesOf(d, p, side)
<1> DEFINE k == Len(d)  less == RemoveAt(d, j)
           a == LineCounts(d, p, side)
           b == LineCounts(less, p, side)
<1>1. /\ k \in Nat /\ DOMAIN d = 1 .. k /\ DOMAIN less = 1 .. k - 1 /\ Len(less) = k - 1
      /\ \A i \in 1 .. k - 1 : less[i] = IF i < j THEN d[i] ELSE d[i + 1]
  BY RemovedAt DEF Counted
<1>2. Counted(less) BY SectionsLeft
<1> HIDE DEF less
<1>3. a \in [1 .. k -> Nat] /\ LinesOf(d, p, side) = Total(a) BY LinesAreCounted DEF LinesOf
<1>4. b \in [1 .. k - 1 -> Nat] /\ LinesOf(less, p, side) = Total(b)
  BY <1>1, <1>2, LinesAreCounted DEF LinesOf
<1>5. \A i \in 1 .. k - 1 : b[i] = IF i < j THEN a[i] ELSE a[i + 1]
  <2> TAKE i \in 1 .. k - 1
  <2>1. i \in 1 .. k /\ i + 1 \in 1 .. k BY <1>1
  <2> QED BY <1>1, <2>1 DEF LineCounts
<1> HIDE DEF a, b, k
<1>6. Total(b) \in Nat /\ Total(a) \in Nat /\ Total(b) <= Total(a)
  BY <1>1, <1>3, <1>4, <1>5, TotalOfFewer
<1> QED BY <1>3, <1>4, <1>6 DEF less

\* Nor of the diff.
LEMMA ChangedLinesLeft ==
    ASSUME NEW d, Counted(d), NEW j \in DOMAIN d
    PROVE  LET small == ChangedLines(ParseFileChanges(RemoveAt(d, j)))
               big == ChangedLines(ParseFileChanges(d))
           IN small \in Nat /\ big \in Nat /\ small <= big
<1> DEFINE k == Len(d)  less == RemoveAt(d, j)
           a == [i \in DOMAIN d |-> d[i].added + d[i].removed]
           b == [i \in DOMAIN less |-> less[i].added + less[i].removed]
<1>1. /\ k \in Nat /\ DOMAIN d = 1 .. k /\ DOMAIN less = 1 .. k - 1 /\ Len(less) = k - 1
      /\ \A i \in 1 .. k - 1 : less[i] = IF i < j THEN d[i] ELSE d[i + 1]
  BY RemovedAt DEF Counted
<1>2. Counted(less) BY SectionsLeft
<1> HIDE DEF less
<1>3. a \in [1 .. k -> Nat] /\ ChangedLines(ParseFileChanges(d)) = Total(a) BY LinesAreShared
<1>4. b \in [1 .. k - 1 -> Nat] /\ ChangedLines(ParseFileChanges(less)) = Total(b)
  BY <1>1, <1>2, LinesAreShared
<1>5. \A i \in 1 .. k - 1 : b[i] = IF i < j THEN a[i] ELSE a[i + 1]
  <2> TAKE i \in 1 .. k - 1
  <2>1. i \in 1 .. k /\ i + 1 \in 1 .. k BY <1>1
  <2> QED BY <1>1, <2>1
<1> HIDE DEF a, b, k
<1>6. Total(b) \in Nat /\ Total(a) \in Nat /\ Total(b) <= Total(a)
  BY <1>1, <1>3, <1>4, <1>5, TotalOfFewer
<1> QED BY <1>3, <1>4, <1>6 DEF less

\* Changes of which one is more than the other, no test among what is more, and none of
\* it documentation or a re-export where the other is not.
Wider(small, big) ==
    /\ IsSeq(small) /\ IsSeq(big)
    /\ Files(small) \subseteq Files(big) /\ Files(big) \cap TestPath \subseteq Files(small)
    /\ \A c \in ToSet(small) : \E e \in ToSet(big) :
          /\ e.path = c.path /\ c.says \subseteq e.says
          /\ IsPureAdditiveIndexReexport(e) => IsPureAdditiveIndexReexport(c)
    /\ \A c \in ToSet(small) \cup ToSet(big) : "test-change" \notin c.says
    /\ Len(small) <= Len(big)
    /\ ChangedLines(small) \in Nat /\ ChangedLines(big) \in Nat
    /\ ChangedLines(small) <= ChangedLines(big)
    /\ IsDocsOnly(big) => small = <<>> \/ IsDocsOnly(small)

\* A section less leaves less, if it leaves nothing of its file or more than comments.
LEMMA RemovalNarrows ==
    ASSUME NEW d, Counted(d), \A s \in ToSet(d) : "test-change" \notin s.says,
           NEW j \in DOMAIN d, d[j].path \notin TestPath,
           Others(d, j) = {} \/ ~(UNION Others(d, j) \subseteq {"comment"})
    PROVE  Wider(ParseFileChanges(RemoveAt(d, j)), ParseFileChanges(d))
<1> DEFINE less == RemoveAt(d, j)  q == d[j].path
           small == ParseFileChanges(less)  big == ParseFileChanges(d)
<1>1. /\ Counted(less) /\ ToSet(less) \subseteq ToSet(d)
      /\ Files(less) \subseteq Files(d) /\ Files(d) \subseteq Files(less) \cup {q}
      /\ \A p : p # q => SectionsOf(less, p) = SectionsOf(d, p)
      /\ {s.lines : s \in SectionsOf(less, q)} = Others(d, j)
      /\ q \in Files(less) <=> Others(d, j) # {}
  BY SectionsLeft
<1>2. /\ ToSet(small) = {ChangeOf(less, p) : p \in Files(less)} /\ IsSeq(small)
      /\ IsFiniteSet(Files(less)) /\ Len(small) = Cardinality(Files(less))
  BY <1>1, ChangesAreMerged DEF Counted
<1>3. /\ ToSet(big) = {ChangeOf(d, p) : p \in Files(d)} /\ IsSeq(big)
      /\ IsFiniteSet(Files(d)) /\ Len(big) = Cardinality(Files(d))
  BY ChangesAreMerged DEF Counted
<1>4. /\ ChangedLines(small) \in Nat /\ ChangedLines(big) \in Nat
      /\ ChangedLines(small) <= ChangedLines(big)
  BY ChangedLinesLeft
<1>5. \A p : LinesOf(less, p, "removed") \in Nat /\ LinesOf(d, p, "removed") \in Nat
             /\ LinesOf(less, p, "removed") <= LinesOf(d, p, "removed")
  BY LinesLeft
<1>6. Files(small) = Files(less) /\ Files(big) = Files(d)
  BY <1>1, ChangesAreOfPaths DEF Counted
<1> HIDE DEF less, small, big
<1>7. Files(small) \subseteq Files(big) /\ Files(big) \cap TestPath \subseteq Files(small)
  BY <1>1, <1>6
<1>8. Len(small) <= Len(big) BY <1>1, <1>2, <1>3, FS_Subset
<1>9. \A p : SectionsOf(less, p) \subseteq SectionsOf(d, p) BY <1>1 DEF SectionsOf
\* A change that is left: what it says, and that it has more than comments unless it is
\* the whole.
<1>10. ASSUME NEW p \in Files(less)
       PROVE  LET c == ChangeOf(less, p)
                  e == ChangeOf(d, p)
              IN /\ c.path = p /\ e.path = p /\ c.removed \in Nat /\ e.removed \in Nat
                 /\ c.removed <= e.removed
                 /\ c.lines \subseteq e.lines /\ c.says \subseteq e.says
                 /\ c.lines = e.lines \/ ~(c.lines \subseteq {"comment"})
                 /\ "test-change" \notin e.says
  <2> DEFINE c == ChangeOf(less, p)  e == ChangeOf(d, p)
  <2>1. /\ c.path = p /\ c.removed = LinesOf(less, p, "removed")
        /\ c.lines = UNION {s.lines : s \in SectionsOf(less, p)}
        /\ c.says = UNION {s.says : s \in SectionsOf(less, p)}
        /\ e.path = p /\ e.removed = LinesOf(d, p, "removed")
        /\ e.lines = UNION {s.lines : s \in SectionsOf(d, p)}
        /\ e.says = UNION {s.says : s \in SectionsOf(d, p)}
    BY DEF ChangeOf
  <2> HIDE DEF c, e
  <2>2. c.lines \subseteq e.lines /\ c.says \subseteq e.says BY <1>9, <2>1
  <2>3. c.lines = e.lines \/ ~(c.lines \subseteq {"comment"})
    <3>1. CASE p # q BY <1>1, <2>1, <3>1
    <3>2. CASE p = q
      <4>1. c.lines = UNION Others(d, j) BY <1>1, <2>1, <3>2
      <4> QED BY <1>1, <3>2, <4>1
    <3> QED BY <3>1, <3>2
  <2>4. "test-change" \notin e.says BY <2>1 DEF SectionsOf
  <2> QED BY <1>5, <2>1, <2>2, <2>3, <2>4 DEF c, e
<1> HIDE DEF q
<1>11. ASSUME NEW p \in Files(less)
       PROVE  LET c == ChangeOf(less, p)
                  e == ChangeOf(d, p)
              IN /\ IsPureAdditiveIndexReexport(e) => IsPureAdditiveIndexReexport(c)
                 /\ IsDocsLike(e) => IsDocsLike(c)
  <2> DEFINE c == ChangeOf(less, p)  e == ChangeOf(d, p)
  <2>1. /\ c.path = p /\ e.path = p /\ c.removed \in Nat /\ e.removed \in Nat
        /\ c.removed <= e.removed
        /\ c.lines \subseteq e.lines
        /\ c.lines = e.lines \/ ~(c.lines \subseteq {"comment"})
    BY <1>10
  <2> HIDE DEF c, e
  <2>2. IsPureAdditiveIndexReexport(e) => IsPureAdditiveIndexReexport(c)
    <3> SUFFICES ASSUME IsPureAdditiveIndexReexport(e) PROVE IsPureAdditiveIndexReexport(c)
      OBVIOUS
    <3>1. p \in IndexPath /\ e.removed = 0 /\ e.lines \ {"comment"} = {"reexport"}
      BY <2>1 DEF IsPureAdditiveIndexReexport
    <3>2. c.removed = 0 BY <2>1, <3>1
    <3>3. c.lines \ {"comment"} = {"reexport"} BY <2>1, <3>1
    <3> QED BY <2>1, <3>1, <3>2, <3>3 DEF IsPureAdditiveIndexReexport
  <2>3. IsDocsLike(e) => IsDocsLike(c) BY <2>1 DEF IsDocsLike, HasOnlyCommentChanges
  <2> QED BY <2>2, <2>3 DEF c, e
<1> HIDE DEF ChangeOf
<1>12. \A c \in ToSet(small) : \E e \in ToSet(big) :
          /\ e.path = c.path /\ c.says \subseteq e.says
          /\ IsPureAdditiveIndexReexport(e) => IsPureAdditiveIndexReexport(c)
          /\ IsDocsLike(e) => IsDocsLike(c)
  <2> SUFFICES ASSUME NEW p \in Files(less)
               PROVE  \E e \in ToSet(big) :
                         LET c == ChangeOf(less, p)
                         IN /\ e.path = c.path /\ c.says \subseteq e.says
                            /\ IsPureAdditiveIndexReexport(e) => IsPureAdditiveIndexReexport(c)
                            /\ IsDocsLike(e) => IsDocsLike(c)
    BY <1>2
  <2>1. ChangeOf(d, p) \in ToSet(big) BY <1>1, <1>3
  <2> QED BY <1>10, <1>11, <2>1
<1>13. \A c \in ToSet(small) \cup ToSet(big) : "test-change" \notin c.says
  <2>1. \A c \in ToSet(big) : "test-change" \notin c.says
    <3> SUFFICES ASSUME NEW p \in Files(d) PROVE "test-change" \notin ChangeOf(d, p).says
      BY <1>3
    <3>1. ChangeOf(d, p).says = UNION {s.says : s \in SectionsOf(d, p)} BY DEF ChangeOf
    <3> QED BY <3>1 DEF SectionsOf
  <2> QED BY <1>12, <2>1
<1>14. IsDocsOnly(big) => small = <<>> \/ IsDocsOnly(small)
  <2> SUFFICES ASSUME IsDocsOnly(big), small # <<>> PROVE IsDocsOnly(small)
    OBVIOUS
  <2>1. \A e \in ToSet(big) : IsDocsLike(e) BY DEF IsDocsOnly, ToSet
  <2>2. \A c \in ToSet(small) : IsDocsLike(c) BY <1>12, <2>1
  <2> QED BY <2>2 DEF IsDocsOnly, ToSet
<1>15. \A c \in ToSet(small) : \E e \in ToSet(big) :
          /\ e.path = c.path /\ c.says \subseteq e.says
          /\ IsPureAdditiveIndexReexport(e) => IsPureAdditiveIndexReexport(c)
  BY <1>12
<1>16. Wider(small, big)
  BY <1>2, <1>3, <1>4, <1>7, <1>8, <1>13, <1>14, <1>15 DEF Wider
<1> QED BY <1>16 DEF small, big, less

\* The changes of a diff are as much as themselves.
LEMMA WiderThanItself ==
    ASSUME NEW changes, IsSeq(changes), ChangedLines(changes) \in Nat,
           \A c \in ToSet(changes) : "test-change" \notin c.says
    PROVE  Wider(changes, changes)
<1>1. Len(changes) \in Nat BY DEF IsSeq
<1>2. Len(changes) <= Len(changes) /\ ChangedLines(changes) <= ChangedLines(changes) BY <1>1
<1>3. \A c \in ToSet(changes) : \E e \in ToSet(changes) :
          /\ e.path = c.path /\ c.says \subseteq e.says
          /\ IsPureAdditiveIndexReexport(e) => IsPureAdditiveIndexReexport(c)
  OBVIOUS
<1> QED BY <1>2, <1>3 DEF Wider

-----------------------------------------------------------------------------
(* What the built-in rules are worth *)

\* What a pattern that is met weighs, and one that is not.
Worth(n, changes, settings, skipped) ==
    LET p == RiskPatterns[n]
    IN IF p.id \notin skipped /\ MatchRiskPattern(p.id, changes, settings)
       THEN AdjustedWeight(p.weight, settings) ELSE 0
Worths(changes, settings, skipped) ==
    [n \in 1 .. Len(RiskPatterns) |-> Worth(n, changes, settings, skipped)]

\* A hit more.
LEMMA WeightOfMore ==
    ASSUME NEW hits, Weighed(hits), NEW h, h.weight \in Int
    PROVE  /\ Weighed(Append(hits, h)) /\ Weight(hits) \in Int
           /\ Weight(Append(hits, h)) = Weight(hits) + h.weight
<1> DEFINE k == Len(hits)  more == Append(hits, h)  x == h.weight
           a == [i \in DOMAIN hits |-> hits[i].weight]
           c == [i \in DOMAIN more |-> more[i].weight]
<1>1. /\ k \in Nat /\ DOMAIN hits = 1 .. k
      /\ \A i \in 1 .. k : hits[i] \in ToSet(hits) /\ hits[i].weight \in Int
  BY ListOfHits DEF Weighed
<1>2. /\ IsSeq(more) /\ ToSet(more) = ToSet(hits) \cup {h}
      /\ DOMAIN more = 1 .. k + 1 /\ more[k + 1] = h
      /\ \A i \in 1 .. k : more[i] = hits[i]
  <2> DEFINE X == ToSet(hits)
  <2>1. hits \in Seq(X) BY DEF Weighed, IsSeq
  <2>2. ToSet(more) = X \cup {h} BY <2>1, AppendToSet
  <2>3. IsSeq(more) BY OneMoreIsAList DEF Weighed
  <2> HIDE DEF X
  <2>4. hits \in Seq(X \cup {h}) BY <2>1
  <2>5. DOMAIN more = 1 .. k + 1 /\ more[k + 1] = h /\ \A i \in 1 .. k : more[i] = hits[i]
    BY <2>4
  <2> QED BY <2>2, <2>3, <2>5 DEF X
<1> HIDE DEF more
<1>3. Weighed(more) BY <1>2 DEF Weighed
<1>4. a \in [1 .. k -> Int] BY <1>1
<1>5. c \in [1 .. k + 1 -> Int] /\ (\A i \in 1 .. k : c[i] = a[i]) /\ c[k + 1] = x
  <2>1. \A i \in 1 .. k + 1 : i \in 1 .. k \/ i = k + 1 BY <1>1
  <2> QED BY <1>1, <1>2, <2>1
<1>6. x \in Int OBVIOUS
<1> HIDE DEF a, c, k, x
<1>7. Total(a) \in Int /\ Total(c) = Total(a) + x BY <1>1, <1>4, <1>5, <1>6, TotalOfMore
<1>8. Weight(hits) = Total(a) /\ Weight(more) = Total(c) BY DEF Weight, a, c
<1> QED BY <1>3, <1>7, <1>8 DEF more, x

\* The patterns a change meets weigh what each is worth.
LEMMA HitsAreWorth ==
    ASSUME NEW changes, NEW settings, settings.delta \in Int, NEW skipped
    PROVE  /\ Len(RiskPatterns) = 6
           /\ Worths(changes, settings, skipped) \in [1 .. 6 -> Int]
           /\ Weight(PatternHits(changes, settings, skipped))
              = Total(Worths(changes, settings, skipped))
<1> DEFINE w == Worths(changes, settings, skipped)
           W(n) == Worth(n, changes, settings, skipped)
<1>1. Len(RiskPatterns) = 6 /\ \A n \in 1 .. 6 : RiskPatterns[n].weight \in Int
  BY DEF RiskPatterns
<1>2. \A n \in 1 .. 6 : AdjustedWeight(RiskPatterns[n].weight, settings) \in Int
  BY <1>1 DEF AdjustedWeight, Most
<1>3. w \in [1 .. 6 -> Int] /\ Len(w) = 6 /\ \A n \in 1 .. 6 : w[n] = W(n)
  BY <1>1, <1>2 DEF Worths, Worth
<1>4. PICK at : /\ \A n \in 0 .. Len(RiskPatterns) : at[n] = MetAt(changes, settings, skipped, at, n)
                /\ PatternHits(changes, settings, skipped) = at[Len(RiskPatterns)]
  BY HitsAreGiven
<1> HIDE DEF w
<1>5. PICK sum : (\A n \in 0 .. 6 : sum[n] = SumAt(w, sum, n)) /\ Total(w) = sum[6]
  <2>1. Len(w) = 6 /\ Len(w) \in Nat BY <1>3
  <2>2. \E sum : (\A n \in 0 .. Len(w) : sum[n] = SumAt(w, sum, n)) /\ Total(w) = sum[Len(w)]
    BY <2>1, SumsAreGiven
  <2> QED BY <2>1, <2>2
<1> DEFINE S == {n \in 0 .. 6 : Weighed(at[n]) /\ Weight(at[n]) \in Int /\ Weight(at[n]) = sum[n]}
<1>6. 0 \in S
  <2>1. at[0] = <<>> BY <1>1, <1>4 DEF MetAt
  <2>2. sum[0] = 0 BY <1>5 DEF SumAt
  <2>3. Weighed(<<>>) /\ Weight(<<>>) = 0
    <3>1. [weight |-> 0].weight \in Int OBVIOUS
    <3> QED BY <3>1, WeightOfOne
  <2> QED BY <2>1, <2>2, <2>3
<1>7. ASSUME NEW n \in 1 .. 6, n - 1 \in S PROVE n \in S
  <2> DEFINE was == at[n - 1]  p == RiskPatterns[n]
             hit == PatternHit(p, changes, settings)
  <2>1. n \in 0 .. 6 /\ n # 0 OBVIOUS
  <2>2. at[n] = IF p.id \notin skipped /\ MatchRiskPattern(p.id, changes, settings)
                THEN Append(was, hit) ELSE was
    BY <1>1, <1>4, <2>1 DEF MetAt
  <2>3. sum[n] = sum[n - 1] + w[n] BY <1>5, <2>1 DEF SumAt
  <2>4. w[n] = IF p.id \notin skipped /\ MatchRiskPattern(p.id, changes, settings)
               THEN hit.weight ELSE 0
    BY <1>3 DEF Worth, PatternHit, BuiltIn, RuleHit
  <2>5. hit.weight \in Int BY <1>2 DEF PatternHit, BuiltIn, RuleHit
  <2>6. Weighed(was) /\ Weight(was) \in Int /\ Weight(was) = sum[n - 1] BY <1>7
  <2> HIDE DEF was, hit, p
  <2>7. /\ Weighed(Append(was, hit))
        /\ Weight(Append(was, hit)) = Weight(was) + hit.weight
    BY <2>5, <2>6, WeightOfMore
  <2>8. CASE p.id \notin skipped /\ MatchRiskPattern(p.id, changes, settings)
    <3>1. at[n] = Append(was, hit) /\ sum[n] = Weight(was) + hit.weight
      BY <2>2, <2>3, <2>4, <2>6, <2>8
    <3>2. Weighed(at[n]) /\ Weight(at[n]) = sum[n] BY <2>7, <3>1
    <3>3. Weight(at[n]) \in Int BY <2>5, <2>6, <3>1, <3>2
    <3> QED BY <2>1, <3>2, <3>3
  <2>9. CASE ~(p.id \notin skipped /\ MatchRiskPattern(p.id, changes, settings))
    BY <2>1, <2>2, <2>3, <2>4, <2>6, <2>9
  <2> QED BY <2>8, <2>9
<1>8. 0 .. 6 \subseteq S
  <2> HIDE DEF S
  <2> QED BY <1>6, <1>7, GoDown
<1>9. Weight(at[6]) = sum[6] BY <1>8
<1> QED BY <1>1, <1>3, <1>4, <1>5, <1>9 DEF w

-----------------------------------------------------------------------------
(* Settings that are stricter, and changes that are more *)

Numbered(s) ==
    /\ s.delta \in Int /\ s.highRisk \in Nat /\ s.missingTests \in Nat
    /\ s.lines \in Nat \ {0} /\ s.files \in Nat \ {0}
    /\ s.failThreshold \in Int /\ s.reviewThreshold \in Int
Stricter(lax, strict) ==
    /\ Numbered(lax) /\ Numbered(strict) /\ lax.highRiskPaths = strict.highRiskPaths
    /\ lax.delta <= strict.delta /\ lax.highRisk <= strict.highRisk
    /\ lax.missingTests <= strict.missingTests
    /\ strict.lines <= lax.lines /\ strict.files <= lax.files
    /\ strict.failThreshold <= lax.failThreshold
    /\ strict.reviewThreshold <= lax.reviewThreshold

\* What the patterns weigh does not go down.
LEMMA HitsCompare ==
    ASSUME NEW small, NEW big, Wider(small, big), NEW lax, NEW strict, Stricter(lax, strict),
           NEW some, NEW fewer, fewer \subseteq some, "test-change" \notin some
    PROVE  /\ Weight(PatternHits(small, lax, some)) \in Int
           /\ Weight(PatternHits(big, strict, fewer)) \in Int
           /\ Weight(PatternHits(small, lax, some)) <= Weight(PatternHits(big, strict, fewer))
<1> DEFINE a == Worths(small, lax, some)  b == Worths(big, strict, fewer)
<1>1. lax.delta \in Int /\ strict.delta \in Int /\ lax.delta <= strict.delta
  BY DEF Stricter, Numbered
<1>2. /\ Len(RiskPatterns) = 6 /\ a \in [1 .. 6 -> Int] /\ b \in [1 .. 6 -> Int]
      /\ Weight(PatternHits(small, lax, some)) = Total(a)
      /\ Weight(PatternHits(big, strict, fewer)) = Total(b)
  BY <1>1, HitsAreWorth
<1>3. ASSUME NEW n \in 1 .. 6 PROVE a[n] <= b[n]
  <2> DEFINE p == RiskPatterns[n]
             x == AdjustedWeight(p.weight, lax)  y == AdjustedWeight(p.weight, strict)
             Is == p.id \notin some /\ MatchRiskPattern(p.id, small, lax)
             Now == p.id \notin fewer /\ MatchRiskPattern(p.id, big, strict)
  <2>1. a[n] = (IF Is THEN x ELSE 0) /\ b[n] = IF Now THEN y ELSE 0
    BY <1>2 DEF Worths, Worth
  <2>2. \/ p.id = "test-change" /\ p.weight = -1
        \/ p.id # "test-change" /\ p.weight \in Nat \ {0}
    BY DEF RiskPatterns
  <2> HIDE DEF p
  <2>3. CASE p.id = "test-change" /\ p.weight = -1
    <3>1. x = -1 /\ y = -1 BY <2>3 DEF AdjustedWeight
    <3>2. Now => Is
      <4> SUFFICES ASSUME Now PROVE Is
        OBVIOUS
      <4>1. p.id # "large-change" BY <2>3
      <4>2. \A c \in ToSet(big) : "test-change" \notin c.says BY DEF Wider
      <4>3. PatternFiles("test-change", big) # {}
        BY <2>3, <4>1, <4>2 DEF MatchRiskPattern
      <4>4. PICK e \in ToSet(big) : e.path \in TestPath BY <4>3 DEF PatternFiles
      <4>5. e.path \in Files(small) BY <4>4 DEF Wider, Files, ToSet
      <4>6. PICK c \in ToSet(small) : c.path = e.path BY <4>5 DEF Files, ToSet
      <4>7. PatternFiles("test-change", small) # {} BY <4>4, <4>6 DEF PatternFiles
      <4> QED BY <2>3, <4>1, <4>7 DEF MatchRiskPattern
    <3> HIDE DEF x, y, Is, Now
    <3> QED BY <2>1, <3>1, <3>2
  <2>4. CASE p.id # "test-change" /\ p.weight \in Nat \ {0}
    <3>1. x \in Nat /\ y \in Nat /\ x <= y BY <1>1, <2>4 DEF AdjustedWeight, Most
    <3>2. Is => Now
      <4> SUFFICES ASSUME Is PROVE Now
        OBVIOUS
      <4>1. p.id \notin fewer OBVIOUS
      <4>2. CASE p.id = "large-change"
        <5>1. ChangedLines(small) >= lax.lines \/ Len(small) >= lax.files
          BY <4>2 DEF MatchRiskPattern
        <5>2. Len(small) \in Nat /\ Len(big) \in Nat BY DEF Wider, IsSeq
        <5>3. ChangedLines(big) >= strict.lines \/ Len(big) >= strict.files
          BY <5>1, <5>2 DEF Wider, Stricter, Numbered
        <5> QED BY <4>1, <4>2, <5>3 DEF MatchRiskPattern
      <4>3. CASE p.id # "large-change" /\ PatternFiles(p.id, small) # {}
        <5>1. PICK c \in ToSet(small) :
                 p.id \in NamedFor[c.path]
                 /\ (p.id = "routing-or-entry" => ~IsPureAdditiveIndexReexport(c))
          BY <2>4, <4>3 DEF PatternFiles
        <5>2. PICK e \in ToSet(big) :
                 /\ e.path = c.path
                 /\ IsPureAdditiveIndexReexport(e) => IsPureAdditiveIndexReexport(c)
          BY DEF Wider
        <5>3. e.path \in PatternFiles(p.id, big) BY <2>4, <5>1, <5>2 DEF PatternFiles
        <5> QED BY <4>1, <4>3, <5>3 DEF MatchRiskPattern
      <4>4. CASE p.id # "large-change" /\ PatternFiles(p.id, small) = {}
        <5>1. PICK c \in ToSet(small) : IsCoreAnalyzableFile(c.path) /\ p.id \in c.says
          BY <4>4 DEF MatchRiskPattern
        <5>2. PICK e \in ToSet(big) : e.path = c.path /\ c.says \subseteq e.says
          BY DEF Wider
        <5> QED BY <4>1, <4>4, <5>1, <5>2 DEF MatchRiskPattern
      <4> QED BY <4>2, <4>3, <4>4
    <3> HIDE DEF x, y, Is, Now
    <3> QED BY <2>1, <3>1, <3>2
  <2> QED BY <2>2, <2>3, <2>4
<1> HIDE DEF a, b
<1>4. 6 \in Nat OBVIOUS
<1>5. Total(a) \in Int /\ Total(b) \in Int /\ Total(a) <= Total(b)
  BY <1>2, <1>3, <1>4, TotalCompares
<1> QED BY <1>2, <1>5

\* What the marked paths and the missing tests weigh.
LEMMA RestIsWorth ==
    ASSUME NEW changes, NEW settings, Numbered(settings)
    PROVE  LET configured == ConfiguredHighRiskHits(changes, settings)
               missing == MissingTestsHits(changes, settings)
               marked == Files(changes) \cap settings.highRiskPaths # {}
               untested == /\ {p \in Files(changes) : IsImplementationFile(p)} # {}
                           /\ Files(changes) \cap TestPath = {} /\ ~IsDocsOnly(changes)
           IN /\ Weighed(configured) /\ Weight(configured) = (IF marked THEN settings.highRisk ELSE 0)
              /\ configured # <<>> <=> marked
              /\ Weighed(missing) /\ Weight(missing) = IF untested THEN settings.missingTests ELSE 0
<1> DEFINE configured == ConfiguredHighRiskHits(changes, settings)
           missing == MissingTestsHits(changes, settings)
           files == Files(changes) \cap settings.highRiskPaths
           bare == {p \in Files(changes) : IsImplementationFile(p)}
           one == <<BuiltIn("configured-high-risk-path", settings.highRisk, files)>>
           other == <<BuiltIn("implementation-without-tests", settings.missingTests, bare)>>
<1>1. settings.highRisk \in Int /\ settings.missingTests \in Int BY DEF Numbered
<1>2. /\ Weighed(one) /\ Weight(one) = settings.highRisk /\ one # <<>>
      /\ Weighed(<<>>) /\ Weight(<<>>) = 0
  <2>1. one # <<>> OBVIOUS
  <2> HIDE DEF files
  <2> QED BY <1>1, <2>1, OneHitIsPlain DEF Plain
<1>3. Weighed(other) /\ Weight(other) = settings.missingTests
  <2> HIDE DEF bare
  <2> QED BY <1>1, OneHitIsPlain
<1>4. configured = IF files = {} THEN <<>> ELSE one BY DEF ConfiguredHighRiskHits
<1>5. missing = IF bare = {} \/ Files(changes) \cap TestPath # {} \/ IsDocsOnly(changes)
                THEN <<>> ELSE other
  BY DEF MissingTestsHits
<1> HIDE DEF configured, missing, one, other, bare, files
<1>6. /\ Weighed(configured) /\ Weight(configured) = (IF files # {} THEN settings.highRisk ELSE 0)
      /\ configured # <<>> <=> files # {}
  BY <1>2, <1>4
<1>7. /\ Weighed(missing)
      /\ Weight(missing) = IF bare # {} /\ Files(changes) \cap TestPath = {} /\ ~IsDocsOnly(changes)
                           THEN settings.missingTests ELSE 0
  BY <1>2, <1>3, <1>5
<1> QED BY <1>6, <1>7 DEF configured, missing, bare, files

\* The patterns documentation leaves aside.
LeftAside(changes) ==
    IF IsDocsOnly(changes)
    THEN {RiskPatterns[i].id : i \in DOMAIN RiskPatterns} \ {"test-change"} ELSE {}

\* scoreRisk adds up three lists.
LEMMA RiskInParts ==
    ASSUME NEW changes, NEW settings, Numbered(settings)
    PROVE  LET met == Weight(PatternHits(changes, settings, LeftAside(changes)))
               configured == Weight(ConfiguredHighRiskHits(changes, settings))
               missing == Weight(MissingTestsHits(changes, settings))
           IN /\ met \in Int /\ configured \in Int /\ missing \in Int
              /\ ScoreRisk(changes, settings).score
                 = Capped((met + configured) + missing, IsDocsOnly(changes),
                          ConfiguredHighRiskHits(changes, settings) # <<>>)
<1> DEFINE met == PatternHits(changes, settings, LeftAside(changes))
           configured == ConfiguredHighRiskHits(changes, settings)
           missing == MissingTestsHits(changes, settings)
           score == ScoreRisk(changes, settings).score
<1>1. score = Capped(Weight(met \o configured \o missing), IsDocsOnly(changes), configured # <<>>)
  BY DEF ScoreRisk, LeftAside
<1>2. Weighed(met)
  <2>1. settings.delta \in Int BY DEF Numbered
  <2> QED BY <2>1, PatternHitsArePlain DEF Plain
<1>3. Weighed(configured) /\ Weighed(missing) BY RestIsWorth
<1> HIDE DEF met, configured, missing, score
<1> DEFINE both == met \o configured
<1>4. /\ Weighed(both) /\ Weight(met) \in Int /\ Weight(configured) \in Int
      /\ Weight(both) = Weight(met) + Weight(configured)
  BY <1>2, <1>3, WeightOfBoth
<1> HIDE DEF both
<1>5. Weight(missing) \in Int /\ Weight(both \o missing) = Weight(both) + Weight(missing)
  BY <1>3, <1>4, WeightOfBoth
<1>6. Weight(met \o configured \o missing) = (Weight(met) + Weight(configured)) + Weight(missing)
  BY <1>4, <1>5 DEF both
<1> QED BY <1>1, <1>4, <1>5, <1>6 DEF met, configured, missing, score

\* Where the cap is on the more, it is on the less.
LEMMA CappedCompares ==
    ASSUME NEW a \in Int, NEW b \in Int, a <= b, NEW docs \in BOOLEAN, NEW also \in BOOLEAN,
           NEW marked \in BOOLEAN, NEW too \in BOOLEAN,
           also /\ ~too => docs /\ ~marked
    PROVE  Capped(a, docs, marked) \in Nat /\ Capped(b, also, too) \in Nat
           /\ Capped(a, docs, marked) <= Capped(b, also, too)
BY DEF Capped, Most, Least, DocsOnlyScoreCap

\* No changes, no score.
LEMMA NothingScores ==
    ASSUME NEW changes, IsSeq(changes), changes = <<>>, NEW settings, Numbered(settings)
    PROVE  ScoreRisk(changes, settings).score = 0
<1> DEFINE w == Worths(changes, settings, {})
<1>1. /\ ToSet(changes) = {} /\ Files(changes) = {} /\ Len(changes) = 0 /\ ~IsDocsOnly(changes)
      /\ ChangedLines(changes) = 0
  <2>1. ChangedLines(changes) = Total(<<>>)
    <3>1. [i \in DOMAIN changes |-> changes[i].added + changes[i].removed] = <<>> OBVIOUS
    <3> QED BY <3>1 DEF ChangedLines
  <2>2. Total(<<>>) = 0
    <3>1. 0 \in Int OBVIOUS
    <3> QED BY <3>1, TotalOfOne
  <2>3. ToSet(changes) = {} /\ Files(changes) = {} BY DEF ToSet, Files
  <2>4. Len(changes) = 0 /\ ~IsDocsOnly(changes) BY DEF IsDocsOnly
  <2> QED BY <2>1, <2>2, <2>3, <2>4
<1>2. settings.delta \in Int /\ ~(0 >= settings.lines) /\ ~(0 >= settings.files) BY DEF Numbered
<1>3. \A id : ~MatchRiskPattern(id, changes, settings)
  BY <1>1, <1>2 DEF MatchRiskPattern, PatternFiles
<1>4. /\ Len(RiskPatterns) = 6 /\ w \in [1 .. 6 -> Int]
      /\ Weight(PatternHits(changes, settings, {})) = Total(w)
  BY <1>2, HitsAreWorth
<1>5. \A n \in 1 .. 6 : w[n] = 0 BY <1>3, <1>4 DEF Worths, Worth
<1> HIDE DEF w
<1>6. Len(w) \in Nat /\ \A n \in 1 .. Len(w) : w[n] = 0
  <2>1. 6 \in Nat OBVIOUS
  <2>2. Len(w) = 6 BY <1>4, <2>1
  <2> QED BY <1>5, <2>1, <2>2
<1>7. Weight(PatternHits(changes, settings, LeftAside(changes))) = 0
  BY <1>1, <1>4, <1>6, TotalOfZeros DEF LeftAside
<1>8. /\ Weight(ConfiguredHighRiskHits(changes, settings)) = 0
      /\ Weight(MissingTestsHits(changes, settings)) = 0
  BY <1>1, RestIsWorth
<1>9. ScoreRisk(changes, settings).score
      = Capped((0 + 0) + 0, FALSE, ConfiguredHighRiskHits(changes, settings) # <<>>)
  <2>1. IsDocsOnly(changes) = FALSE
    <3>1. IsDocsOnly(changes) \in BOOLEAN BY DEF IsDocsOnly
    <3> QED BY <1>1, <3>1
  <2> QED BY <1>7, <1>8, <2>1, RiskInParts
<1> QED BY <1>9 DEF Capped, Most

\* scoreRisk: more changes or stricter settings are not a lower score.
LEMMA RiskCompares ==
    ASSUME NEW small, NEW big, Wider(small, big), NEW lax, NEW strict, Stricter(lax, strict)
    PROVE  /\ ScoreRisk(small, lax).score \in Nat /\ ScoreRisk(big, strict).score \in Nat
           /\ ScoreRisk(small, lax).score <= ScoreRisk(big, strict).score
<1> DEFINE a == Weight(PatternHits(small, lax, LeftAside(small)))
           b == Weight(PatternHits(big, strict, LeftAside(big)))
           ac == Weight(ConfiguredHighRiskHits(small, lax))
           bc == Weight(ConfiguredHighRiskHits(big, strict))
           am == Weight(MissingTestsHits(small, lax))
           bm == Weight(MissingTestsHits(big, strict))
           docs == IsDocsOnly(small)  also == IsDocsOnly(big)
           marked == ConfiguredHighRiskHits(small, lax) # <<>>
           too == ConfiguredHighRiskHits(big, strict) # <<>>
<1>1. /\ Numbered(lax) /\ Numbered(strict) /\ lax.highRiskPaths = strict.highRiskPaths
      /\ lax.highRisk \in Nat /\ strict.highRisk \in Nat /\ lax.highRisk <= strict.highRisk
      /\ lax.missingTests \in Nat /\ strict.missingTests \in Nat
      /\ lax.missingTests <= strict.missingTests
  BY DEF Stricter, Numbered
<1>2. /\ a \in Int /\ ac \in Int /\ am \in Int
      /\ ScoreRisk(small, lax).score = Capped((a + ac) + am, docs, marked)
  BY <1>1, RiskInParts
<1>3. /\ b \in Int /\ bc \in Int /\ bm \in Int
      /\ ScoreRisk(big, strict).score = Capped((b + bc) + bm, also, too)
  BY <1>1, RiskInParts
<1>4. docs \in BOOLEAN /\ also \in BOOLEAN /\ marked \in BOOLEAN /\ too \in BOOLEAN
  BY DEF IsDocsOnly
<1>5. ac <= bc /\ (marked => too)
  <2>1. ac = (IF Files(small) \cap lax.highRiskPaths # {} THEN lax.highRisk ELSE 0)
        /\ (marked <=> Files(small) \cap lax.highRiskPaths # {})
    BY <1>1, RestIsWorth
  <2>2. bc = (IF Files(big) \cap strict.highRiskPaths # {} THEN strict.highRisk ELSE 0)
        /\ (too <=> Files(big) \cap strict.highRiskPaths # {})
    BY <1>1, RestIsWorth
  <2>3. Files(small) \subseteq Files(big) BY DEF Wider
  <2> HIDE DEF ac, bc, marked, too
  <2> QED BY <1>1, <2>1, <2>2, <2>3
<1>6. (also => docs) => am <= bm
  <2>1. am = IF /\ {p \in Files(small) : IsImplementationFile(p)} # {}
                /\ Files(small) \cap TestPath = {} /\ ~docs
             THEN lax.missingTests ELSE 0
    BY <1>1, RestIsWorth
  <2>2. bm = IF /\ {p \in Files(big) : IsImplementationFile(p)} # {}
                /\ Files(big) \cap TestPath = {} /\ ~also
             THEN strict.missingTests ELSE 0
    BY <1>1, RestIsWorth
  <2>3. Files(small) \subseteq Files(big) /\ Files(big) \cap TestPath \subseteq Files(small)
    BY DEF Wider
  <2> HIDE DEF am, bm, docs, also
  <2> QED BY <1>1, <2>1, <2>2, <2>3
<1>7. (also => docs) => a <= b
  <2> SUFFICES ASSUME also => docs PROVE a <= b
    OBVIOUS
  <2>1. LeftAside(big) \subseteq LeftAside(small) /\ "test-change" \notin LeftAside(small)
    BY DEF LeftAside
  <2> QED BY <2>1, HitsCompare
<1>8. also => small = <<>> \/ docs BY DEF Wider
<1>9. IsSeq(small) BY DEF Wider
<1> HIDE DEF a, b, ac, bc, am, bm, docs, also, marked, too
<1>10. CASE also => docs
  <2> DEFINE x == (a + ac) + am  y == (b + bc) + bm
  <2>1. x \in Int /\ y \in Int /\ x <= y BY <1>2, <1>3, <1>5, <1>6, <1>7, <1>10
  <2>2. also /\ ~too => docs /\ ~marked BY <1>5, <1>10
  <2> HIDE DEF x, y
  <2>3. Capped(x, docs, marked) \in Nat /\ Capped(y, also, too) \in Nat
        /\ Capped(x, docs, marked) <= Capped(y, also, too)
    BY <1>4, <2>1, <2>2, CappedCompares
  <2> QED BY <1>2, <1>3, <2>3 DEF x, y
<1>11. CASE ~(also => docs)
  <2>1. ScoreRisk(small, lax).score = 0 BY <1>1, <1>8, <1>9, <1>11, NothingScores
  <2> DEFINE y == (b + bc) + bm
  <2>2. y \in Int BY <1>3
  <2> HIDE DEF y
  <2>3. Capped(y, also, too) \in Nat BY <1>4, <2>2 DEF Capped, Most, Least, DocsOnlyScoreCap
  <2> QED BY <1>3, <2>1, <2>3 DEF y
<1> QED BY <1>10, <1>11

\* scoreSingleFile: stricter settings are not a lower score of a file.
LEMMA FileCompares ==
    ASSUME NEW c, c.added \in Nat, c.removed \in Nat, "test-change" \notin c.says,
           NEW lax, NEW strict, Stricter(lax, strict)
    PROVE  /\ ScoreSingleFile(c, lax).score \in Nat /\ ScoreSingleFile(c, strict).score \in Nat
           /\ ScoreSingleFile(c, lax).score <= ScoreSingleFile(c, strict).score
<1> DEFINE like == IsDocsLike(c)
           Met(s) == IF like THEN <<>> ELSE PatternHits(<<c>>, s, {})
           Marks(s) == ConfiguredHighRiskHits(<<c>>, s)
<1>1. /\ Numbered(lax) /\ Numbered(strict) /\ lax.highRiskPaths = strict.highRiskPaths
      /\ lax.highRisk \in Nat /\ strict.highRisk \in Nat /\ lax.highRisk <= strict.highRisk
      /\ lax.delta \in Int /\ strict.delta \in Int
  BY DEF Stricter, Numbered
<1>2. Wider(<<c>>, <<c>>)
  <2> DEFINE one == <<c>>  n == c.added + c.removed
  <2>1. IsSeq(one) BY OneIsAList
  <2>2. ChangedLines(one) = n
    <3>1. [i \in DOMAIN one |-> one[i].added + one[i].removed] = <<n>> OBVIOUS
    <3>2. n \in Int OBVIOUS
    <3> HIDE DEF n
    <3>3. Total(<<n>>) = n BY <3>2, TotalOfOne
    <3> QED BY <3>1, <3>3 DEF ChangedLines
  <2>3. ToSet(one) = {c} BY DEF ToSet
  <2>4. n \in Nat OBVIOUS
  <2> HIDE DEF one, n
  <2>5. Wider(one, one) BY <2>1, <2>2, <2>3, <2>4, WiderThanItself
  <2> QED BY <2>5 DEF one
<1>3. \A s : ScoreSingleFile(c, s).score = Capped(Weight(Met(s) \o Marks(s)), like, Marks(s) # <<>>)
  BY DEF ScoreSingleFile
<1>4. /\ Weighed(Met(lax)) /\ Weighed(Met(strict))
      /\ Weight(Met(lax)) \in Int /\ Weight(Met(strict)) \in Int
      /\ Weight(Met(lax)) <= Weight(Met(strict))
  <2>1. CASE like
    <3>1. 0 \in Int OBVIOUS
    <3>2. Plain(<<>>) /\ Weight(<<>>) = 0 BY <3>1, OneHitIsPlain
    <3> QED BY <2>1, <3>2 DEF Plain
  <2>2. CASE ~like
    <3> DEFINE one == <<c>>
    <3>1. Weighed(PatternHits(one, lax, {})) /\ Weighed(PatternHits(one, strict, {}))
      BY <1>1, PatternHitsArePlain DEF Plain
    <3>2. Wider(one, one) BY <1>2
    <3> HIDE DEF one
    <3>3. /\ Weight(PatternHits(one, lax, {})) \in Int /\ Weight(PatternHits(one, strict, {})) \in Int
          /\ Weight(PatternHits(one, lax, {})) <= Weight(PatternHits(one, strict, {}))
      BY <3>2, HitsCompare
    <3> HIDE DEF like
    <3> QED BY <2>2, <3>1, <3>3 DEF one
  <2> QED BY <2>1, <2>2
<1>5. /\ Weighed(Marks(lax)) /\ Weighed(Marks(strict))
      /\ Weight(Marks(lax)) \in Int /\ Weight(Marks(strict)) \in Int
      /\ Weight(Marks(lax)) <= Weight(Marks(strict))
      /\ Marks(lax) # <<>> <=> Marks(strict) # <<>>
  <2> DEFINE files == Files(<<c>>) \cap lax.highRiskPaths # {}
  <2>1. /\ Weighed(Marks(lax)) /\ Weight(Marks(lax)) = (IF files THEN lax.highRisk ELSE 0)
        /\ Marks(lax) # <<>> <=> files
    BY <1>1, RestIsWorth
  <2>2. /\ Weighed(Marks(strict)) /\ Weight(Marks(strict)) = (IF files THEN strict.highRisk ELSE 0)
        /\ Marks(strict) # <<>> <=> files
    BY <1>1, RestIsWorth
  <2> HIDE DEF files, Marks
  <2> QED BY <1>1, <2>1, <2>2
<1>6. like \in BOOLEAN BY DEF IsDocsLike, HasOnlyCommentChanges
<1> HIDE DEF Met, Marks, like
<1> DEFINE x == Weight(Met(lax) \o Marks(lax))  y == Weight(Met(strict) \o Marks(strict))
           marked == Marks(lax) # <<>>  too == Marks(strict) # <<>>
<1>7. x = Weight(Met(lax)) + Weight(Marks(lax)) /\ y = Weight(Met(strict)) + Weight(Marks(strict))
  BY <1>4, <1>5, WeightOfBoth
<1>8. /\ x \in Int /\ y \in Int /\ x <= y
      /\ marked \in BOOLEAN /\ too \in BOOLEAN /\ (like /\ ~too => like /\ ~marked)
  BY <1>4, <1>5, <1>7
<1>9. ScoreSingleFile(c, lax).score = Capped(x, like, marked)
      /\ ScoreSingleFile(c, strict).score = Capped(y, like, too)
  BY <1>3
<1> HIDE DEF x, y, marked, too
<1>10. Capped(x, like, marked) \in Nat /\ Capped(y, like, too) \in Nat
       /\ Capped(x, like, marked) <= Capped(y, like, too)
  BY <1>6, <1>8, CappedCompares
<1> QED BY <1>9, <1>10

\* A score that is no lower, of thresholds that are no higher, is no lower a level.
LEMMA LevelCompares ==
    ASSUME NEW a \in Int, NEW b \in Int, a <= b, NEW lax, NEW strict, Stricter(lax, strict)
    PROVE  Rank[Level(a, lax)] <= Rank[Level(b, strict)]
<1>1. Rank["LOW"] = 1 /\ Rank["MEDIUM"] = 2 /\ Rank["HIGH"] = 3 BY DEF Rank
<1>2. /\ lax.failThreshold \in Int /\ strict.failThreshold \in Int
      /\ lax.reviewThreshold \in Int /\ strict.reviewThreshold \in Int
      /\ strict.failThreshold <= lax.failThreshold /\ strict.reviewThreshold <= lax.reviewThreshold
  BY DEF Stricter, Numbered
<1> QED BY <1>1, <1>2 DEF Level

\* What stays to be matched of a change stays matched where there is more of it.
LEMMA MatchesMore ==
    ASSUME NEW small, NEW big, Wider(small, big), NEW rule
    PROVE  MatchCustomRule(rule, small) \subseteq MatchCustomRule(rule, big)
<1> SUFFICES ASSUME NEW c \in ToSet(small),
                    rule.path # None => c.path \in rule.path,
                    rule.line # None => rule.line \in c.says
             PROVE  c.path \in MatchCustomRule(rule, big)
  BY DEF MatchCustomRule
<1>1. PICK e \in ToSet(big) : e.path = c.path /\ c.says \subseteq e.says BY DEF Wider
<1>2. e \in {d \in ToSet(big) : /\ rule.path # None => d.path \in rule.path
                                /\ rule.line # None => rule.line \in d.says}
  BY <1>1
<1> QED BY <1>1, <1>2 DEF MatchCustomRule

\* A rule adds its weight to the score if it matches a file.
LEMMA RuleAdds ==
    ASSUME NEW r, "score" \in DOMAIN r, NEW rule, NEW changes, NEW prefix
    PROVE  LET next == ApplyRule(r, rule, changes, prefix)
           IN /\ DOMAIN next = DOMAIN r
              /\ MatchCustomRule(rule, changes) = {} => next.score = r.score
              /\ MatchCustomRule(rule, changes) # {} => next.score = r.score + rule.weight
<1> DEFINE next == ApplyRule(r, rule, changes, prefix)
           files == MatchCustomRule(rule, changes)
           hit == RuleHit(prefix \o rule.id, rule.weight, files, rule.check)
           all == Append(r.rules, hit)  asked == Uniq(Append(r.checks, rule.check))
           others == UpdateFileBreakdown(r.files, hit, r.settings)
           w == rule.weight
<1>1. next = IF files = {} THEN r
             ELSE [r EXCEPT !.rules = all, !.checks = asked, !.score = @ + w, !.files = others]
  BY DEF ApplyRule
<1> HIDE DEF next, files, all, asked, others, w
<1>2. /\ DOMAIN next = DOMAIN r /\ (files = {} => next.score = r.score)
      /\ files # {} => next.score = r.score + w
  BY <1>1
<1> QED BY <1>2 DEF next, files, w

\* The rules of a list do not turn the order of two scores.
LEMMA RulesCompare ==
    ASSUME NEW a, NEW b, "score" \in DOMAIN a, "score" \in DOMAIN b,
           a.score \in Int, b.score \in Int, a.score <= b.score,
           NEW d, NEW e, NEW small, NEW big,
           small = ParseFileChanges(d), big = ParseFileChanges(e), Wider(small, big),
           NEW candidates, IsSeq(candidates), NEW prefix
    PROVE  /\ ApplyCustomRules(a, d, candidates, prefix).score \in Int
           /\ ApplyCustomRules(b, e, candidates, prefix).score \in Int
           /\ ApplyCustomRules(a, d, candidates, prefix).score
              <= ApplyCustomRules(b, e, candidates, prefix).score
<1> DEFINE rules == NormalizeCustomRules(candidates).rules
           one == ApplyCustomRules(a, d, candidates, prefix)
           other == ApplyCustomRules(b, e, candidates, prefix)
<1>1. rules \in Seq(ToSet(candidates)) /\ \A i \in 1 .. Len(rules) : Accepted(rules[i])
  BY CandidatesAreSifted
<1>2. rules = NormalizeCustomRules(candidates).rules OBVIOUS
<1> HIDE DEF rules, one, other
<1> DEFINE k == Len(rules)
<1>3. k \in Nat /\ \A i \in 1 .. k : rules[i].weight \in Nat BY <1>1 DEF Accepted
<1>4. PICK at : /\ \A n \in 0 .. k : at[n] = AppliedAt(a, small, rules, prefix, at, n)
                /\ one = Reconsidered(at[k])
  BY <1>2, <1>3, ApplicationsAreGiven DEF one
<1>5. PICK bt : /\ \A n \in 0 .. k : bt[n] = AppliedAt(b, big, rules, prefix, bt, n)
                /\ other = Reconsidered(bt[k])
  BY <1>2, <1>3, ApplicationsAreGiven DEF other
<1> DEFINE Fine(x, y) == /\ "score" \in DOMAIN x /\ "score" \in DOMAIN y
                         /\ x.score \in Int /\ y.score \in Int /\ x.score <= y.score
           S == {n \in 0 .. k : Fine(at[n], bt[n])}
<1>6. 0 \in S
  <2>1. at[0] = a /\ bt[0] = b BY <1>3, <1>4, <1>5 DEF AppliedAt
  <2> QED BY <1>3, <2>1
<1>7. ASSUME NEW n \in 1 .. k, n - 1 \in S PROVE n \in S
  <2> DEFINE x == at[n - 1]  y == bt[n - 1]  rule == rules[n]
             now == ApplyRule(x, rule, small, prefix)
             then == ApplyRule(y, rule, big, prefix)
  <2>1. n \in 0 .. k /\ n # 0 BY <1>3
  <2>2. at[n] = now /\ bt[n] = then BY <1>4, <1>5, <2>1 DEF AppliedAt
  <2>3. Fine(x, y) BY <1>7
  <2>4. rule.weight \in Nat BY <1>3
  <2>5. MatchCustomRule(rule, small) \subseteq MatchCustomRule(rule, big) BY MatchesMore
  <2> HIDE DEF x, y, rule
  <2>6. /\ "score" \in DOMAIN x /\ "score" \in DOMAIN y
        /\ x.score \in Int /\ y.score \in Int /\ x.score <= y.score
    BY <2>3
  <2>7. /\ DOMAIN now = DOMAIN x
        /\ MatchCustomRule(rule, small) = {} => now.score = x.score
        /\ MatchCustomRule(rule, small) # {} => now.score = x.score + rule.weight
    BY <2>6, RuleAdds
  <2>9. /\ DOMAIN then = DOMAIN y
        /\ MatchCustomRule(rule, big) = {} => then.score = y.score
        /\ MatchCustomRule(rule, big) # {} => then.score = y.score + rule.weight
    BY <2>6, RuleAdds
  <2>10. now.score \in Int /\ then.score \in Int /\ now.score <= then.score
    <3> DEFINE p == now.score  q == then.score  u == x.score  v == y.score  w == rule.weight
               left == MatchCustomRule(rule, small) = {}
               empty == MatchCustomRule(rule, big) = {}
    <3>1. /\ u \in Int /\ v \in Int /\ u <= v /\ w \in Nat /\ (empty => left)
          /\ (left => p = u) /\ (~left => p = u + w) /\ (empty => q = v) /\ (~empty => q = v + w)
      BY <2>4, <2>5, <2>6, <2>7, <2>9
    <3> HIDE DEF p, q, u, v, w, left, empty
    <3> QED BY <3>1 DEF p, q
  <2>8. Fine(now, then) BY <2>6, <2>7, <2>9, <2>10
  <2> HIDE DEF now, then, Fine
  <2> QED BY <2>1, <2>2, <2>8
<1>8. k \in S
  <2> HIDE DEF S
  <2>1. k \in Nat BY <1>3
  <2> HIDE DEF k
  <2>2. 0 .. k \subseteq S BY <1>6, <1>7, <2>1, GoDown
  <2> QED BY <2>1, <2>2
<1> DEFINE x == at[k]  y == bt[k]
<1>9. Fine(x, y) BY <1>8
<1>10. one.score = x.score /\ other.score = y.score BY <1>4, <1>5 DEF Reconsidered
<1> HIDE DEF x, y
<1> QED BY <1>9, <1>10 DEF one, other

-----------------------------------------------------------------------------
(* The files of two reports *)

\* A file of a report once a rule's finding was added to it.
Updated(f, hit, settings) ==
    IF f.path \in hit.matchedFiles
    THEN [f EXCEPT !.score = @ + hit.weight, !.level = Level(f.score + hit.weight, settings),
                   !.rules = Append(@, hit)]
    ELSE f

\* updateFileBreakdown keeps the files, each with the finding if it matched.
LEMMA FilesAreUpdated ==
    ASSUME NEW r, NEW changes, Follows(r, changes), Files(changes) \subseteq Path,
           NEW hit, hit.weight \in Int
    PROVE  /\ ToSet(UpdateFileBreakdown(r.files, hit, r.settings))
              = {Updated(f, hit, r.settings) : f \in ToSet(r.files)}
           /\ \A f \in ToSet(r.files) :
                 /\ f.score \in Int /\ Updated(f, hit, r.settings).path = f.path
                 /\ Updated(f, hit, r.settings).score
                    = IF f.path \in hit.matchedFiles THEN f.score + hit.weight ELSE f.score
<1> DEFINE settings == r.settings
           New(f) == Updated(f, hit, settings)
           files == {New(f) : f \in ToSet(r.files)}
<1>1. /\ IsSeq(r.files) /\ Files(changes) = {f.path : f \in ToSet(r.files)}
      /\ \A f, g \in ToSet(r.files) : f.path = g.path => f = g
      /\ \A f \in ToSet(r.files) : Earned(f, r.rules, changes, settings)
  BY DEF Follows
<1>2. ASSUME NEW f \in ToSet(r.files)
      PROVE  /\ f.score \in Int /\ New(f).path = f.path /\ New(f).level \in Levels
             /\ New(f).score = IF f.path \in hit.matchedFiles THEN f.score + hit.weight ELSE f.score
  <2> DEFINE n == New(f)  p == f.path  s == f.score  l == f.level  rs == f.rules  w == hit.weight
  <2>1. f = [path |-> p, score |-> s, level |-> l, rules |-> rs] /\ s \in Int
        /\ l = Level(s, settings)
    BY <1>1 DEF Earned
  <2>2. l \in Levels BY <2>1, LevelIsOne
  <2>3. n = IF p \in hit.matchedFiles
            THEN [f EXCEPT !.score = s + w, !.level = Level(s + w, settings), !.rules = Append(rs, hit)]
            ELSE f
    BY DEF Updated
  <2>4. Level(s + w, settings) \in Levels BY LevelIsOne
  <2> HIDE DEF n, p, s, l, rs, w, Levels
  <2>5. p \in hit.matchedFiles =>
           n = [path |-> p, score |-> s + w, level |-> Level(s + w, settings), rules |-> Append(rs, hit)]
    BY <2>1, <2>3
  <2>6. p \notin hit.matchedFiles => n = [path |-> p, score |-> s, level |-> l, rules |-> rs]
    BY <2>1, <2>3
  <2>7. /\ n.path = p /\ n.level \in Levels
        /\ n.score = IF p \in hit.matchedFiles THEN s + w ELSE s
    BY <2>2, <2>4, <2>5, <2>6
  <2> QED BY <2>1, <2>7 DEF n, p, s, w
<1>3. UpdateFileBreakdown(r.files, hit, settings) = SortFilesByRisk(files)
  BY DEF UpdateFileBreakdown, Updated
<1> HIDE DEF New
<1>4. IsFiniteSet(files)
  <2> DEFINE F == [x \in ToSet(r.files) |-> New(x)]
  <2>1. IsFiniteSet(ToSet(r.files)) BY <1>1, ListIsFinite
  <2>2. F \in Surjection(ToSet(r.files), files) BY DEF Surjection
  <2> HIDE DEF files, F
  <2> QED BY <2>1, <2>2, FS_Surjection
<1>5. ASSUME NEW f \in files
      PROVE  f.level \in Levels /\ f.score \in Int /\ f.path \in Path
  <2>1. PICK x \in ToSet(r.files) : f = New(x) OBVIOUS
  <2>2. x.path \in Path BY <1>1
  <2> QED BY <1>2, <2>1, <2>2
<1>6. ASSUME NEW f \in files, NEW g \in files, f.path = g.path PROVE f = g
  <2>1. PICK x \in ToSet(r.files) : f = New(x) OBVIOUS
  <2>2. PICK y \in ToSet(r.files) : g = New(y) OBVIOUS
  <2>3. x = y BY <1>1, <1>2, <1>6, <2>1, <2>2
  <2> QED BY <2>1, <2>2, <2>3
<1>7. Ordered(files) BY <1>4, <1>5, <1>6 DEF Ordered
<1>8. ToSet(SortFilesByRisk(files)) = files
  <2> HIDE DEF files
  <2> QED BY <1>7, FilesAreSorted
<1> QED BY <1>2, <1>3, <1>8 DEF New

\* No file of the one scores more than the same of the other.
FilesCompare(a, b) ==
    \A f \in ToSet(a.files), g \in ToSet(b.files) : f.path = g.path => f.score <= g.score

\* A rule does not turn the order of two files.
LEMMA RuleComparesFiles ==
    ASSUME NEW a, NEW b, NEW changes, Follows(a, changes), Follows(b, changes),
           Files(changes) \subseteq Path, FilesCompare(a, b),
           "files" \in DOMAIN a, "files" \in DOMAIN b,
           NEW rule, rule.weight \in Nat, NEW prefix
    PROVE  FilesCompare(ApplyRule(a, rule, changes, prefix), ApplyRule(b, rule, changes, prefix))
<1> DEFINE now == ApplyRule(a, rule, changes, prefix)
           then == ApplyRule(b, rule, changes, prefix)
           matched == MatchCustomRule(rule, changes)
           hit == HitOf(rule, changes, prefix)
<1>1. CASE matched = {} BY <1>1 DEF ApplyRule
<1>2. CASE matched # {}
  <2>1. hit.weight = rule.weight /\ hit.matchedFiles = matched BY DEF HitOf, RuleHit
  <2>2. \A r : "files" \in DOMAIN r =>
            ApplyRule(r, rule, changes, prefix).files = UpdateFileBreakdown(r.files, hit, r.settings)
    <3> TAKE r
    <3> HAVE "files" \in DOMAIN r
    <3> DEFINE all == Append(r.rules, hit)  asked == Uniq(Append(r.checks, rule.check))
               sum == r.score + rule.weight
               others == UpdateFileBreakdown(r.files, hit, r.settings)
               next == ApplyRule(r, rule, changes, prefix)
    <3>1. next = [r EXCEPT !.rules = all, !.checks = asked, !.score = sum, !.files = others]
      BY <1>2 DEF ApplyRule, HitOf
    <3> HIDE DEF all, asked, sum, others, next
    <3>2. next.files = others BY <3>1
    <3> QED BY <3>2 DEF next, others
  <2>3. now.files = UpdateFileBreakdown(a.files, hit, a.settings)
        /\ then.files = UpdateFileBreakdown(b.files, hit, b.settings)
    BY <2>2
  <2>4. hit.weight \in Int BY <2>1
  <2> HIDE DEF now, then, hit, matched
  <2> SUFFICES ASSUME NEW f \in ToSet(now.files), NEW g \in ToSet(then.files), f.path = g.path
               PROVE  f.score <= g.score
    BY DEF FilesCompare, now, then
  <2> DEFINE One(x) == Updated(x, hit, a.settings)  Other(y) == Updated(y, hit, b.settings)
             changed == UpdateFileBreakdown(a.files, hit, a.settings)
             altered == UpdateFileBreakdown(b.files, hit, b.settings)
  <2>12. /\ ToSet(changed) = {Updated(x, hit, a.settings) : x \in ToSet(a.files)}
         /\ \A x \in ToSet(a.files) :
              /\ x.score \in Int /\ Updated(x, hit, a.settings).path = x.path
              /\ Updated(x, hit, a.settings).score
                 = IF x.path \in hit.matchedFiles THEN x.score + hit.weight ELSE x.score
    BY <2>4, FilesAreUpdated
  <2>13. /\ ToSet(altered) = {Updated(y, hit, b.settings) : y \in ToSet(b.files)}
         /\ \A y \in ToSet(b.files) :
              /\ y.score \in Int /\ Updated(y, hit, b.settings).path = y.path
              /\ Updated(y, hit, b.settings).score
                 = IF y.path \in hit.matchedFiles THEN y.score + hit.weight ELSE y.score
    BY <2>4, FilesAreUpdated
  <2>5. ToSet(now.files) = {One(x) : x \in ToSet(a.files)}
        /\ \A x \in ToSet(a.files) :
              /\ x.score \in Int /\ One(x).path = x.path
              /\ One(x).score = IF x.path \in hit.matchedFiles THEN x.score + hit.weight ELSE x.score
    BY <2>3, <2>12
  <2>6. ToSet(then.files) = {Other(y) : y \in ToSet(b.files)}
        /\ \A y \in ToSet(b.files) :
              /\ y.score \in Int /\ Other(y).path = y.path
              /\ Other(y).score = IF y.path \in hit.matchedFiles THEN y.score + hit.weight ELSE y.score
    BY <2>3, <2>13
  <2> HIDE DEF One, Other
  <2>7. PICK x \in ToSet(a.files) : f = One(x) BY <2>5
  <2>8. PICK y \in ToSet(b.files) : g = Other(y) BY <2>6
  <2>9. x.path = y.path BY <2>5, <2>6, <2>7, <2>8
  <2>10. x.score <= y.score BY <2>9 DEF FilesCompare
  <2> DEFINE u == x.score  v == y.score  w == hit.weight  p == x.path  M == hit.matchedFiles
  <2>11. /\ u \in Int /\ v \in Int /\ w \in Int /\ u <= v
         /\ f.score = (IF p \in M THEN u + w ELSE u) /\ g.score = IF p \in M THEN v + w ELSE v
    BY <2>4, <2>5, <2>6, <2>7, <2>8, <2>9, <2>10
  <2> HIDE DEF u, v, w, p, M
  <2> QED BY <2>11
<1> QED BY <1>1, <1>2

-----------------------------------------------------------------------------
(* One scan beside another *)

\* Thresholds a configuration may have.
Thresholded(c) == {"preset", "failThreshold", "highRiskPaths", "customRules"} \subseteq DOMAIN c
                  /\ c.failThreshold \in Int \cup {None}

\* Each preset is stricter than the one before it, and as strict as itself.
LEMMA PresetsAreOrdered ==
    ASSUME NEW c, Thresholded(c), NEW p, NEW q,
           \/ p = "safe" /\ q = "standard"
           \/ p = "standard" /\ q = "strict"
           \/ p = q /\ p \in DOMAIN Preset
    PROVE  Stricter(NormalizeConfig([c EXCEPT !.preset = p]), NormalizeConfig([c EXCEPT !.preset = q]))
<1> DEFINE x == [c EXCEPT !.preset = p]  y == [c EXCEPT !.preset = q]
           lax == NormalizeConfig(x)  strict == NormalizeConfig(y)
           u == Preset[p]  v == Preset[q]
           given == c.failThreshold
<1>1. /\ DOMAIN Preset = {"safe", "standard", "strict"}
      /\ Preset["safe"].failThreshold = 9 /\ Preset["safe"].reviewThreshold = 4
      /\ Preset["safe"].lines = 160 /\ Preset["safe"].files = 10 /\ Preset["safe"].delta = -1
      /\ Preset["safe"].highRisk = 3 /\ Preset["safe"].missingTests = 1
      /\ Preset["standard"].failThreshold = 7 /\ Preset["standard"].reviewThreshold = 3
      /\ Preset["standard"].lines = 120 /\ Preset["standard"].files = 8 /\ Preset["standard"].delta = 0
      /\ Preset["standard"].highRisk = 4 /\ Preset["standard"].missingTests = 2
      /\ Preset["strict"].failThreshold = 5 /\ Preset["strict"].reviewThreshold = 2
      /\ Preset["strict"].lines = 80 /\ Preset["strict"].files = 5 /\ Preset["strict"].delta = 1
      /\ Preset["strict"].highRisk = 5 /\ Preset["strict"].missingTests = 3
  BY DEF Preset
<1>2. /\ p \in DOMAIN Preset /\ q \in DOMAIN Preset
      /\ u.delta \in Int /\ u.highRisk \in Nat /\ u.missingTests \in Nat
      /\ u.lines \in Nat \ {0} /\ u.files \in Nat \ {0}
      /\ u.failThreshold \in Int /\ u.reviewThreshold \in Int
      /\ v.delta \in Int /\ v.highRisk \in Nat /\ v.missingTests \in Nat
      /\ v.lines \in Nat \ {0} /\ v.files \in Nat \ {0}
      /\ v.failThreshold \in Int /\ v.reviewThreshold \in Int
      /\ u.delta <= v.delta /\ u.highRisk <= v.highRisk /\ u.missingTests <= v.missingTests
      /\ v.lines <= u.lines /\ v.files <= u.files
      /\ v.failThreshold <= u.failThreshold /\ v.reviewThreshold <= u.reviewThreshold
  <2>1. CASE p = "safe" /\ q = "standard" BY <1>1, <2>1
  <2>2. CASE p = "standard" /\ q = "strict" BY <1>1, <2>2
  <2>3. CASE p = q /\ p \in DOMAIN Preset BY <1>1, <2>3
  <2> QED BY <2>1, <2>2, <2>3
<1>3. /\ x.preset = p /\ y.preset = q
      /\ x.failThreshold = given /\ y.failThreshold = given
      /\ x.highRiskPaths = c.highRiskPaths /\ y.highRiskPaths = c.highRiskPaths
  BY DEF Thresholded
<1> HIDE DEF x, y
<1>4. /\ lax.delta = u.delta /\ lax.highRisk = u.highRisk /\ lax.missingTests = u.missingTests
      /\ lax.lines = u.lines /\ lax.files = u.files /\ lax.reviewThreshold = u.reviewThreshold
      /\ lax.failThreshold = (IF given = None THEN u.failThreshold ELSE Most(1, given))
      /\ lax.highRiskPaths = c.highRiskPaths
  BY <1>2, <1>3, SettingsAreThePresets
<1>5. /\ strict.delta = v.delta /\ strict.highRisk = v.highRisk /\ strict.missingTests = v.missingTests
      /\ strict.lines = v.lines /\ strict.files = v.files /\ strict.reviewThreshold = v.reviewThreshold
      /\ strict.failThreshold = (IF given = None THEN v.failThreshold ELSE Most(1, given))
      /\ strict.highRiskPaths = c.highRiskPaths
  BY <1>2, <1>3, SettingsAreThePresets
<1>6. given # None => Most(1, given) \in Int /\ Most(1, given) <= Most(1, given)
  <2>1. given # None => given \in Int BY DEF Thresholded
  <2> HIDE DEF given
  <2> QED BY <2>1 DEF Most
<1> HIDE DEF lax, strict, u, v, given
<1>7. /\ lax.failThreshold \in Int /\ strict.failThreshold \in Int
      /\ strict.failThreshold <= lax.failThreshold
  BY <1>2, <1>4, <1>5, <1>6
<1>8. Numbered(lax) /\ Numbered(strict) BY <1>2, <1>4, <1>5, <1>7 DEF Numbered
<1>9. Stricter(lax, strict) BY <1>2, <1>4, <1>5, <1>7, <1>8 DEF Stricter
<1> QED BY <1>9 DEF lax, strict, x, y

\* Stricter settings and more changes are no lower a score of the built-in and own rules.
LEMMA ScoresCompare ==
    ASSUME NEW d, NEW e, Wider(ParseFileChanges(d), ParseFileChanges(e)),
           NEW c, NEW k, Stricter(NormalizeConfig(c), NormalizeConfig(k)),
           c.customRules = k.customRules, IsSeq(c.customRules)
    PROVE  /\ Scan(d, c).score \in Int /\ Scan(e, k).score \in Int
           /\ Scan(d, c).score <= Scan(e, k).score
<1> DEFINE small == ParseFileChanges(d)  big == ParseFileChanges(e)
           lax == NormalizeConfig(c)  strict == NormalizeConfig(k)
           a == AnalyzeDiff(d, c)  b == AnalyzeDiff(e, k)
           rules == c.customRules
<1>1. a.score = ScoreRisk(small, lax).score /\ b.score = ScoreRisk(big, strict).score
  BY DEF AnalyzeDiff
<1>2. "score" \in DOMAIN a /\ "score" \in DOMAIN b BY BuiltIsRuled
<1>3. small = ParseFileChanges(d) /\ big = ParseFileChanges(e) OBVIOUS
<1>4. Scan(d, c) = ApplyCustomRules(a, d, rules, <<"custom">>)
      /\ Scan(e, k) = ApplyCustomRules(b, e, rules, <<"custom">>)
  BY DEF Scan
<1>5. Wider(small, big) /\ Stricter(lax, strict) /\ IsSeq(rules) OBVIOUS
<1> HIDE DEF small, big, lax, strict, a, b, rules
<1>6. a.score \in Int /\ b.score \in Int /\ a.score <= b.score
  <2> DEFINE x == ScoreRisk(small, lax).score  y == ScoreRisk(big, strict).score
  <2>1. x \in Nat /\ y \in Nat /\ x <= y BY <1>5, RiskCompares
  <2> HIDE DEF x, y
  <2> QED BY <1>1, <2>1 DEF x, y
<1> DEFINE custom == <<"custom">>
<1> HIDE DEF custom
<1>7. /\ ApplyCustomRules(a, d, rules, custom).score \in Int
      /\ ApplyCustomRules(b, e, rules, custom).score \in Int
      /\ ApplyCustomRules(a, d, rules, custom).score <= ApplyCustomRules(b, e, rules, custom).score
  BY <1>2, <1>3, <1>5, <1>6, RulesCompare
<1> QED BY <1>4, <1>7 DEF custom

\* Nor does a rule turn the order of two files under two settings.
LEMMA FilesStayCompared ==
    ASSUME NEW a, NEW b, NEW d, NEW changes, changes = ParseFileChanges(d),
           Follows(a, changes), Follows(b, changes), Files(changes) \subseteq Path,
           VerdictFields \cup {"checks"} \subseteq DOMAIN a,
           VerdictFields \cup {"checks"} \subseteq DOMAIN b, FilesCompare(a, b),
           NEW candidates, IsSeq(candidates), NEW prefix,
           \A rule \in ToSet(candidates) : Accepted(rule) => IsAdded(rule, prefix)
    PROVE  FilesCompare(ApplyCustomRules(a, d, candidates, prefix),
                        ApplyCustomRules(b, d, candidates, prefix))
<1> DEFINE rules == NormalizeCustomRules(candidates).rules
           one == ApplyCustomRules(a, d, candidates, prefix)
           other == ApplyCustomRules(b, d, candidates, prefix)
<1>1. rules \in Seq(ToSet(candidates)) /\ \A i \in 1 .. Len(rules) : Accepted(rules[i])
  BY CandidatesAreSifted
<1>2. rules = NormalizeCustomRules(candidates).rules OBVIOUS
<1> HIDE DEF rules, one, other
<1> DEFINE k == Len(rules)
<1>3. k \in Nat /\ \A i \in 1 .. k : rules[i].weight \in Nat /\ IsAdded(rules[i], prefix)
  <2>1. k \in Nat /\ \A i \in 1 .. k : rules[i] \in ToSet(candidates) BY <1>1
  <2>2. \A i \in 1 .. k : IsAdded(rules[i], prefix) BY <1>1, <2>1
  <2> QED BY <1>1, <2>1, <2>2 DEF Accepted
<1>4. PICK at : /\ \A n \in 0 .. k : at[n] = AppliedAt(a, changes, rules, prefix, at, n)
                /\ one = Reconsidered(at[k])
  BY <1>2, <1>3, ApplicationsAreGiven DEF one
<1>5. PICK bt : /\ \A n \in 0 .. k : bt[n] = AppliedAt(b, changes, rules, prefix, bt, n)
                /\ other = Reconsidered(bt[k])
  BY <1>2, <1>3, ApplicationsAreGiven DEF other
<1> DEFINE Whole(r) == Follows(r, changes) /\ VerdictFields \cup {"checks"} \subseteq DOMAIN r
           S == {n \in 0 .. k : Whole(at[n]) /\ Whole(bt[n]) /\ FilesCompare(at[n], bt[n])}
<1>6. 0 \in S
  <2>1. at[0] = a /\ bt[0] = b BY <1>3, <1>4, <1>5 DEF AppliedAt
  <2> QED BY <1>3, <2>1
<1>7. ASSUME NEW n \in 1 .. k, n - 1 \in S PROVE n \in S
  <2> DEFINE x == at[n - 1]  y == bt[n - 1]  rule == rules[n]
             now == ApplyRule(x, rule, changes, prefix)
             then == ApplyRule(y, rule, changes, prefix)
  <2>1. n \in 0 .. k /\ n # 0 BY <1>3
  <2>2. at[n] = now /\ bt[n] = then BY <1>4, <1>5, <2>1 DEF AppliedAt
  <2>3. Whole(x) /\ Whole(y) /\ FilesCompare(x, y) BY <1>7
  <2>4. /\ {"rules", "checks", "score", "files"} \subseteq DOMAIN x
        /\ {"rules", "checks", "score", "files"} \subseteq DOMAIN y
    BY <2>3 DEF VerdictFields
  <2>5. rule.weight \in Nat /\ IsAdded(rule, prefix) BY <1>3
  <2> HIDE DEF x, y, rule
  <2>6. Follows(now, changes) BY <2>3, <2>4, <2>5, RuleFollows
  <2>7. Follows(then, changes) BY <2>3, <2>4, <2>5, RuleFollows
  <2>8. DOMAIN now = DOMAIN x /\ DOMAIN then = DOMAIN y BY DEF ApplyRule
  <2>9. FilesCompare(now, then) BY <2>3, <2>4, <2>5, RuleComparesFiles
  <2> HIDE DEF now, then
  <2> QED BY <2>1, <2>2, <2>3, <2>6, <2>7, <2>8, <2>9
<1>8. k \in S
  <2> HIDE DEF S
  <2>1. k \in Nat BY <1>3
  <2> HIDE DEF k
  <2>2. 0 .. k \subseteq S BY <1>6, <1>7, <2>1, GoDown
  <2> QED BY <2>1, <2>2
<1> DEFINE x == at[k]  y == bt[k]
<1>9. FilesCompare(x, y) BY <1>8
<1>10. one.files = x.files /\ other.files = y.files BY <1>4, <1>5 DEF Reconsidered
<1> HIDE DEF x, y
<1> QED BY <1>9, <1>10 DEF FilesCompare, one, other

\* The changes of a diff whose lines are counted are counted too.
Read(d) == /\ Counted(d) /\ \A s \in ToSet(d) : s.path \in Path /\ "test-change" \notin s.says

LEMMA ChangesAreCounted ==
    ASSUME NEW d, Read(d)
    PROVE  LET changes == ParseFileChanges(d)
           IN /\ IsSeq(changes) /\ ChangedLines(changes) \in Nat
              /\ \A x \in ToSet(changes) :
                    x.added \in Nat /\ x.removed \in Nat /\ "test-change" \notin x.says
              /\ Wider(changes, changes)
<1> DEFINE changes == ParseFileChanges(d)
<1>1. Counted(d) /\ IsSeq(d) /\ \A s \in ToSet(d) : "test-change" \notin s.says
  BY DEF Read, Counted
<1>2. IsSeq(changes) /\ ToSet(changes) = {ChangeOf(d, p) : p \in Files(d)}
  BY <1>1, ChangesAreMerged
<1>3. ChangedLines(changes) \in Nat BY <1>1, LinesAreShared
<1> HIDE DEF changes
<1>4. ASSUME NEW x \in ToSet(changes)
      PROVE  x.added \in Nat /\ x.removed \in Nat /\ "test-change" \notin x.says
  <2>1. PICK p : x = ChangeOf(d, p) BY <1>2
  <2>2. x.added = LinesOf(d, p, "added") /\ x.removed = LinesOf(d, p, "removed")
        /\ x.says = UNION {s.says : s \in SectionsOf(d, p)}
    BY <2>1 DEF ChangeOf
  <2>3. LinesOf(d, p, "added") \in Nat /\ LinesOf(d, p, "removed") \in Nat
    BY <1>1, LinesAreCounted
  <2>4. "test-change" \notin x.says BY <1>1, <2>2 DEF SectionsOf
  <2> QED BY <2>2, <2>3, <2>4
<1>5. Wider(changes, changes) BY <1>2, <1>3, <1>4, WiderThanItself
<1> QED BY <1>2, <1>3, <1>4, <1>5 DEF changes

\* Stricter settings are no lower a score of any file.
LEMMA ScannedFilesCompare ==
    ASSUME NEW d, Read(d), NEW c, NEW k, Resolved(c), Resolved(k), c.customRules = k.customRules,
           Stricter(NormalizeConfig(c), NormalizeConfig(k))
    PROVE  FilesCompare(Scan(d, c), Scan(d, k))
<1> DEFINE changes == ParseFileChanges(d)
           lax == NormalizeConfig(c)  strict == NormalizeConfig(k)
           a == AnalyzeDiff(d, c)  b == AnalyzeDiff(d, k)
           rules == c.customRules
           custom == <<"custom">>
<1>1. IsSeq(d) /\ \A s \in ToSet(d) : s.path \in Path BY DEF Read, Counted
<1>2. c.preset \in DOMAIN Preset /\ k.preset \in DOMAIN Preset /\ IsSeq(rules) BY DEF Resolved
<1>3. /\ Follows(a, changes)
      /\ ToSet(a.files) = {ScoreSingleFile(x, lax) : x \in ToSet(changes)}
  BY <1>1, <1>2, BuiltFollows
<1>4. /\ Follows(b, changes)
      /\ ToSet(b.files) = {ScoreSingleFile(x, strict) : x \in ToSet(changes)}
  BY <1>1, <1>2, BuiltFollows
<1>5. /\ VerdictFields \cup {"checks"} \subseteq DOMAIN a
      /\ VerdictFields \cup {"checks"} \subseteq DOMAIN b
      /\ Files(changes) \subseteq Path
      /\ \A rule \in ToSet(rules) : Accepted(rule) => IsAdded(rule, custom)
  <2>1. /\ VerdictFields \cup {"checks"} \subseteq DOMAIN a
        /\ Files(changes) \subseteq Path
        /\ \A rule \in ToSet(rules) : Accepted(rule) => IsAdded(rule, custom)
    BY <1>1, ScanIsVerdict
  <2>2. VerdictFields \cup {"checks"} \subseteq DOMAIN b BY <1>1, ScanIsVerdict
  <2> QED BY <2>1, <2>2
<1>6. \A x, y \in ToSet(changes) : x.path = y.path => x = y BY <1>1, ChangesAreOfPaths
<1>7. changes = ParseFileChanges(d) OBVIOUS
<1>8. Scan(d, c) = ApplyCustomRules(a, d, rules, custom)
      /\ Scan(d, k) = ApplyCustomRules(b, d, rules, custom)
  BY DEF Scan
<1>9. Stricter(lax, strict) OBVIOUS
<1>10. \A x \in ToSet(changes) :
          x.added \in Nat /\ x.removed \in Nat /\ "test-change" \notin x.says
  BY ChangesAreCounted
<1> HIDE DEF changes, lax, strict, a, b, rules, custom
<1>11. FilesCompare(a, b)
  <2> SUFFICES ASSUME NEW f \in ToSet(a.files), NEW g \in ToSet(b.files), f.path = g.path
               PROVE  f.score <= g.score
    BY DEF FilesCompare
  <2>1. PICK x \in ToSet(changes) : f = ScoreSingleFile(x, lax) BY <1>3
  <2>2. PICK y \in ToSet(changes) : g = ScoreSingleFile(y, strict) BY <1>4
  <2>3. f.path = x.path /\ g.path = y.path BY <2>1, <2>2 DEF ScoreSingleFile
  <2>4. x = y BY <1>6, <2>3
  <2>5. ScoreSingleFile(x, lax).score <= ScoreSingleFile(x, strict).score
    BY <1>9, <1>10, FileCompares
  <2> QED BY <2>1, <2>2, <2>4, <2>5
<1>12. FilesCompare(ApplyCustomRules(a, d, rules, custom), ApplyCustomRules(b, d, rules, custom))
  BY <1>2, <1>3, <1>4, <1>5, <1>7, <1>11, FilesStayCompared
<1> QED BY <1>8, <1>12

LevelIn(scan, path) == (CHOOSE f \in ToSet(scan.files) : f.path = path).level

\* Stricter settings are no lower a level, of the report and of its files.
LEMMA LevelsCompare ==
    ASSUME NEW d, Read(d), NEW c, NEW k, Resolved(c), Resolved(k), c.customRules = k.customRules,
           Stricter(NormalizeConfig(c), NormalizeConfig(k))
    PROVE  /\ Rank[Scan(d, c).level] <= Rank[Scan(d, k).level]
           /\ \A p \in Files(d) : Rank[LevelIn(Scan(d, c), p)] <= Rank[LevelIn(Scan(d, k), p)]
<1> DEFINE changes == ParseFileChanges(d)
           lax == NormalizeConfig(c)  strict == NormalizeConfig(k)
           a == Scan(d, c)  b == Scan(d, k)
<1>1. IsSeq(d) /\ (\A s \in ToSet(d) : s.path \in Path) /\ IsSeq(c.customRules)
  BY DEF Read, Counted, Resolved
<1>2. Verdict(a, changes) /\ a.settings = lax BY <1>1, ScanIsVerdict
<1>3. Verdict(b, changes) /\ b.settings = strict BY <1>1, ScanIsVerdict
<1>4. a.score \in Int /\ b.score \in Int /\ a.score <= b.score
  BY <1>1, ChangesAreCounted, ScoresCompare
<1>5. FilesCompare(a, b) BY ScannedFilesCompare
<1>6. Files(changes) = Files(d) BY <1>1, ChangesAreOfPaths
<1>7. Stricter(lax, strict) OBVIOUS
<1> HIDE DEF changes, lax, strict, a, b
<1>8. a.level = Level(a.score, lax) /\ b.level = Level(b.score, strict)
  BY <1>2, <1>3 DEF Verdict
<1>9. Rank[a.level] <= Rank[b.level] BY <1>4, <1>7, <1>8, LevelCompares
<1>10. ASSUME NEW p \in Files(d) PROVE Rank[LevelIn(a, p)] <= Rank[LevelIn(b, p)]
  <2> DEFINE f == CHOOSE x \in ToSet(a.files) : x.path = p
             g == CHOOSE y \in ToSet(b.files) : y.path = p
  <2>1. /\ Files(d) = {x.path : x \in ToSet(a.files)} /\ Files(d) = {y.path : y \in ToSet(b.files)}
        /\ \A x \in ToSet(a.files) : x.score \in Int /\ x.level = Level(x.score, lax)
        /\ \A y \in ToSet(b.files) : y.score \in Int /\ y.level = Level(y.score, strict)
    BY <1>2, <1>3, <1>6 DEF Verdict, Follows, Earned
  <2>2. f \in ToSet(a.files) /\ f.path = p
    <3>1. \E x \in ToSet(a.files) : x.path = p BY <2>1
    <3> QED BY <3>1
  <2>3. g \in ToSet(b.files) /\ g.path = p
    <3>1. \E y \in ToSet(b.files) : y.path = p BY <2>1
    <3> QED BY <3>1
  <2>4. LevelIn(a, p) = f.level /\ LevelIn(b, p) = g.level BY DEF LevelIn
  <2> HIDE DEF f, g
  <2>5. f.score \in Int /\ g.score \in Int /\ f.level = Level(f.score, lax)
        /\ g.level = Level(g.score, strict)
    BY <2>1, <2>2, <2>3
  <2>6. f.score <= g.score BY <1>5, <2>2, <2>3 DEF FilesCompare
  <2> DEFINE u == f.score  v == g.score
  <2>7. u \in Int /\ v \in Int /\ u <= v BY <2>5, <2>6
  <2> HIDE DEF u, v
  <2>8. Rank[Level(u, lax)] <= Rank[Level(v, strict)] BY <1>7, <2>7, LevelCompares
  <2> QED BY <2>4, <2>5, <2>8 DEF u, v
<1> QED BY <1>9, <1>10 DEF a, b

\* What a run reads and resolves.
LEMMA InputIsRead ==
    ASSUME Configured, args \in Args
    PROVE  Read(diff) /\ Resolved(config) /\ Thresholded(config)
<1>1. Read(diff)
  <2>1. diff \in Diff BY DEF Configured
  <2> QED BY <2>1, InputAssumption DEF Read, Counted
<1>2. Resolved(config) BY ConfigIsParsed, ConfigIsResolved DEF Resolved
<1>3. Thresholded(config)
  <2>1. PICK document \in Document \ {Malformed} :
           /\ ~FatalConfig(document) /\ ~RefusedArguments(args)
           /\ config = ResolvedConfig(document, args)
    BY DEF Configured
  <2>2. /\ {"preset", "failThreshold", "highRiskPaths", "customRules"} \subseteq DOMAIN document
        /\ document.failThreshold \in Int \cup {None, Malformed}
        /\ args.failThreshold \in Int \cup {None}
    BY <2>1, InputAssumption DEF RefusedArguments
  <2>3. document.failThreshold # Malformed BY <2>1 DEF FatalConfig
  <2>4. /\ DOMAIN config = DOMAIN document
        /\ config.failThreshold = IF args.failThreshold # None THEN args.failThreshold
                                  ELSE document.failThreshold
    BY <2>1, <2>2 DEF ResolvedConfig
  <2> QED BY <2>2, <2>3, <2>4 DEF Thresholded
<1> QED BY <1>1, <1>2, <1>3

\* VerdictIsMonotone, of what a run so read.
LEMMA MonotoneThen ==
    ASSUME Made
    PROVE  VerdictIsMonotone
<1> DEFINE With(p) == [config EXCEPT !.preset = p]
<1>1. SUFFICES ASSUME stage = "analyze"
      PROVE /\ \A pair \in {<<"safe", "standard">>, <<"standard", "strict">>} :
                /\ Rank[Scan(diff, With(pair[1])).level] <= Rank[Scan(diff, With(pair[2])).level]
                /\ \A p \in Files(diff) : Rank[LevelIn(Scan(diff, With(pair[1])), p)]
                                          <= Rank[LevelIn(Scan(diff, With(pair[2])), p)]
            /\ \A i \in {j \in DOMAIN diff : diff[j].path \notin TestPath} :
                Others(diff, i) = {} \/ ~(UNION Others(diff, i) \subseteq {"comment"}) =>
                    Scan(RemoveAt(diff, i), config).score <= Scan(diff, config).score
  BY DEF VerdictIsMonotone, LevelIn
<1>2. Configured /\ args \in Args BY <1>1 DEF Made
<1>3. Read(diff) /\ Resolved(config) /\ Thresholded(config) BY <1>2, InputIsRead
<1>4. ASSUME NEW p, NEW q, (p = "safe" /\ q = "standard") \/ (p = "standard" /\ q = "strict")
      PROVE  /\ Rank[Scan(diff, With(p)).level] <= Rank[Scan(diff, With(q)).level]
             /\ \A path \in Files(diff) : Rank[LevelIn(Scan(diff, With(p)), path)]
                                          <= Rank[LevelIn(Scan(diff, With(q)), path)]
  <2>1. Stricter(NormalizeConfig(With(p)), NormalizeConfig(With(q))) BY <1>3, <1>4, PresetsAreOrdered
  <2>2. p \in DOMAIN Preset /\ q \in DOMAIN Preset BY <1>4 DEF Preset
  <2>3. /\ With(p).customRules = config.customRules /\ With(q).customRules = config.customRules
        /\ With(p).preset = p /\ With(q).preset = q
    BY <1>3 DEF Thresholded
  <2> HIDE DEF With
  <2>4. Resolved(With(p)) /\ Resolved(With(q)) BY <1>3, <2>2, <2>3 DEF Resolved
  <2> QED BY <1>3, <2>1, <2>3, <2>4, LevelsCompare
<1>5. ASSUME NEW i \in DOMAIN diff, diff[i].path \notin TestPath,
             Others(diff, i) = {} \/ ~(UNION Others(diff, i) \subseteq {"comment"})
      PROVE  Scan(RemoveAt(diff, i), config).score <= Scan(diff, config).score
  <2> DEFINE less == RemoveAt(diff, i)
  <2>1. Counted(diff) /\ \A s \in ToSet(diff) : "test-change" \notin s.says BY <1>3 DEF Read
  <2>2. Wider(ParseFileChanges(less), ParseFileChanges(diff)) BY <1>5, <2>1, RemovalNarrows
  <2>3. Stricter(NormalizeConfig(config), NormalizeConfig(config))
    <3> DEFINE own == config.preset
    <3>1. own \in DOMAIN Preset BY <1>3 DEF Resolved
    <3>2. config = [config EXCEPT !.preset = own]
      <4>1. PICK document : config = ResolvedConfig(document, args) BY <1>2 DEF Configured
      <4> QED BY <4>1 DEF ResolvedConfig
    <3> QED BY <1>3, <3>1, <3>2, PresetsAreOrdered
  <2>4. IsSeq(config.customRules) BY <1>3 DEF Resolved
  <2> HIDE DEF less
  <2>5. Scan(less, config).score <= Scan(diff, config).score BY <2>2, <2>3, <2>4, ScoresCompare
  <2> QED BY <2>5 DEF less
<1> HIDE DEF With
<1>6. ASSUME NEW pair \in {<<"safe", "standard">>, <<"standard", "strict">>}
      PROVE  /\ Rank[Scan(diff, With(pair[1])).level] <= Rank[Scan(diff, With(pair[2])).level]
             /\ \A p \in Files(diff) : Rank[LevelIn(Scan(diff, With(pair[1])), p)]
                                       <= Rank[LevelIn(Scan(diff, With(pair[2])), p)]
  <2>1. \/ pair[1] = "safe" /\ pair[2] = "standard"
        \/ pair[1] = "standard" /\ pair[2] = "strict"
    OBVIOUS
  <2> QED BY <1>4, <2>1
<1> QED BY <1>5, <1>6

\* A stricter preset never makes less, neither of the report's level nor of a file's, and
\* a section more is not a lower score (presets, limits and caps of analyzeDiff.js, the
\* rules of customRules.js).
THEOREM VerdictStaysMonotone == Spec => []VerdictIsMonotone
BY MadeHolds, MonotoneThen, PTL

-----------------------------------------------------------------------------
(* Init *)

\* A process links what it has synced; nothing unpublishes or unsyncs it.
PublishedIsSynced ==
    /\ \A p \in Proc : pc[p] = "synced" => data[p] = "synced"
    /\ \A p \in published : data[p] = "synced" /\ pc[p] \in {"cleaning", "done", "dead"}
    /\ finalName \in Proc => finalName \in published

\* A temporary file comes with its identity, or with a failed fstat.
TempIsKnown ==
    /\ \A p \in temp : p \in created \cup stuck
    /\ \A p \in Proc : pc[p] \in {"idle", "looked"} => p \notin temp
    /\ LeavesNoTemp

\* A process that is still on its way has not been answered.
Unanswered == \A p \in Proc : pc[p] \in {"idle", "looked", "opened", "written", "synced"} => outcome[p] = "none"

SetupInv == SetupTypeOK /\ PublishedIsSynced /\ Unanswered /\ TempIsKnown

LEMMA SetupStarts == SetupInit => SetupInv
BY SetupAssumption
   DEF SetupInit, SetupInv, SetupTypeOK, PublishedIsSynced, Unanswered, TempIsKnown, LeavesNoTemp, Data, Pc

LEMMA SetupTypeStep == SetupTypeOK /\ [SetupNext]_setupVars => SetupTypeOK'
<1> SUFFICES ASSUME SetupTypeOK, [SetupNext]_setupVars PROVE SetupTypeOK'
  OBVIOUS
<1> USE DEF SetupTypeOK, Data, Pc, Goes, Concludes
<1>1. ASSUME NEW p \in Proc, InitializeConfig(p) PROVE SetupTypeOK'
  <2>1. CASE Looks(p) BY <2>1 DEF Looks
  <2>2. CASE Opens(p) BY <2>2 DEF Opens
  <2>3. CASE Writes(p) BY <2>3 DEF Writes
  <2>4. CASE Syncs(p) BY <2>4 DEF Syncs
  <2>5. CASE Links(p) BY <2>5 DEF Links
  <2>6. CASE Cleans(p) BY <2>6 DEF Cleans
  <2> QED BY <1>1, <2>1, <2>2, <2>3, <2>4, <2>5, <2>6 DEF InitializeConfig
<1>2. ASSUME NEW p \in Proc, Killed(p) PROVE SetupTypeOK' BY <1>2 DEF Killed
<1>3. CASE PowerLoss BY <1>3 DEF PowerLoss
<1>4. CASE People BY <1>4 DEF People, PeopleWrite, PeopleRemove
<1>5. CASE UNCHANGED setupVars BY <1>5 DEF setupVars
<1> QED BY <1>1, <1>2, <1>3, <1>4, <1>5 DEF SetupNext

LEMMA SyncedStep == SetupInv /\ [SetupNext]_setupVars => PublishedIsSynced'
<1> SUFFICES ASSUME SetupInv, [SetupNext]_setupVars PROVE PublishedIsSynced'
  OBVIOUS
<1> USE SetupAssumption DEF SetupInv, SetupTypeOK, PublishedIsSynced, Goes, Concludes
<1>1. ASSUME NEW p \in Proc, InitializeConfig(p) PROVE PublishedIsSynced'
  <2>1. CASE Looks(p) BY <2>1 DEF Looks
  <2>2. CASE Opens(p) BY <2>2 DEF Opens
  <2>3. CASE Writes(p) BY <2>3 DEF Writes
  <2>4. CASE Syncs(p) BY <2>4 DEF Syncs
  <2>5. CASE Links(p) BY <2>5 DEF Links
  <2>6. CASE Cleans(p) BY <2>6 DEF Cleans
  <2> QED BY <1>1, <2>1, <2>2, <2>3, <2>4, <2>5, <2>6 DEF InitializeConfig
<1>2. ASSUME NEW p \in Proc, Killed(p) PROVE PublishedIsSynced' BY <1>2 DEF Killed, Live
<1>3. CASE PowerLoss BY <1>3 DEF PowerLoss, Live
<1>4. CASE People BY <1>4 DEF People, PeopleWrite, PeopleRemove
<1>5. CASE UNCHANGED setupVars BY <1>5 DEF setupVars
<1> QED BY <1>1, <1>2, <1>3, <1>4, <1>5 DEF SetupNext

LEMMA UnansweredStep == SetupInv /\ [SetupNext]_setupVars => Unanswered'
<1> SUFFICES ASSUME SetupInv, [SetupNext]_setupVars PROVE Unanswered'
  OBVIOUS
<1> USE DEF SetupInv, SetupTypeOK, PublishedIsSynced, Unanswered, Goes, Concludes
<1>1. ASSUME NEW p \in Proc, InitializeConfig(p) PROVE Unanswered'
  <2>1. CASE Looks(p) BY <2>1 DEF Looks
  <2>2. CASE Opens(p) BY <2>2 DEF Opens
  <2>3. CASE Writes(p) BY <2>3 DEF Writes
  <2>4. CASE Syncs(p) BY <2>4 DEF Syncs
  <2>5. CASE Links(p) BY <2>5 DEF Links
  <2>6. CASE Cleans(p) BY <2>6 DEF Cleans
  <2> QED BY <1>1, <2>1, <2>2, <2>3, <2>4, <2>5, <2>6 DEF InitializeConfig
<1>2. ASSUME NEW p \in Proc, Killed(p) PROVE Unanswered' BY <1>2 DEF Killed
<1>3. CASE PowerLoss BY <1>3 DEF PowerLoss
<1>4. CASE People BY <1>4 DEF People, PeopleWrite, PeopleRemove
<1>5. CASE UNCHANGED setupVars BY <1>5 DEF setupVars
<1> QED BY <1>1, <1>2, <1>3, <1>4, <1>5 DEF SetupNext

LEMMA TempStep == SetupInv /\ [SetupNext]_setupVars => TempIsKnown'
<1> SUFFICES ASSUME SetupInv, [SetupNext]_setupVars PROVE TempIsKnown'
  OBVIOUS
<1> USE DEF SetupInv, SetupTypeOK, TempIsKnown, LeavesNoTemp, Goes, Concludes
<1>1. ASSUME NEW p \in Proc, InitializeConfig(p) PROVE TempIsKnown'
  <2>1. CASE Looks(p) BY <2>1 DEF Looks
  <2>2. CASE Opens(p) BY <2>2 DEF Opens
  <2>3. CASE Writes(p) BY <2>3 DEF Writes
  <2>4. CASE Syncs(p) BY <2>4 DEF Syncs
  <2>5. CASE Links(p) BY <2>5 DEF Links
  <2>6. CASE Cleans(p) BY <2>6 DEF Cleans
  <2> QED BY <1>1, <2>1, <2>2, <2>3, <2>4, <2>5, <2>6 DEF InitializeConfig
<1>2. ASSUME NEW p \in Proc, Killed(p) PROVE TempIsKnown' BY <1>2 DEF Killed
<1>3. CASE PowerLoss BY <1>3 DEF PowerLoss, Live
<1>4. CASE People BY <1>4 DEF People, PeopleWrite, PeopleRemove
<1>5. CASE UNCHANGED setupVars BY <1>5 DEF setupVars
<1> QED BY <1>1, <1>2, <1>3, <1>4, <1>5 DEF SetupNext

LEMMA SetupInvariance == SetupSpec => []SetupInv
<1>1. SetupInv /\ [SetupNext]_setupVars => SetupInv'
  BY SetupTypeStep, SyncedStep, UnansweredStep, TempStep DEF SetupInv
<1> QED BY SetupStarts, <1>1, PTL DEF SetupSpec

\* Every step of init, of its surroundings and of people is a step of the exclusive
\* file or leaves it alone.
LEMMA FileStep == SetupInv /\ SetupInv' /\ [SetupNext]_setupVars => [Exclusive!FileNext]_(Exclusive!fileVars)
<1> SUFFICES ASSUME SetupInv, SetupInv', [SetupNext]_setupVars
             PROVE Exclusive!FileNext \/ UNCHANGED Exclusive!fileVars
  OBVIOUS
<1>1. File = finalName /\ File' = finalName'
  BY DEF SetupInv, PublishedIsSynced, File
<1> USE <1>1 DEF Exclusive!fileVars, Goes, Concludes
<1>2. ASSUME NEW p \in Proc, InitializeConfig(p)
      PROVE Exclusive!FileNext \/ UNCHANGED Exclusive!fileVars
  <2> USE DEF Exclusive!FileNext, Exclusive!Creates, Exclusive!FindsIt, Exclusive!Fails,
              Exclusive!Told, SetupInv, SetupTypeOK, Unanswered
  <2>1. CASE Looks(p) BY <2>1 DEF Looks
  <2>2. CASE Opens(p) BY <2>2 DEF Opens
  <2>3. CASE Writes(p) BY <2>3 DEF Writes
  <2>4. CASE Syncs(p) BY <2>4 DEF Syncs
  <2>5. CASE Links(p) BY <2>5 DEF Links
  <2>6. CASE Cleans(p) BY <2>6 DEF Cleans
  <2> QED BY <1>2, <2>1, <2>2, <2>3, <2>4, <2>5, <2>6 DEF InitializeConfig
<1>3. ASSUME NEW p \in Proc, Killed(p) PROVE UNCHANGED Exclusive!fileVars
  BY <1>3 DEF Killed
<1>4. CASE PowerLoss BY <1>4 DEF PowerLoss
<1>5. CASE People
  BY <1>5 DEF People, PeopleWrite, PeopleRemove, Exclusive!FileNext, Exclusive!PeopleEdit
<1>6. CASE UNCHANGED setupVars BY <1>6 DEF setupVars
<1> QED BY <1>2, <1>3, <1>4, <1>5, <1>6 DEF SetupNext

\* init implements the exclusive file, for any number of processes: nothing that is
\* there is replaced, nothing incomplete appears, every answer is true.
THEOREM Exclusivity == SetupSpec => ImplementsExclusiveFile
<1>1. SetupInit => Exclusive!FileInit
  BY SetupAssumption DEF SetupInit, Exclusive!FileInit, File
<1> QED BY SetupInvariance, <1>1, FileStep, PTL DEF SetupSpec, ImplementsExclusiveFile, Exclusive!FileSpec

\* A process that came to its end has removed its temporary file, unless fstat or
\* unlink failed.
THEOREM Tidy == SetupSpec => []LeavesNoTemp
<1>1. SetupInv => LeavesNoTemp
  BY DEF SetupInv, TempIsKnown
<1> QED BY SetupInvariance, <1>1, PTL
-----------------------------------------------------------------------------
(* A plugin's run *)

Unheard == promise = "pending" => mail = posted

WorkerInv == WorkerTypeOK /\ Unheard /\ FirstMessageDecides

LEMMA WorkerStarts == WorkerInit => WorkerInv
<1> SUFFICES ASSUME WorkerInit PROVE WorkerInv
  OBVIOUS
<1>1. mail \in Seq(Message) /\ posted \in Seq(Message)
  BY DEF WorkerInit
<1>2. WorkerTypeOK
  BY <1>1 DEF WorkerInit, WorkerTypeOK
<1>3. Unheard /\ FirstMessageDecides
  BY DEF WorkerInit, Unheard, FirstMessageDecides
<1> QED BY <1>2, <1>3 DEF WorkerInv

LEMMA WorkerStep == WorkerInv /\ [WorkerNext]_workerVars => WorkerInv'
<1> SUFFICES ASSUME WorkerInv, [WorkerNext]_workerVars
             PROVE WorkerInv'
  OBVIOUS
<1> USE WorkerAssumption
    DEF WorkerInv, WorkerTypeOK, Unheard, FirstMessageDecides, Outcome,
        Message, Runs, Dies, Finishes, Clears
\* What is posted goes to the end: the first message stays what it is.
<1>1. ASSUME NEW message \in Message, Sends(message), UNCHANGED promise
      PROVE /\ mail' \in Seq(Message) /\ posted' \in Seq(Message)
            /\ Unheard' /\ FirstMessageDecides'
  BY <1>1 DEF Sends
<1>2. CASE Returns
  BY <1>1, <1>2 DEF Returns
<1>3. CASE Posts
  BY <1>1, <1>3 DEF Posts
<1>4. CASE Breaks \/ Exits \/ Drains
  <2>1. exitCode' \in Nat
    BY <1>4 DEF Breaks, Exits, Drains
  <2> QED BY <1>4, <2>1 DEF Breaks, Exits, Drains
<1>5. CASE Starts \/ Fires
  BY <1>5 DEF Starts, Fires
<1>6. CASE Hears
  <2>1. Head(mail) \in Message /\ Tail(mail) \in Seq(Message)
    BY <1>6 DEF Hears
  <2> QED BY <1>6, <2>1 DEF Hears
<1>7. CASE SeesError \/ SeesExit
  BY <1>7 DEF SeesError, SeesExit
<1>8. CASE UNCHANGED workerVars
  BY <1>8 DEF workerVars
<1> QED BY <1>2, <1>3, <1>4, <1>5, <1>6, <1>7, <1>8 DEF WorkerNext, Plugin, Caller

\* The first message a plugin posts is the one that is judged, however many follow
\* and however the thread ends (worker.on('message') and the flag `settled`).
THEOREM FirstDecides == WorkerSpec => []FirstMessageDecides
<1>1. WorkerInv => FirstMessageDecides
  BY DEF WorkerInv
<1> QED BY WorkerStarts, WorkerStep, <1>1, PTL DEF WorkerSpec
=============================================================================
