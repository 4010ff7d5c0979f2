------------------------------ MODULE PrComment ------------------------------
(***************************************************************************)
(* The comment a workflow run leaves at a pull request (scripts/            *)
(* pr-comment.js).  A run reads the comments page by page, then updates the  *)
(* first one that begins with the marker, or creates one.  Each request is a *)
(* step at GitHub; between them other runs, people and bots go on.           *)
(***************************************************************************)
EXTENDS Integers, Sequences, SequencesExt

CONSTANTS
    Run,          \* workflow runs, later ones with larger numbers
    None,
    PageSize,     \* per_page
    MaxComments,  \* bound of the comments ever written
    MaxOthers     \* bound of the comments at the start

\* What a comment begins with: the marker, someone's text that holds the marker
\* further down (a quoted report), or neither.
Text == {"marked", "quoting", "plain"}
Comment == [id: Nat, text: Text, report: Run \cup {None}]

ASSUME ConstantsAssumption ==
    /\ Run \subseteq Nat /\ None \notin Nat
    /\ PageSize \in Nat \ {0} /\ MaxComments \in Nat /\ MaxOthers \in Nat

VARIABLES
    comments,  \* at GitHub, in the order they were created
    written,   \* the number of comments ever written: the last id
    run,       \* the local state of every run
    known,     \* history: runs that started when a marked comment was there
    overlap,   \* history: has a run started before an earlier one ended?
    deleted    \* history: has a comment been deleted?

vars == <<comments, written, run, known, overlap, deleted>>

RunState ==
    [pc: {"idle", "listing", "writing", "done", "failed"},
     page: Nat,
     listed: Seq(Comment)]

Over(r) == run[r].pc \in {"done", "failed"}

Marked == {c \in ToSet(comments) : c.text = "marked"}

Goes(r, pc) == run' = [run EXCEPT ![r].pc = pc]

-----------------------------------------------------------------------------

\* What GitHub answers for a page.
Page(n) ==
    LET first == (n - 1) * PageSize + 1
        last == IF n * PageSize < Len(comments) THEN n * PageSize ELSE Len(comments)
    IN SubSeq(comments, first, last)

\* Mutant: the first page is all there is.
IsLast_First(page) == TRUE

IsLast(page) == Len(page) < PageSize

\* findMergeGuardComment: where it finds comments, of which it takes the first.
IsOwn(comment) == comment.text = "marked"

Found(r) == {i \in DOMAIN run[r].listed : IsOwn(run[r].listed[i])}

\* One run for each push, whether or not the earlier ones have ended.
Starts(r) ==
    /\ run[r].pc = "idle"
    /\ overlap' = (overlap \/ \E q \in Run : q < r /\ ~Over(q))
    /\ run' = [run EXCEPT ![r] = [pc |-> "listing", page |-> 1, listed |-> <<>>]]
    /\ known' = IF Marked # {} THEN known \cup {r} ELSE known
    /\ UNCHANGED <<comments, written, deleted>>

\* listIssueComments
Lists(r) ==
    /\ run[r].pc = "listing"
    /\ LET page == Page(run[r].page)
       IN run' = [run EXCEPT ![r].listed = @ \o page,
                             ![r].page = @ + 1,
                             ![r].pc = IF IsLast(page) THEN "writing" ELSE "listing"]
    /\ UNCHANGED <<comments, written, known, overlap, deleted>>

\* The comment of run r over comment c.
Body(r, c) == [c EXCEPT !.text = "marked", !.report = r]

\* PATCH.  The answer may be lost, and a comment that was deleted is not found.
Updates(r) ==
    /\ run[r].pc = "writing" /\ Found(r) # {}
    /\ LET own == run[r].listed[Min(Found(r))].id
       IN IF \E i \in DOMAIN comments : comments[i].id = own
          THEN /\ comments' = [i \in DOMAIN comments |->
                     IF comments[i].id = own THEN Body(r, comments[i]) ELSE comments[i]]
               /\ Goes(r, "done") \/ Goes(r, "failed")
          ELSE UNCHANGED comments /\ Goes(r, "failed")
    /\ UNCHANGED <<written, known, overlap, deleted>>

Appends(comment) ==
    /\ comments' = Append(comments, comment)
    /\ written' = written + 1

\* POST.  The answer may be lost.
Creates(r) ==
    /\ run[r].pc = "writing" /\ Found(r) = {}
    /\ written < MaxComments
    /\ Appends([id |-> written + 1, text |-> "marked", report |-> r])
    /\ Goes(r, "done") \/ Goes(r, "failed")
    /\ UNCHANGED <<known, overlap, deleted>>

\* A request is refused or never arrives, or the job is cancelled.
Fails(r) ==
    /\ run[r].pc \in {"listing", "writing"}
    /\ Goes(r, "failed")
    /\ UNCHANGED <<comments, written, known, overlap, deleted>>

\* A job that ends before its comment is not waited for.
Skips(r) ==
    /\ run[r].pc = "idle"
    /\ Goes(r, "failed")
    /\ UNCHANGED <<comments, written, known, overlap, deleted>>

-----------------------------------------------------------------------------
(* People and bots *)

\* Room is left for one comment of every run.
Comments ==
    /\ written < MaxComments - Cardinality(Run)
    /\ \E text \in {"quoting", "plain"} :
          Appends([id |-> written + 1, text |-> text, report |-> None])
    /\ UNCHANGED <<run, known, overlap, deleted>>

Delete ==
    /\ \E i \in DOMAIN comments :
          comments[i].text # "marked" /\ comments' = RemoveAt(comments, i)
    /\ deleted' = TRUE
    /\ UNCHANGED <<written, run, known, overlap>>

-----------------------------------------------------------------------------
Init ==
    /\ written \in 0 .. MaxOthers
    /\ \E text \in [1 .. written -> {"quoting", "plain"}] :
          comments = [i \in 1 .. written |-> [id |-> i, text |-> text[i], report |-> None]]
    /\ run = [r \in Run |-> [pc |-> "idle", page |-> 0, listed |-> <<>>]]
    /\ known = {} /\ overlap = FALSE /\ deleted = FALSE

Upsert(r) == Starts(r) \/ Lists(r) \/ Updates(r) \/ Creates(r) \/ Fails(r) \/ Skips(r)

Next == (\E r \in Run : Upsert(r)) \/ Comments \/ Delete

Spec == Init /\ [][Next]_vars
-----------------------------------------------------------------------------
(* What the comment must be *)

\* Every variable has its type.
TypeOK ==
    /\ comments \in Seq(Comment)
    /\ written \in 0 .. MaxComments
    /\ run \in [Run -> RunState]
    /\ known \subseteq Run
    /\ overlap \in BOOLEAN /\ deleted \in BOOLEAN

\* "Reruns update the prior Merge Guard comment instead of creating duplicates"
\* (docs/GITHUB_ACTIONS.md:133), whatever fails and whatever answer is lost.
OneComment == Cardinality(Marked) <= 1

\* What the code keeps of it.  There is one comment, also after a lost answer to a
\* create, as long as no two runs overlap and no comment is deleted under a listing.
\* A run that found the comment where it started creates no other, however many
\* people write, and however many runs go on, between its pages.  And no run
\* replaces what people wrote, not even where that quotes a report.
CommentsAreKept ==
    [][/\ ~overlap' /\ ~deleted' => OneComment'
       /\ ~deleted => \A r \in known, c \in ToSet(comments') :
            c.report = r => \E d \in Marked : d.id = c.id
       /\ \A c \in ToSet(comments) \ Marked, d \in ToSet(comments') :
            d.id = c.id => d = c]_vars
=============================================================================
