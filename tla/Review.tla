------------------------------- MODULE Review -------------------------------
(***************************************************************************)
(* The page of duplicates (services/duplicate_detector.py,                 *)
(* services/ollama_duplicate.py, the duplicates routes of                  *)
(* routers/transactions.py and templates/transactions/duplicates.html):    *)
(* the groups it shows, the rows it selects for deletion beforehand, and   *)
(* what deleting and dismissing do to the groups of the next page.         *)
(*                                                                         *)
(* Everything here is keyed by account and amount, so the rows are those   *)
(* of one account and one amount.  The user works from one tab, while      *)
(* files go on being imported.                                             *)
(***************************************************************************)
EXTENDS Integers, FiniteSets, FiniteSetsExt

CONSTANTS
  LastDate,   \* bound: the dates are 0 .. LastDate
  Span,       \* days between the copies of one row in overlapping statements (3)
  Clocks,     \* times of day a row may carry (a file may have them or not)
  Words,      \* descriptions
  Measures,   \* the embeddings, or the ratio of characters without them
  Alike,      \* Alike[m]: the pairs of words m finds 85% alike
  Akin,       \* Akin[m]: the pairs of words m finds half alike
  Files,      \* what a file may bring: sets of [date, clock, word]
  MaxRow,     \* bound on the ids of rows
  MaxImports  \* bound on the imports

Dates == 0 .. LastDate
ByHand == 0    \* the batch of a row that was typed

Line == [date : Dates, clock : Clocks, word : Words]

ASSUME ReviewAssumption ==
  /\ LastDate \in Nat /\ Span \in Nat \ {0} /\ MaxRow \in Nat /\ MaxImports \in Nat
  /\ Clocks \subseteq Nat
  /\ \A m \in Measures : Alike[m] \subseteq Akin[m] /\ Akin[m] \subseteq Words \X Words
  /\ \A file \in Files : file \subseteq Line /\ IsFiniteSet(file)

VARIABLES
  rows,       \* the transactions: [id, date, clock, word, batch]
  dismissed,  \* dismissed_duplicates: dates
  shown,      \* the page in the user's tab: [groups, suggested], or NoPage
  batches     \* imports so far

reviewVars == <<rows, dismissed, shown, batches>>

NoPage == [groups |-> {}, suggested |-> {}]

----------------------------------------------------------------------------
(* The groups.  `keep' is the first row of a group, the one its table lists *)
(* first; `date' is what a dismissal of the group is stored under.          *)

Earlier(r, s) == r.date < s.date \/ (r.date = s.date /\ r.clock < s.clock)
First(rs) ==
  CHOOSE r \in rs : \A s \in rs : ~Earlier(s, r) /\ (Earlier(r, s) \/ r.id <= s.id)
AllIn(pairs, rs) == \A r, s \in rs : r.word = s.word \/ <<r.word, s.word>> \in pairs

Group(rs, near) ==
  [rows |-> {r.id : r \in rs}, keep |-> First(rs).id, date |-> First(rs).date, near |-> near,
   cross |-> Cardinality({r.batch : r \in rs}) > 1, same |-> Cardinality({r.word : r \in rs}) = 1]

\* find_duplicate_groups: moments that occur more than once, put together by day.
Repeated(date) ==
  {r \in rows : r.date = date /\ \E s \in rows \ {r} : s.date = date /\ s.clock = r.clock}
find_duplicate_groups(m) ==
  {Group(Repeated(d), FALSE) :
     d \in {c \in Dates \ dismissed :
              /\ Repeated(c) /= {}
              /\ \/ Cardinality({r.batch : r \in Repeated(c)}) > 1
                 \/ AllIn(Akin[m], Repeated(c))}}

\* find_near_duplicate_groups: pairs from two files, of different days.
OverlapPair(r, s, m) ==
  /\ r.batch /= ByHand /\ s.batch /= ByHand /\ r.batch /= s.batch
  /\ r.date < s.date /\ s.date - r.date <= Span
  /\ AllIn(Alike[m], {r, s})
  /\ r.date \notin dismissed
find_near_duplicate_groups(m) ==
  {Group({p[1], p[2]}, TRUE) : p \in {q \in rows \X rows : OverlapPair(q[1], q[2], m)}}

\* score_groups_with_db and the scoring the page asks for after it has loaded:
\* groups of two files and groups of one wording always, others as the model says.
Certain(gs) == {g \in gs : g.cross \/ g.same}

\* Mistake: all rows of a group are selected.
AllOf(g) == g.rows

\* What is selected in a suggested group: all its rows but the first.
Preselected(g) == g.rows \ {g.keep}
Chosen == UNION {Preselected(g) : g \in shown.suggested}
ChosenRows == {r \in rows : r.id \in Chosen}

----------------------------------------------------------------------------

NextRow == IF rows = {} THEN 1 ELSE 1 + Max({r.id : r \in rows})

\* An import brings the lines of a file in some order.
import_file(file) ==
  /\ batches < MaxImports /\ NextRow + Cardinality(file) - 1 <= MaxRow
  /\ \E place \in [file -> 0 .. Cardinality(file) - 1] :
       /\ \A a, b \in file : place[a] = place[b] => a = b
       /\ rows' = rows \cup {[id |-> NextRow + place[a], date |-> a.date, clock |-> a.clock,
                              word |-> a.word, batch |-> batches + 1] : a \in file}
  /\ batches' = batches + 1
  /\ UNCHANGED <<dismissed, shown>>

\* A row typed into the form.
add_row(line) ==
  /\ NextRow <= MaxRow
  /\ rows' = rows \cup {[id |-> NextRow, date |-> line.date, clock |-> line.clock,
                         word |-> line.word, batch |-> ByHand]}
  /\ shown' = NoPage
  /\ UNCHANGED <<dismissed, batches>>

\* GET /transactions/duplicates
duplicates_page ==
  \E m \in Measures :
    LET gs == find_duplicate_groups(m) \cup find_near_duplicate_groups(m) IN
    \E suggested \in SUBSET gs :
      /\ Certain(gs) \subseteq suggested
      /\ shown' = [groups |-> gs, suggested |-> suggested]
      /\ UNCHANGED <<rows, dismissed, batches>>

\* "Delete selected", with the selection the page was shown with.
bulk_delete ==
  /\ Chosen /= {}
  /\ rows' = {r \in rows : r.id \notin Chosen}
  /\ shown' = NoPage
  /\ UNCHANGED <<dismissed, batches>>

\* "Delete" beside one row.
delete_transaction(r) ==
  /\ \E g \in shown.groups : r.id \in g.rows
  /\ rows' = rows \ {r}
  /\ shown' = NoPage
  /\ UNCHANGED <<dismissed, batches>>

\* "Not a duplicate"
dismiss_duplicate(g) ==
  /\ dismissed' = dismissed \cup {g.date}
  /\ shown' = NoPage
  /\ UNCHANGED <<rows, batches>>

\* "Dismiss groups", with the selection the page was shown with.
bulk_dismiss_duplicates ==
  /\ Chosen /= {}
  /\ dismissed' = dismissed \cup {r.date : r \in ChosenRows}
  /\ shown' = NoPage
  /\ UNCHANGED <<rows, batches>>

\* find_dismissed_groups: dates with two rows or more.
find_dismissed_groups == {d \in dismissed : Cardinality({r \in rows : r.date = d}) > 1}

\* "Undo"
undismiss_duplicate(d) ==
  /\ d \in find_dismissed_groups
  /\ dismissed' = dismissed \ {d}
  /\ shown' = NoPage
  /\ UNCHANGED <<rows, batches>>

ReviewInit == rows = {} /\ dismissed = {} /\ shown = NoPage /\ batches = 0

ReviewNext ==
  \/ \E file \in Files : import_file(file)
  \/ \E file \in Files : \E line \in file : add_row(line)
  \/ duplicates_page
  \/ bulk_delete
  \/ \E r \in rows : delete_transaction(r)
  \/ \E g \in shown.groups : dismiss_duplicate(g)
  \/ bulk_dismiss_duplicates
  \/ \E d \in dismissed : undismiss_duplicate(d)

ReviewSpec == ReviewInit /\ [][ReviewNext]_reviewVars

----------------------------------------------------------------------------

ReviewTypeOK ==
  /\ rows \subseteq [id : 1 .. MaxRow, date : Dates, clock : Clocks, word : Words, batch : Nat]
  /\ \A r, s \in rows : r.id = s.id => r = s
  /\ dismissed \subseteq Dates
  /\ shown.suggested \subseteq shown.groups
  /\ batches \in 0 .. MaxImports

\* Rows the page ties together, through whichever of its groups.
Tied(ids) == \A g \in shown.groups : g.rows \cap ids = {} \/ g.rows \subseteq ids

\* Deleting what the page selects leaves, of all the rows it ties together
\* directly or through others, at least one: the groups overlap, a row may be
\* the first of one and a later one of another, and yet the charge stays in the
\* ledger.
ChainKeepsOne ==
  [][rows \ rows' \subseteq ChosenRows =>
       \A ids \in SUBSET UNION {g.rows : g \in shown.groups} :
         ids /= {} /\ Tied(ids) => \E r \in rows' : r.id \in ids]_rows

\* duplicates.html:162, on the selection of all rows but the first: "This
\* guarantees we never auto-select every member of a group."
NeverAllOfAGroup == \A g \in shown.groups : ~(g.rows \subseteq Chosen)

\* The docstring of bulk_dismiss_duplicates (transactions.py:737): "Dismiss every
\* duplicate group that contains at least one of the given txn IDs."
BulkDismissHides ==
  [][bulk_dismiss_duplicates =>
       \A g \in shown.suggested : g.date \in dismissed']_reviewVars

\* duplicates.html:282: "Click Undo to return to the active list", where each
\* group that a dismissal hides should be.
HiddenCanBeUndone ==
  \A r, s \in rows, m \in Measures :
    /\ r.batch /= ByHand /\ s.batch /= ByHand /\ r.batch /= s.batch
    /\ r.date < s.date /\ s.date - r.date <= Span /\ AllIn(Alike[m], {r, s})
    /\ r.date \in dismissed
    => r.date \in find_dismissed_groups

\* duplicate_detector.py:181: two rows of one day are "handled by
\* find_duplicate_groups".
SameDaySurfaces ==
  \A r, s \in rows, m \in Measures :
    r.date = s.date /\ r.batch /= s.batch /\ r.word = s.word /\ r.date \notin dismissed =>
      \E g \in find_duplicate_groups(m) : {r.id, s.id} \subseteq g.rows
=============================================================================
