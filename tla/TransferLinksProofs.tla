------------------------ MODULE TransferLinksProofs ------------------------
(***************************************************************************)
(* No transaction points at a transfer that is not there or not its own,   *)
(* however many requests overlap.  Where requests take turns, none of them *)
(* is refused, and transfers stay paired.  For every ledger and all bounds.*)
(***************************************************************************)
EXTENDS TransferLinks, TLAPS, WellFoundedInduction

----------------------------------------------------------------------------
(* The inductive invariant: rows have their columns, and what a request in  *)
(* progress will write can only point a row at the link it is a side of.    *)

RowsTyped ==
  /\ DOMAIN txns \subseteq TxnIds
  /\ \A i \in DOMAIN txns : txns[i] \in Row

SavedRow == [acct : Accounts, amt : Int, pay : BOOLEAN, flag : BOOLEAN,
             gone : BOOLEAN, link : LinkIds \cup {Null, New}]

SavedWell(w, j) ==
  /\ w.saved[j] \in SavedRow
  /\ w.saved[j].link = New => \E p \in w.join : j \in {p.from, p.to}
  /\ w.saved[j].link \notin {New, Null} => j # New /\ w.saved[j].link = w.seen[j].link

Coherent(w) == \A j \in DOMAIN w.saved : SavedWell(w, j)

PInv ==
  /\ RowsTyped /\ PointerIsSide
  /\ DOMAIN req = Requests
  /\ \A r \in Requests : Coherent(req[r].work)

Unlocked == New \notin TxnIds /\ New \notin LinkIds /\ Null \notin LinkIds /\ New # Null

\* The ids of the tables are positive, so NULL and the id to come are neither.
LEMMA Names == Unlocked
BY LedgerAssumption DEF Unlocked, New, Null, TxnIds, LinkIds

----------------------------------------------------------------------------
(* What a unit of work writes.                                              *)

Linked(row) == IF row.link = New THEN [row EXCEPT !.link = NextLink] ELSE row

\* A loaded row as the unit of work leaves it keeps its columns, and its pointer
\* is the one it had, none, or the new link.
LEMMA UpdatedRow ==
  ASSUME NEW row \in Row, NEW seen, NEW saved \in SavedRow,
         saved.link = New => NextLink \in LinkIds,
         saved.link \notin {New, Null} => saved.link = seen.link
  PROVE  /\ Updated(row, seen, Linked(saved)) \in Row
         /\ \/ Updated(row, seen, Linked(saved)).link = row.link
            \/ Updated(row, seen, Linked(saved)).link = Null
            \/ /\ Updated(row, seen, Linked(saved)).link = NextLink
               /\ saved.link = New
<1>1. /\ Linked(saved) \in SavedRow
      /\ saved.link = New => Linked(saved).link = NextLink
      /\ saved.link # New => Linked(saved).link = saved.link
  BY DEF Linked, SavedRow
<1>2. Linked(saved).link = seen.link \/ Linked(saved).link \in LinkIds \cup {Null}
  BY <1>1 DEF SavedRow
<1>3. Updated(row, seen, Linked(saved)) \in Row
  BY <1>1, <1>2 DEF Updated, Row, SavedRow
<1>4. QED
  BY <1>1, <1>3 DEF Updated

\* Committing a coherent unit of work keeps the rows' columns and leaves every
\* pointer at a link that names its row.
LEMMA CommitPoints ==
  ASSUME NEW w, RowsTyped, PointerIsSide, Coherent(w), Fits(w), Accepted(w),
         txns' = [i \in DOMAIN Written(w) \ w.drop |-> Written(w)[i]],
         links' = Joined(w)
  PROVE  RowsTyped' /\ PointerIsSide'
<1> DEFINE W == Written(w)
<1>1. ASSUME NEW j \in DOMAIN w.saved, w.saved[j].link = New
      PROVE  /\ NextLink \in LinkIds
             /\ \E l \in Joined(w) : /\ l.id = NextLink
                                     /\ (IF j = New THEN NextTxn ELSE j) \in {l.from, l.to}
  <2>1. PICK p \in w.join : j \in {p.from, p.to}
    BY <1>1 DEF Coherent, SavedWell
  <2>2. NextLink \in LinkIds
    BY <2>1 DEF Fits
  <2> DEFINE side(i) == IF i = New THEN NextTxn ELSE i
             l == [id |-> NextLink, from |-> side(p.from), to |-> side(p.to)]
  <2>3. l \in Joined(w)
    BY <2>1 DEF Joined
  <2>4. l.id = NextLink /\ side(j) \in {l.from, l.to}
    BY <2>1
  <2>5. QED
    BY <2>2, <2>3, <2>4
<1>2. ASSUME NEW i \in DOMAIN W
      PROVE  /\ i \in TxnIds /\ W[i] \in Row
             /\ W[i].link # Null => \E l \in Joined(w) : l.id = W[i].link /\ i \in {l.from, l.to}
  <2>1. CASE i \notin DOMAIN txns
    <3>1. New \in DOMAIN w.saved /\ i = NextTxn
      BY <2>1 DEF Written
    <3>2. W[i] = Linked(w.saved[New])
      BY <2>1, <3>1 DEF Written, Linked
    <3>3. SavedWell(w, New)
      BY <3>1 DEF Coherent
    <3>4. i \in TxnIds
      BY <3>1 DEF Fits
    <3>5. w.saved[New].link \in {New, Null}
      BY <3>3 DEF SavedWell
    <3>6. CASE w.saved[New].link = New
      <4>1. NextLink \in LinkIds
        BY <1>1, <3>1, <3>6
      <4>2. W[i] \in Row /\ W[i].link = NextLink
        BY <3>2, <3>3, <3>6, <4>1 DEF SavedWell, SavedRow, Row, Linked
      <4>3. \E l \in Joined(w) : l.id = NextLink /\ NextTxn \in {l.from, l.to}
        BY <1>1, <3>1, <3>6
      <4>4. QED
        BY <3>1, <3>4, <4>2, <4>3
    <3>7. CASE w.saved[New].link = Null
      <4>1. W[i] \in Row /\ W[i].link = Null
        BY <3>2, <3>3, <3>7, Names DEF SavedWell, SavedRow, Row, Linked, Unlocked
      <4>2. QED
        BY <3>4, <4>1
    <3>8. QED
      BY <3>5, <3>6, <3>7
  <2>2. CASE i \in DOMAIN txns
    <3>1. i \in TxnIds /\ txns[i] \in Row
      BY <2>2 DEF RowsTyped
    <3>2. W[i].link \notin w.unjoin
      BY DEF Accepted
    <3>3. W[i].link = txns[i].link /\ W[i].link # Null
            => \E l \in Joined(w) : l.id = W[i].link /\ i \in {l.from, l.to}
      BY <2>2, <3>2 DEF PointerIsSide, Joined
    <3>4. CASE i \notin DOMAIN w.saved
      BY <2>2, <3>1, <3>3, <3>4 DEF Written
    <3>5. CASE i \in DOMAIN w.saved
      <4>1. W[i] = Updated(txns[i], w.seen[i], Linked(w.saved[i]))
        BY <2>2, <3>5 DEF Written, Linked
      <4>2. SavedWell(w, i)
        BY <3>5 DEF Coherent
      <4>3. w.saved[i].link = New => NextLink \in LinkIds
        BY <1>1, <3>5
      <4>4. /\ W[i] \in Row
            /\ \/ W[i].link = txns[i].link \/ W[i].link = Null
               \/ W[i].link = NextLink /\ w.saved[i].link = New
        BY <3>1, <4>1, <4>2, <4>3, UpdatedRow DEF SavedWell
      <4>5. i # New
        BY <3>1, Names DEF Unlocked
      <4>6. w.saved[i].link = New
              => \E l \in Joined(w) : l.id = NextLink /\ i \in {l.from, l.to}
        BY <1>1, <3>5, <4>5
      <4>7. QED
        BY <3>1, <3>3, <4>4, <4>6
    <3>6. QED
      BY <3>4, <3>5
  <2>3. QED
    BY <2>1, <2>2
<1>3. \A i \in DOMAIN txns' : i \in DOMAIN W /\ txns'[i] = W[i]
  OBVIOUS
<1>4. RowsTyped'
  BY <1>2, <1>3 DEF RowsTyped, TxnIds, Row, LinkIds
<1>5. PointerIsSide'
  BY <1>2, <1>3 DEF PointerIsSide
<1>6. QED
  BY <1>4, <1>5

----------------------------------------------------------------------------
(* What the handlers load and change is coherent.                           *)

\* A unit of work that leaves the pointers alone or clears them.
LEMMA ClearingCoherent ==
  ASSUME RowsTyped, NEW w, NEW ids \in SUBSET DOMAIN txns,
         DOMAIN w.saved = ids, DOMAIN w.seen = ids,
         \A j \in ids : /\ w.seen[j] = txns[j]
                        /\ w.saved[j] \in Row
                        /\ w.saved[j].link \in {Null, txns[j].link}
  PROVE  Coherent(w)
<1> SUFFICES ASSUME NEW j \in ids PROVE SavedWell(w, j)
  BY DEF Coherent
<1>1. j # New /\ w.saved[j] \in SavedRow
  BY Names DEF RowsTyped, Unlocked, Row, SavedRow
<1>2. txns[j].link # New
  BY Names DEF RowsTyped, Row, Unlocked
<1>3. QED
  BY <1>1, <1>2, Names DEF SavedWell, Unlocked

\* The rows a pair or an edit puts on a new link are its sides.
LEMMA LinkCoherent ==
  ASSUME RowsTyped, NEW from \in DOMAIN txns, NEW to \in DOMAIN txns
  PROVE  Coherent(LinkWork(from, to))
<1> DEFINE w == LinkWork(from, to)
<1>1. \A j \in {from, to} : txns[j] \in Row
  BY DEF RowsTyped
<1>2. /\ DOMAIN w.saved = {from, to} /\ w.join = {[from |-> from, to |-> to]}
      /\ \A j \in {from, to} : w.saved[j] = [txns[j] EXCEPT !.flag = TRUE, !.link = New]
  BY DEF LinkWork, Work
<1>3. \A j \in {from, to} : w.saved[j] \in SavedRow /\ w.saved[j].link = New
  BY <1>1, <1>2 DEF Row, SavedRow
<1>4. \A j \in {from, to} : \E p \in w.join : j \in {p.from, p.to}
  BY <1>2
<1>5. QED
  BY <1>2, <1>3, <1>4 DEF Coherent, SavedWell

LEMMA TransferCoherent ==
  ASSUME RowsTyped, NEW i \in DOMAIN txns, NEW row \in Row, NEW a \in Accounts,
         NEW w \in TransferWorks(i, row, a)
  PROVE  Coherent(w)
<1> DEFINE own == [row EXCEPT !.flag = TRUE, !.link = New]
           mirror == [acct |-> a, amt |-> - row.amt, pay |-> TRUE, flag |-> TRUE,
                      gone |-> FALSE, link |-> New]
<1>1. own \in SavedRow /\ own.link = New
  BY DEF Row, SavedRow
<1>2. mirror \in SavedRow /\ mirror.link = New
  <2>1. row.amt \in Int /\ - row.amt \in Int
    BY DEF Row
  <2>2. QED
    BY <2>1 DEF SavedRow
<1>3. \A j, k : \A p \in Sides(row, j, k) : j \in {p.from, p.to} /\ k \in {p.from, p.to}
  BY DEF Sides
<1>4. \A j, k : Sides(row, j, k) # {}
  BY DEF Sides
<1>5. CASE w = Work(Loaded({i}), [j \in {i, New} |-> IF j = i THEN own ELSE mirror],
                    Sides(row, i, New))
  <2>1. /\ DOMAIN w.saved = {i, New} /\ w.join = Sides(row, i, New)
        /\ \A j \in {i, New} : w.saved[j] \in SavedRow /\ w.saved[j].link = New
    BY <1>1, <1>2, <1>5 DEF Work
  <2>2. \A j \in {i, New} : \E p \in w.join : j \in {p.from, p.to}
    BY <1>3, <1>4, <2>1
  <2>3. QED
    BY <2>1, <2>2 DEF Coherent, SavedWell
<1>6. ASSUME NEW j \in Matches(i, row, a),
             w = Work(Loaded({i, j}),
                      [k \in {i, j} |->
                         IF k = i THEN own ELSE [txns[j] EXCEPT !.flag = TRUE, !.link = New]],
                      Sides(row, i, j))
      PROVE  Coherent(w)
  <2>1. txns[j] \in Row
    BY DEF Matches, RowsTyped
  <2>2. /\ DOMAIN w.saved = {i, j} /\ w.join = Sides(row, i, j)
        /\ \A k \in {i, j} : w.saved[k] \in SavedRow /\ w.saved[k].link = New
    BY <1>1, <1>6, <2>1 DEF Work, Row, SavedRow
  <2>3. \A k \in {i, j} : \E p \in w.join : k \in {p.from, p.to}
    BY <1>3, <1>4, <2>2
  <2>4. QED
    BY <2>2, <2>3 DEF Coherent, SavedWell
<1>7. QED
  BY <1>5, <1>6 DEF TransferWorks

\* What the handlers do to a loaded row leaves it a row.
LEMMA RowEdits ==
  ASSUME NEW row \in Row
  PROVE  /\ [row EXCEPT !.flag = FALSE, !.gone = TRUE] \in Row
         /\ [row EXCEPT !.flag = FALSE, !.gone = TRUE].link = row.link
         /\ [row EXCEPT !.link = Null] \in Row
         /\ [row EXCEPT !.link = Null].link = Null
         /\ [row EXCEPT !.flag = FALSE, !.link = Null] \in Row
         /\ [row EXCEPT !.flag = FALSE, !.link = Null].link = Null
<1>1. /\ row = [acct |-> row.acct, amt |-> row.amt, pay |-> row.pay, flag |-> row.flag,
                gone |-> row.gone, link |-> row.link]
      /\ row.acct \in Accounts /\ row.amt \in Int /\ row.pay \in BOOLEAN
      /\ row.flag \in BOOLEAN /\ row.gone \in BOOLEAN /\ row.link \in LinkIds \cup {Null}
  BY DEF Row
<1>2. QED
  BY <1>1 DEF Row

\* Every request that begins has a coherent unit of work in hand.
LEMMA EditCoherent ==
  ASSUME RowsTyped, NEW i \in DOMAIN txns, NEW amt \in Amounts \cup {txns[i].amt},
         NEW flag \in BOOLEAN, NEW a \in Accounts, NEW w \in EditWorks(i, amt, flag, a)
  PROVE  Coherent(w)
<1> DEFINE row == [txns[i] EXCEPT !.amt = amt, !.flag = flag]
           left == IF flag THEN row ELSE [row EXCEPT !.link = Null]
<1>1. txns[i] \in Row
  BY DEF RowsTyped
<1>2. amt \in Int
  BY <1>1, LedgerAssumption DEF Row
<1>3. row \in Row /\ row.link = txns[i].link
  BY <1>1, <1>2 DEF Row
<1>4. left \in Row /\ left.link \in {Null, txns[i].link}
  BY <1>3 DEF Row
<1>5. CASE w \in TransferWorks(i, row, a)
  BY <1>3, <1>5, TransferCoherent
<1>6. CASE w = Work(Loaded({i}), [j \in {i} |-> left], {})
  <2>1. /\ DOMAIN w.saved = {i} /\ DOMAIN w.seen = {i}
        /\ w.seen[i] = txns[i] /\ w.saved[i] = left
    BY <1>6 DEF Work, Loaded
  <2>2. QED
    BY <1>4, <2>1, ClearingCoherent
<1>7. QED
  BY <1>5, <1>6 DEF EditWorks

LEMMA BegunCoherent ==
  ASSUME RowsTyped
  PROVE  /\ Coherent(NoWork)
         /\ \A l \in links : Coherent(UnlinkWork(l))
         /\ \A from, to \in DOMAIN txns : Coherent(DismissWork(from, to))
         /\ \A ids \in SUBSET DOMAIN txns, flag \in BOOLEAN : Coherent(FlagWork(ids, flag))
         /\ \A i \in DOMAIN txns : Coherent(DeleteWork(i))
<1>1. Coherent(NoWork)
  BY DEF Coherent, NoWork, Work
<1>2. ASSUME NEW l \in links PROVE Coherent(UnlinkWork(l))
  <2> DEFINE w == UnlinkWork(l)
             sides == {l.from, l.to} \cap DOMAIN txns
  <2>1. /\ DOMAIN w.saved = sides /\ DOMAIN w.seen = sides
        /\ \A j \in sides : /\ w.seen[j] = txns[j]
                            /\ w.saved[j] = [txns[j] EXCEPT !.flag = FALSE, !.link = Null]
    BY DEF UnlinkWork, Work, Loaded
  <2>2. ASSUME NEW j \in sides PROVE w.saved[j] \in Row /\ w.saved[j].link = Null
    <3>1. txns[j] \in Row
      BY DEF RowsTyped
    <3>2. QED
      BY <2>1, <3>1, RowEdits, Zenon
  <2>3. QED
    BY <2>1, <2>2, ClearingCoherent
<1>3. ASSUME NEW from \in DOMAIN txns, NEW to \in DOMAIN txns
      PROVE  Coherent(DismissWork(from, to))
  <2> DEFINE w == DismissWork(from, to)
  <2>1. /\ DOMAIN w.saved = {from, to} /\ DOMAIN w.seen = {from, to}
        /\ \A j \in {from, to} : /\ w.seen[j] = txns[j]
                                 /\ w.saved[j] = [txns[j] EXCEPT !.flag = FALSE, !.gone = TRUE]
    BY DEF DismissWork, Work, Loaded
  <2>2. ASSUME NEW j \in {from, to} PROVE w.saved[j] \in Row /\ w.saved[j].link = txns[j].link
    <3>1. txns[j] \in Row
      BY DEF RowsTyped
    <3>2. QED
      BY <2>1, <3>1, RowEdits, Zenon
  <2>3. {from, to} \in SUBSET DOMAIN txns
    OBVIOUS
  <2>4. QED
    BY <2>1, <2>2, <2>3, ClearingCoherent
<1>4. ASSUME NEW ids \in SUBSET DOMAIN txns, NEW flag \in BOOLEAN
      PROVE  Coherent(FlagWork(ids, flag))
  <2> DEFINE w == FlagWork(ids, flag)
  <2>1. /\ DOMAIN w.saved = ids /\ DOMAIN w.seen = ids
        /\ \A j \in ids : w.seen[j] = txns[j] /\ w.saved[j] = [txns[j] EXCEPT !.flag = flag]
    BY DEF FlagWork, Work, Loaded
  <2>2. ASSUME NEW j \in ids PROVE w.saved[j] \in Row /\ w.saved[j].link = txns[j].link
    <3>1. txns[j] \in Row
      BY DEF RowsTyped
    <3>2. [txns[j] EXCEPT !.flag = flag] \in Row /\ [txns[j] EXCEPT !.flag = flag].link = txns[j].link
      BY <3>1 DEF Row
    <3>3. QED
      BY <2>1, <3>2, Zenon
  <2>3. QED
    BY <2>1, <2>2, ClearingCoherent
<1>5. ASSUME NEW i \in DOMAIN txns PROVE Coherent(DeleteWork(i))
  <2> DEFINE w == DeleteWork(i)
             theirs == {l.id : l \in {x \in links : i \in {x.from, x.to}}}
             partners == {j \in DOMAIN txns : txns[j].link \in theirs}
  <2>1. /\ DOMAIN w.saved = partners /\ DOMAIN w.seen = partners
        /\ \A j \in partners : /\ w.seen[j] = txns[j]
                               /\ w.saved[j] = [txns[j] EXCEPT !.link = Null]
    BY DEF DeleteWork, Work, Loaded
  <2>2. ASSUME NEW j \in partners PROVE w.saved[j] \in Row /\ w.saved[j].link = Null
    <3>1. txns[j] \in Row
      BY DEF RowsTyped
    <3>2. QED
      BY <2>1, <3>1, RowEdits, Zenon
  <2>3. QED
    BY <2>1, <2>2, ClearingCoherent
<1>6. QED
  BY <1>1, <1>2, <1>3, <1>4, <1>5

----------------------------------------------------------------------------
(* The steps.                                                               *)

\* A request that takes up its work changes no row, and its work is coherent.
LEMMA TakesUp ==
  ASSUME PInv, NEW r \in Requests, NEW entry, Coherent(entry.work),
         req' = [req EXCEPT ![r] = entry], UNCHANGED <<txns, links>>
  PROVE  PInv'
<1>1. RowsTyped' /\ PointerIsSide'
  BY DEF PInv, RowsTyped, PointerIsSide, TxnIds, Row, LinkIds
<1>2. DOMAIN req' = Requests
  BY DEF PInv
<1>3. ASSUME NEW x \in Requests PROVE Coherent(req'[x].work)
  BY DEF PInv
<1>4. (\A x \in Requests : Coherent(req[x].work))'
  BY <1>3 DEF Coherent, SavedWell, SavedRow, LinkIds
<1>5. QED
  BY <1>1, <1>2, <1>4 DEF PInv

LEMMA BeginKeeps ==
  ASSUME PInv, NEW r \in Requests, NEW op, NEW pairs, NEW w, Coherent(w),
         Begin(r, op, pairs, w)
  PROVE  PInv'
<1> DEFINE entry == [op |-> op, pairs |-> pairs, work |-> w]
<1>1. Coherent(entry.work) /\ req' = [req EXCEPT ![r] = entry] /\ UNCHANGED <<txns, links>>
  BY DEF Begin
<1>2. QED
  BY <1>1, TakesUp

\* A page writes nothing, and neither does the reading of a pair.
LEMMA LinkingKeeps ==
  ASSUME PInv, NEW r \in Requests, Linking(r) \/ Reading(r)
  PROVE  PInv'
<1>1. RowsTyped /\ Coherent(NoWork) /\ Coherent(Idle.work)
  BY BegunCoherent DEF PInv, Idle
<1>2. ASSUME NEW pairs, Review(r, pairs) PROVE PInv'
  BY <1>1, <1>2, BeginKeeps DEF Review
<1>3. ASSUME NEW l \in links, Begin(r, "unlink", {}, UnlinkWork(l)) PROVE PInv'
  BY <1>1, <1>3, BegunCoherent, BeginKeeps
<1>4. ASSUME NEW p \in req[r].pairs, ReadPair(r, p) PROVE PInv'
  <2> DEFINE rest == req[r].pairs \ {p}
  <2>1. UNCHANGED <<txns, links>>
    BY <1>4 DEF ReadPair
  <2>2. CASE /\ Linkable(p[1], p[2])
             /\ req' = [req EXCEPT ![r] = [op |-> "link", pairs |-> rest,
                                           work |-> LinkWork(p[1], p[2])]]
    <3>1. Coherent(LinkWork(p[1], p[2]))
      BY <1>1, <2>2, LinkCoherent DEF Linkable
    <3> DEFINE entry == [op |-> "link", pairs |-> rest, work |-> LinkWork(p[1], p[2])]
    <3>2. Coherent(entry.work) /\ req' = [req EXCEPT ![r] = entry]
      BY <2>2, <3>1
    <3> HIDE DEF entry
    <3>3. QED
      BY <2>1, <3>2, TakesUp
  <2>3. CASE req' = [req EXCEPT ![r] = Idle]
    BY <1>1, <2>1, <2>3, TakesUp
  <2>4. CASE req' = [req EXCEPT ![r] = [req[r] EXCEPT !.pairs = rest]]
    <3>1. Coherent([req[r] EXCEPT !.pairs = rest].work)
      BY DEF PInv
    <3>2. QED
      BY <2>1, <2>4, <3>1, TakesUp
  <2>5. \/ /\ Linkable(p[1], p[2])
           /\ req' = [req EXCEPT ![r] = [op |-> "link", pairs |-> rest,
                                         work |-> LinkWork(p[1], p[2])]]
        \/ req' = [req EXCEPT ![r] = IF rest = {} THEN Idle ELSE [req[r] EXCEPT !.pairs = rest]]
    BY <1>4 DEF ReadPair
  <2>6. QED
    BY <2>2, <2>3, <2>4, <2>5
<1>5. ASSUME NEW p \in req[r].pairs, ReadDismissed(r, p) PROVE PInv'
  <2>1. UNCHANGED <<txns, links>>
    BY <1>5 DEF ReadDismissed
  <2>2. CASE /\ {p[1], p[2]} \subseteq DOMAIN txns
             /\ req' = [req EXCEPT ![r] = [op |-> "dismiss", pairs |-> {},
                                           work |-> DismissWork(p[1], p[2])]]
    <3>1. Coherent(DismissWork(p[1], p[2]))
      BY <1>1, <2>2, BegunCoherent
    <3> DEFINE entry == [op |-> "dismiss", pairs |-> {}, work |-> DismissWork(p[1], p[2])]
    <3>2. Coherent(entry.work) /\ req' = [req EXCEPT ![r] = entry]
      BY <2>2, <3>1
    <3> HIDE DEF entry
    <3>3. QED
      BY <2>1, <3>2, TakesUp
  <2>3. CASE req' = [req EXCEPT ![r] = Idle]
    BY <1>1, <2>1, <2>3, TakesUp
  <2>4. \/ /\ {p[1], p[2]} \subseteq DOMAIN txns
           /\ req' = [req EXCEPT ![r] = [op |-> "dismiss", pairs |-> {},
                                         work |-> DismissWork(p[1], p[2])]]
        \/ req' = [req EXCEPT ![r] = Idle]
    BY <1>5 DEF ReadDismissed
  <2>5. QED
    BY <2>2, <2>3, <2>4
<1>6. QED
  BY <1>2, <1>3, <1>4, <1>5 DEF Linking, Reading

LEMMA FlaggingKeeps ==
  ASSUME PInv, NEW r \in Requests, Flagging(r)
  PROVE  PInv'
<1>1. RowsTyped
  BY DEF PInv
<1>2. Coherent(FlagWork(Scanned, TRUE))
  BY <1>1, BegunCoherent DEF Scanned
<1>3. \A i \in DOMAIN txns, flag \in BOOLEAN : Coherent(FlagWork({i}, flag))
  BY <1>1, BegunCoherent
<1>4. CASE Begin(r, "scan", {}, FlagWork(Scanned, TRUE))
  BY <1>2, <1>4, BeginKeeps
<1>5. CASE \E i \in DOMAIN txns, flag \in BOOLEAN : Begin(r, "toggle", {}, FlagWork({i}, flag))
  BY <1>3, <1>5, BeginKeeps
<1>6. QED
  BY <1>4, <1>5 DEF Flagging

LEMMA EditingKeeps ==
  ASSUME PInv, NEW r \in Requests, Editing(r)
  PROVE  PInv'
<1>1. RowsTyped
  BY DEF PInv
<1>2. PICK i \in DOMAIN txns :
        \/ Begin(r, "delete", {}, DeleteWork(i))
        \/ \E amt \in Amounts \cup {txns[i].amt}, flag \in BOOLEAN, a \in Accounts :
             \E w \in EditWorks(i, amt, flag, a) : Begin(r, "edit", {}, w)
  BY DEF Editing
<1>3. CASE Begin(r, "delete", {}, DeleteWork(i))
  BY <1>1, <1>3, BegunCoherent, BeginKeeps
<1>4. CASE \E amt \in Amounts \cup {txns[i].amt}, flag \in BOOLEAN, a \in Accounts :
             \E w \in EditWorks(i, amt, flag, a) : Begin(r, "edit", {}, w)
  <2>1. PICK amt \in Amounts \cup {txns[i].amt}, flag \in BOOLEAN, a \in Accounts :
          \E w \in EditWorks(i, amt, flag, a) : Begin(r, "edit", {}, w)
    BY <1>4
  <2>2. PICK w \in EditWorks(i, amt, flag, a) : Begin(r, "edit", {}, w)
    BY <2>1
  <2>3. Coherent(w)
    BY <1>1, EditCoherent
  <2>4. QED
    BY <2>2, <2>3, BeginKeeps
<1>5. QED
  BY <1>2, <1>3, <1>4

LEMMA CommitKeeps ==
  ASSUME PInv, NEW r \in Requests, Commit(r)
  PROVE  PInv'
<1> DEFINE w == req[r].work
           entry == IF req[r].pairs = {} THEN Idle
                    ELSE [op |-> "review", pairs |-> req[r].pairs, work |-> NoWork]
<1>1. RowsTyped /\ PointerIsSide /\ Coherent(w)
  BY DEF PInv
<1>2. RowsTyped' /\ PointerIsSide'
  <2>1. Fits(w) /\ Accepted(w) /\ links' = Joined(w)
        /\ txns' = [i \in DOMAIN Written(w) \ w.drop |-> Written(w)[i]]
    BY DEF Commit
  <2>2. QED
    BY <1>1, <2>1, CommitPoints
<1>3. entry.work = NoWork /\ req' = [req EXCEPT ![r] = entry]
  BY DEF Commit, Idle
<1>4. Coherent(NoWork)
  BY <1>1, BegunCoherent
<1>5. DOMAIN req' = Requests
  BY <1>3 DEF PInv
<1>6. ASSUME NEW x \in Requests PROVE Coherent(req'[x].work)
  BY <1>3, <1>4 DEF PInv
<1>7. (\A x \in Requests : Coherent(req[x].work))'
  BY <1>6 DEF Coherent, SavedWell, SavedRow, LinkIds
<1>8. QED
  BY <1>2, <1>5, <1>7 DEF PInv

\* A new row points nowhere, or at the link made with it.
LEMMA CreateKeeps ==
  ASSUME PInv, NEW acct \in Accounts, NEW amt \in Amounts, NEW flag \in BOOLEAN,
         Create(acct, amt, flag)
  PROVE  PInv'
<1>1. amt \in Int
  BY LedgerAssumption
<1>2. EntryOf(acct, amt, TRUE, flag) \in Row /\ EntryOf(acct, amt, TRUE, flag).link = Null
  BY <1>1 DEF EntryOf, Row
<1>3. RowsTyped'
  <2>1. \A i \in DOMAIN txns' : txns'[i] \in Row /\ i \in TxnIds
    BY <1>2 DEF Create, PInv, RowsTyped
  <2>2. QED
    BY <2>1 DEF RowsTyped, TxnIds, Row, LinkIds
<1>4. PointerIsSide'
  BY <1>2 DEF Create, PInv, PointerIsSide
<1>5. (\A x \in Requests : Coherent(req[x].work))' /\ DOMAIN req' = Requests
  BY DEF Create, PInv, Coherent, SavedWell, SavedRow, LinkIds
<1>6. QED
  BY <1>3, <1>4, <1>5 DEF PInv

LEMMA CreateTransferKeeps ==
  ASSUME PInv, NEW acct \in Accounts, NEW amt \in Amounts, NEW a \in Accounts,
         NEW j \in TxnIds, CreateTransfer(acct, amt, a, j)
  PROVE  PInv'
<1> DEFINE i == NextTxn
           first == EntryOf(acct, amt, TRUE, TRUE)
           second == EntryOf(a, - amt, TRUE, TRUE)
           entry(k) == IF k = i THEN first ELSE second
<1>1. amt \in Int /\ - amt \in Int
  BY LedgerAssumption
<1>2. first \in Row /\ second \in Row
  BY <1>1 DEF EntryOf, Row
<1>3. i \in TxnIds /\ NextLink \in LinkIds
  BY DEF CreateTransfer
<1>4. \E l \in links' : l.id = NextLink /\ i \in {l.from, l.to} /\ j \in {l.from, l.to}
  <2>1. PICK p \in Sides(first, i, j) : {p.from, p.to} = {i, j}
    BY DEF Sides
  <2>2. [id |-> NextLink, from |-> p.from, to |-> p.to] \in links'
    BY DEF CreateTransfer
  <2>3. QED
    BY <2>1, <2>2
<1>5. ASSUME NEW k \in DOMAIN txns'
      PROVE  /\ k \in TxnIds /\ txns'[k] \in Row
             /\ \/ k \in DOMAIN txns /\ txns'[k].link = txns[k].link
                \/ k \in {i, j} /\ txns'[k].link = NextLink
  <2>1. k \in DOMAIN txns \cup {i, j}
    BY DEF CreateTransfer
  <2>2. txns'[k] = IF k \notin DOMAIN txns THEN [entry(k) EXCEPT !.link = NextLink]
                   ELSE IF k = j THEN [txns[j] EXCEPT !.flag = TRUE, !.link = NextLink]
                   ELSE txns[k]
    BY <2>1 DEF CreateTransfer
  <2>3. k \in TxnIds
    BY <1>3, <2>1 DEF PInv, RowsTyped
  <2>4. CASE k \notin DOMAIN txns
    BY <1>2, <1>3, <2>1, <2>2, <2>3, <2>4 DEF Row
  <2>5. CASE k \in DOMAIN txns /\ k = j
    <3>1. txns[j] \in Row
      BY <2>5 DEF PInv, RowsTyped
    <3>2. QED
      BY <1>3, <2>2, <2>3, <2>5, <3>1 DEF Row
  <2>6. CASE k \in DOMAIN txns /\ k # j
    BY <2>2, <2>3, <2>6 DEF PInv, RowsTyped
  <2>7. QED
    BY <2>4, <2>5, <2>6
<1>6. links \subseteq links'
  BY DEF CreateTransfer
<1>7. RowsTyped'
  BY <1>5 DEF RowsTyped, TxnIds, Row, LinkIds
<1>8. PointerIsSide'
  BY <1>4, <1>5, <1>6 DEF PInv, PointerIsSide
<1>9. (\A x \in Requests : Coherent(req[x].work))' /\ DOMAIN req' = Requests
  BY DEF CreateTransfer, PInv, Coherent, SavedWell, SavedRow, LinkIds
<1>10. QED
  BY <1>7, <1>8, <1>9 DEF PInv

----------------------------------------------------------------------------
LEMMA PInvInit == Init => PInv
<1> SUFFICES ASSUME Init PROVE PInv
  OBVIOUS
<1>1. \A i \in DOMAIN Ledger : /\ i \in TxnIds /\ Ledger[i].acct \in Accounts
                               /\ Ledger[i].amt \in Int /\ Ledger[i].pay \in BOOLEAN
  BY LedgerAssumption
<1>2. DOMAIN txns = DOMAIN Ledger
  BY DEF Init
<1>3. ASSUME NEW i \in DOMAIN txns
      PROVE  i \in TxnIds /\ txns[i] \in Row /\ txns[i].link = Null
  BY <1>1, <1>2 DEF Init, EntryOf, Row
<1>4. RowsTyped /\ PointerIsSide
  BY <1>3 DEF RowsTyped, PointerIsSide
<1>5. DOMAIN req = Requests /\ \A r \in Requests : Coherent(req[r].work)
  BY DEF Init, Idle, NoWork, Work, Coherent
<1>6. QED
  BY <1>4, <1>5 DEF PInv

LEMMA PInvNext == PInv /\ [Next]_vars => PInv'
<1> SUFFICES ASSUME PInv, [Next]_vars PROVE PInv'
  OBVIOUS
<1>1. CASE UNCHANGED vars
  BY <1>1 DEF vars, PInv, RowsTyped, PointerIsSide, Coherent, SavedWell, SavedRow, Row,
              TxnIds, LinkIds
<1>2. ASSUME NEW r \in Requests,
             Linking(r) \/ Reading(r) \/ Flagging(r) \/ Editing(r) \/ Commit(r) \/ Fail(r)
      PROVE  PInv'
  <2>1. CASE Fail(r)
    <3>1. Coherent(Idle.work)
      BY BegunCoherent DEF Idle, PInv
    <3>2. QED
      BY <2>1, <3>1, TakesUp DEF Fail
  <2>2. QED
    BY <1>2, <2>1, LinkingKeeps, FlaggingKeeps, EditingKeeps, CommitKeeps
<1>3. ASSUME NEW acct \in Accounts, NEW amt \in Amounts,
             \/ \E flag \in BOOLEAN : Create(acct, amt, flag)
             \/ \E a \in Accounts, j \in TxnIds : CreateTransfer(acct, amt, a, j)
      PROVE  PInv'
  BY <1>3, CreateKeeps, CreateTransferKeeps
<1>4. QED
  BY <1>1, <1>2, <1>3 DEF Next

\* Whatever requests overlap, a transaction that points at a transfer points at
\* one that exists and names it (transactions.transfer_link_id against the two
\* sides of transfer_links).
THEOREM PointersAreSides == Spec => []PointerIsSide
<1>1. PInv => PointerIsSide
  BY DEF PInv
<1>2. QED
  BY <1>1, PInvInit, PInvNext, PTL DEF Spec

----------------------------------------------------------------------------
(* One request at a time.  What a request has in hand is then still true of *)
(* the tables when it is written: the database accepts it, and, as long as  *)
(* linked rows are not saved from the edit form, what it leaves is paired.  *)

Tables ==
  /\ links \subseteq Link /\ use \in Uses
  /\ \A l \in links : {l.from, l.to} \subseteq DOMAIN txns
  /\ \A l, k \in links : l.id = k.id => l = k

JoinWell(w) ==
  /\ \A p, q \in w.join : p = q
  /\ \A p \in w.join : New \in {p.from, p.to} => New \in DOMAIN w.saved

PairedOn(rows, l) ==
  /\ rows[l.from].link = l.id /\ rows[l.to].link = l.id
  /\ rows[l.from].acct # rows[l.to].acct
  /\ rows[l.from].amt <= 0 /\ rows[l.from].amt + rows[l.to].amt = 0
AllPaired == \A l \in links : PairedOn(txns, l)
PairedAfter(w) == \A l \in Joined(w) : PairedOn(Written(w), l)

\* A pair the transfers page shows, though it may be linked by now.
PairTrue(p) ==
  /\ p[1] \in DOMAIN txns /\ p[2] \in DOMAIN txns
  /\ txns[p[1]].acct # txns[p[2]].acct
  /\ txns[p[1]].amt <= 0 /\ txns[p[1]].amt + txns[p[2]].amt = 0

KeepsAmounts(w) ==
  /\ w.drop = {}
  /\ \A j \in DOMAIN w.saved : w.saved[j].amt = w.seen[j].amt

InHand(e) == e.op \notin {"idle", "review"}
Sound(e) ==
  /\ e.pairs \subseteq TxnIds \X TxnIds
  /\ JoinWell(e.work)
  /\ use # "any" /\ InHand(e) => Accepted(e.work)
  /\ use = "orderly" =>
       /\ \A p \in e.pairs : PairTrue(p)
       /\ InHand(e) => PairedAfter(e.work)
       /\ InHand(e) /\ e.pairs # {} => KeepsAmounts(e.work)

TurnInv ==
  /\ PInv /\ Tables
  /\ \A r \in Requests : Sound(req[r])
  /\ use # "any" => \A r, x \in Requests : r # x => req[r] = Idle \/ req[x] = Idle
  /\ use = "orderly" => AllPaired

----------------------------------------------------------------------------
(* Ids are new.                                                             *)

\* A set of numbers that has one has a least one.
LEMMA LeastId ==
  ASSUME NEW T, T \subseteq Nat, T /= {}
  PROVE  \E x \in T : \A y \in T : x <= y
<1> DEFINE Below == OpToRel(<, Nat)
<1>1. IsWellFoundedOn(Below, Nat)
  BY NatLessThanWellFounded
<1> HIDE DEF Below
<1>2. PICK x \in T : \A y \in T : ~(<<y, x>> \in Below)
  BY <1>1, WFMin
<1>3. ASSUME NEW y \in T, ~(x <= y) PROVE FALSE
  <2>1. x \in Nat /\ y \in Nat /\ y < x
    BY <1>3
  <2>2. <<y, x>> \in Below
    BY <2>1 DEF Below, OpToRel
  <2>3. QED
    BY <1>2, <2>2
<1>4. QED
  BY <1>2, <1>3

LEMMA NextIdIsNew ==
  ASSUME NEW n \in Nat, NEW ids \in SUBSET (1 .. n)
  PROVE  NextId(ids) \in Nat \ {0} /\ \A i \in ids : i < NextId(ids)
<1>1. CASE ids = {}
  BY <1>1 DEF NextId
<1>2. CASE ids # {}
  <2> DEFINE rest == {n - i : i \in ids}
             Greatest(m) == \A i \in ids : i <= m
             top == CHOOSE m \in ids : Greatest(m)
  <2>1. rest # {} /\ rest \subseteq Nat
    <3>1. \A i \in ids : n - i \in Nat
      OBVIOUS
    <3>2. QED
      BY <1>2, <3>1
  <2>2. PICK x \in rest : \A y \in rest : x <= y
    BY <2>1, LeastId
  <2>3. PICK m \in ids : x = n - m
    BY <2>2
  <2>4. ASSUME NEW i \in ids PROVE i <= m
    <3>1. n - m <= n - i
      BY <2>2, <2>3
    <3>2. i \in Nat /\ m \in Nat
      OBVIOUS
    <3>3. QED
      BY <3>1, <3>2
  <2>5. top \in ids /\ Greatest(top)
    BY <2>4
  <2>6. NextId(ids) = 1 + top
    BY <1>2 DEF NextId
  <2> HIDE DEF top
  <2>7. QED
    BY <2>5, <2>6
<1>3. QED
  BY <1>1, <1>2

LEMMA NewIds ==
  ASSUME RowsTyped, Tables
  PROVE  /\ NextTxn \in Nat \ {0} /\ NextTxn \notin DOMAIN txns
         /\ NextTxn + 1 \notin DOMAIN txns
         /\ NextLink \in Nat \ {0} /\ \A l \in links : l.id # NextLink
<1>1. DOMAIN txns \in SUBSET (1 .. MaxTxn) /\ {l.id : l \in links} \in SUBSET (1 .. MaxLink)
  BY DEF RowsTyped, Tables, TxnIds, LinkIds, Link
<1>2. MaxTxn \in Nat /\ MaxLink \in Nat
  BY LedgerAssumption
<1>3. /\ NextTxn \in Nat \ {0} /\ \A i \in DOMAIN txns : i < NextTxn
      /\ NextLink \in Nat \ {0} /\ \A k \in {l.id : l \in links} : k < NextLink
  BY <1>1, <1>2, NextIdIsNew DEF NextTxn, NextLink
<1>4. NextTxn \notin DOMAIN txns /\ NextTxn + 1 \notin DOMAIN txns
  <2>1. DOMAIN txns \subseteq Nat
    BY <1>1
  <2>2. QED
    BY <1>3, <2>1
<1>5. ASSUME NEW l \in links PROVE l.id # NextLink
  <2>1. l.id \in Nat /\ l.id < NextLink
    BY <1>3 DEF Tables, Link, LinkIds
  <2>2. QED
    BY <1>3, <2>1
<1>6. QED
  BY <1>3, <1>4, <1>5

----------------------------------------------------------------------------
(* What becomes of a row that was loaded as it still is.                    *)

LEMMA WrittenRow ==
  ASSUME NEW w, NEW i \in DOMAIN txns
  PROVE  /\ i \in DOMAIN Written(w)
         /\ i \notin DOMAIN w.saved => Written(w)[i] = txns[i]
         /\ i \in DOMAIN w.saved =>
              /\ Written(w)[i].acct = txns[i].acct
              /\ w.seen[i].amt = txns[i].amt => Written(w)[i].amt = w.saved[i].amt
              /\ w.seen[i].amt = w.saved[i].amt => Written(w)[i].amt = txns[i].amt
              /\ w.seen[i].link = txns[i].link =>
                   Written(w)[i].link = Linked(w.saved[i]).link
<1>1. i \in DOMAIN Written(w)
  BY DEF Written
<1>2. i \notin DOMAIN w.saved => Written(w)[i] = txns[i]
  BY <1>1 DEF Written
<1>3. ASSUME i \in DOMAIN w.saved
      PROVE  Written(w)[i] = Updated(txns[i], w.seen[i], Linked(w.saved[i]))
  BY <1>1, <1>3 DEF Written, Linked
<1>4. Linked(w.saved[i]).amt = w.saved[i].amt
  BY DEF Linked
<1>5. QED
  BY <1>1, <1>2, <1>3, <1>4 DEF Updated

\* A unit of work that links nothing frees every row that points at a link it
\* deletes: the database accepts it, and the links that stay are paired if they
\* were and their sides keep amount and pointer.
LEMMA ParterSound ==
  ASSUME RowsTyped, Tables, NEW w, w.join = {},
         DOMAIN w.seen = DOMAIN w.saved, DOMAIN w.saved \subseteq DOMAIN txns,
         \A j \in DOMAIN w.saved :
           /\ w.seen[j] = txns[j]
           /\ w.saved[j].link \in {Null, txns[j].link} /\ w.saved[j].link \notin w.unjoin,
         \A j \in DOMAIN txns : txns[j].link \in w.unjoin => j \in DOMAIN w.saved,
         \A l \in links : l.id \notin w.unjoin => {l.from, l.to} \cap w.drop = {}
  PROVE  /\ Accepted(w) /\ JoinWell(w)
         /\ /\ AllPaired
            /\ \A j \in DOMAIN w.saved :
                 \/ txns[j].link \in w.unjoin \cup {Null}
                 \/ w.saved[j].link = txns[j].link /\ w.saved[j].amt = txns[j].amt
            => PairedAfter(w)
<1>1. Joined(w) = {l \in links : l.id \notin w.unjoin}
  BY DEF Joined
<1>2. New \notin DOMAIN w.saved
  BY Names DEF RowsTyped, Unlocked
<1>3. DOMAIN Written(w) = DOMAIN txns
  BY <1>2 DEF Written
<1>4. ASSUME NEW j \in DOMAIN txns
      PROVE  /\ j \notin DOMAIN w.saved => Written(w)[j] = txns[j]
             /\ j \in DOMAIN w.saved => Written(w)[j].link = w.saved[j].link
  <2>1. CASE j \notin DOMAIN w.saved
    BY <2>1, WrittenRow
  <2>2. CASE j \in DOMAIN w.saved
    <3>1. txns[j].link # New
      BY Names DEF RowsTyped, Row, Unlocked
    <3>2. w.saved[j].link # New
      BY <2>2, <3>1, Names DEF Unlocked
    <3>3. QED
      BY <2>2, <3>2, WrittenRow DEF Linked
  <2>3. QED
    BY <2>1, <2>2
<1>5. Accepted(w)
  BY <1>1, <1>3, <1>4 DEF Accepted
<1>6. JoinWell(w)
  BY DEF JoinWell
<1>7. ASSUME AllPaired,
             \A j \in DOMAIN w.saved :
               \/ txns[j].link \in w.unjoin \cup {Null}
               \/ w.saved[j].link = txns[j].link /\ w.saved[j].amt = txns[j].amt,
             NEW l \in Joined(w)
      PROVE  PairedOn(Written(w), l)
  <2>1. l \in links /\ l.id \notin w.unjoin /\ PairedOn(txns, l)
    BY <1>1, <1>7 DEF AllPaired
  <2>2. l.id # Null /\ {l.from, l.to} \subseteq DOMAIN txns
    BY <2>1, Names DEF Tables, Link, Unlocked
  <2>3. ASSUME NEW s \in {l.from, l.to}
        PROVE  /\ Written(w)[s].link = txns[s].link /\ Written(w)[s].amt = txns[s].amt
               /\ Written(w)[s].acct = txns[s].acct
    <3>1. s \in DOMAIN txns /\ txns[s].link = l.id
      BY <2>1, <2>2 DEF PairedOn
    <3>2. CASE s \notin DOMAIN w.saved
      BY <1>4, <3>1, <3>2
    <3>3. CASE s \in DOMAIN w.saved
      <4>1. w.saved[s].link = txns[s].link /\ w.saved[s].amt = txns[s].amt
        BY <1>7, <2>1, <2>2, <3>1, <3>3
      <4>2. QED
        BY <1>4, <3>1, <3>3, <4>1, WrittenRow
    <3>4. QED
      BY <3>2, <3>3
  <2>4. QED
    BY <2>1, <2>3 DEF PairedOn
<1>8. QED
  BY <1>5, <1>6, <1>7 DEF PairedAfter

\* A unit of work that puts two rows on a link, one of them perhaps the mirror
\* row, is accepted, and it leaves all links paired if they were, the rows are
\* free and their amounts, as saved, cancel.
Joins(w, f, t) ==
  /\ w.join = {[from |-> f, to |-> t]} /\ w.unjoin = {} /\ w.drop = {}
  /\ DOMAIN w.saved = {f, t} /\ DOMAIN w.seen = {f, t} \ {New}
  /\ \A x \in {f, t} :
       /\ w.saved[x] \in SavedRow /\ w.saved[x].link = New
       /\ x # New => /\ x \in DOMAIN txns /\ w.seen[x] = txns[x]
                     /\ w.saved[x].acct = txns[x].acct

LEMMA JoinerSound ==
  ASSUME RowsTyped, Tables, NEW w, NEW f, NEW t, Joins(w, f, t)
  PROVE  /\ Accepted(w) /\ JoinWell(w)
         /\ /\ AllPaired
            /\ \A x \in {f, t} : x # New => txns[x].link = Null
            /\ w.saved[f].acct # w.saved[t].acct
            /\ w.saved[f].amt <= 0 /\ w.saved[f].amt + w.saved[t].amt = 0
            => PairedAfter(w)
<1> DEFINE side(x) == IF x = New THEN NextTxn ELSE x
           n == [id |-> NextLink, from |-> side(f), to |-> side(t)]
<1>1. Joined(w) = links \cup {n}
  BY DEF Joined, Joins
<1>2. Accepted(w)
  BY DEF Accepted, Joins
<1>3. JoinWell(w)
  BY DEF JoinWell, Joins
<1>4. NextTxn \notin DOMAIN txns /\ NextLink # Null
  BY NewIds DEF Null
<1>5. ASSUME NEW x \in {f, t}
      PROVE  /\ Written(w)[side(x)].link = NextLink
             /\ Written(w)[side(x)].acct = w.saved[x].acct
             /\ Written(w)[side(x)].amt = w.saved[x].amt
  <2>1. w.saved[x] \in SavedRow /\ w.saved[x].link = New
    BY DEF Joins
  <2>2. /\ Linked(w.saved[x]).link = NextLink
        /\ Linked(w.saved[x]).acct = w.saved[x].acct
        /\ Linked(w.saved[x]).amt = w.saved[x].amt
    BY <2>1 DEF Linked, SavedRow
  <2>3. CASE x = New
    <3>1. NextTxn \in DOMAIN Written(w) /\ Written(w)[NextTxn] = Linked(w.saved[New])
      BY <1>4, <2>3 DEF Joins, Written, Linked
    <3>2. QED
      BY <2>2, <2>3, <3>1
  <2>4. CASE x # New
    <3>1. /\ x \in DOMAIN txns /\ x \in DOMAIN w.saved
          /\ w.seen[x] = txns[x] /\ w.saved[x].acct = txns[x].acct
      BY <2>4 DEF Joins
    <3>2. QED
      BY <2>2, <2>4, <3>1, WrittenRow
  <2>5. QED
    BY <2>3, <2>4
<1>6. ASSUME AllPaired, \A x \in {f, t} : x # New => txns[x].link = Null, NEW l \in links
      PROVE  PairedOn(Written(w), l)
  <2>1. PairedOn(txns, l) /\ l.id # Null /\ {l.from, l.to} \subseteq DOMAIN txns
    BY <1>6, Names DEF AllPaired, Tables, Link, Unlocked
  <2>2. ASSUME NEW s \in {l.from, l.to} PROVE Written(w)[s] = txns[s]
    <3>1. s \in DOMAIN txns /\ txns[s].link # Null /\ s # New
      BY <2>1, Names DEF PairedOn, RowsTyped, Unlocked
    <3>2. s \notin DOMAIN w.saved
      BY <1>6, <3>1 DEF Joins
    <3>3. QED
      BY <3>1, <3>2, WrittenRow
  <2>3. QED
    BY <2>1, <2>2 DEF PairedOn
<1>7. ASSUME w.saved[f].acct # w.saved[t].acct,
             w.saved[f].amt <= 0, w.saved[f].amt + w.saved[t].amt = 0
      PROVE  PairedOn(Written(w), n)
  <2>1. n.id = NextLink /\ n.from = side(f) /\ n.to = side(t)
    OBVIOUS
  <2> HIDE DEF n, side
  <2>2. QED
    BY <1>5, <1>7, <2>1 DEF PairedOn
<1>8. QED
  BY <1>1, <1>2, <1>3, <1>6, <1>7 DEF PairedAfter

----------------------------------------------------------------------------
(* What the handlers take up is sound in that sense.                        *)

LEMMA UnlinkSound ==
  ASSUME RowsTyped, PointerIsSide, Tables, NEW l \in links
  PROVE  /\ Accepted(UnlinkWork(l)) /\ JoinWell(UnlinkWork(l))
         /\ AllPaired => PairedAfter(UnlinkWork(l))
<1> DEFINE w == UnlinkWork(l)
           sides == {l.from, l.to} \cap DOMAIN txns
<1>1. /\ w.join = {} /\ w.unjoin = {l.id} /\ w.drop = {}
      /\ DOMAIN w.saved = sides /\ DOMAIN w.seen = sides
      /\ \A j \in sides : /\ w.seen[j] = txns[j]
                          /\ w.saved[j] = [txns[j] EXCEPT !.flag = FALSE, !.link = Null]
  BY DEF UnlinkWork, Work, Loaded
<1> HIDE DEF w
<1>2. ASSUME NEW j \in sides PROVE w.saved[j].link = Null
  <2>1. txns[j] \in Row
    BY DEF RowsTyped
  <2>2. QED
    BY <1>1, <2>1, RowEdits, Zenon
<1>3. l.id # Null
  BY Names DEF Tables, Link, Unlocked
<1>4. ASSUME NEW j \in DOMAIN txns, txns[j].link \in w.unjoin PROVE j \in sides
  <2>1. PICK k \in links : k.id = l.id /\ j \in {k.from, k.to}
    BY <1>1, <1>3, <1>4 DEF PointerIsSide
  <2>2. k = l
    BY <2>1 DEF Tables
  <2>3. QED
    BY <2>1, <2>2
<1>5. AllPaired => \A j \in sides : txns[j].link \in w.unjoin
  BY <1>1 DEF AllPaired, PairedOn
<1>6. QED
  BY <1>1, <1>2, <1>3, <1>4, <1>5, ParterSound DEF w

LEMMA DeleteSound ==
  ASSUME RowsTyped, Tables, NEW i \in DOMAIN txns
  PROVE  /\ Accepted(DeleteWork(i)) /\ JoinWell(DeleteWork(i))
         /\ AllPaired => PairedAfter(DeleteWork(i))
<1> DEFINE w == DeleteWork(i)
           theirs == {l.id : l \in {x \in links : i \in {x.from, x.to}}}
           partners == {j \in DOMAIN txns : txns[j].link \in theirs}
<1>1. /\ w.join = {} /\ w.unjoin = theirs /\ w.drop = {i}
      /\ DOMAIN w.saved = partners /\ DOMAIN w.seen = partners
      /\ \A j \in partners : /\ w.seen[j] = txns[j]
                             /\ w.saved[j] = [txns[j] EXCEPT !.link = Null]
  BY DEF DeleteWork, Work, Loaded
<1> HIDE DEF w
<1>2. ASSUME NEW j \in partners PROVE w.saved[j].link = Null
  <2>1. txns[j] \in Row
    BY DEF RowsTyped
  <2>2. QED
    BY <1>1, <2>1, RowEdits, Zenon
<1>3. Null \notin theirs
  BY Names DEF Tables, Link, Unlocked
<1>4. \A l \in links : l.id \notin theirs => {l.from, l.to} \cap {i} = {}
  OBVIOUS
<1>5. QED
  BY <1>1, <1>2, <1>3, <1>4, ParterSound DEF w

LEMMA FlagSound ==
  ASSUME RowsTyped, Tables, NEW ids \in SUBSET DOMAIN txns, NEW flag \in BOOLEAN
  PROVE  /\ Accepted(FlagWork(ids, flag)) /\ JoinWell(FlagWork(ids, flag))
         /\ AllPaired => PairedAfter(FlagWork(ids, flag))
<1> DEFINE w == FlagWork(ids, flag)
<1>1. /\ w.join = {} /\ w.unjoin = {} /\ w.drop = {}
      /\ DOMAIN w.saved = ids /\ DOMAIN w.seen = ids
      /\ \A j \in ids : w.seen[j] = txns[j] /\ w.saved[j] = [txns[j] EXCEPT !.flag = flag]
  BY DEF FlagWork, Work, Loaded
<1> HIDE DEF w
<1>2. ASSUME NEW j \in ids
      PROVE  w.saved[j].link = txns[j].link /\ w.saved[j].amt = txns[j].amt
  <2>1. txns[j] \in Row /\ w.saved[j] = [txns[j] EXCEPT !.flag = flag]
    BY <1>1 DEF RowsTyped
  <2>2. QED
    BY <2>1 DEF Row
<1>3. QED
  BY <1>1, <1>2, ParterSound DEF w

LEMMA DismissSound ==
  ASSUME RowsTyped, Tables, NEW from \in DOMAIN txns, NEW to \in DOMAIN txns
  PROVE  /\ Accepted(DismissWork(from, to)) /\ JoinWell(DismissWork(from, to))
         /\ AllPaired => PairedAfter(DismissWork(from, to))
<1> DEFINE w == DismissWork(from, to)
<1>1. /\ w.join = {} /\ w.unjoin = {} /\ w.drop = {}
      /\ DOMAIN w.saved = {from, to} /\ DOMAIN w.seen = {from, to}
      /\ \A j \in {from, to} : /\ w.seen[j] = txns[j]
                               /\ w.saved[j] = [txns[j] EXCEPT !.flag = FALSE, !.gone = TRUE]
  BY DEF DismissWork, Work, Loaded
<1> HIDE DEF w
<1>2. \A j \in {from, to} : w.saved[j].link = txns[j].link /\ w.saved[j].amt = txns[j].amt
  BY <1>1 DEF RowsTyped, Row
<1>3. QED
  BY <1>1, <1>2, ParterSound DEF w

LEMMA LinkSound ==
  ASSUME RowsTyped, Tables, NEW p, Linkable(p[1], p[2])
  PROVE  /\ Accepted(LinkWork(p[1], p[2])) /\ JoinWell(LinkWork(p[1], p[2]))
         /\ AllPaired /\ PairTrue(p) =>
              /\ PairedAfter(LinkWork(p[1], p[2]))
              /\ KeepsAmounts(LinkWork(p[1], p[2]))
<1> DEFINE f == p[1]  t == p[2]  w == LinkWork(f, t)
<1>1. {f, t} \subseteq DOMAIN txns /\ \A x \in {f, t} : txns[x].link = Null /\ txns[x] \in Row
  BY DEF Linkable, RowsTyped
<1>2. /\ w.join = {[from |-> f, to |-> t]} /\ w.unjoin = {} /\ w.drop = {}
      /\ DOMAIN w.saved = {f, t} /\ DOMAIN w.seen = {f, t}
      /\ \A x \in {f, t} : /\ w.seen[x] = txns[x]
                           /\ w.saved[x] = [txns[x] EXCEPT !.flag = TRUE, !.link = New]
  BY DEF LinkWork, Work, Loaded
<1> HIDE DEF f, t, w
<1>3. \A x \in {f, t} : /\ w.saved[x] \in SavedRow /\ w.saved[x].link = New
                        /\ w.saved[x].acct = txns[x].acct /\ w.saved[x].amt = txns[x].amt
  BY <1>1, <1>2 DEF Row, SavedRow
<1>4. New \notin {f, t}
  BY <1>1, Names DEF RowsTyped, Unlocked
<1>5. Joins(w, f, t)
  BY <1>1, <1>2, <1>3, <1>4 DEF Joins
<1>6. PairTrue(p) => /\ w.saved[f].acct # w.saved[t].acct
                     /\ w.saved[f].amt <= 0 /\ w.saved[f].amt + w.saved[t].amt = 0
  BY <1>3 DEF PairTrue, f, t
<1>7. KeepsAmounts(w)
  BY <1>2, <1>3 DEF KeepsAmounts
<1>8. QED
  BY <1>1, <1>5, <1>6, <1>7, JoinerSound DEF f, t, w

\* The form puts a free row on a link with a free row of another account that
\* cancels it, or with one made to.
LEMMA TransferSound ==
  ASSUME RowsTyped, Tables, NEW i \in DOMAIN txns, NEW row \in Row, NEW a \in Accounts,
         row.acct = txns[i].acct, a # row.acct, NEW w \in TransferWorks(i, row, a)
  PROVE  /\ Accepted(w) /\ JoinWell(w)
         /\ AllPaired /\ txns[i].link = Null => PairedAfter(w)
<1> DEFINE own == [row EXCEPT !.flag = TRUE, !.link = New]
           mirror == [acct |-> a, amt |-> - row.amt, pay |-> TRUE, flag |-> TRUE,
                      gone |-> FALSE, link |-> New]
<1>1. /\ own \in SavedRow /\ own.link = New /\ own.acct = row.acct /\ own.amt = row.amt
      /\ row.amt \in Int
  BY DEF Row, SavedRow
<1>2. PICK j : /\ w.join = Sides(row, i, j) /\ w.unjoin = {} /\ w.drop = {}
               /\ DOMAIN w.saved = {i, j} /\ DOMAIN w.seen = {i, j} \ {New}
               /\ \A x \in {i, j} \ {New} : w.seen[x] = txns[x]
               /\ i # j /\ w.saved[i] = own
               /\ w.saved[j] \in SavedRow /\ w.saved[j].link = New
               /\ w.saved[j].acct = a /\ w.saved[j].amt = - row.amt
               /\ j # New => /\ j \in DOMAIN txns
                             /\ txns[j].acct = a /\ txns[j].link = Null
  <2>1. i # New
    BY Names DEF RowsTyped, Unlocked
  <2>2. CASE w = Work(Loaded({i}), [k \in {i, New} |-> IF k = i THEN own ELSE mirror],
                      Sides(row, i, New))
    <3>1. mirror \in SavedRow
      <4>1. - row.amt \in Int
        BY <1>1
      <4>2. QED
        BY <4>1 DEF SavedRow
    <3>2. /\ w.join = Sides(row, i, New) /\ w.unjoin = {} /\ w.drop = {}
          /\ DOMAIN w.saved = {i, New} /\ DOMAIN w.seen = {i} /\ w.seen[i] = txns[i]
          /\ w.saved[i] = own /\ w.saved[New] = mirror
      BY <2>1, <2>2 DEF Work, Loaded
    <3>3. QED
      BY <2>1, <3>1, <3>2
  <2>3. ASSUME NEW j \in Matches(i, row, a),
               w = Work(Loaded({i, j}),
                        [k \in {i, j} |->
                           IF k = i THEN own ELSE [txns[j] EXCEPT !.flag = TRUE, !.link = New]],
                        Sides(row, i, j))
        PROVE  /\ w.join = Sides(row, i, j) /\ w.unjoin = {} /\ w.drop = {}
               /\ DOMAIN w.saved = {i, j} /\ DOMAIN w.seen = {i, j} \ {New}
               /\ \A x \in {i, j} \ {New} : w.seen[x] = txns[x]
               /\ i # j /\ w.saved[i] = own
               /\ w.saved[j] \in SavedRow /\ w.saved[j].link = New
               /\ w.saved[j].acct = a /\ w.saved[j].amt = - row.amt
               /\ j # New => /\ j \in DOMAIN txns
                             /\ txns[j].acct = a /\ txns[j].link = Null
    <3>1. /\ j \in DOMAIN txns /\ j # i /\ txns[j].acct = a /\ txns[j].amt = - row.amt
          /\ txns[j].link = Null /\ txns[j] \in Row
      BY DEF Matches, RowsTyped
    <3>2. j # New
      BY <3>1, Names DEF RowsTyped, Unlocked
    <3>3. /\ w.join = Sides(row, i, j) /\ w.unjoin = {} /\ w.drop = {}
          /\ DOMAIN w.saved = {i, j} /\ DOMAIN w.seen = {i, j}
          /\ \A x \in {i, j} : w.seen[x] = txns[x]
          /\ w.saved[i] = own /\ w.saved[j] = [txns[j] EXCEPT !.flag = TRUE, !.link = New]
      BY <2>3, <3>1 DEF Work, Loaded
    <3>4. /\ w.saved[j] \in SavedRow /\ w.saved[j].link = New
          /\ w.saved[j].acct = a /\ w.saved[j].amt = - row.amt
      BY <3>1, <3>3 DEF Row, SavedRow
    <3>5. QED
      BY <2>1, <3>1, <3>2, <3>3, <3>4
  <2>4. QED
    BY <2>2, <2>3 DEF TransferWorks
<1> HIDE DEF own, mirror
<1>3. ASSUME NEW f, NEW t, {f, t} = {i, j}, w.join = {[from |-> f, to |-> t]}
      PROVE  Joins(w, f, t)
  <2>1. ASSUME NEW x \in {f, t}
        PROVE  /\ w.saved[x] \in SavedRow /\ w.saved[x].link = New
               /\ x # New => /\ x \in DOMAIN txns /\ w.seen[x] = txns[x]
                             /\ w.saved[x].acct = txns[x].acct
    <3>1. CASE x = i
      BY <1>1, <1>2, <3>1
    <3>2. CASE x = j
      BY <1>2, <3>2
    <3>3. QED
      BY <1>3, <3>1, <3>2
  <2>2. QED
    BY <1>2, <1>3, <2>1 DEF Joins
<1>4. w.saved[i].acct # w.saved[j].acct
  BY <1>1, <1>2
<1>5. CASE row.amt < 0
  <2>1. w.join = {[from |-> i, to |-> j]}
    BY <1>2, <1>5 DEF Sides
  <2>2. Joins(w, i, j)
    BY <1>3, <2>1
  <2>3. w.saved[i].amt <= 0 /\ w.saved[i].amt + w.saved[j].amt = 0
    BY <1>1, <1>2, <1>5
  <2>4. txns[i].link = Null => \A x \in {i, j} : x # New => txns[x].link = Null
    BY <1>2
  <2>5. QED
    BY <1>4, <2>2, <2>3, <2>4, JoinerSound
<1>6. CASE ~ (row.amt < 0)
  <2>1. w.join = {[from |-> j, to |-> i]}
    BY <1>2, <1>6 DEF Sides
  <2>2. Joins(w, j, i)
    BY <1>3, <2>1
  <2>3. w.saved[j].amt <= 0 /\ w.saved[j].amt + w.saved[i].amt = 0
    BY <1>1, <1>2, <1>6
  <2>4. txns[i].link = Null => \A x \in {j, i} : x # New => txns[x].link = Null
    BY <1>2
  <2>5. QED
    BY <1>4, <2>2, <2>3, <2>4, JoinerSound
<1>7. QED
  BY <1>5, <1>6

LEMMA EditSound ==
  ASSUME RowsTyped, Tables, NEW i \in DOMAIN txns, NEW amt \in Amounts \cup {txns[i].amt},
         NEW flag \in BOOLEAN, NEW a \in Accounts, NEW w \in EditWorks(i, amt, flag, a)
  PROVE  /\ Accepted(w) /\ JoinWell(w)
         /\ AllPaired /\ txns[i].link = Null => PairedAfter(w)
<1> DEFINE row == [txns[i] EXCEPT !.amt = amt, !.flag = flag]
           left == IF flag THEN row ELSE [row EXCEPT !.link = Null]
<1>1. txns[i] \in Row /\ amt \in Int
  BY LedgerAssumption DEF RowsTyped, Row
<1>2. row \in Row /\ row.link = txns[i].link /\ row.acct = txns[i].acct
  BY <1>1 DEF Row
<1>3. left.link \in {Null, txns[i].link}
  BY <1>2 DEF Row
<1>4. CASE a # txns[i].acct /\ w \in TransferWorks(i, row, a)
  BY <1>2, <1>4, TransferSound
<1>5. CASE w = Work(Loaded({i}), [j \in {i} |-> left], {})
  <2>1. /\ w.join = {} /\ w.unjoin = {} /\ w.drop = {}
        /\ DOMAIN w.saved = {i} /\ DOMAIN w.seen = {i}
        /\ w.seen[i] = txns[i] /\ w.saved[i] = left
    BY <1>5 DEF Work, Loaded
  <2> HIDE DEF left
  <2>2. QED
    BY <1>3, <2>1, ParterSound
<1>6. QED
  BY <1>4, <1>5 DEF EditWorks

----------------------------------------------------------------------------
(* The steps again.                                                         *)

\* What was sound for the tables is so as long as they stay.
LEMMA SoundStays ==
  ASSUME NEW x \in Requests, NEW e, Sound(e), req'[x] = e, UNCHANGED <<txns, links, use>>
  PROVE  Sound(req[x])'
<1>1. NextTxn' = NextTxn /\ NextLink' = NextLink
  BY DEF NextTxn, NextLink, NextId
<1>2. JoinWell(req[x].work)' /\ (req[x].pairs \subseteq TxnIds \X TxnIds)'
  BY DEF Sound, JoinWell, TxnIds
<1>3. (Written(req[x].work))' = Written(e.work)
  BY <1>1 DEF Written, Updated
<1>4. (Joined(req[x].work))' = Joined(e.work)
  BY <1>1 DEF Joined
<1>5. Accepted(e.work) => Accepted(req[x].work)'
  BY <1>3, <1>4 DEF Accepted
<1>6. PairedAfter(e.work) => PairedAfter(req[x].work)'
  BY <1>3, <1>4 DEF PairedAfter, PairedOn
<1>7. KeepsAmounts(e.work) => KeepsAmounts(req[x].work)'
  BY DEF KeepsAmounts
<1>8. (\A p \in e.pairs : PairTrue(p)) => (\A p \in req[x].pairs : PairTrue(p))'
  BY DEF PairTrue
<1>9. QED
  BY <1>2, <1>5, <1>6, <1>7, <1>8 DEF Sound, InHand

LEMMA IdleSound == JoinWell(NoWork) /\ Sound(Idle)
BY DEF Sound, JoinWell, Idle, NoWork, Work, InHand

\* A request that has nothing in hand to write, or may overlap others, is sound
\* whatever is written.
LEMMA OthersSound ==
  ASSUME NEW x \in Requests, NEW e, Sound(e), req'[x] = e, use' = use,
         use = "any" \/ e = Idle
  PROVE  Sound(req[x])'
<1>1. JoinWell(req[x].work)' /\ (req[x].pairs \subseteq TxnIds \X TxnIds)'
  BY DEF Sound, JoinWell, TxnIds
<1>2. CASE use = "any"
  BY <1>1, <1>2 DEF Sound
<1>3. CASE e = Idle
  <2>1. ~ InHand(req[x])' /\ req'[x].pairs = {}
    BY <1>3 DEF InHand, Idle
  <2>2. QED
    BY <1>1, <2>1 DEF Sound
<1>4. QED
  BY <1>2, <1>3

\* A request takes its turn, and the tables stay as they are.
LEMMA TakesTurn ==
  ASSUME TurnInv, PInv', NEW r \in Requests, NEW entry, Sound(entry),
         use # "any" => \A x \in Requests : x # r => req[x] = Idle,
         req' = [req EXCEPT ![r] = entry], UNCHANGED <<txns, links, use>>
  PROVE  TurnInv'
<1>1. Tables'
  BY DEF TurnInv, Tables, Link, TxnIds, LinkIds
<1>2. (use = "orderly" => AllPaired)'
  BY DEF TurnInv, AllPaired, PairedOn
<1>3. ASSUME NEW x \in Requests PROVE req'[x] = IF x = r THEN entry ELSE req[x]
  BY DEF TurnInv, PInv
<1>4. ASSUME NEW x \in Requests PROVE Sound(req[x])'
  <2>1. CASE x = r
    BY <1>3, <2>1, SoundStays
  <2>2. CASE x # r
    <3>1. Sound(req[x]) /\ req'[x] = req[x]
      BY <1>3, <2>2 DEF TurnInv
    <3>2. QED
      BY <3>1, SoundStays
  <2>3. QED
    BY <2>1, <2>2
<1>5. (use # "any" => \A q, x \in Requests : q # x => req[q] = Idle \/ req[x] = Idle)'
  BY <1>3
<1>6. QED
  BY <1>1, <1>2, <1>4, <1>5 DEF TurnInv

LEMMA BeginTurn ==
  ASSUME TurnInv, PInv', NEW r \in Requests, MayBegin(r), NEW op, NEW w,
         Begin(r, op, {}, w), JoinWell(w), use # "any" => Accepted(w),
         use = "orderly" => PairedAfter(w)
  PROVE  TurnInv'
<1> DEFINE entry == [op |-> op, pairs |-> {}, work |-> w]
<1>1. entry.op = op /\ entry.pairs = {} /\ entry.work = w
  OBVIOUS
<1>2. req' = [req EXCEPT ![r] = entry] /\ UNCHANGED <<txns, links, use>>
  BY DEF Begin
<1> HIDE DEF entry
<1>3. Sound(entry)
  BY <1>1 DEF Sound
<1>4. use # "any" => \A x \in Requests : x # r => req[x] = Idle
  BY DEF MayBegin
<1>5. QED
  BY <1>2, <1>3, <1>4, TakesTurn

LEMMA LinkingTurn ==
  ASSUME TurnInv, PInv', NEW r \in Requests, MayBegin(r), Linking(r)
  PROVE  TurnInv'
<1>1. RowsTyped /\ PointerIsSide /\ Tables
  BY DEF TurnInv, PInv
<1>2. ASSUME NEW pairs \in SUBSET Candidates, Review(r, pairs) PROVE TurnInv'
  <2> DEFINE entry == [op |-> "review", pairs |-> pairs, work |-> NoWork]
  <2>1. ASSUME NEW p \in pairs PROVE p \in TxnIds \X TxnIds /\ PairTrue(p)
    <3>1. p \in (DOMAIN txns) \X (DOMAIN txns)
      BY DEF Candidates
    <3>2. /\ p[1] \in DOMAIN txns /\ p[2] \in DOMAIN txns
          /\ txns[p[1]] \in Row /\ txns[p[2]] \in Row
      BY <1>1, <3>1 DEF RowsTyped
    <3>3. /\ txns[p[1]].amt < 0 /\ txns[p[2]].amt = - txns[p[1]].amt
          /\ txns[p[2]].acct # txns[p[1]].acct
      BY DEF Candidates
    <3>4. txns[p[1]].amt <= 0 /\ txns[p[1]].amt + txns[p[2]].amt = 0
      BY <3>2, <3>3 DEF Row
    <3>5. QED
      BY <1>1, <3>1, <3>2, <3>3, <3>4 DEF PairTrue, RowsTyped
  <2>2. entry.op = "review" /\ entry.pairs = pairs /\ entry.work = NoWork
    OBVIOUS
  <2>3. req' = [req EXCEPT ![r] = entry] /\ UNCHANGED <<txns, links, use>>
    BY <1>2 DEF Review, Begin
  <2> HIDE DEF entry
  <2>4. Sound(entry)
    BY <2>1, <2>2, IdleSound DEF Sound, InHand
  <2>5. use # "any" => \A x \in Requests : x # r => req[x] = Idle
    BY DEF MayBegin
  <2>6. QED
    BY <2>3, <2>4, <2>5, TakesTurn
<1>3. ASSUME NEW l \in links, Begin(r, "unlink", {}, UnlinkWork(l)) PROVE TurnInv'
  BY <1>1, <1>3, UnlinkSound, BeginTurn DEF TurnInv
<1>4. QED
  BY <1>2, <1>3 DEF Linking

LEMMA FlaggingTurn ==
  ASSUME TurnInv, PInv', NEW r \in Requests, MayBegin(r), Flagging(r)
  PROVE  TurnInv'
<1>1. RowsTyped /\ Tables /\ Scanned \in SUBSET DOMAIN txns
  BY DEF TurnInv, PInv, Scanned
<1>2. ASSUME NEW op, NEW ids \in SUBSET DOMAIN txns, NEW flag \in BOOLEAN,
             Begin(r, op, {}, FlagWork(ids, flag))
      PROVE  TurnInv'
  BY <1>1, <1>2, FlagSound, BeginTurn DEF TurnInv
<1>3. ASSUME NEW i \in DOMAIN txns, NEW flag \in BOOLEAN, Begin(r, "toggle", {}, FlagWork({i}, flag))
      PROVE  TurnInv'
  <2>1. {i} \in SUBSET DOMAIN txns
    OBVIOUS
  <2>2. QED
    BY <1>2, <1>3, <2>1
<1>4. CASE Begin(r, "scan", {}, FlagWork(Scanned, TRUE))
  BY <1>1, <1>2, <1>4
<1>5. QED
  BY <1>3, <1>4 DEF Flagging

LEMMA EditingTurn ==
  ASSUME TurnInv, PInv', NEW r \in Requests, MayBegin(r), Editing(r)
  PROVE  TurnInv'
<1>1. RowsTyped /\ Tables
  BY DEF TurnInv, PInv
<1>2. PICK i \in DOMAIN txns :
        \/ Begin(r, "delete", {}, DeleteWork(i))
        \/ \E amt \in Amounts \cup {txns[i].amt}, flag \in BOOLEAN, a \in Accounts :
             /\ use = "orderly" => txns[i].link = Null
             /\ \E w \in EditWorks(i, amt, flag, a) : Begin(r, "edit", {}, w)
  BY DEF Editing
<1>3. CASE Begin(r, "delete", {}, DeleteWork(i))
  BY <1>1, <1>3, DeleteSound, BeginTurn DEF TurnInv
<1>4. ASSUME NEW amt \in Amounts \cup {txns[i].amt}, NEW flag \in BOOLEAN, NEW a \in Accounts,
             use = "orderly" => txns[i].link = Null,
             NEW w \in EditWorks(i, amt, flag, a), Begin(r, "edit", {}, w)
      PROVE  TurnInv'
  BY <1>1, <1>4, EditSound, BeginTurn DEF TurnInv
<1>5. QED
  BY <1>2, <1>3, <1>4

LEMMA ReadingTurn ==
  ASSUME TurnInv, PInv', NEW r \in Requests, Reading(r)
  PROVE  TurnInv'
<1>1. RowsTyped /\ Tables /\ Sound(req[r]) /\ Sound(Idle)
  BY IdleSound DEF TurnInv, PInv
<1>2. use # "any" => \A x \in Requests : x # r => req[x] = Idle
  <2>1. req[r].pairs # {}
    BY DEF Reading
  <2>2. req[r] # Idle
    BY <2>1 DEF Idle
  <2>3. QED
    BY <2>2 DEF TurnInv
<1>3. PICK p \in req[r].pairs : ReadPair(r, p) \/ ReadDismissed(r, p)
  BY DEF Reading
<1>4. UNCHANGED <<txns, links, use>>
  BY <1>3 DEF ReadPair, ReadDismissed
<1>5. ASSUME NEW entry, Sound(entry), req' = [req EXCEPT ![r] = entry] PROVE TurnInv'
  BY <1>2, <1>4, <1>5, TakesTurn
<1>6. CASE ReadPair(r, p)
  <2> DEFINE rest == req[r].pairs \ {p}
             next == [op |-> "link", pairs |-> rest, work |-> LinkWork(p[1], p[2])]
             kept == [req[r] EXCEPT !.pairs = rest]
  <2>1. CASE Linkable(p[1], p[2]) /\ req' = [req EXCEPT ![r] = next]
    <3>1. next.op = "link" /\ next.pairs = rest /\ next.work = LinkWork(p[1], p[2])
      OBVIOUS
    <3>2. /\ Accepted(LinkWork(p[1], p[2])) /\ JoinWell(LinkWork(p[1], p[2]))
          /\ use = "orderly" => /\ PairedAfter(LinkWork(p[1], p[2]))
                                /\ KeepsAmounts(LinkWork(p[1], p[2]))
      BY <1>1, <2>1, LinkSound DEF Sound, TurnInv
    <3> HIDE DEF next
    <3>3. Sound(next)
      BY <1>1, <3>1, <3>2 DEF Sound
    <3>4. QED
      BY <1>5, <2>1, <3>3
  <2>2. CASE req' = [req EXCEPT ![r] = IF rest = {} THEN Idle ELSE kept]
    <3>1. CASE rest = {}
      BY <1>1, <1>5, <2>2, <3>1
    <3>2. CASE rest # {}
      <4>1. kept.op = req[r].op /\ kept.work = req[r].work /\ kept.pairs \subseteq req[r].pairs
        OBVIOUS
      <4>2. ~ InHand(req[r])
        BY <1>6 DEF ReadPair, InHand
      <4> HIDE DEF kept
      <4>3. Sound(kept)
        BY <1>1, <4>1, <4>2 DEF Sound, InHand
      <4>4. QED
        BY <1>5, <2>2, <3>2, <4>3
    <3>3. QED
      BY <3>1, <3>2
  <2>3. QED
    BY <1>6, <2>1, <2>2 DEF ReadPair
<1>7. CASE ReadDismissed(r, p)
  <2> DEFINE next == [op |-> "dismiss", pairs |-> {}, work |-> DismissWork(p[1], p[2])]
  <2>1. CASE {p[1], p[2]} \subseteq DOMAIN txns /\ req' = [req EXCEPT ![r] = next]
    <3>1. next.op = "dismiss" /\ next.pairs = {} /\ next.work = DismissWork(p[1], p[2])
      OBVIOUS
    <3>2. /\ Accepted(DismissWork(p[1], p[2])) /\ JoinWell(DismissWork(p[1], p[2]))
          /\ use = "orderly" => PairedAfter(DismissWork(p[1], p[2]))
      BY <1>1, <2>1, DismissSound DEF TurnInv
    <3> HIDE DEF next
    <3>3. Sound(next)
      BY <3>1, <3>2 DEF Sound
    <3>4. QED
      BY <1>5, <2>1, <3>3
  <2>2. CASE req' = [req EXCEPT ![r] = Idle]
    BY <1>1, <1>5, <2>2
  <2>3. QED
    BY <1>7, <2>1, <2>2 DEF ReadDismissed
<1>8. QED
  BY <1>3, <1>6, <1>7

LEMMA FailTurn ==
  ASSUME TurnInv, PInv', NEW r \in Requests, Fail(r)
  PROVE  TurnInv'
<1>1. req[r] # Idle
  BY DEF Fail, Idle
<1>2. use # "any" => \A x \in Requests : x # r => req[x] = Idle
  BY <1>1 DEF TurnInv
<1>3. QED
  BY <1>2, IdleSound, TakesTurn DEF Fail

\* What is written is what was accepted, and nobody else has anything in hand
\* that it could outdate.
LEMMA CommitTurn ==
  ASSUME TurnInv, PInv', NEW r \in Requests, Commit(r)
  PROVE  TurnInv'
<1> DEFINE w == req[r].work
           rows == Written(w)
           entry == IF req[r].pairs = {} THEN Idle
                    ELSE [op |-> "review", pairs |-> req[r].pairs, work |-> NoWork]
           side(x) == IF x = New THEN NextTxn ELSE x
<1>1. /\ RowsTyped /\ Tables /\ Sound(req[r]) /\ JoinWell(w)
      /\ use # "any" => \A q, x \in Requests : q # x => req[q] = Idle \/ req[x] = Idle
  BY DEF TurnInv, PInv, Sound
<1>2. /\ InHand(req[r]) /\ Fits(w) /\ Accepted(w) /\ links' = Joined(w) /\ use' = use
      /\ txns' = [i \in DOMAIN rows \ w.drop |-> rows[i]]
      /\ req' = [req EXCEPT ![r] = entry]
  BY DEF Commit, InHand
<1>3. \A x \in Requests : req'[x] = IF x = r THEN entry ELSE req[x]
  BY <1>2 DEF TurnInv, PInv
<1>4. /\ entry.pairs = req[r].pairs /\ entry.work = NoWork /\ ~ InHand(entry)
      /\ req[r].pairs = {} => entry = Idle
  BY DEF Idle, InHand
<1>5. use # "any" => \A x \in Requests : x # r => req[x] = Idle
  BY <1>1, <1>2 DEF InHand, Idle
<1>6. /\ DOMAIN txns \subseteq DOMAIN rows
      /\ New \in DOMAIN w.saved => NextTxn \in DOMAIN rows /\ NextTxn \in TxnIds
  BY <1>2 DEF Written, Fits
<1> HIDE DEF entry, rows, w
<1>7. ASSUME NEW l \in Joined(w)
      PROVE  /\ l \in Link /\ {l.from, l.to} \subseteq DOMAIN txns'
             /\ l \in links \/ l.id = NextLink
  <2>1. CASE l \in links
    BY <1>1, <1>2, <1>6, <2>1 DEF Tables, Accepted, rows
  <2>2. ASSUME NEW p \in w.join, l = [id |-> NextLink, from |-> side(p.from), to |-> side(p.to)]
        PROVE  l \in Link /\ {l.from, l.to} \subseteq DOMAIN txns'
    <3>1. NextLink \in LinkIds
      BY <1>2, <2>2 DEF Fits
    <3>2. ASSUME NEW x \in {p.from, p.to} PROVE side(x) \in TxnIds /\ side(x) \in DOMAIN rows
      <4>1. x \in DOMAIN txns \cup {New}
        BY <1>2 DEF Accepted
      <4>2. x = New => New \in DOMAIN w.saved
        BY <1>1 DEF JoinWell
      <4>3. QED
        BY <1>1, <1>6, <4>1, <4>2 DEF RowsTyped
    <3>3. {side(p.from), side(p.to)} \cap w.drop = {}
      BY <1>2, <2>2 DEF Accepted
    <3> HIDE DEF side
    <3>4. QED
      BY <1>2, <2>2, <3>1, <3>2, <3>3 DEF Link
  <2>3. QED
    BY <2>1, <2>2 DEF Joined
<1>8. \A l, k \in Joined(w) : l.id = k.id => l = k
  <2>1. ASSUME NEW l \in Joined(w), NEW k \in Joined(w), l.id = NextLink, k.id = NextLink
        PROVE  l = k
    <3>1. \A m \in links : m.id # NextLink
      BY <1>1, NewIds
    <3>2. PICK p \in w.join : l = [id |-> NextLink, from |-> side(p.from), to |-> side(p.to)]
      BY <2>1, <3>1 DEF Joined
    <3>3. PICK q \in w.join : k = [id |-> NextLink, from |-> side(q.from), to |-> side(q.to)]
      BY <2>1, <3>1 DEF Joined
    <3>4. p = q
      BY <1>1 DEF JoinWell
    <3>5. QED
      BY <3>2, <3>3, <3>4
  <2>2. \A l, k \in links : l.id = k.id => l = k
    BY <1>1 DEF Tables
  <2>3. \A l \in links : l.id # NextLink
    BY <1>1, NewIds
  <2>4. QED
    BY <1>7, <2>1, <2>2, <2>3
<1>9. Tables'
  <2>1. use' \in Uses
    BY <1>1, <1>2 DEF Tables
  <2>2. QED
    BY <1>2, <1>7, <1>8, <2>1 DEF Tables, Link, LinkIds, TxnIds
<1>10. (use = "orderly" => AllPaired)'
  <2>1. ASSUME use = "orderly", NEW l \in Joined(w) PROVE PairedOn(txns', l)
    <3>1. PairedOn(rows, l)
      BY <1>1, <1>2, <2>1 DEF Sound, PairedAfter, w, rows
    <3>2. \A s \in {l.from, l.to} : txns'[s] = rows[s]
      BY <1>2, <1>7
    <3>3. QED
      BY <3>1, <3>2 DEF PairedOn
  <2>2. QED
    BY <1>2, <2>1 DEF AllPaired, PairedOn
<1>11. Sound(req[r])'
  <2>1. JoinWell(req[r].work)' /\ (req[r].pairs \subseteq TxnIds \X TxnIds)'
    BY <1>1, <1>3, <1>4, IdleSound DEF Sound, JoinWell, TxnIds
  <2>2. ~ InHand(req[r])'
    BY <1>3, <1>4 DEF InHand
  <2>3. ASSUME use = "orderly", NEW p \in req'[r].pairs PROVE PairTrue(p)'
    <3>1. p \in req[r].pairs
      BY <1>3, <1>4, <2>3
    <3>2. PairTrue(p) /\ KeepsAmounts(w)
      BY <1>1, <1>2, <2>3, <3>1 DEF Sound, w
    <3>3. ASSUME NEW s \in DOMAIN txns
          PROVE  s \in DOMAIN txns' /\ txns'[s].acct = txns[s].acct /\ txns'[s].amt = txns[s].amt
      <4>1. s \in DOMAIN txns' /\ txns'[s] = rows[s]
        BY <1>2, <1>6, <3>2 DEF KeepsAmounts
      <4>2. s \in DOMAIN w.saved => w.seen[s].amt = w.saved[s].amt
        BY <3>2 DEF KeepsAmounts
      <4>3. /\ rows[s] = txns[s] \/ s \in DOMAIN w.saved
            /\ s \in DOMAIN w.saved => rows[s].acct = txns[s].acct
            /\ s \in DOMAIN w.saved /\ w.seen[s].amt = w.saved[s].amt => rows[s].amt = txns[s].amt
        BY WrittenRow DEF rows
      <4>4. QED
        BY <4>1, <4>2, <4>3
    <3>4. QED
      BY <3>2, <3>3 DEF PairTrue
  <2>4. QED
    BY <1>2, <2>1, <2>2, <2>3 DEF Sound
<1>12. ASSUME NEW x \in Requests PROVE Sound(req[x])'
  <2>1. CASE x # r
    <3>1. Sound(req[x]) /\ req'[x] = req[x] /\ (use = "any" \/ req[x] = Idle)
      BY <1>3, <1>5, <2>1 DEF TurnInv
    <3>2. QED
      BY <1>2, <3>1, OthersSound
  <2>2. QED
    BY <1>11, <2>1
<1>13. (use # "any" => \A q, x \in Requests : q # x => req[q] = Idle \/ req[x] = Idle)'
  BY <1>2, <1>3, <1>5
<1>14. QED
  BY <1>9, <1>10, <1>12, <1>13 DEF TurnInv

\* A new row without a transfer is no side of any link.
LEMMA CreateTurn ==
  ASSUME TurnInv, PInv', NEW acct \in Accounts, NEW amt \in Amounts, NEW flag \in BOOLEAN,
         Create(acct, amt, flag)
  PROVE  TurnInv'
<1>1. /\ UNCHANGED <<links, req, use>>
      /\ use # "any" => \A x \in Requests : req[x] = Idle
      /\ DOMAIN txns \subseteq DOMAIN txns' /\ \A i \in DOMAIN txns : txns'[i] = txns[i]
  BY DEF Create, MayCreate
<1>2. Tables'
  BY <1>1 DEF TurnInv, Tables, Link, LinkIds, TxnIds
<1>3. (use = "orderly" => AllPaired)'
  BY <1>1 DEF TurnInv, Tables, AllPaired, PairedOn
<1>4. ASSUME NEW x \in Requests PROVE Sound(req[x])'
  <2>1. Sound(req[x]) /\ req'[x] = req[x] /\ (use = "any" \/ req[x] = Idle)
    BY <1>1 DEF TurnInv
  <2>2. QED
    BY <1>1, <2>1, OthersSound
<1>5. QED
  BY <1>1, <1>2, <1>3, <1>4 DEF TurnInv

LEMMA CreateTransferTurn ==
  ASSUME TurnInv, PInv', NEW acct \in Accounts, NEW amt \in Amounts, NEW a \in Accounts,
         NEW j \in TxnIds, CreateTransfer(acct, amt, a, j)
  PROVE  TurnInv'
<1> DEFINE i == NextTxn
           first == EntryOf(acct, amt, TRUE, TRUE)
           entry(k) == IF k = i THEN first ELSE EntryOf(a, - amt, TRUE, TRUE)
           others == Matches(i, first, a)
<1>1. /\ UNCHANGED <<req, use>>
      /\ use # "any" => \A x \in Requests : req[x] = Idle
      /\ a # acct /\ j \in (IF others = {} THEN {i + 1} ELSE others)
      /\ i \in TxnIds /\ j \in TxnIds /\ NextLink \in LinkIds
      /\ DOMAIN txns' = DOMAIN txns \cup {i, j}
      /\ \A k \in DOMAIN txns \cup {i, j} :
           txns'[k] = IF k \notin DOMAIN txns THEN [entry(k) EXCEPT !.link = NextLink]
                      ELSE IF k = j THEN [txns[j] EXCEPT !.flag = TRUE, !.link = NextLink]
                      ELSE txns[k]
      /\ links' = links \cup {[id |-> NextLink, from |-> p.from, to |-> p.to] :
                               p \in Sides(first, i, j)}
  BY DEF CreateTransfer, MayCreate
<1>2. /\ RowsTyped /\ Tables /\ amt \in Int /\ - amt \in Int
      /\ i \in Nat \ {0} /\ i \notin DOMAIN txns /\ i + 1 \notin DOMAIN txns
      /\ \A l \in links : l.id # NextLink
  BY NewIds, LedgerAssumption DEF TurnInv, PInv
<1>3. /\ first.acct = acct /\ first.amt = amt /\ first \in Row
      /\ EntryOf(a, - amt, TRUE, TRUE).acct = a /\ EntryOf(a, - amt, TRUE, TRUE).amt = - amt
      /\ EntryOf(a, - amt, TRUE, TRUE) \in Row
  BY <1>2 DEF EntryOf, Row
<1>4. j \in DOMAIN txns =>
        /\ txns[j] \in Row /\ txns[j].acct = a /\ txns[j].amt = - amt /\ txns[j].link = Null
  <2>1. CASE others = {}
    BY <1>1, <1>2, <2>1
  <2>2. CASE others # {}
    BY <1>1, <1>2, <1>3, <2>2 DEF Matches, RowsTyped
  <2>3. QED
    BY <2>1, <2>2
<1>5. i # j
  <2>1. others = {} => j = i + 1
    BY <1>1
  <2>2. others # {} => j \in others
    BY <1>1
  <2>3. i \notin others
    BY DEF Matches
  <2> HIDE DEF i, others
  <2>4. i # i + 1
    BY <1>2
  <2>5. QED
    BY <2>1, <2>2, <2>3, <2>4
<1> HIDE DEF i, first, others
<1>6. /\ txns'[i].link = NextLink /\ txns'[i].acct = acct /\ txns'[i].amt = amt
      /\ txns'[j].link = NextLink /\ txns'[j].acct = a /\ txns'[j].amt = - amt
  <2>1. txns'[i] = [first EXCEPT !.link = NextLink]
    BY <1>1, <1>2
  <2>2. CASE j \notin DOMAIN txns
    <3>1. txns'[j] = [EntryOf(a, - amt, TRUE, TRUE) EXCEPT !.link = NextLink]
      BY <1>1, <1>5, <2>2
    <3>2. QED
      BY <1>3, <2>1, <3>1 DEF Row
  <2>3. CASE j \in DOMAIN txns
    <3>1. txns'[j] = [txns[j] EXCEPT !.flag = TRUE, !.link = NextLink]
      BY <1>1, <2>3
    <3>2. QED
      BY <1>3, <1>4, <2>1, <2>3, <3>1 DEF Row
  <2>4. QED
    BY <2>2, <2>3
<1>7. PICK n : /\ links' = links \cup {n} /\ n.id = NextLink /\ n \in Link
               /\ {n.from, n.to} = {i, j} /\ PairedOn(txns', n)
  <2>1. CASE amt < 0
    <3> DEFINE n == [id |-> NextLink, from |-> i, to |-> j]
    <3>1. Sides(first, i, j) = {[from |-> i, to |-> j]}
      BY <1>3, <2>1 DEF Sides
    <3>2. links' = links \cup {n}
      BY <1>1, <3>1
    <3>3. n.id = NextLink /\ n.from = i /\ n.to = j /\ n \in Link
      BY <1>1 DEF Link
    <3> HIDE DEF n
    <3>4. PairedOn(txns', n)
      BY <1>1, <1>2, <1>6, <2>1, <3>3 DEF PairedOn
    <3>5. QED
      BY <3>2, <3>3, <3>4
  <2>2. CASE ~ (amt < 0)
    <3> DEFINE n == [id |-> NextLink, from |-> j, to |-> i]
    <3>1. Sides(first, i, j) = {[from |-> j, to |-> i]}
      BY <1>3, <2>2 DEF Sides
    <3>2. links' = links \cup {n}
      BY <1>1, <3>1
    <3>3. n.id = NextLink /\ n.from = j /\ n.to = i /\ n \in Link
      BY <1>1 DEF Link
    <3> HIDE DEF n
    <3>4. PairedOn(txns', n)
      BY <1>1, <1>2, <1>6, <2>2, <3>3 DEF PairedOn
    <3>5. QED
      BY <3>2, <3>3, <3>4
  <2>3. QED
    BY <2>1, <2>2
<1>8. Tables'
  BY <1>1, <1>2, <1>7 DEF Tables, Link, LinkIds, TxnIds
<1>9. ASSUME use = "orderly", NEW l \in links PROVE PairedOn(txns', l)
  <2>1. PairedOn(txns, l) /\ l.id # Null /\ {l.from, l.to} \subseteq DOMAIN txns
    BY <1>2, <1>9, Names DEF TurnInv, AllPaired, Tables, Link, Unlocked
  <2>2. ASSUME NEW s \in {l.from, l.to} PROVE txns'[s] = txns[s]
    <3>1. s \in DOMAIN txns /\ txns[s].link # Null
      BY <2>1 DEF PairedOn
    <3>2. s # j
      BY <1>4, <3>1
    <3>3. QED
      BY <1>1, <3>1, <3>2
  <2>3. QED
    BY <2>1, <2>2 DEF PairedOn
<1>10. (use = "orderly" => AllPaired)'
  BY <1>1, <1>7, <1>9 DEF AllPaired, PairedOn
<1>11. ASSUME NEW x \in Requests PROVE Sound(req[x])'
  <2>1. Sound(req[x]) /\ req'[x] = req[x] /\ (use = "any" \/ req[x] = Idle)
    BY <1>1 DEF TurnInv
  <2>2. QED
    BY <1>1, <2>1, OthersSound
<1>12. QED
  BY <1>1, <1>8, <1>10, <1>11 DEF TurnInv

----------------------------------------------------------------------------
LEMMA TurnInit == Init => TurnInv
<1> SUFFICES ASSUME Init PROVE TurnInv
  OBVIOUS
<1>1. PInv
  BY PInvInit
<1>2. links = {} /\ use \in Uses /\ \A r \in Requests : req[r] = Idle
  BY DEF Init
<1>3. QED
  BY <1>1, <1>2, IdleSound DEF TurnInv, Tables, AllPaired

LEMMA TurnNext == TurnInv /\ [Next]_vars => TurnInv'
<1> SUFFICES ASSUME TurnInv, [Next]_vars PROVE TurnInv'
  OBVIOUS
<1>1. PInv'
  BY PInvNext DEF TurnInv
<1>2. CASE UNCHANGED vars
  <2>1. UNCHANGED <<txns, links, req, use>>
    BY <1>2 DEF vars
  <2>2. ASSUME NEW x \in Requests PROVE Sound(req[x])'
    BY <2>1, SoundStays DEF TurnInv
  <2>3. Tables' /\ (use = "orderly" => AllPaired)'
    BY <2>1 DEF TurnInv, Tables, AllPaired, PairedOn, Link, TxnIds, LinkIds
  <2>4. QED
    BY <1>1, <2>1, <2>2, <2>3 DEF TurnInv
<1>3. ASSUME NEW r \in Requests,
             \/ MayBegin(r) /\ (Linking(r) \/ Flagging(r) \/ Editing(r))
             \/ Reading(r) \/ Commit(r) \/ Fail(r)
      PROVE  TurnInv'
  BY <1>1, <1>3, LinkingTurn, FlaggingTurn, EditingTurn, ReadingTurn, CommitTurn, FailTurn
<1>4. ASSUME NEW acct \in Accounts, NEW amt \in Amounts,
             \/ \E flag \in BOOLEAN : Create(acct, amt, flag)
             \/ \E a \in Accounts, j \in TxnIds : CreateTransfer(acct, amt, a, j)
      PROVE  TurnInv'
  BY <1>1, <1>4, CreateTurn, CreateTransferTurn
<1>5. QED
  BY <1>2, <1>3, <1>4 DEF Next

LEMMA TurnAlways == Spec => []TurnInv
BY TurnInit, TurnNext, PTL DEF Spec

\* The tables keep their columns and keys: both sides of every link are rows of
\* the ledger, and its id is its own, whatever requests overlap.
THEOREM LinksAreWhole == Spec => []TypeOK
<1>1. TurnInv => TypeOK
  BY DEF TurnInv, PInv, RowsTyped, Tables, Sound, TypeOK
<1>2. QED
  BY <1>1, TurnAlways, PTL

\* As long as requests take turns, the database refuses no deletion, unlinking,
\* linking or edit (_delete_txn_safe frees every row that refers to a link).
THEOREM NothingRefused == Spec => []NeverRefused
<1>1. TurnInv => NeverRefused
  BY DEF TurnInv, Sound, InHand, NeverRefused
<1>2. QED
  BY <1>1, TurnAlways, PTL

\* As long as requests take turns and linked rows are not saved from the edit
\* form, both sides of every transfer point at it, they are in two accounts and
\* their amounts cancel: linked by hand, in bulk from a list of pairs that goes
\* stale, from the form or with a mirror row.
THEOREM LinksStayPaired == Spec => []TransfersPaired
<1>1. TurnInv => TransfersPaired
  BY DEF TurnInv, AllPaired, PairedOn, TransfersPaired
<1>2. QED
  BY <1>1, TurnAlways, PTL
=============================================================================
