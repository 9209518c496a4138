--------------------------- MODULE TransferLinks ---------------------------
(***************************************************************************)
(* Transfers between a user's own accounts: a link row names the two       *)
(* transactions of a transfer, and each of the two points back at it       *)
(* (services/transfer_detector.py, routers/transfers.py, the transfer      *)
(* fields of the edit form and the deletion in routers/transactions.py).   *)
(*                                                                         *)
(* A handler loads rows without a lock, changes the loaded copies, and its *)
(* unit of work is written in one transaction: of a changed row only the   *)
(* columns that differ from what was loaded, then new links, then deleted  *)
(* links, then deleted rows.  SQLite checks the foreign keys as it goes;   *)
(* a unit of work that fails is rolled back as a whole.                    *)
(*                                                                         *)
(* All rows are within the few days of each other that the code allows,    *)
(* and in one currency.                                                    *)
(***************************************************************************)
EXTENDS Integers, FiniteSets

CONSTANTS
  Requests,     \* request handlers and the pages they were sent from
  Accounts,
  Liabilities,  \* the accounts scan_and_flag_payments looks at
  Ledger,       \* Ledger[i]: [acct, amt, pay] of the rows to begin with
  Amounts,      \* amounts a row may be created with or edited to
  Uses,         \* how the pages are used, see `use'
  MaxTxn,       \* bound on transaction ids
  MaxLink,      \* bound on link ids
  MaxBegun      \* bound on the requests begun where requests overlap

Null == 0       \* SQL NULL in transfer_link_id
New == -1       \* the id that a unit of work's own row, or link, will get
TxnIds == 1 .. MaxTxn
LinkIds == 1 .. MaxLink

\* `pay' is whether the wording has one of PAYMENT_KEYWORDS in it, `flag' is
\* is_transfer, `gone' is transfer_dismissed, `link' is transfer_link_id.
Row == [acct : Accounts, amt : Int, pay : BOOLEAN, flag : BOOLEAN,
        gone : BOOLEAN, link : LinkIds \cup {Null}]
Link == [id : LinkIds, from : TxnIds, to : TxnIds]
EntryOf(acct, amt, pay, flag) ==
  [acct |-> acct, amt |-> amt, pay |-> pay, flag |-> flag, gone |-> FALSE, link |-> Null]

ASSUME LedgerAssumption ==
  /\ MaxTxn \in Nat /\ MaxLink \in Nat /\ MaxBegun \in Nat
  /\ DOMAIN Ledger \subseteq TxnIds
  /\ \A i \in DOMAIN Ledger :
       Ledger[i] \in [acct : Accounts, amt : Int, pay : BOOLEAN]
  /\ Amounts \subseteq Int
  /\ Uses \subseteq {"orderly", "edits", "any"}

VARIABLES
  txns,   \* the transactions table, by id
  links,  \* the transfer_links table
  req,    \* what each request has in hand
  begun,  \* the requests begun, counted where they overlap
  use     \* never changes; "orderly": one request at a time, and a linked row is
          \* not saved from the edit form; "edits": one at a time; "any": neither

vars == <<txns, links, req, begun, use>>

----------------------------------------------------------------------------
(* The unit of work of a request.                                           *)

\* `seen' are the rows as loaded and `saved' as the handler leaves them, with
\* the mirror row to insert as row New; `join' holds the sides of the link to
\* insert, `unjoin' the ids of the links and `drop' of the rows to delete.
Work(seen, saved, join) ==
  [seen |-> seen, saved |-> saved, join |-> join, unjoin |-> {}, drop |-> {}]
NoWork == Work([i \in {} |-> Null], [i \in {} |-> Null], {})

\* ids are handed out again: the next one is the highest plus one.
NextId(ids) == IF ids = {} THEN 1 ELSE 1 + CHOOSE m \in ids : \A i \in ids : i <= m
NextTxn == NextId(DOMAIN txns)
NextLink == NextId({l.id : l \in links})

\* The UPDATE of a row: the columns that changed since it was loaded.
Updated(row, seen, saved) ==
  [acct |-> row.acct,
   amt  |-> IF saved.amt = seen.amt THEN row.amt ELSE saved.amt,
   pay  |-> row.pay,
   flag |-> IF saved.flag = seen.flag THEN row.flag ELSE saved.flag,
   gone |-> IF saved.gone = seen.gone THEN row.gone ELSE saved.gone,
   link |-> IF saved.link = seen.link THEN row.link ELSE saved.link]

\* The rows once those of w are written, the mirror row included and the
\* deletions still to come.
Written(w) ==
  LET linked(row) == IF row.link = New THEN [row EXCEPT !.link = NextLink] ELSE row IN
  [i \in DOMAIN txns \cup {NextTxn : j \in {New} \cap DOMAIN w.saved} |->
     IF i \notin DOMAIN txns THEN linked(w.saved[New])
     ELSE IF i \notin DOMAIN w.saved THEN txns[i]
     ELSE Updated(txns[i], w.seen[i], linked(w.saved[i]))]

\* The links with the new one and without those deleted.
Joined(w) ==
  LET side(i) == IF i = New THEN NextTxn ELSE i IN
  {l \in links : l.id \notin w.unjoin}
    \cup {[id |-> NextLink, from |-> side(p.from), to |-> side(p.to)] : p \in w.join}

\* Whether the bounds leave room for it.
Fits(w) ==
  /\ New \in DOMAIN w.saved => NextTxn \in TxnIds
  /\ w.join # {} => NextLink \in LinkIds

\* Mistake: without PRAGMA foreign_keys=ON a deletion leaves pointers behind.
AcceptedUnchecked(w) == \A i \in DOMAIN w.seen : w.saved[i] # w.seen[i] => i \in DOMAIN txns

\* Whether the database accepts it: no changed row is gone (StaleDataError),
\* the sides of every link are there, and no row points at a deleted link.
Accepted(w) ==
  /\ \A i \in DOMAIN w.seen : w.saved[i] # w.seen[i] => i \in DOMAIN txns
  /\ \A p \in w.join : {p.from, p.to} \subseteq DOMAIN txns \cup {New}
  /\ \A i \in DOMAIN Written(w) : Written(w)[i].link \notin w.unjoin
  /\ \A l \in Joined(w) : {l.from, l.to} \cap w.drop = {}

----------------------------------------------------------------------------
(* What each handler loads and changes.                                     *)

\* detect_transfers: the pairs the transfers page offers.
Candidates ==
  {p \in (DOMAIN txns) \X (DOMAIN txns) :
     LET out == txns[p[1]]  inn == txns[p[2]] IN
     /\ out.amt < 0 /\ inn.amt = - out.amt
     /\ inn.acct # out.acct
     /\ out.link = Null /\ inn.link = Null
     /\ ~ out.gone /\ ~ inn.gone}

\* Mistake: the rows are linked whether they are linked already or not.
LinkableAny(from, to) == {from, to} \subseteq DOMAIN txns

\* link_transfer takes a pair only if both rows are there and free.
Linkable(from, to) ==
  /\ {from, to} \subseteq DOMAIN txns
  /\ txns[from].link = Null /\ txns[to].link = Null

Loaded(ids) == [i \in ids |-> txns[i]]
LinkWork(from, to) ==
  Work(Loaded({from, to}),
       [i \in {from, to} |-> [txns[i] EXCEPT !.flag = TRUE, !.link = New]],
       {[from |-> from, to |-> to]})

\* unlink_transfer: both sides of the link are reset, wherever they point.
UnlinkWork(l) ==
  LET sides == {l.from, l.to} \cap DOMAIN txns IN
  [Work(Loaded(sides), [i \in sides |-> [txns[i] EXCEPT !.flag = FALSE, !.link = Null]], {})
     EXCEPT !.unjoin = {l.id}]

\* dismiss_transfer_pair.
DismissWork(from, to) ==
  Work(Loaded({from, to}),
       [i \in {from, to} |-> [txns[i] EXCEPT !.flag = FALSE, !.gone = TRUE]], {})

\* scan_and_flag_payments, and bulk_toggle_transfer for the rows ticked.
FlagWork(ids, flag) ==
  Work(Loaded(ids), [i \in ids |-> [txns[i] EXCEPT !.flag = flag]], {})
Scanned ==
  {i \in DOMAIN txns : /\ txns[i].acct \in Liabilities /\ txns[i].amt > 0
                       /\ ~ txns[i].flag /\ txns[i].link = Null /\ txns[i].pay}

\* Mistake: only the deleted row's own pointer is cleared.
DeleteWorkAlone(i) ==
  LET theirs == {l.id : l \in {x \in links : i \in {x.from, x.to}}} IN
  [Work(Loaded({i}), [j \in {i} |-> [txns[j] EXCEPT !.link = Null]], {})
     EXCEPT !.unjoin = theirs, !.drop = {i}]

\* _delete_txn_safe: the links that name the row go, and every row that points
\* at one of them is freed first.
DeleteWork(i) ==
  LET theirs == {l.id : l \in {x \in links : i \in {x.from, x.to}}}
      partners == {j \in DOMAIN txns : txns[j].link \in theirs}
  IN [Work(Loaded(partners), [j \in partners |-> [txns[j] EXCEPT !.link = Null]], {})
        EXCEPT !.unjoin = theirs, !.drop = {i}]

\* _link_transfer for row i, which the handler leaves as `row': with a free row
\* of account a that cancels it, or if there is none with a mirror row.
Matches(i, row, a) ==
  {j \in DOMAIN txns \ {i} : /\ txns[j].acct = a /\ txns[j].amt = - row.amt
                             /\ txns[j].link = Null}
Sides(row, i, j) ==
  {IF row.amt < 0 THEN [from |-> i, to |-> j] ELSE [from |-> j, to |-> i]}
TransferWorks(i, row, a) ==
  LET own == [row EXCEPT !.flag = TRUE, !.link = New]
      mirror == [acct |-> a, amt |-> - row.amt, pay |-> TRUE, flag |-> TRUE,
                 gone |-> FALSE, link |-> New]
  IN IF Matches(i, row, a) = {}
     THEN {Work(Loaded({i}), [j \in {i, New} |-> IF j = i THEN own ELSE mirror],
                Sides(row, i, New))}
     ELSE {Work(Loaded({i, j}),
                [k \in {i, j} |->
                   IF k = i THEN own ELSE [txns[j] EXCEPT !.flag = TRUE, !.link = New]],
                Sides(row, i, j)) : j \in Matches(i, row, a)}

\* transaction_update: what the form says of row i, with the other account of
\* the transfer or the row's own account when none is chosen.
EditWorks(i, amt, flag, a) ==
  LET row == [txns[i] EXCEPT !.amt = amt, !.flag = flag] IN
  IF flag /\ a # txns[i].acct THEN TransferWorks(i, row, a)
  ELSE {Work(Loaded({i}), [j \in {i} |-> IF flag THEN row ELSE [row EXCEPT !.link = Null]], {})}

----------------------------------------------------------------------------
Idle == [op |-> "idle", pairs |-> {}, work |-> NoWork]
Init ==
  /\ txns = [i \in DOMAIN Ledger |->
               EntryOf(Ledger[i].acct, Ledger[i].amt, Ledger[i].pay, FALSE)]
  /\ links = {}
  /\ req = [r \in Requests |-> Idle]
  /\ begun = 0
  /\ use \in Uses

\* Requests overlap only if use is "any", and then not without bound.
MayBegin(r) ==
  /\ req[r] = Idle
  /\ IF use = "any" THEN begun < MaxBegun ELSE \A x \in Requests : req[x] = Idle

\* A request that may begin loads its rows and makes up its unit of work.
Begin(r, op, pairs, work) ==
  /\ Fits(work)
  /\ begun' = IF use = "any" THEN begun + 1 ELSE begun
  /\ req' = [req EXCEPT ![r] = [op |-> op, pairs |-> pairs, work |-> work]]
  /\ UNCHANGED <<txns, links, use>>

\* transfers_page shows the pairs, create_link sends one of them and bulk_link
\* takes those of enough confidence.
Review(r, pairs) == pairs # {} /\ Begin(r, "review", pairs, NoWork)

\* link_transfer up to its first write; a pair it refuses is passed over.
ReadPair(r, p) ==
  LET rest == req[r].pairs \ {p} IN
  /\ req[r].op = "review" /\ p \in req[r].pairs
  /\ \/ /\ Linkable(p[1], p[2]) /\ Fits(LinkWork(p[1], p[2]))
        /\ req' = [req EXCEPT ![r] = [op |-> "link", pairs |-> rest,
                                      work |-> LinkWork(p[1], p[2])]]
     \/ /\ ~ Linkable(p[1], p[2])
        /\ req' = [req EXCEPT ![r] = IF rest = {} THEN Idle ELSE [@ EXCEPT !.pairs = rest]]
  /\ UNCHANGED <<txns, links, begun, use>>

\* dismiss_pair for a pair the page shows.
ReadDismissed(r, p) ==
  /\ req[r].op = "review" /\ req[r].pairs = {p}
  /\ \/ /\ {p[1], p[2]} \subseteq DOMAIN txns
        /\ req' = [req EXCEPT ![r] = [op |-> "dismiss", pairs |-> {},
                                      work |-> DismissWork(p[1], p[2])]]
     \/ /\ ~ {p[1], p[2]} \subseteq DOMAIN txns
        /\ req' = [req EXCEPT ![r] = Idle]
  /\ UNCHANGED <<txns, links, begun, use>>

\* A request that has read what it works on writes it, or fails and leaves
\* everything as it was; bulk_link goes on with its next pair.
Commit(r) ==
  /\ req[r].op \notin {"idle", "review"} /\ Fits(req[r].work)
  /\ Accepted(req[r].work)
  /\ LET rows == Written(req[r].work) IN
     txns' = [i \in DOMAIN rows \ req[r].work.drop |-> rows[i]]
  /\ links' = Joined(req[r].work)
  /\ req' = [req EXCEPT ![r] = IF @.pairs = {} THEN Idle
                               ELSE [op |-> "review", pairs |-> @.pairs, work |-> NoWork]]
  /\ UNCHANGED <<begun, use>>
Fail(r) ==
  /\ req[r].op \notin {"idle", "review"} /\ ~ Accepted(req[r].work)
  /\ req' = [req EXCEPT ![r] = Idle]
  /\ UNCHANGED <<txns, links, begun, use>>

\* transaction_create inserts its row before it looks for the other side, so
\* it holds the write lock all along; without a transfer ...
MayCreate == use # "any" => \A r \in Requests : req[r] = Idle
Create(acct, amt, flag) ==
  /\ MayCreate /\ NextTxn \in TxnIds
  /\ txns' = [i \in DOMAIN txns \cup {NextTxn} |->
                IF i \in DOMAIN txns THEN txns[i] ELSE EntryOf(acct, amt, TRUE, flag)]
  /\ UNCHANGED <<links, req, begun, use>>

\* ... and with one: j is a free row that cancels the new one, or the mirror.
CreateTransfer(acct, amt, a, j) ==
  LET i == NextTxn
      others == Matches(i, EntryOf(acct, amt, TRUE, TRUE), a)
      entry(k) == IF k = i THEN EntryOf(acct, amt, TRUE, TRUE) ELSE EntryOf(a, - amt, TRUE, TRUE)
  IN
  /\ MayCreate /\ a # acct
  /\ j \in IF others = {} THEN {i + 1} ELSE others
  /\ {i, j} \subseteq TxnIds /\ NextLink \in LinkIds
  /\ txns' = [k \in DOMAIN txns \cup {i, j} |->
                IF k \notin DOMAIN txns THEN [entry(k) EXCEPT !.link = NextLink]
                ELSE IF k = j THEN [txns[j] EXCEPT !.flag = TRUE, !.link = NextLink]
                ELSE txns[k]]
  /\ links' = links \cup {[id |-> NextLink, from |-> p.from, to |-> p.to] :
                            p \in Sides(EntryOf(acct, amt, TRUE, TRUE), i, j)}
  /\ UNCHANGED <<req, begun, use>>

Linking(r) ==
  \/ \E p \in Candidates : Review(r, {p})
  \/ Review(r, Candidates)
  \/ \E l \in links : Begin(r, "unlink", {}, UnlinkWork(l))
Flagging(r) ==
  \/ Scanned # {} /\ Begin(r, "scan", {}, FlagWork(Scanned, TRUE))
  \/ \E i \in DOMAIN txns, flag \in BOOLEAN : Begin(r, "toggle", {}, FlagWork({i}, flag))
Editing(r) ==
  \E i \in DOMAIN txns :
    \/ Begin(r, "delete", {}, DeleteWork(i))
    \/ \E amt \in Amounts \cup {txns[i].amt}, flag \in BOOLEAN, a \in Accounts :
         /\ use = "orderly" => txns[i].link = Null
         /\ \E w \in EditWorks(i, amt, flag, a) : Begin(r, "edit", {}, w)
Reading(r) == \E p \in req[r].pairs : ReadPair(r, p) \/ ReadDismissed(r, p)

Next ==
  \/ \E r \in Requests :
       \/ MayBegin(r) /\ (Linking(r) \/ Flagging(r) \/ Editing(r))
       \/ Reading(r) \/ Commit(r) \/ Fail(r)
  \/ \E acct \in Accounts, amt \in Amounts :
       \/ \E flag \in BOOLEAN : Create(acct, amt, flag)
       \/ \E a \in Accounts, j \in TxnIds : CreateTransfer(acct, amt, a, j)

Spec == Init /\ [][Next]_vars

----------------------------------------------------------------------------
(* Properties.                                                              *)

\* The type invariant of the two tables and of the requests' units of work: a
\* link has two sides on the ledger, and ids tell links apart.
TypeOK ==
  /\ DOMAIN txns \subseteq TxnIds
  /\ \A i \in DOMAIN txns : txns[i] \in Row
  /\ links \subseteq Link
  /\ \A l \in links : {l.from, l.to} \subseteq DOMAIN txns
  /\ \A l, k \in links : l.id = k.id => l = k
  /\ use \in Uses
  /\ \A r \in Requests : req[r].pairs \subseteq TxnIds \X TxnIds

\* A row points only at a link that is there and that names it, whatever
\* requests overlap, fail or write from what they read before: deleting or
\* unlinking frees every row first ("partners", _delete_txn_safe), and a link
\* is put on its own two rows only.
PointerIsSide ==
  \A i \in DOMAIN txns :
    txns[i].link # Null =>
      \E l \in links : l.id = txns[i].link /\ i \in {l.from, l.to}

\* As long as requests take turns and linked rows are not saved from the edit
\* form, "Both sides are linked to the same TransferLink"
\* (tests/test_transfer_counterpart.py): both point at it, it joins two
\* accounts and nets to zero.  So no row is in two transfers, and none that is
\* in one is offered for another.
TransfersPaired ==
  use = "orderly" =>
    \A l \in links :
      /\ txns[l.from].link = l.id /\ txns[l.to].link = l.id
      /\ txns[l.from].acct # txns[l.to].acct
      /\ txns[l.from].amt <= 0 /\ txns[l.from].amt + txns[l.to].amt = 0

\* As long as requests take turns the database refuses none of them: a row can
\* be deleted whatever refers to it (_delete_txn_safe: "Delete a transaction and
\* all referencing child records safely"), a link removed whatever became of
\* its sides.
NeverRefused ==
  use # "any" => \A r \in Requests : req[r].op \notin {"idle", "review"} => Accepted(req[r].work)

\* A mirror row is made when "No counterpart exists in the other account"
\* (_link_transfer): not when the row's own link joins it to one there.
MirrorIsMissing ==
  \A r \in Requests :
    New \in DOMAIN req[r].work.saved =>
      \A l \in links :
        \A i, j \in DOMAIN txns :
          {i, j} = {l.from, l.to} /\ i \in DOMAIN req[r].work.seen
            => txns[j].acct # req[r].work.saved[New].acct
=============================================================================
