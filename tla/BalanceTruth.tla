---------------------------- MODULE BalanceTruth ----------------------------
(***************************************************************************)
(* What balance the program shows for one account, and whether it is the   *)
(* one the institution would state.                                        *)
(*                                                                         *)
(* The institution keeps a book, a sequence of entries in posting order;   *)
(* the ledger holds the entries that imports brought in, plus rows entered *)
(* by hand.  The program computes the account's balance three times over,  *)
(* in services/account_service.py: for the account page (Single), for the  *)
(* accounts list (Batch) and for the net-worth history (Series).  Each     *)
(* reads whichever source the account's balance_truth_source names: the    *)
(* sum of the rows, the running balance the bank prints beside them, a     *)
(* statement with the rows since, or the dated record of an uploaded       *)
(* statement.                                                              *)
(*                                                                         *)
(* Days are numbers, amounts integers in one currency; conversion,         *)
(* staleness and confidence are left out.  The position of a row in rows   *)
(* is its id.                                                              *)
(***************************************************************************)
EXTENDS Integers, Sequences, FiniteSets, FiniteSetsExt

CONSTANTS
  Kinds,          \* which accounts: a subset of {"bank", "plain", "card"}
  None,           \* an absent value
  Opening,        \* the balance in the book before its first entry
  Amounts,        \* the signed amounts of entries
  HandAmounts,    \* and of rows entered by hand
  Values,         \* current_value as the account was created with it
  Lags,           \* days from the transaction to its posting
  TypedSigns,     \* how a card's balance is typed: 1 as owed, -1 as a negative
  LastDay,        \* BOUND on days
  MaxBook,        \* BOUND on entries of the book
  MaxHand         \* BOUND on rows entered by hand

ASSUME BalanceAssumption ==
  /\ Kinds \subseteq {"bank", "plain", "card"}
  /\ Opening \in Int /\ Amounts \subseteq Int /\ HandAmounts \subseteq Int
  /\ None \notin Int /\ Values \subseteq Int \cup {None}
  /\ Lags \subseteq 0 .. 14      \* _posted_after reads no lag beyond a fortnight
  /\ TypedSigns \subseteq {1, -1}
  /\ LastDay \in Nat \ {0} /\ MaxBook \in Nat /\ MaxHand \in Nat

VARIABLES
  kind,     \* what the account is, and so what its exports carry
  book,     \* the institution's entries, in the order they posted
  rows,     \* the ledger's rows, in id order
  acct,     \* the account's balance_truth_source and balance fields
  snaps,    \* LiabilityBalanceSnapshot: statement day -> value
  today

vars == <<kind, book, rows, acct, snaps, today>>

Days == 1 .. LastDay

\* A bank's export prints a running balance beside each row; a plain one does
\* not; a card's has a post date instead, and its account is a liability.
HasBalanceColumn == kind = "bank"
is_asset == kind # "card"

-----------------------------------------------------------------------------
(* The institution's side *)

Total(f, S) == MapThenSumSet(LAMBDA i : f[i].amt, S)

Running(n) == Opening + Total(book, 1 .. n)

PostedBy(d) == {i \in DOMAIN book : book[i].post <= d}

\* A liability's statement says what is owed, a positive figure; the entries
\* behind it are signed as cash flows.
InStatementTerms(x) == IF is_asset THEN x ELSE -x

Paper(d) == InStatementTerms(Opening + Total(book, PostedBy(d)))

-----------------------------------------------------------------------------
(* The ledger's rows *)

Hand == {i \in DOMAIN rows : rows[i].entry = 0}
Held == {rows[i].entry : i \in DOMAIN rows \ Hand}

RowOf(i) ==
  [entry |-> i, day |-> book[i].day, amt |-> book[i].amt,
   balance_after |-> IF HasBalanceColumn THEN Running(i) ELSE None,
   posted_after |-> book[i].post > book[i].day]

\* The order in which a file lists some entries.
Listed(S, newestFirst) ==
  CHOOSE s \in [1 .. Cardinality(S) -> S] :
    \A i, j \in DOMAIN s : i < j => IF newestFirst THEN s[i] > s[j] ELSE s[i] < s[j]

\* The rows a file that covers the postings of lo..hi adds: the entries not in
\* the ledger yet.
FileRows(lo, hi, newestFirst) ==
  LET listed == Listed({i \in DOMAIN book : book[i].post \in lo .. hi} \ Held, newestFirst)
  IN  [k \in DOMAIN listed |-> RowOf(listed[k])]

RowsIn(lo, hi) == {i \in DOMAIN rows : rows[i].day \in lo .. hi}

-----------------------------------------------------------------------------
(* Which row carries the day's closing balance *)

before(i) == rows[i].balance_after - rows[i].amt

\* Row j follows row i when j's balance less its amount is i's balance; of rows
\* with one balance the first is taken.
followed(D) ==
  LET first(b) == Min({i \in D : rows[i].balance_after = b})
  IN  {first(before(j)) : j \in {j \in D :
         /\ \E i \in D : rows[i].balance_after = before(j)
         /\ first(before(j)) # j}}

\* Mistake: the highest id of the day.
ClosingRowById(D) == Max(D)

\* The row nothing follows; the highest id when the chain has not one end.
closing_row(D) ==
  LET ends == D \ followed(D)
  IN  IF Cardinality(ends) = 1 THEN CHOOSE i \in ends : TRUE ELSE Max(D)

\* The rows up to a day that carry a running balance, and the latest such day.
Marked(upto) == {i \in DOMAIN rows : rows[i].day <= upto /\ rows[i].balance_after # None}
last_day(upto) == Max({rows[i].day : i \in Marked(upto)})

latest_balance_marker(upto) ==
  rows[closing_row({i \in Marked(upto) : rows[i].day = last_day(upto)})].balance_after

\* The marker and the rows dated after it, which carry no balance of their own.
MarkedBalance(upto) ==
  latest_balance_marker(upto)
    + Total(rows, RowsIn(last_day(upto) + 1, upto) \ Marked(upto))

-----------------------------------------------------------------------------
(* The three readings.  A future-dated row counts on the page and in the   *)
(* list, and in the history only from its day on.                          *)

Ever == LastDay

OrValue(x) == IF x = 0 /\ acct.current_value # None THEN acct.current_value ELSE x

txn_sum(upto) == OrValue(Total(rows, RowsIn(1, upto)))

HasStatement == acct.statement_balance # None

anchor_day_rows == {i \in DOMAIN rows :
  rows[i].day = acct.statement_balance_as_of /\ rows[i].posted_after}

\* Mistake: a row of the statement day counts as on the statement.
StatementAnchoredByDate(upto) ==
  acct.statement_balance + InStatementTerms(
    Total(rows, RowsIn(acct.statement_balance_as_of + 1, upto)))

\* statement_balance and the rows since, in the statement's own terms.
StatementAnchored(upto) ==
  acct.statement_balance + InStatementTerms(
    Total(rows, RowsIn(acct.statement_balance_as_of + 1, upto)
                  \cup {i \in anchor_day_rows : acct.statement_balance_as_of <= upto}))

SnapDays(upto) == {d \in 1 .. upto : snaps[d] # None}

\* Mistake: reads the field the last upload set.
LatestStatementUploaded(upto) == acct.statement_balance

\* The latest uploaded statement; without one, the field on the account.
LatestStatement(upto) ==
  IF SnapDays(upto) # {} THEN snaps[Max(SnapDays(upto))]
  ELSE LET or(x, y) == IF x \notin {None, 0} THEN x ELSE y
       IN  or(acct.statement_balance, or(acct.current_value, 0))

\* get_account_balance_rich, for the account page: a statement anchors a hybrid
\* account even when its rows carry running balances.
Single ==
  CASE acct.source = "latest_statement"           -> LatestStatement(Ever)
    [] acct.source = "hybrid" /\ HasStatement     -> StatementAnchored(Ever)
    [] OTHER -> IF Marked(Ever) # {} THEN MarkedBalance(Ever) ELSE txn_sum(Ever)

\* The list's own copies, each for all accounts in one query: the closing row of
\* the latest day with a balance, and then every later row without one ...
latest_bal_after ==
  LET day == Max({rows[i].day : i \in Marked(Ever)})
      end == closing_row({i \in Marked(Ever) : rows[i].day = day})
  IN  rows[end].balance_after
        + Total(rows, {i \in DOMAIN rows \ Marked(Ever) : rows[i].day > day})

\* ... and the rows after a statement, those of its own day that posted later added.
hybrid_delta ==
  Total(rows, {i \in DOMAIN rows : rows[i].day > acct.statement_balance_as_of})
    + Total(rows, anchor_day_rows)

\* get_many_account_balances_rich, for the accounts list: a running balance
\* comes before the statement.
Batch ==
  CASE acct.source = "latest_statement"           -> LatestStatement(Ever)
    [] acct.source # "latest_statement" /\ Marked(Ever) # {} -> latest_bal_after
    [] acct.source = "hybrid" /\ Marked(Ever) = {} /\ HasStatement
                              -> acct.statement_balance + InStatementTerms(hybrid_delta)
    [] OTHER                                      -> txn_sum(Ever)

\* Mistake: a liability's rows added to what is owed.
SeriesAnchoredCashSigned(when) ==
  acct.statement_balance + Total(rows, {i \in RowsIn(1, when) :
    rows[i].day > acct.statement_balance_as_of \/ i \in anchor_day_rows})

\* The history's loop passes over the rows up to the statement day unless they
\* posted after it.
SeriesAnchored(when) ==
  acct.statement_balance + InStatementTerms(Total(rows, {i \in RowsIn(1, when) :
    rows[i].day > acct.statement_balance_as_of \/ i \in anchor_day_rows}))

\* The loop goes through the rows in date order and closes each day: a day with a
\* balance starts anew from its closing row, a day without adds its rows.
latest_bal_after_at(when) ==
  LET closed[d \in 0 .. when] ==
        LET day == RowsIn(d, d)
            cands == day \cap Marked(when)
        IN  IF cands # {} THEN [at |-> rows[closing_row(cands)].balance_after, tail |-> 0]
            ELSE IF d = 0 THEN [at |-> None, tail |-> 0]
            ELSE [closed[d - 1] EXCEPT !.tail = IF closed[d - 1].at = None THEN 0
                                                ELSE @ + Total(rows, day)]
  IN  closed[when].at + closed[when].tail

\* get_many_account_balances_series: a loop over the rows in date order stops at
\* the day asked for; a statement that is zero stands.
Series(when) ==
  CASE acct.source = "latest_statement" ->
         IF SnapDays(when) # {} THEN snaps[Max(SnapDays(when))]
         ELSE IF HasStatement THEN acct.statement_balance
         ELSE IF acct.current_value # None THEN acct.current_value ELSE 0
    [] acct.source # "latest_statement" /\ Marked(when) # {} -> latest_bal_after_at(when)
    [] acct.source = "hybrid" /\ Marked(when) = {} /\ HasStatement ->
         SeriesAnchored(when)
    [] OTHER -> txn_sum(when)

-----------------------------------------------------------------------------
(* Steps *)

\* Outside the program: an entry posts, the day turns.
Post(amt, lag) ==
  /\ Len(book) < MaxBook
  /\ lag < today /\ (kind # "card" => lag = 0)
  /\ book' = Append(book, [day |-> today - lag, post |-> today, amt |-> amt])
  /\ UNCHANGED <<kind, rows, acct, snaps, today>>

NextDay ==
  /\ today < LastDay
  /\ today' = today + 1
  /\ UNCHANGED <<kind, book, rows, acct, snaps>>

\* An export of everything posted since lo is imported.
ImportFile(lo, newestFirst) ==
  LET new == FileRows(lo, today, newestFirst)
  IN  /\ new # <<>>
      /\ rows' = rows \o new
      /\ UNCHANGED <<kind, book, acct, snaps, today>>

\* A row entered by hand or confirmed from a schedule, maybe ahead of its day.
HandRow(day, amt) ==
  /\ Cardinality(Hand) < MaxHand
  /\ rows' = Append(rows, [entry |-> 0, day |-> day, amt |-> amt,
                           balance_after |-> None, posted_after |-> FALSE])
  /\ UNCHANGED <<kind, book, acct, snaps, today>>

\* The account form with a closing balance copied from a statement.
TypeStatement(d, sign) ==
  /\ d < today
  /\ is_asset => sign = 1
  /\ acct' = [acct EXCEPT !.statement_balance = sign * Paper(d),
                          !.statement_balance_as_of = d,
                          !.source = IF @ = "transaction_sum" THEN "hybrid" ELSE @]
  /\ UNCHANGED <<kind, book, rows, snaps, today>>

\* The account form with the closing balance left blank.
ClearStatement ==
  /\ HasStatement
  /\ acct' = [acct EXCEPT !.statement_balance = None,
                          !.statement_balance_as_of = None,
                          !.source = IF @ = "hybrid" THEN "transaction_sum" ELSE @]
  /\ UNCHANGED <<kind, book, rows, snaps, today>>

\* A card or loan statement is uploaded: its rows since lo are imported, its
\* balance becomes the account's and is recorded, or replaced, under its day.
UploadStatement(lo, d) ==
  /\ ~is_asset
  /\ d < today
  /\ rows' = rows \o FileRows(lo, d, FALSE)
  /\ acct' = [acct EXCEPT !.statement_balance = Paper(d),
                          !.statement_balance_as_of = d,
                          !.source = "latest_statement"]
  /\ snaps' = [snaps EXCEPT ![d] = Paper(d)]
  /\ UNCHANGED <<kind, book, today>>

\* The account is closed with its balance marked settled.
CloseSettled ==
  /\ acct' = [acct EXCEPT !.statement_balance = 0,
                          !.statement_balance_as_of = today,
                          !.current_value = 0]
  /\ UNCHANGED <<kind, book, rows, snaps, today>>

\* The order of a file's rows shows only through the balances beside them.
Orders == IF HasBalanceColumn THEN BOOLEAN ELSE {FALSE}

Init ==
  /\ kind \in Kinds
  /\ book = <<>>
  /\ rows = <<>>
  /\ acct \in [source : {"transaction_sum"}, statement_balance : {None},
               statement_balance_as_of : {None}, current_value : Values]
  /\ snaps = [d \in Days |-> None]
  /\ today = 1

Next ==
  \/ \E amt \in Amounts, lag \in Lags : Post(amt, lag)
  \/ NextDay
  \/ \E lo \in 1 .. today, newestFirst \in Orders : ImportFile(lo, newestFirst)
  \/ \E day \in Days, amt \in HandAmounts : HandRow(day, amt)
  \/ \E d \in Days, sign \in TypedSigns : TypeStatement(d, sign)
  \/ ClearStatement
  \/ \E d \in Days : \E lo \in 1 .. d : UploadStatement(lo, d)
  \/ CloseSettled

Spec == Init /\ [][Next]_vars

-----------------------------------------------------------------------------
(* Properties *)

\* The shapes of the book, the ledger's rows, the account's fields and its
\* snapshots.
TypeOK ==
  /\ kind \in Kinds
  /\ book \in Seq([day : Days, post : Days, amt : Amounts])
  /\ rows \in Seq([entry : 0 .. MaxBook, day : Days, amt : Amounts \cup HandAmounts,
                   balance_after : Int \cup {None}, posted_after : BOOLEAN])
  /\ acct \in [source : {"transaction_sum", "hybrid", "latest_statement"},
               statement_balance : Int \cup {None},
               statement_balance_as_of : Days \cup {None},
               current_value : Int \cup {None}]
  /\ snaps \in [Days -> Int \cup {None}]
  /\ today \in Days

HandTotal(lo, hi) == Total(rows, Hand \cap RowsIn(lo, hi))

\* The balances of entry n's day up to n are all different, the one the day
\* opened with included: the chain of the day can be read.
ReadableDay(n) ==
  LET points == {i - 1 : i \in {i \in 1 .. n : book[i].day = book[n].day}} \cup {n}
  IN  \A i, j \in points : Running(i) = Running(j) => i = j

\* What a bank account with running balances should read on day d: the bank's
\* balance after the last entry the ledger has, and the rows entered by hand
\* for later days.
BankSays(d) ==
  LET last == Max(Held \cap PostedBy(d))
  IN  Running(last) + HandTotal(book[last].day + 1, d)
BankCanSay(d) ==
  /\ HasBalanceColumn /\ Held \cap PostedBy(d) # {}
  /\ ReadableDay(Max(Held \cap PostedBy(d)))

\* The account page and the list read the day's closing balance whatever order
\* the files list the day in and however many files it arrived in, and add only
\* what came after it.
CardReadsTheClose ==
  BankCanSay(Ever) =>
    /\ Batch = BankSays(Ever)
    /\ acct.source = "transaction_sum" => Single = BankSays(Ever)

\* The history reads every past day by that day's own close.
HistoryReadsTheClose ==
  \A d \in 1 .. today : BankCanSay(d) => Series(d) = BankSays(d)

\* The page, the list and the history all read a day by its close.
CloseIsRead == CardReadsTheClose /\ HistoryReadsTheClose

\* A typed statement is in force, it is right, and the ledger has every entry
\* posted since and nothing made up.
AnchorComplete ==
  /\ acct.source = "hybrid" /\ HasStatement
  /\ acct.statement_balance \in {s * Paper(acct.statement_balance_as_of) : s \in TypedSigns}
  /\ DOMAIN book \ PostedBy(acct.statement_balance_as_of) \subseteq Held
  /\ Hand = {}

\* What an account adds to the net worth: a liability's balance is owed.
Worth(balance) == InStatementTerms(balance)

\* From a statement balance and the rows since, the account is worth what the
\* institution's book says, however much of the older history is missing: an
\* entry made by the statement day and posted after it is counted, one on the
\* statement is not counted again.
AnchoredBalanceTrue ==
  AnchorComplete => Worth(Single) = Running(Len(book))

\* And so does the history on every day since the statement, each entry on the
\* day it was made.
HistorySinceAnchorTrue ==
  AnchorComplete /\ ~HasBalanceColumn =>
    \A d \in acct.statement_balance_as_of .. today :
      Worth(Series(d)) = Opening + Total(book, {i \in DOMAIN book : book[i].day <= d})

\* A typed statement holds on the card and in the history.
AnchorHolds == AnchoredBalanceTrue /\ HistorySinceAnchorTrue

\* The uploaded statement of the latest day is the balance, in whichever order
\* the statements were uploaded, and none is shown before its day.
LatestStatementWins ==
  acct.source = "latest_statement" =>
    /\ Single = Paper(Max(SnapDays(Ever)))
    /\ \A d \in 1 .. today : SnapDays(d) # {} => Series(d) = Paper(Max(SnapDays(d)))

\* The history ends where the balance card starts.
HistoryMeetsCard ==
  RowsIn(today + 1, Ever) = {} => Series(today) = Batch

\* Without running balances or a statement the balance is what the book's entries
\* come to since the account was opened.
SumIsTheBook ==
  /\ acct.source = "transaction_sum" /\ ~HasBalanceColumn
  /\ DOMAIN book = Held /\ book # <<>> /\ Hand = {}
  => Single = Running(Len(book)) - Opening

\* The accounts list and the account page report the same number.
PageAgreesWithList == Single = Batch

\* An account with a statement that is closed with its balance marked settled
\* reads zero.
SettledReadsZero ==
  [][CloseSettled /\ HasStatement /\ RowsIn(today, Ever) = {} => Single' = 0]_vars
=============================================================================
