------------------------- MODULE BalanceTruthProofs -------------------------
(***************************************************************************)
(* What the program shows of an account is what the institution's book     *)
(* says, for books, ledgers and calendars of any size.                     *)
(*                                                                         *)
(* First what closing_row finds; then the sums; then the invariant, which  *)
(* ties the ledger's rows to the entries of the book they came from; then  *)
(* that the history's loop computes what the account page looks up; and at *)
(* the end the properties of the run.                                      *)
(***************************************************************************)
EXTENDS BalanceTruth, SumProofs

(***************************************************************************)
(* The rows of one day, f[1] to f[n] in the order they posted: each row's  *)
(* balance is the one before it and its amount, and no balance of the day, *)
(* the opening one included, occurs twice.                                 *)
(***************************************************************************)
Chain(D, f, n) ==
  /\ D \subseteq Nat /\ n \in Nat \ {0}
  /\ f \in [1 .. n -> D]
  /\ \A i \in D : \E k \in 1 .. n : f[k] = i
  /\ \A i \in D : rows[i].balance_after \in Int /\ rows[i].amt \in Int
  /\ \A k \in 2 .. n : before(f[k]) = rows[f[k - 1]].balance_after
  /\ \A k, l \in 1 .. n : rows[f[k]].balance_after = rows[f[l]].balance_after => k = l
  /\ \A k \in 1 .. n : before(f[1]) # rows[f[k]].balance_after

\* The least of one number is that number.
LEMMA MinOfOne == ASSUME NEW x \in Nat PROVE Min({x}) = x
BY DEF Min

\* The rows that another row follows are all but the last.
LEMMA AllButLastFollowed ==
  ASSUME NEW D, NEW f, NEW n, Chain(D, f, n)
  PROVE  followed(D) = D \ {f[n]}
<1> DEFINE first(b) == Min({i \in D : rows[i].balance_after = b})
<1>0. /\ n \in Nat \ {0} /\ D \subseteq Nat
      /\ \A k \in 1 .. n : f[k] \in D
  BY DEF Chain
<1>1. \A k \in 1 .. n : {i \in D : rows[i].balance_after = rows[f[k]].balance_after} = {f[k]}
  <2> SUFFICES ASSUME NEW k \in 1 .. n, NEW i \in D,
                      rows[i].balance_after = rows[f[k]].balance_after
               PROVE  i = f[k]
    BY <1>0
  <2>1. PICK l \in 1 .. n : f[l] = i
    BY DEF Chain
  <2> QED
    BY <2>1 DEF Chain
<1>2. \A k \in 1 .. n : first(rows[f[k]].balance_after) = f[k]
  BY <1>0, <1>1, MinOfOne
<1>3. \A k \in 2 .. n : /\ k - 1 \in 1 .. n
                        /\ first(before(f[k])) = f[k - 1]
                        /\ \E i \in D : rows[i].balance_after = before(f[k])
                        /\ f[k - 1] # f[k]
  <2> SUFFICES ASSUME NEW k \in 2 .. n
               PROVE  /\ k - 1 \in 1 .. n
                      /\ first(before(f[k])) = f[k - 1]
                      /\ \E i \in D : rows[i].balance_after = before(f[k])
                      /\ f[k - 1] # f[k]
    OBVIOUS
  <2>1. k - 1 \in 1 .. n /\ k \in 1 .. n /\ k - 1 # k
    BY <1>0
  <2>2. before(f[k]) = rows[f[k - 1]].balance_after
    BY DEF Chain
  <2>3. f[k - 1] # f[k]
    BY <2>1 DEF Chain
  <2> QED
    BY <1>0, <1>2, <2>1, <2>2, <2>3
<1>4. ~ \E i \in D : rows[i].balance_after = before(f[1])
  BY <1>0 DEF Chain
<1>5. followed(D) = {first(before(j)) : j \in {j \in D :
         /\ \E i \in D : rows[i].balance_after = before(j)
         /\ first(before(j)) # j}}
  BY DEF followed
<1>6. followed(D) \subseteq D \ {f[n]}
  <2> SUFFICES ASSUME NEW j \in D,
                      \E i \in D : rows[i].balance_after = before(j),
                      first(before(j)) # j
               PROVE  first(before(j)) \in D \ {f[n]}
    BY <1>5
  <2>1. PICK k \in 1 .. n : f[k] = j
    BY DEF Chain
  <2>2. k \in 2 .. n
    BY <1>0, <1>4, <2>1
  <2>3. k - 1 \in 1 .. n /\ n \in 1 .. n /\ k - 1 # n
    BY <1>0, <2>2
  <2>4. f[k - 1] # f[n]
    BY <2>3 DEF Chain
  <2> QED
    BY <1>0, <1>3, <2>1, <2>2, <2>3, <2>4
<1>7. D \ {f[n]} \subseteq followed(D)
  <2> SUFFICES ASSUME NEW i \in D, i # f[n]
               PROVE  i \in followed(D)
    OBVIOUS
  <2>1. PICK k \in 1 .. n : f[k] = i
    BY DEF Chain
  <2>2. k + 1 \in 2 .. n /\ (k + 1) - 1 = k /\ k + 1 \in 1 .. n
    BY <1>0, <2>1
  <2>3. /\ f[k + 1] \in D
        /\ first(before(f[k + 1])) = i
        /\ \E h \in D : rows[h].balance_after = before(f[k + 1])
        /\ i # f[k + 1]
    BY <1>0, <1>3, <2>1, <2>2
  <2> QED
    BY <1>5, <2>3
<1> QED
  BY <1>6, <1>7

(***************************************************************************)
(* Whatever the order of the ids, closing_row returns the row that posted  *)
(* last on the day, for a day of any number of rows: the closing balance   *)
(* that the page, the list and the history read is the bank's.             *)
(***************************************************************************)
THEOREM ClosingRowIsLast ==
  ASSUME NEW D, NEW f, NEW n, Chain(D, f, n)
  PROVE  closing_row(D) = f[n]
<1>1. f[n] \in D
  BY DEF Chain
<1>2. D \ followed(D) = {f[n]}
  BY <1>1, AllButLastFollowed
<1>3. Cardinality({f[n]}) = 1
  BY FS_Singleton
<1> QED
  BY <1>2, <1>3 DEF closing_row

-----------------------------------------------------------------------------
(* Sums of amounts *)

Amt(f) == [i \in DOMAIN f |-> f[i].amt]

\* Finitely many rows or entries, each with an amount.
Amounted(f) == IsFiniteSet(DOMAIN f) /\ \A i \in DOMAIN f : f[i].amt \in Int

\* The total of the model is the sum of the amounts.
LEMMA TotalSummed ==
  ASSUME NEW f, NEW S \in SUBSET DOMAIN f
  PROVE  Total(f, S) = SumOver(Amt(f), S)
<1> DEFINE A(g) == [s \in SUBSET S |-> IF s = {} THEN 0 ELSE f[Taken(s)].amt + g[s \ {Taken(s)}]]
<1>1. ASSUME NEW g PROVE A(g) = Round(Amt(f), S, g)
  <2>1. \A s \in SUBSET S : s # {} => Amt(f)[Taken(s)] = f[Taken(s)].amt
    BY DEF Taken, Amt
  <2> QED BY <2>1 DEF Round
<1>2. /\ Total(f, S) = (CHOOSE g : g = A(g))[S]
      /\ SumOver(Amt(f), S) = (CHOOSE g : g = Round(Amt(f), S, g))[S]
  BY Zenon DEF Total, SumOver, MapThenSumSet, MapThenFoldSet, Round, Taken
<1> HIDE DEF A
<1>3. (CHOOSE g : g = A(g)) = (CHOOSE g : g = Round(Amt(f), S, g))
  BY <1>1, Zenon
<1> QED BY <1>2, <1>3

\* A total is a number, nothing adds up to nothing, and one element adds its own.
LEMMA TotalLess ==
  ASSUME NEW f, Amounted(f), NEW S \in SUBSET DOMAIN f
  PROVE  /\ IsFiniteSet(S)
         /\ Total(f, S) \in Int
         /\ Total(f, {}) = 0
         /\ \A x \in S : Total(f, S) = f[x].amt + Total(f, S \ {x})
<1>1. IsFiniteSet(S)
  BY FS_Subset DEF Amounted
<1>2. \A x \in S : Amt(f)[x] \in Int /\ Amt(f)[x] = f[x].amt
  BY DEF Amt, Amounted
<1>3. Total(f, S) = SumOver(Amt(f), S) /\ Total(f, {}) = SumOver(Amt(f), {})
  BY TotalSummed
<1>4. Total(f, S) \in Int
  <2>1. SumOver(Amt(f), S) \in Int
    BY <1>1, <1>2, SumLess
  <2> QED BY <1>3, <2>1
<1>5. ASSUME NEW x \in S PROVE Total(f, S) = f[x].amt + Total(f, S \ {x})
  <2>1. SumOver(Amt(f), S) = Amt(f)[x] + SumOver(Amt(f), S \ {x})
    BY <1>1, <1>2, SumLess
  <2>2. Total(f, S \ {x}) = SumOver(Amt(f), S \ {x})
    BY TotalSummed
  <2> QED BY <1>2, <1>3, <2>1, <2>2
<1> QED BY <1>1, <1>3, <1>4, <1>5, SumOfNone

\* What is apart adds up.
LEMMA TotalOfUnion ==
  ASSUME NEW f, Amounted(f), NEW A \in SUBSET DOMAIN f, NEW B \in SUBSET DOMAIN f, A \cap B = {}
  PROVE  Total(f, A \cup B) = Total(f, A) + Total(f, B)
<1>1. IsFiniteSet(A) /\ IsFiniteSet(B)
  BY TotalLess
<1>2. \A x \in A \cup B : Amt(f)[x] \in Int
  BY DEF Amt, Amounted
<1>3. SumOver(Amt(f), A \cup B) = SumOver(Amt(f), A) + SumOver(Amt(f), B)
  BY <1>1, <1>2, SumOfUnion
<1>4. A \cup B \in SUBSET DOMAIN f
  OBVIOUS
<1> QED BY <1>3, <1>4, TotalSummed

\* Equal amounts, equal totals.
LEMMA TotalSame ==
  ASSUME NEW f, NEW g, NEW S \in SUBSET (DOMAIN f \cap DOMAIN g),
         \A i \in S : f[i].amt = g[i].amt
  PROVE  Total(f, S) = Total(g, S)
<1>1. Total(f, S) = SumOver(Amt(f), S) /\ Total(g, S) = SumOver(Amt(g), S)
  BY TotalSummed
<1>2. \A i \in S : Amt(f)[i] = Amt(g)[i]
  BY DEF Amt
<1> QED BY <1>1, <1>2, SumSame

\* Rows that stand for entries, each for one, come to what these come to.
LEMMA TotalMatched ==
  ASSUME NEW f, NEW g, Amounted(f), Amounted(g),
         NEW R \in SUBSET DOMAIN f, NEW n, \A x \in R : n[x] \in DOMAIN g,
         \A x, y \in R : n[x] = n[y] => x = y,
         \A x \in R : f[x].amt = g[n[x]].amt
  PROVE  Total(f, R) = Total(g, {n[x] : x \in R})
<1>1. IsFiniteSet(R)
  BY TotalLess
<1>2. \A x \in R : Amt(g)[n[x]] \in Int /\ Amt(f)[x] = Amt(g)[n[x]]
  BY DEF Amt, Amounted
<1>3. SumOver(Amt(g), {n[x] : x \in R}) = SumOver([x \in R |-> Amt(g)[n[x]]], R)
  BY <1>1, <1>2, SumRenamed
<1> DEFINE d == [x \in R |-> Amt(g)[n[x]]]
<1>4. \A x \in R : Amt(f)[x] = d[x]
  BY <1>2
<1> HIDE DEF d
<1>5. SumOver(Amt(f), R) = SumOver(d, R)
  BY <1>4, SumSame
<1>6. {n[x] : x \in R} \in SUBSET DOMAIN g
  OBVIOUS
<1>7. Total(f, R) = SumOver(Amt(f), R) /\ Total(g, {n[x] : x \in R}) = SumOver(Amt(g), {n[x] : x \in R})
  BY <1>6, TotalSummed
<1> QED BY <1>3, <1>5, <1>7 DEF d

-----------------------------------------------------------------------------
(* Lists of entries *)

\* Finitely many entries can be listed, oldest or newest first: each once.
LEMMA ListedOnce ==
  ASSUME NEW S, IsFiniteSet(S), S \subseteq Nat, NEW newestFirst \in BOOLEAN
  PROVE  LET l == Listed(S, newestFirst) IN
         /\ Cardinality(S) \in Nat
         /\ l \in [1 .. Cardinality(S) -> S]
         /\ \A i, j \in 1 .. Cardinality(S) : l[i] = l[j] => i = j
         /\ \A x \in S : \E i \in 1 .. Cardinality(S) : l[i] = x
<1>0. /\ Cardinality(S) \in Nat
      /\ \E l \in [1 .. Cardinality(S) -> S] :
           \A i, j \in 1 .. Cardinality(S) : i < j => l[i] < l[j]
  BY InOrder
<1>4. PICK l \in [1 .. Cardinality(S) -> S] :
             \A i, j \in 1 .. Cardinality(S) : i < j => l[i] < l[j]
  BY <1>0
<1> DEFINE n == Cardinality(S)
           d == [i \in 1 .. n |-> l[n + 1 - i]]
           Good(k) == \A i, j \in DOMAIN k : i < j => IF newestFirst THEN k[i] > k[j] ELSE k[i] < k[j]
<1>5. n \in Nat
  BY <1>0
<1>6. \E k \in [1 .. n -> S] : Good(k)
  <2>1. CASE newestFirst
    <3>1. \A i \in 1 .. n : n + 1 - i \in 1 .. n
      BY <1>5
    <3>2. d \in [1 .. n -> S]
      BY <1>4, <3>1
    <3>3. ASSUME NEW i \in 1 .. n, NEW j \in 1 .. n, i < j PROVE d[i] > d[j]
      <4>1. n + 1 - j < n + 1 - i /\ n + 1 - j \in 1 .. n /\ n + 1 - i \in 1 .. n
        BY <1>5, <3>1, <3>3
      <4>2. l[n + 1 - j] < l[n + 1 - i] /\ l[n + 1 - j] \in Nat /\ l[n + 1 - i] \in Nat
        BY <1>4, <4>1
      <4> QED BY <4>2
    <3> HIDE DEF d
    <3>4. Good(d)
      BY <2>1, <3>2, <3>3
    <3> QED BY <3>2, <3>4
  <2>2. CASE ~newestFirst
    <3>1. l \in [1 .. n -> S] /\ Good(l)
      BY <1>4, <2>2
    <3> QED BY <3>1
  <2> QED BY <2>1, <2>2
<1>7. Listed(S, newestFirst) \in [1 .. n -> S] /\ Good(Listed(S, newestFirst))
  BY <1>6, Zenon DEF Listed
<1> DEFINE k == Listed(S, newestFirst)
<1> HIDE DEF k
<1>8. ASSUME NEW i \in 1 .. n, NEW j \in 1 .. n, k[i] = k[j] PROVE i = j
  <2>1. k[i] \in Nat /\ k[j] \in Nat /\ DOMAIN k = 1 .. n
    BY <1>7 DEF k
  <2>2. (i < j => k[i] # k[j]) /\ (j < i => k[i] # k[j])
    <3>1. i < j => IF newestFirst THEN k[i] > k[j] ELSE k[i] < k[j]
      BY <1>7, <2>1 DEF k
    <3>2. j < i => IF newestFirst THEN k[j] > k[i] ELSE k[j] < k[i]
      BY <1>7, <2>1 DEF k
    <3> QED BY <2>1, <3>1, <3>2
  <2> QED BY <1>5, <1>8, <2>2
<1>9. k \in Injection(1 .. n, S)
  BY <1>7, <1>8 DEF Injection, IsInjective, k
<1>10. k \in Surjection(1 .. n, S)
  BY <1>5, <1>9, FS_Interval, FS_Injection
<1>11. \A x \in S : \E i \in 1 .. n : k[i] = x
  BY <1>10 DEF Surjection
<1> QED BY <1>5, <1>7, <1>8, <1>11 DEF k

-----------------------------------------------------------------------------
(* The invariant *)

\* Entries post in the order of the book, none before its day.
BookInOrder ==
  /\ Len(book) <= MaxBook
  /\ \A e \in DOMAIN book :
       /\ book[e].day <= book[e].post /\ book[e].post <= today
       /\ book[e].post - book[e].day \in Lags
       /\ kind # "card" => book[e].day = book[e].post
  /\ \A d, e \in DOMAIN book : d < e => book[d].post <= book[e].post

\* A row is entered by hand or is what a file says of an entry, no entry twice.
RowsFromBook ==
  /\ \A i \in DOMAIN rows : IF rows[i].entry = 0
                            THEN rows[i].balance_after = None /\ ~rows[i].posted_after
                            ELSE \E e \in DOMAIN book : rows[i] = RowOf(e)
  /\ \A i, j \in DOMAIN rows : rows[i].entry = rows[j].entry /\ rows[i].entry # 0 => i = j

\* Of what posted on one day the ledger has the first entries.
DaysFromTheFirst ==
  \A d, e \in DOMAIN book : d < e /\ book[d].post = book[e].post /\ e \in Held => d \in Held

\* A recorded statement is past and right, and a balance that is a statement's
\* has one.
StatementsKept ==
  /\ \A d \in Days : snaps[d] # None => d < today /\ snaps[d] = Paper(d)
  /\ acct.source = "latest_statement" => kind = "card" /\ \E d \in Days : snaps[d] # None
  /\ HasStatement => acct.statement_balance_as_of \in Days

BalInv == TypeOK /\ BookInOrder /\ RowsFromBook /\ DaysFromTheFirst /\ StatementsKept

AnEntry == [day : Days, post : Days, amt : Amounts]
AnAccount == [source : {"transaction_sum", "hybrid", "latest_statement"},
              statement_balance : Int \cup {None},
              statement_balance_as_of : Days \cup {None},
              current_value : Int \cup {None}]
ARow == [entry : 0 .. MaxBook, day : Days, amt : Amounts \cup HandAmounts,
         balance_after : Int \cup {None}, posted_after : BOOLEAN]

\* What the shapes say of the entries and the rows one by one.
LEMMA Shapes ==
  ASSUME TypeOK
  PROVE  /\ Len(book) \in Nat /\ DOMAIN book = 1 .. Len(book) /\ Amounted(book)
         /\ Len(rows) \in Nat /\ DOMAIN rows = 1 .. Len(rows) /\ Amounted(rows)
         /\ \A i \in DOMAIN book : book[i] \in AnEntry
         /\ \A i \in DOMAIN rows : rows[i] \in ARow
         /\ today \in Nat \ {0} /\ today <= LastDay
         /\ Days \subseteq Nat \ {0}
<1> USE BalanceAssumption
<1>1. /\ Len(book) \in Nat /\ DOMAIN book = 1 .. Len(book)
      /\ Len(rows) \in Nat /\ DOMAIN rows = 1 .. Len(rows)
      /\ \A i \in DOMAIN book : book[i] \in AnEntry
      /\ \A i \in DOMAIN rows : rows[i] \in ARow
  <2>1. book \in Seq(AnEntry) /\ rows \in Seq(ARow)
    BY DEF TypeOK, AnEntry, ARow
  <2> QED BY <2>1
<1>2. IsFiniteSet(1 .. Len(book)) /\ IsFiniteSet(1 .. Len(rows))
  BY <1>1, FS_Interval
<1>3. Amounts \subseteq Int /\ HandAmounts \subseteq Int
  OBVIOUS
<1>4. \A i \in DOMAIN book : book[i].amt \in Int
  BY <1>1, <1>3 DEF AnEntry
<1>5. \A i \in DOMAIN rows : rows[i].amt \in Int
  BY <1>1, <1>3 DEF ARow
<1>6. today \in Nat \ {0} /\ today <= LastDay /\ Days \subseteq Nat \ {0}
  BY DEF TypeOK, Days
<1> QED BY <1>1, <1>2, <1>4, <1>5, <1>6 DEF Amounted

\* The book's sums are numbers, and each entry adds its amount.
LEMMA BookAddsUp ==
  ASSUME TypeOK
  PROVE  /\ \A n \in 0 .. Len(book) : Running(n) \in Int
         /\ \A n \in 1 .. Len(book) : Running(n) = Running(n - 1) + book[n].amt
         /\ \A d \in Days : Paper(d) \in Int
<1> USE BalanceAssumption
<1>1. /\ Len(book) \in Nat /\ DOMAIN book = 1 .. Len(book) /\ Amounted(book)
      /\ \A i \in DOMAIN book : book[i].amt \in Int
  BY Shapes DEF Amounted
<1>2. \A n \in 0 .. Len(book) : Running(n) \in Int
  <2> SUFFICES ASSUME NEW n \in 0 .. Len(book) PROVE Running(n) \in Int
    OBVIOUS
  <2>1. 1 .. n \in SUBSET DOMAIN book
    BY <1>1
  <2>2. Total(book, 1 .. n) \in Int
    BY <1>1, <2>1, TotalLess
  <2> QED BY <2>2 DEF Running
<1>3. \A n \in 1 .. Len(book) : Running(n) = Running(n - 1) + book[n].amt
  <2> SUFFICES ASSUME NEW n \in 1 .. Len(book) PROVE Running(n) = Running(n - 1) + book[n].amt
    OBVIOUS
  <2>1. 1 .. n \in SUBSET DOMAIN book /\ n \in 1 .. n /\ (1 .. n) \ {n} = 1 .. n - 1
        /\ 1 .. n - 1 \in SUBSET DOMAIN book
    BY <1>1
  <2>2. Total(book, 1 .. n) = book[n].amt + Total(book, 1 .. n - 1)
        /\ Total(book, 1 .. n - 1) \in Int /\ book[n].amt \in Int
    BY <1>1, <2>1, TotalLess
  <2> QED BY <2>2 DEF Running
<1>4. ASSUME NEW d \in Days PROVE Paper(d) \in Int
  <2>1. PostedBy(d) \in SUBSET DOMAIN book
    BY DEF PostedBy
  <2>2. Total(book, PostedBy(d)) \in Int
    BY <1>1, <2>1, TotalLess
  <2> QED BY <2>2 DEF Paper, InStatementTerms
<1> QED BY <1>2, <1>3, <1>4

\* A row made of an entry has a row's shape.
LEMMA RowShaped ==
  ASSUME TypeOK, BookInOrder, NEW e \in DOMAIN book
  PROVE  RowOf(e) \in ARow /\ RowOf(e).entry = e /\ e # 0 /\ e \in 1 .. MaxBook
<1>1. /\ Len(book) \in Nat /\ Len(book) <= MaxBook /\ DOMAIN book = 1 .. Len(book)
      /\ book[e] \in AnEntry /\ MaxBook \in Nat
  BY Shapes, BalanceAssumption DEF BookInOrder
<1>2. Running(e) \in Int
  BY <1>1, BookAddsUp
<1>3. (book[e].post > book[e].day) \in BOOLEAN
  BY <1>1 DEF AnEntry, Days
<1> QED BY <1>1, <1>2, <1>3 DEF RowOf, ARow, AnEntry

\* The rows of a file have the shapes of rows, and with them the ledger still has
\* each entry once and of each day the first ones.
LEMMA FileAdds ==
  ASSUME BalInv, NEW lo \in Int, NEW hi \in Int, NEW newestFirst \in BOOLEAN,
         rows' = rows \o FileRows(lo, hi, newestFirst), kind' = kind, book' = book
  PROVE  /\ rows' \in Seq(ARow)
         /\ RowsFromBook'
         /\ DaysFromTheFirst'
<1> DEFINE S == {i \in DOMAIN book : book[i].post \in lo .. hi} \ Held
           l == Listed(S, newestFirst)
           c == Cardinality(S)
           m == Len(rows)
<1>1. /\ Len(book) \in Nat /\ DOMAIN book = 1 .. Len(book)
      /\ m \in Nat /\ DOMAIN rows = 1 .. m
      /\ \A i \in DOMAIN rows : rows[i] \in ARow
      /\ IsFiniteSet(DOMAIN book)
  BY Shapes DEF BalInv, Amounted
<1>2. IsFiniteSet(S) /\ S \subseteq Nat
  BY <1>1, FS_Subset
<1>3. /\ c \in Nat /\ l \in [1 .. c -> S]
      /\ \A i, j \in 1 .. c : l[i] = l[j] => i = j
      /\ \A x \in S : \E i \in 1 .. c : l[i] = x
  <2> HIDE DEF S
  <2> QED BY <1>2, ListedOnce
<1>4. FileRows(lo, hi, newestFirst) = [k \in 1 .. c |-> RowOf(l[k])]
  <2>1. FileRows(lo, hi, newestFirst) = [k \in DOMAIN l |-> RowOf(l[k])]
    BY DEF FileRows
  <2>2. DOMAIN l = 1 .. c
    BY <1>3
  <2> QED BY <2>1, <2>2
<1> HIDE DEF l, c
<1>5. \A k \in 1 .. c : l[k] \in S /\ l[k] \in DOMAIN book /\ RowOf(l[k]) \in ARow
        /\ RowOf(l[k]).entry = l[k] /\ l[k] # 0 /\ l[k] \notin Held
  BY <1>3, RowShaped DEF BalInv
<1> DEFINE F == [k \in 1 .. c |-> RowOf(l[k])]
<1>6. F \in Seq(ARow) /\ Len(F) = c
  BY <1>3, <1>5
<1>7. rows \in Seq(ARow)
  BY DEF BalInv, TypeOK, ARow
<1>8. /\ rows' \in Seq(ARow) /\ DOMAIN rows' = 1 .. m + c
      /\ \A i \in 1 .. m : rows'[i] = rows[i]
      /\ \A i \in m + 1 .. m + c : rows'[i] = RowOf(l[i - m]) /\ i - m \in 1 .. c
  <2>1. rows' = rows \o F
    BY <1>4
  <2>2. \A i \in m + 1 .. m + c : i - m \in 1 .. c /\ F[i - m] = RowOf(l[i - m])
    BY <1>1, <1>3
  <2> HIDE DEF F
  <2>3. rows' \in Seq(ARow) /\ Len(rows') = m + c
    <3>1. rows \o F \in Seq(ARow)
      BY <1>6, <1>7
    <3>2. Len(rows \o F) = m + c
      BY <1>6, <1>7
    <3> QED BY <2>1, <3>1, <3>2
  <2>4. \A i \in 1 .. m + c : rows'[i] = IF i <= m THEN rows[i] ELSE F[i - m]
    BY <1>1, <1>3, <1>6, <1>7, <2>1
  <2> QED BY <1>1, <1>3, <2>2, <2>3, <2>4
<1>9. \A i \in DOMAIN rows' : (i \in 1 .. m) \/ (i \in m + 1 .. m + c)
  BY <1>1, <1>3, <1>8
<1>10. \A e : RowOf(e)' = RowOf(e)
  BY DEF RowOf, HasBalanceColumn, Running
<1>11. ASSUME NEW i \in DOMAIN rows'
       PROVE  IF rows'[i].entry = 0
              THEN rows'[i].balance_after = None /\ ~rows'[i].posted_after
              ELSE \E e \in DOMAIN book' : rows'[i] = RowOf(e)'
  <2>1. CASE i \in 1 .. m
    BY <1>1, <1>8, <1>10, <2>1 DEF BalInv, RowsFromBook
  <2>2. CASE i \in m + 1 .. m + c
    BY <1>5, <1>8, <1>10, <2>2
  <2> QED BY <1>9, <2>1, <2>2
<1>12. ASSUME NEW i \in DOMAIN rows', NEW j \in DOMAIN rows',
              rows'[i].entry = rows'[j].entry, rows'[i].entry # 0
       PROVE  i = j
  <2>1. ASSUME NEW x \in 1 .. m, NEW y \in m + 1 .. m + c PROVE rows'[x].entry # rows'[y].entry
    <3>1. rows'[y].entry = l[y - m] /\ l[y - m] # 0 /\ l[y - m] \notin Held
      BY <1>5, <1>8
    <3>2. rows'[x].entry = 0 \/ rows'[x].entry \in Held
      BY <1>1, <1>8 DEF Held, Hand
    <3> QED BY <3>1, <3>2
  <2>2. CASE i \in 1 .. m /\ j \in 1 .. m
    BY <1>1, <1>8, <1>12, <2>2 DEF BalInv, RowsFromBook
  <2>3. CASE i \in m + 1 .. m + c /\ j \in m + 1 .. m + c
    <3>1. l[i - m] = l[j - m] /\ i - m \in 1 .. c /\ j - m \in 1 .. c
      BY <1>5, <1>8, <1>12, <2>3
    <3>2. i - m = j - m
      BY <1>3, <3>1
    <3> QED BY <1>1, <1>3, <2>3, <3>2
  <2> QED BY <1>9, <1>12, <2>1, <2>2, <2>3
<1>13. RowsFromBook'
  BY <1>11, <1>12 DEF RowsFromBook
<1>14. Held' = Held \cup S
  <2>1. Held' = {rows'[i].entry : i \in {i \in DOMAIN rows' : rows'[i].entry # 0}}
    BY DEF Held, Hand
  <2>2. Held = {rows[i].entry : i \in {i \in DOMAIN rows : rows[i].entry # 0}}
    BY DEF Held, Hand
  <2>3. ASSUME NEW x \in Held' PROVE x \in Held \cup S
    <3>1. PICK i \in DOMAIN rows' : rows'[i].entry # 0 /\ x = rows'[i].entry
      BY <2>1
    <3>2. CASE i \in 1 .. m
      BY <1>1, <1>8, <2>2, <3>1, <3>2
    <3>3. CASE i \in m + 1 .. m + c
      <4>1. i - m \in 1 .. c /\ rows'[i] = RowOf(l[i - m])
        BY <1>8, <3>3
      <4>2. rows'[i].entry = l[i - m] /\ l[i - m] \in S
        BY <1>5, <4>1
      <4> QED BY <3>1, <4>2
    <3> QED BY <1>9, <3>2, <3>3
  <2>4. ASSUME NEW x \in Held PROVE x \in Held'
    <3>1. PICK i \in DOMAIN rows : rows[i].entry # 0 /\ x = rows[i].entry
      BY <2>2
    <3>2. i \in DOMAIN rows' /\ rows'[i] = rows[i]
      BY <1>1, <1>3, <1>8
    <3> QED BY <2>1, <3>1, <3>2
  <2>5. ASSUME NEW x \in S PROVE x \in Held'
    <3>1. PICK k \in 1 .. c : l[k] = x
      BY <1>3
    <3>2. m + k \in m + 1 .. m + c /\ (m + k) - m = k /\ m + k \in DOMAIN rows'
      BY <1>1, <1>3, <1>8
    <3>3. rows'[m + k].entry = x /\ x # 0
      BY <1>5, <1>8, <3>1, <3>2
    <3> QED BY <2>1, <3>2, <3>3
  <2> QED BY <2>3, <2>4, <2>5
<1>15. DaysFromTheFirst'
  <2> SUFFICES ASSUME NEW d \in DOMAIN book, NEW e \in DOMAIN book,
                      d < e, book[d].post = book[e].post, e \in Held'
               PROVE  d \in Held'
    BY DEF DaysFromTheFirst
  <2> QED BY <1>14 DEF BalInv, DaysFromTheFirst
<1> QED BY <1>8, <1>13, <1>15

\* While the book stays, so do its order, its rows and its statements.
LEMMA BookStays ==
  ASSUME BalInv, kind' = kind, book' = book
  PROVE  /\ \A e : RowOf(e)' = RowOf(e)
         /\ \A d : Paper(d)' = Paper(d)
         /\ today' \in Int /\ today <= today' => BookInOrder'
         /\ rows' = rows => RowsFromBook' /\ DaysFromTheFirst'
<1>1. \A e : RowOf(e)' = RowOf(e)
  BY DEF RowOf, HasBalanceColumn, Running
<1>2. \A d : Paper(d)' = Paper(d)
  BY DEF Paper, InStatementTerms, is_asset, PostedBy
<1>3. ASSUME today' \in Int, today <= today' PROVE BookInOrder'
  <2>1. /\ \A e \in DOMAIN book : book[e].post \in Int
        /\ today \in Int
    BY Shapes DEF BalInv, AnEntry, Days
  <2>2. \A e \in DOMAIN book : book[e].post <= today'
    BY <1>3, <2>1 DEF BalInv, BookInOrder
  <2> QED BY <2>2 DEF BalInv, BookInOrder
<1>4. ASSUME rows' = rows PROVE RowsFromBook' /\ DaysFromTheFirst'
  <2>1. RowsFromBook'
    BY <1>1, <1>4 DEF BalInv, RowsFromBook
  <2>2. Held' = Held
    BY <1>4 DEF Held, Hand
  <2> QED BY <1>4, <2>1, <2>2 DEF BalInv, DaysFromTheFirst
<1> QED BY <1>1, <1>2, <1>3, <1>4

LEMMA BalInvInit == Init => BalInv
<1> SUFFICES ASSUME Init PROVE BalInv
  OBVIOUS
<1> USE BalanceAssumption
<1>1. TypeOK
  <2>1. book \in Seq(AnEntry) /\ rows \in Seq(ARow)
    BY DEF Init
  <2>2. acct \in AnAccount
    BY DEF Init, AnAccount
  <2>3. snaps \in [Days -> Int \cup {None}] /\ today \in Days /\ kind \in Kinds
    BY DEF Init, Days
  <2> QED BY <2>1, <2>2, <2>3 DEF TypeOK, AnEntry, ARow, AnAccount
<1>2. BookInOrder /\ RowsFromBook /\ DaysFromTheFirst
  BY DEF Init, BookInOrder, RowsFromBook, DaysFromTheFirst
<1>3. StatementsKept
  BY DEF Init, StatementsKept, HasStatement
<1> QED BY <1>1, <1>2, <1>3 DEF BalInv

\* An entry that posts today is on no statement yet.
LEMMA PostKeeps ==
  ASSUME BalInv, NEW amt \in Amounts, NEW lag \in Lags, Post(amt, lag)
  PROVE  BalInv'
<1> USE BalanceAssumption
<1> DEFINE n == Len(book)
           e0 == [day |-> today - lag, post |-> today, amt |-> amt]
<1>0. /\ n \in Nat /\ DOMAIN book = 1 .. n /\ Amounted(book)
      /\ \A i \in DOMAIN book : book[i] \in AnEntry
      /\ today \in Nat \ {0} /\ today <= LastDay
      /\ lag \in Nat /\ lag < today
  BY Shapes DEF BalInv, Post
<1>1. e0 \in AnEntry
  BY <1>0 DEF AnEntry, Days
<1>2. book \in Seq(AnEntry)
  BY DEF BalInv, TypeOK, AnEntry
<1>3. /\ book' \in Seq(AnEntry) /\ Len(book') = n + 1 /\ DOMAIN book' = 1 .. n + 1
      /\ \A i \in 1 .. n : book'[i] = book[i]
      /\ book'[n + 1] = e0
  <2> HIDE DEF e0
  <2>1. book' = Append(book, e0)
    BY DEF Post, e0
  <2> QED BY <1>0, <1>1, <1>2, <2>1
<1> HIDE DEF n
<1>4. rows' = rows /\ kind' = kind /\ acct' = acct /\ snaps' = snaps /\ today' = today
  BY DEF Post
<1>5. TypeOK'
  BY <1>3, <1>4 DEF BalInv, TypeOK, AnEntry
<1>6. ASSUME NEW S \in SUBSET (1 .. n) PROVE Total(book', S) = Total(book, S)
  BY <1>0, <1>3, TotalSame
<1>7. BookInOrder'
  <2>1. ASSUME NEW e \in DOMAIN book'
        PROVE  /\ book'[e].day <= book'[e].post /\ book'[e].post <= today
               /\ book'[e].post - book'[e].day \in Lags
               /\ kind # "card" => book'[e].day = book'[e].post
    <3>1. CASE e \in 1 .. n
      BY <1>0, <1>3, <3>1 DEF BalInv, BookInOrder
    <3>2. CASE e = n + 1
      <4>1. today - lag <= today /\ today - (today - lag) = lag /\ today <= today
        BY <1>0
      <4>2. kind # "card" => lag = 0
        BY DEF Post
      <4> QED BY <1>0, <1>3, <3>2, <4>1, <4>2
    <3> QED BY <1>0, <1>3, <3>1, <3>2
  <2>2. ASSUME NEW d \in DOMAIN book', NEW e \in DOMAIN book', d < e
        PROVE  book'[d].post <= book'[e].post
    <3>1. d \in 1 .. n
      BY <1>0, <1>3, <2>2
    <3>2. CASE e \in 1 .. n
      BY <1>0, <1>3, <2>2, <3>1, <3>2 DEF BalInv, BookInOrder
    <3>3. CASE e = n + 1
      BY <1>0, <1>3, <3>1, <3>3 DEF BalInv, BookInOrder
    <3> QED BY <1>0, <1>3, <3>2, <3>3
  <2>3. Len(book') <= MaxBook
    BY <1>0, <1>3 DEF Post, n
  <2> QED BY <1>4, <2>1, <2>2, <2>3 DEF BookInOrder
<1>8. ASSUME NEW e \in 1 .. n PROVE RowOf(e)' = RowOf(e)
  <2>1. 1 .. e \in SUBSET (1 .. n)
    BY <1>0
  <2>2. Running(e)' = Running(e)
    BY <1>6, <2>1 DEF Running
  <2> QED BY <1>3, <1>4, <2>2 DEF RowOf, HasBalanceColumn
<1>9. RowsFromBook'
  BY <1>0, <1>3, <1>4, <1>8 DEF BalInv, RowsFromBook
<1>10. Held' = Held
  BY <1>4 DEF Held, Hand
<1>11. Held \subseteq 1 .. n
  <2>1. \A e \in 1 .. n : RowOf(e).entry = e
    BY DEF RowOf
  <2> QED BY <1>0, <2>1 DEF BalInv, RowsFromBook, Held, Hand
<1>12. DaysFromTheFirst'
  <2> SUFFICES ASSUME NEW d \in DOMAIN book', NEW e \in DOMAIN book',
                      d < e, book'[d].post = book'[e].post, e \in Held
               PROVE  d \in Held
    BY <1>10 DEF DaysFromTheFirst
  <2>1. e \in 1 .. n /\ d \in 1 .. n
    BY <1>0, <1>3, <1>11
  <2> QED BY <1>0, <1>3, <2>1 DEF BalInv, DaysFromTheFirst
<1>13. ASSUME NEW d \in Days, d < today PROVE Paper(d)' = Paper(d)
  <2>1. PostedBy(d)' = PostedBy(d)
    <3>1. ~ book'[n + 1].post <= d /\ d \in Int
      BY <1>0, <1>3, <1>13 DEF Days
    <3> QED BY <1>0, <1>3, <3>1 DEF PostedBy
  <2>2. PostedBy(d) \in SUBSET (1 .. n)
    BY <1>0 DEF PostedBy
  <2>3. Total(book', PostedBy(d)) = Total(book, PostedBy(d))
    BY <1>6, <2>2
  <2> QED BY <1>4, <2>1, <2>3 DEF Paper, InStatementTerms, is_asset
<1>14. StatementsKept'
  BY <1>4, <1>13 DEF BalInv, StatementsKept, HasStatement
<1> QED BY <1>5, <1>7, <1>9, <1>12, <1>14 DEF BalInv

LEMMA BalInvNext == BalInv /\ [Next]_vars => BalInv'
<1> SUFFICES ASSUME BalInv, [Next]_vars PROVE BalInv'
  OBVIOUS
<1> USE BalanceAssumption
<1>0. today \in Nat \ {0} /\ today <= LastDay
  BY Shapes DEF BalInv
<1>1. ASSUME NEW amt \in Amounts, NEW lag \in Lags, Post(amt, lag) PROVE BalInv'
  BY <1>1, PostKeeps
<1>2. CASE NextDay
  <2>1. /\ kind' = kind /\ book' = book /\ rows' = rows /\ acct' = acct /\ snaps' = snaps
        /\ today' = today + 1 /\ today' \in Days
    BY <1>0, <1>2 DEF NextDay, Days
  <2>2. TypeOK'
    BY <2>1 DEF BalInv, TypeOK
  <2>3. BookInOrder' /\ RowsFromBook' /\ DaysFromTheFirst'
    BY <1>0, <2>1, BookStays
  <2>4. StatementsKept'
    <3>1. \A d \in Days : d < today => d < today'
      BY <1>0, <2>1 DEF Days
    <3> QED BY <2>1, <3>1, BookStays DEF BalInv, StatementsKept, HasStatement
  <2> QED BY <2>2, <2>3, <2>4 DEF BalInv
<1>3. ASSUME NEW lo \in 1 .. today, NEW newestFirst \in Orders, ImportFile(lo, newestFirst)
      PROVE  BalInv'
  <2>1. /\ kind' = kind /\ book' = book /\ acct' = acct /\ snaps' = snaps /\ today' = today
        /\ rows' = rows \o FileRows(lo, today, newestFirst)
    BY <1>3 DEF ImportFile
  <2>2. newestFirst \in BOOLEAN
    BY DEF Orders
  <2>3. rows' \in Seq(ARow) /\ RowsFromBook' /\ DaysFromTheFirst'
    BY <1>0, <2>1, <2>2, FileAdds
  <2>4. TypeOK'
    BY <2>1, <2>3 DEF BalInv, TypeOK, ARow
  <2>5. BookInOrder'
    BY <1>0, <2>1, BookStays
  <2>6. StatementsKept'
    BY <2>1, BookStays DEF BalInv, StatementsKept, HasStatement
  <2> QED BY <2>3, <2>4, <2>5, <2>6 DEF BalInv
<1>4. ASSUME NEW day \in Days, NEW amt \in HandAmounts, HandRow(day, amt) PROVE BalInv'
  <2> DEFINE n == Len(rows)
             r0 == [entry |-> 0, day |-> day, amt |-> amt, balance_after |-> None,
                    posted_after |-> FALSE]
  <2>1. /\ kind' = kind /\ book' = book /\ acct' = acct /\ snaps' = snaps /\ today' = today
    BY <1>4 DEF HandRow
  <2>2. r0 \in ARow
    BY DEF ARow
  <2>3. rows \in Seq(ARow) /\ n \in Nat /\ DOMAIN rows = 1 .. n
    BY Shapes DEF BalInv, TypeOK, ARow
  <2>4. /\ rows' \in Seq(ARow) /\ DOMAIN rows' = 1 .. n + 1
        /\ \A i \in 1 .. n : rows'[i] = rows[i]
        /\ rows'[n + 1] = r0
    <3> HIDE DEF r0
    <3>1. rows' = Append(rows, r0)
      BY <1>4 DEF HandRow, r0
    <3> QED BY <2>2, <2>3, <3>1
  <2> HIDE DEF n
  <2>5. TypeOK'
    BY <2>1, <2>4 DEF BalInv, TypeOK, ARow
  <2>6. \A i \in DOMAIN rows' : i \in 1 .. n \/ i = n + 1
    BY <2>3, <2>4
  <2>7. rows'[n + 1].entry = 0 /\ rows'[n + 1].balance_after = None /\ ~rows'[n + 1].posted_after
    BY <2>4
  <2>8. RowsFromBook'
    <3>1. \A e : RowOf(e)' = RowOf(e)
      BY <2>1, BookStays
    <3>2. ASSUME NEW i \in DOMAIN rows'
          PROVE  IF rows'[i].entry = 0
                 THEN rows'[i].balance_after = None /\ ~rows'[i].posted_after
                 ELSE \E e \in DOMAIN book' : rows'[i] = RowOf(e)'
      BY <2>1, <2>3, <2>4, <2>6, <2>7, <3>1 DEF BalInv, RowsFromBook
    <3>3. ASSUME NEW i \in DOMAIN rows', NEW j \in DOMAIN rows',
                 rows'[i].entry = rows'[j].entry, rows'[i].entry # 0
          PROVE  i = j
      BY <2>3, <2>4, <2>6, <2>7, <3>3 DEF BalInv, RowsFromBook
    <3> QED BY <3>2, <3>3 DEF RowsFromBook
  <2>9. DaysFromTheFirst'
    <3>1. Held' = Held
      <4>1. Held' = {rows'[i].entry : i \in {i \in DOMAIN rows' : rows'[i].entry # 0}}
        BY DEF Held, Hand
      <4>2. Held = {rows[i].entry : i \in {i \in DOMAIN rows : rows[i].entry # 0}}
        BY DEF Held, Hand
      <4>3. {i \in DOMAIN rows' : rows'[i].entry # 0} = {i \in DOMAIN rows : rows[i].entry # 0}
        BY <2>3, <2>4, <2>6, <2>7
      <4>4. \A i \in {i \in DOMAIN rows : rows[i].entry # 0} : rows'[i] = rows[i]
        BY <2>3, <2>4
      <4> QED BY <4>1, <4>2, <4>3, <4>4
    <3> QED BY <2>1, <3>1 DEF BalInv, DaysFromTheFirst
  <2>10. BookInOrder'
    BY <1>0, <2>1, BookStays
  <2>11. StatementsKept'
    BY <2>1, BookStays DEF BalInv, StatementsKept, HasStatement
  <2> QED BY <2>5, <2>8, <2>9, <2>10, <2>11 DEF BalInv
<1>5. ASSUME NEW d \in Days, NEW sign \in TypedSigns, TypeStatement(d, sign) PROVE BalInv'
  <2>1. /\ kind' = kind /\ book' = book /\ rows' = rows /\ snaps' = snaps /\ today' = today
    BY <1>5 DEF TypeStatement
  <2>2. sign * Paper(d) \in Int
    BY BookAddsUp DEF BalInv
  <2>3. /\ acct' \in AnAccount
        /\ acct'.statement_balance_as_of = d
        /\ acct'.source = "latest_statement" => acct.source = "latest_statement"
    BY <1>5, <2>2 DEF TypeStatement, BalInv, TypeOK, AnAccount
  <2>4. TypeOK'
    BY <2>1, <2>3 DEF BalInv, TypeOK, AnAccount
  <2>5. BookInOrder' /\ RowsFromBook' /\ DaysFromTheFirst'
    BY <1>0, <2>1, BookStays
  <2>6. StatementsKept'
    BY <2>1, <2>3, BookStays DEF BalInv, StatementsKept, HasStatement
  <2> QED BY <2>4, <2>5, <2>6 DEF BalInv
<1>6. CASE ClearStatement
  <2>1. /\ kind' = kind /\ book' = book /\ rows' = rows /\ snaps' = snaps /\ today' = today
    BY <1>6 DEF ClearStatement
  <2>2. /\ acct' \in AnAccount
        /\ acct'.statement_balance = None
        /\ acct'.source = "latest_statement" => acct.source = "latest_statement"
    BY <1>6 DEF ClearStatement, BalInv, TypeOK, AnAccount
  <2>3. TypeOK'
    BY <2>1, <2>2 DEF BalInv, TypeOK, AnAccount
  <2>4. BookInOrder' /\ RowsFromBook' /\ DaysFromTheFirst'
    BY <1>0, <2>1, BookStays
  <2>5. StatementsKept'
    BY <2>1, <2>2, BookStays DEF BalInv, StatementsKept, HasStatement
  <2> QED BY <2>3, <2>4, <2>5 DEF BalInv
<1>7. ASSUME NEW d \in Days, NEW lo \in 1 .. d, UploadStatement(lo, d) PROVE BalInv'
  <2>1. /\ kind' = kind /\ book' = book /\ today' = today
        /\ rows' = rows \o FileRows(lo, d, FALSE)
        /\ d < today /\ kind = "card"
    BY <1>7 DEF UploadStatement, BalInv, TypeOK, is_asset
  <2>2. rows' \in Seq(ARow) /\ RowsFromBook' /\ DaysFromTheFirst'
    <3>1. d \in Int /\ lo \in Int
      BY DEF Days
    <3> QED BY <2>1, <3>1, FileAdds
  <2>3. Paper(d) \in Int
    BY BookAddsUp DEF BalInv
  <2>4. /\ acct' \in AnAccount
        /\ acct'.statement_balance_as_of = d
        /\ snaps' \in [Days -> Int \cup {None}]
        /\ snaps' = [snaps EXCEPT ![d] = Paper(d)]
    BY <1>7, <2>3 DEF UploadStatement, BalInv, TypeOK, AnAccount
  <2>5. TypeOK'
    BY <2>1, <2>2, <2>4 DEF BalInv, TypeOK, ARow, AnAccount
  <2>6. BookInOrder'
    BY <1>0, <2>1, BookStays
  <2>7. StatementsKept'
    <3>1. snaps'[d] = Paper(d) /\ Paper(d) # None /\ \A e \in Days : e # d => snaps'[e] = snaps[e]
      BY <2>3, <2>4 DEF BalInv, TypeOK
    <3>2. \A e : Paper(e)' = Paper(e)
      BY <2>1, BookStays
    <3> QED BY <2>1, <2>4, <3>1, <3>2 DEF BalInv, StatementsKept, HasStatement
  <2> QED BY <2>2, <2>5, <2>6, <2>7 DEF BalInv
<1>8. CASE CloseSettled
  <2>1. /\ kind' = kind /\ book' = book /\ rows' = rows /\ snaps' = snaps /\ today' = today
    BY <1>8 DEF CloseSettled
  <2>2. /\ acct' \in AnAccount
        /\ acct'.statement_balance_as_of = today /\ today \in Days
        /\ acct'.source = acct.source
    <3>1. acct \in AnAccount /\ today \in Days /\ 0 \in Int
      BY DEF BalInv, TypeOK, AnAccount
    <3>2. acct' = [acct EXCEPT !.statement_balance = 0, !.statement_balance_as_of = today,
                               !.current_value = 0]
      BY <1>8 DEF CloseSettled
    <3> QED BY <3>1, <3>2 DEF AnAccount
  <2>3. TypeOK'
    BY <2>1, <2>2 DEF BalInv, TypeOK, AnAccount
  <2>4. BookInOrder' /\ RowsFromBook' /\ DaysFromTheFirst'
    BY <1>0, <2>1, BookStays
  <2>5. StatementsKept'
    BY <2>1, <2>2, BookStays DEF BalInv, StatementsKept, HasStatement
  <2> QED BY <2>3, <2>4, <2>5 DEF BalInv
<1>9. CASE UNCHANGED vars
  <2>1. /\ kind' = kind /\ book' = book /\ rows' = rows /\ acct' = acct /\ snaps' = snaps
        /\ today' = today
    BY <1>9 DEF vars
  <2>2. TypeOK'
    BY <2>1 DEF BalInv, TypeOK
  <2>3. BookInOrder' /\ RowsFromBook' /\ DaysFromTheFirst'
    BY <1>0, <2>1, BookStays
  <2>4. StatementsKept'
    BY <2>1, BookStays DEF BalInv, StatementsKept, HasStatement
  <2> QED BY <2>2, <2>3, <2>4 DEF BalInv
<1> QED BY <1>1, <1>2, <1>3, <1>4, <1>5, <1>6, <1>7, <1>8, <1>9 DEF Next

LEMMA BalInvHolds == Spec => []BalInv
<1> QED BY BalInvInit, BalInvNext, PTL DEF Spec

-----------------------------------------------------------------------------
(* The statements *)

\* The days of the statements up to a day are finitely many.
LEMMA StatementDays ==
  ASSUME BalInv, NEW d \in Int
  PROVE  SnapDays(d) # {} => /\ Max(SnapDays(d)) \in SnapDays(d)
                             /\ Max(SnapDays(d)) \in 1 .. d
<1>1. SnapDays(d) \subseteq 1 .. d /\ SnapDays(d) \subseteq Int
  BY DEF SnapDays
<1>2. IsFiniteSet(SnapDays(d))
  BY <1>1, FS_Interval, FS_Subset
<1> QED BY <1>1, <1>2, Greatest

\* No statement is recorded under today or a day to come.
LEMMA NoStatementAhead ==
  ASSUME BalInv
  PROVE  SnapDays(Ever) = SnapDays(today)
<1>1. today \in Nat /\ today <= LastDay /\ LastDay \in Nat
  BY Shapes, BalanceAssumption DEF BalInv
<1>2. \A d \in 1 .. LastDay : snaps[d] # None => d < today
  BY DEF BalInv, StatementsKept, Days
<1> QED BY <1>1, <1>2 DEF SnapDays, Ever

(***************************************************************************)
(* An uploaded statement settles the balance until a later one is          *)
(* uploaded: whatever the order of the uploads, what is typed on the form, *)
(* cleared, or closed in between, page and history show what the paper of  *)
(* the latest day says (LatestStatement and the history's own copy).       *)
(***************************************************************************)
THEOREM PaperWins == Spec => []LatestStatementWins
<1>1. BalInv => LatestStatementWins
  <2> SUFFICES ASSUME BalInv, acct.source = "latest_statement"
               PROVE  /\ Single = Paper(Max(SnapDays(Ever)))
                      /\ \A d \in 1 .. today : SnapDays(d) # {} => Series(d) = Paper(Max(SnapDays(d)))
    BY DEF LatestStatementWins
  <2>1. today \in Nat /\ today <= LastDay /\ LastDay \in Nat
    BY Shapes, BalanceAssumption DEF BalInv
  <2>2. ASSUME NEW d \in 1 .. LastDay, SnapDays(d) # {}
        PROVE  snaps[Max(SnapDays(d))] = Paper(Max(SnapDays(d)))
    <3>1. Max(SnapDays(d)) \in Days /\ snaps[Max(SnapDays(d))] # None
      BY <2>1, <2>2, StatementDays DEF SnapDays, Days
    <3> QED BY <3>1 DEF BalInv, StatementsKept
  <2>3. SnapDays(Ever) # {}
    BY DEF BalInv, StatementsKept, SnapDays, Ever, Days
  <2>4. Single = snaps[Max(SnapDays(Ever))]
    BY <2>3 DEF Single, LatestStatement
  <2>5. ASSUME NEW d \in 1 .. today, SnapDays(d) # {}
        PROVE  Series(d) = snaps[Max(SnapDays(d))]
    BY <2>5 DEF Series
  <2>6. ASSUME NEW d \in 1 .. today, SnapDays(d) # {}
        PROVE  Series(d) = Paper(Max(SnapDays(d)))
    <3>1. d \in 1 .. LastDay
      BY <2>1
    <3> QED BY <2>2, <2>5, <2>6, <3>1
  <2>7. LastDay \in 1 .. LastDay
    BY BalanceAssumption
  <2> QED BY <2>2, <2>3, <2>4, <2>6, <2>7 DEF Ever
<1> QED BY <1>1, BalInvHolds, PTL

-----------------------------------------------------------------------------
(* The history's loop *)

\* One pass of the loop over the days up to w.
Pass(w, g) ==
  [d \in 0 .. w |->
     IF RowsIn(d, d) \cap Marked(w) # {}
     THEN [at |-> rows[closing_row(RowsIn(d, d) \cap Marked(w))].balance_after, tail |-> 0]
     ELSE IF d = 0 THEN [at |-> None, tail |-> 0]
     ELSE [g[d - 1] EXCEPT !.tail = IF g[d - 1].at = None THEN 0
                                    ELSE @ + Total(rows, RowsIn(d, d))]]

\* What the loop has by the end of a day: the marker and the rows since.
Closed(d) ==
  IF Marked(d) = {} THEN [at |-> None, tail |-> 0]
  ELSE [at |-> latest_balance_marker(d),
        tail |-> Total(rows, RowsIn(last_day(d) + 1, d) \ Marked(d))]

LEMMA LoopIsPass ==
  ASSUME NEW w
  PROVE  LET g == CHOOSE g : g = Pass(w, g)
         IN  latest_bal_after_at(w) = g[w].at + g[w].tail
BY Zenon DEF latest_bal_after_at, Pass

\* Of some rows closing_row returns one.
LEMMA ClosingRowIsOne ==
  ASSUME NEW D, IsFiniteSet(D), D \subseteq Int, D # {}
  PROVE  closing_row(D) \in D
<1>1. CASE Cardinality(D \ followed(D)) = 1
  <2>1. D \ followed(D) # {}
    BY <1>1, FS_EmptySet
  <2>2. closing_row(D) = CHOOSE i \in D \ followed(D) : TRUE
    BY <1>1 DEF closing_row
  <2>3. closing_row(D) \in D \ followed(D)
    BY <2>1, <2>2
  <2> QED BY <2>3
<1>2. CASE Cardinality(D \ followed(D)) # 1
  <2>1. closing_row(D) = Max(D)
    BY <1>2 DEF closing_row
  <2> QED BY <2>1, Greatest
<1> QED BY <1>1, <1>2

\* The rows with a balance, and the latest day of theirs.
LEMMA MarkedRows ==
  ASSUME BalInv, NEW d \in Int
  PROVE  /\ Marked(d) \subseteq DOMAIN rows
         /\ \A i \in Marked(d) : rows[i].day \in Nat \ {0} /\ rows[i].day <= d
                                 /\ rows[i].balance_after \in Int
         /\ Marked(d) # {} =>
              /\ last_day(d) \in 1 .. d
              /\ \E i \in Marked(d) : rows[i].day = last_day(d)
              /\ \A i \in Marked(d) : rows[i].day <= last_day(d)
              /\ closing_row({i \in Marked(d) : rows[i].day = last_day(d)}) \in Marked(d)
              /\ latest_balance_marker(d) \in Int
<1>1. /\ IsFiniteSet(DOMAIN rows) /\ DOMAIN rows \subseteq Int
      /\ \A i \in DOMAIN rows : /\ rows[i].day \in Nat \ {0}
                                /\ rows[i].balance_after \in Int \cup {None}
  BY Shapes DEF BalInv, Amounted, ARow
<1>2. /\ Marked(d) \subseteq DOMAIN rows
      /\ \A i \in Marked(d) : rows[i].day \in Nat \ {0} /\ rows[i].day <= d
                              /\ rows[i].balance_after \in Int
  BY <1>1 DEF Marked
<1>3. ASSUME Marked(d) # {}
      PROVE  /\ last_day(d) \in 1 .. d
             /\ \E i \in Marked(d) : rows[i].day = last_day(d)
             /\ \A i \in Marked(d) : rows[i].day <= last_day(d)
             /\ closing_row({i \in Marked(d) : rows[i].day = last_day(d)}) \in Marked(d)
             /\ latest_balance_marker(d) \in Int
  <2> DEFINE at == [i \in DOMAIN rows |-> rows[i].day]
             M == {rows[i].day : i \in Marked(d)}
             D == {i \in Marked(d) : rows[i].day = last_day(d)}
  <2>1. IsFiniteSet(Marked(d))
    BY <1>1, <1>2, FS_Subset
  <2>2. {at[i] : i \in Marked(d)} = M
    <3>1. \A i \in Marked(d) : at[i] = rows[i].day
      BY <1>2
    <3> HIDE DEF at
    <3> QED BY <3>1
  <2>3. IsFiniteSet(M)
    <3> HIDE DEF at, M
    <3>1. IsFiniteSet({at[i] : i \in Marked(d)})
      BY <2>1, FiniteImage
    <3> QED BY <2>2, <3>1
  <2>4. M # {} /\ M \subseteq 1 .. d /\ M \subseteq Int
    BY <1>2, <1>3
  <2>5. last_day(d) \in M /\ \A x \in M : x <= last_day(d)
    <3>1. last_day(d) = Max(M)
      BY DEF last_day
    <3> HIDE DEF M
    <3> QED BY <2>3, <2>4, <3>1, Greatest
  <2>6. D # {} /\ D \subseteq Marked(d) /\ D \subseteq Int
    BY <1>1, <1>2, <2>5
  <2>7. closing_row(D) \in D
    <3>1. IsFiniteSet(D)
      BY <2>1, <2>6, FS_Subset
    <3> HIDE DEF D
    <3> QED BY <2>6, <3>1, ClosingRowIsOne
  <2>8. rows[closing_row(D)].balance_after \in Int
    BY <1>2, <2>7
  <2>9. \A i \in Marked(d) : rows[i].day <= last_day(d)
    BY <1>2, <2>5
  <2>10. last_day(d) \in 1 .. d
    BY <2>4, <2>5
  <2> QED BY <2>6, <2>7, <2>8, <2>9, <2>10 DEF latest_balance_marker
<1> QED BY <1>2, <1>3

\* Going from one day to the next keeps Closed.
LEMMA ClosedPasses ==
  ASSUME BalInv, NEW w \in Nat
  PROVE  LET c == [d \in 0 .. w |-> Closed(d)] IN c = Pass(w, c)
<1> DEFINE c == [d \in 0 .. w |-> Closed(d)]
           Now(d) == RowsIn(d, d) \cap Marked(w)
<1>1. /\ Amounted(rows)
      /\ \A i \in DOMAIN rows : rows[i].day \in Nat \ {0}
  BY Shapes DEF BalInv, ARow
<1>2. ASSUME NEW d \in 0 .. w
      PROVE  Closed(d) =
               IF Now(d) # {} THEN [at |-> rows[closing_row(Now(d))].balance_after, tail |-> 0]
               ELSE IF d = 0 THEN [at |-> None, tail |-> 0]
               ELSE [Closed(d - 1) EXCEPT !.tail = IF Closed(d - 1).at = None THEN 0
                                                   ELSE @ + Total(rows, RowsIn(d, d))]
  <2>0. d \in Nat /\ d <= w /\ d \in Int
    OBVIOUS
  <2>1. Now(d) = {i \in Marked(d) : rows[i].day = d}
    BY <1>1, <2>0 DEF RowsIn, Marked
  <2>2. CASE Now(d) # {}
    <3>1. Marked(d) # {}
      BY <2>1, <2>2
    <3>2. last_day(d) = d
      <4>1. PICK i \in Marked(d) : rows[i].day = d
        BY <2>1, <2>2
      <4>2. last_day(d) \in 1 .. d /\ rows[i].day <= last_day(d)
        BY <2>0, <3>1, MarkedRows
      <4> QED BY <2>0, <4>1, <4>2
    <3>3. latest_balance_marker(d) = rows[closing_row(Now(d))].balance_after
      BY <2>1, <3>2 DEF latest_balance_marker
    <3>4. RowsIn(last_day(d) + 1, d) \ Marked(d) = {}
      BY <1>1, <2>0, <3>2 DEF RowsIn
    <3>5. Total(rows, RowsIn(last_day(d) + 1, d) \ Marked(d)) = 0
      <4>1. Total(rows, {}) = 0
        BY <1>1, TotalLess
      <4> QED BY <3>4, <4>1
    <3> QED BY <2>2, <3>1, <3>3, <3>5 DEF Closed
  <2>3. CASE Now(d) = {} /\ d = 0
    <3>1. Marked(d) = {}
      BY <1>1, <2>3 DEF Marked
    <3> QED BY <2>3, <3>1 DEF Closed
  <2>4. CASE Now(d) = {} /\ d # 0
    <3>1. Marked(d) = Marked(d - 1)
      BY <1>1, <2>0, <2>1, <2>4 DEF Marked
    <3>2. CASE Marked(d) = {}
      BY <2>4, <3>1, <3>2 DEF Closed
    <3>3. CASE Marked(d) # {}
      <4>1. last_day(d) = last_day(d - 1) /\ latest_balance_marker(d) = latest_balance_marker(d - 1)
        BY <3>1 DEF last_day, latest_balance_marker
      <4>2. d - 1 \in Int /\ Marked(d - 1) # {}
        BY <2>0, <3>1, <3>3
      <4>3. /\ last_day(d - 1) \in 1 .. d - 1
            /\ latest_balance_marker(d - 1) \in Int
        BY <4>2, MarkedRows
      <4> DEFINE Before == RowsIn(last_day(d - 1) + 1, d - 1) \ Marked(d - 1)
                 Today == RowsIn(d, d)
      <4>4. RowsIn(last_day(d) + 1, d) \ Marked(d) = Before \cup Today
        <5>1. \A i \in RowsIn(d, d) : i \notin Marked(d)
          BY <1>1, <2>0, <2>1, <2>4 DEF RowsIn
        <5>2. RowsIn(last_day(d) + 1, d) = RowsIn(last_day(d - 1) + 1, d - 1) \cup RowsIn(d, d)
          BY <1>1, <2>0, <2>4, <4>1, <4>3 DEF RowsIn
        <5> QED BY <3>1, <5>1, <5>2
      <4>5. Before \cap Today = {} /\ Before \in SUBSET DOMAIN rows /\ Today \in SUBSET DOMAIN rows
        BY <1>1, <2>0 DEF RowsIn
      <4> HIDE DEF Before, Today
      <4>6. Total(rows, Before \cup Today) = Total(rows, Before) + Total(rows, Today)
        BY <1>1, <4>5, TotalOfUnion
      <4>7. Closed(d) = [at |-> latest_balance_marker(d - 1),
                         tail |-> Total(rows, Before) + Total(rows, Today)]
        BY <3>3, <4>1, <4>4, <4>6 DEF Closed
      <4>8. Closed(d - 1) = [at |-> latest_balance_marker(d - 1), tail |-> Total(rows, Before)]
        BY <4>2 DEF Closed, Before
      <4>9. latest_balance_marker(d - 1) # None
        BY <4>3, BalanceAssumption
      <4> QED BY <2>4, <4>7, <4>8, <4>9 DEF Today
    <3> QED BY <3>2, <3>3
  <2> HIDE DEF Now
  <2> QED BY <2>0, <2>2, <2>3, <2>4
<1>3. \A d \in 0 .. w : d # 0 => d - 1 \in 0 .. w
  OBVIOUS
<1>4. ASSUME NEW d \in 0 .. w PROVE c[d] = Pass(w, c)[d]
  <2>1. c[d] = Closed(d) /\ (d # 0 => c[d - 1] = Closed(d - 1))
    BY <1>3
  <2>2. Pass(w, c)[d] =
          IF Now(d) # {} THEN [at |-> rows[closing_row(Now(d))].balance_after, tail |-> 0]
          ELSE IF d = 0 THEN [at |-> None, tail |-> 0]
          ELSE [c[d - 1] EXCEPT !.tail = IF c[d - 1].at = None THEN 0
                                         ELSE @ + Total(rows, RowsIn(d, d))]
    <3> HIDE DEF c
    <3> QED BY Zenon DEF Pass
  <2> HIDE DEF c, Now
  <2> QED BY <1>2, <2>1, <2>2
<1> HIDE DEF c
<1>5. c = [d \in 0 .. w |-> c[d]]
  BY DEF c
<1>6. Pass(w, c) = [d \in 0 .. w |-> Pass(w, c)[d]]
  BY DEF Pass
<1>7. c = Pass(w, c)
  BY <1>4, <1>5, <1>6
<1> QED BY <1>7 DEF c

(***************************************************************************)
(* The history's loop over the days arrives where the account page's query *)
(* does: at the latest marked day's closing row and the rows since.        *)
(***************************************************************************)
LEMMA LoopFindsMarker ==
  ASSUME BalInv, NEW w \in Nat, Marked(w) # {}
  PROVE  latest_bal_after_at(w) = MarkedBalance(w)
<1> DEFINE c == [d \in 0 .. w |-> Closed(d)]
           g == CHOOSE g : g = Pass(w, g)
           Same == {d \in 0 .. w : \A e \in 0 .. d : g[e] = c[e]}
<1>1. c = Pass(w, c)
  BY ClosedPasses
<1>2. c[w] = Closed(w)
  OBVIOUS
<1> HIDE DEF c
<1>3. g = Pass(w, g)
  BY <1>1
<1> HIDE DEF g
<1>4. ASSUME NEW d \in 0 .. w, d # 0 => g[d - 1] = c[d - 1]
      PROVE  g[d] = c[d]
  <2>1. Pass(w, g)[d] = Pass(w, c)[d]
    BY <1>4 DEF Pass
  <2> QED BY <1>1, <1>3, <2>1
<1>5. 0 \in Same
  BY <1>4
<1>6. Max(Same) \in Same /\ \A d \in Same : d <= Max(Same)
  <2>1. IsFiniteSet(Same) /\ Same \subseteq Int
    <3>1. IsFiniteSet(0 .. w) /\ Same \subseteq 0 .. w /\ 0 .. w \subseteq Int
      BY FS_Interval
    <3> HIDE DEF Same
    <3> QED BY <3>1, FS_Subset
  <2> HIDE DEF Same
  <2> QED BY <1>5, <2>1, Greatest
<1> DEFINE m == Max(Same)
<1>7. m = w
  <2> SUFFICES ASSUME m # w PROVE FALSE
    OBVIOUS
  <2>1. m \in Nat /\ m + 1 \in 0 .. w /\ (m + 1) - 1 = m
    BY <1>6
  <2>2. g[m + 1] = c[m + 1]
    BY <1>4, <1>6, <2>1
  <2>3. \A e \in 0 .. m + 1 : e \in 0 .. m \/ e = m + 1
    BY <2>1
  <2>4. m + 1 \in Same
    BY <1>6, <2>1, <2>2, <2>3
  <2> HIDE DEF m
  <2> QED BY <1>6, <2>1, <2>4 DEF m
<1>8. g[w] = Closed(w)
  BY <1>2, <1>6, <1>7
<1>9. latest_bal_after_at(w) = g[w].at + g[w].tail
  BY LoopIsPass DEF g
<1> QED BY <1>8, <1>9 DEF Closed, MarkedBalance

\* The list's own query finds the account page's marker and the same rows since.
LEMMA ListFindsMarker ==
  ASSUME BalInv, Marked(Ever) # {}
  PROVE  latest_bal_after = MarkedBalance(Ever)
<1>1. \A i \in DOMAIN rows : rows[i].day \in 1 .. LastDay
  BY Shapes DEF BalInv, ARow, Days
<1>2. last_day(Ever) \in Nat
  <2>1. Ever \in Int
    BY BalanceAssumption DEF Ever
  <2>2. last_day(Ever) \in 1 .. Ever
    BY <2>1, MarkedRows
  <2> QED BY <2>1, <2>2
<1>3. {i \in DOMAIN rows \ Marked(Ever) : rows[i].day > last_day(Ever)}
        = RowsIn(last_day(Ever) + 1, Ever) \ Marked(Ever)
  BY <1>1, <1>2, BalanceAssumption DEF RowsIn, Ever
<1> DEFINE end == closing_row({i \in Marked(Ever) : rows[i].day = last_day(Ever)})
<1>4. latest_bal_after =
        rows[end].balance_after
          + Total(rows, {i \in DOMAIN rows \ Marked(Ever) : rows[i].day > last_day(Ever)})
  BY DEF latest_bal_after, last_day
<1> QED BY <1>3, <1>4 DEF MarkedBalance, latest_balance_marker

(***************************************************************************)
(* The net-worth history ends where the accounts list starts: with no row  *)
(* dated ahead, the series (get_many_account_balances_series) gives for    *)
(* today what the list gives, in every one of the four ways an account is  *)
(* read, although one loops over days and the other runs queries.          *)
(***************************************************************************)
THEOREM CurveEndsAtCard == Spec => []HistoryMeetsCard
<1>1. BalInv => HistoryMeetsCard
  <2> SUFFICES ASSUME BalInv, RowsIn(today + 1, Ever) = {}
               PROVE  Series(today) = Batch
    BY DEF HistoryMeetsCard
  <2>1. /\ today \in Nat \ {0} /\ today <= LastDay /\ LastDay \in Nat
        /\ Amounted(rows)
        /\ \A i \in DOMAIN rows : rows[i].day \in Nat \ {0}
    BY Shapes, BalanceAssumption DEF BalInv, ARow, Days
  <2>2. \A i \in DOMAIN rows : rows[i].day \in 1 .. today
    <3>1. \A i \in DOMAIN rows : rows[i].day \in Days
      BY Shapes DEF BalInv, ARow
    <3> QED BY <2>1, <3>1 DEF RowsIn, Ever, Days
  <2>3. Marked(Ever) = Marked(today) /\ RowsIn(1, today) = RowsIn(1, Ever) /\ RowsIn(1, Ever) = DOMAIN rows
    <3>1. \A i \in DOMAIN rows : /\ rows[i].day <= today /\ rows[i].day <= LastDay
                                 /\ rows[i].day \in 1 .. LastDay
      BY <2>1, <2>2
    <3>2. Marked(Ever) = Marked(today)
      BY <3>1 DEF Marked, Ever
    <3>3. RowsIn(1, today) = DOMAIN rows /\ RowsIn(1, Ever) = DOMAIN rows
      BY <2>2, <3>1 DEF RowsIn, Ever
    <3> QED BY <3>2, <3>3
  <2>4. CASE acct.source = "latest_statement"
    <3>1. SnapDays(Ever) # {}
      <4>1. \E d \in Days : snaps[d] # None
        BY <2>4 DEF BalInv, StatementsKept
      <4> QED BY <4>1 DEF SnapDays, Ever, Days
    <3>2. SnapDays(Ever) = SnapDays(today)
      BY NoStatementAhead
    <3>3. Series(today) = snaps[Max(SnapDays(today))]
      BY <2>4, <3>1, <3>2 DEF Series
    <3>4. Batch = snaps[Max(SnapDays(Ever))]
      BY <2>4, <3>1 DEF Batch, LatestStatement
    <3> QED BY <3>2, <3>3, <3>4
  <2>5. CASE acct.source # "latest_statement" /\ Marked(Ever) # {}
    <3>1. Batch = MarkedBalance(Ever)
      BY <2>5, ListFindsMarker DEF Batch
    <3>2. Series(today) = MarkedBalance(today)
      BY <2>1, <2>3, <2>5, LoopFindsMarker DEF Series
    <3>3. last_day(today) = last_day(Ever) /\ latest_balance_marker(today) = latest_balance_marker(Ever)
      BY <2>3 DEF last_day, latest_balance_marker
    <3>4. RowsIn(last_day(today) + 1, today) = RowsIn(last_day(today) + 1, Ever)
      BY <2>1, <2>2 DEF RowsIn, Ever
    <3> QED BY <2>3, <3>1, <3>2, <3>3, <3>4 DEF MarkedBalance
  <2>6. CASE acct.source = "hybrid" /\ Marked(Ever) = {} /\ HasStatement
    <3> DEFINE later == {i \in DOMAIN rows : rows[i].day > acct.statement_balance_as_of}
    <3>1. Batch = acct.statement_balance + InStatementTerms(Total(rows, later) + Total(rows, anchor_day_rows))
      BY <2>6 DEF Batch, hybrid_delta
    <3>2. {i \in RowsIn(1, today) : rows[i].day > acct.statement_balance_as_of \/ i \in anchor_day_rows}
            = later \cup anchor_day_rows
      BY <2>3 DEF anchor_day_rows
    <3>3. acct.statement_balance_as_of \in Int
      BY <2>1, <2>6 DEF BalInv, StatementsKept, Days
    <3>4. later \cap anchor_day_rows = {} /\ anchor_day_rows \in SUBSET DOMAIN rows
      BY <2>1, <3>3 DEF anchor_day_rows
    <3>5. Total(rows, later \cup anchor_day_rows) = Total(rows, later) + Total(rows, anchor_day_rows)
      BY <2>1, <3>4, TotalOfUnion
    <3>6. Series(today) = acct.statement_balance + InStatementTerms(Total(rows, later \cup anchor_day_rows))
      <4>1. Series(today) = SeriesAnchored(today)
        BY <2>3, <2>6 DEF Series
      <4> QED BY <3>2, <4>1 DEF SeriesAnchored
    <3> QED BY <3>1, <3>5, <3>6
  <2>7. CASE acct.source # "latest_statement" /\ Marked(Ever) = {}
             /\ ~(acct.source = "hybrid" /\ HasStatement)
    <3>1. Batch = txn_sum(Ever) /\ Series(today) = txn_sum(today)
      BY <2>3, <2>7 DEF Batch, Series
    <3> QED BY <2>3, <3>1 DEF txn_sum
  <2> QED BY <2>4, <2>5, <2>6, <2>7
<1> QED BY <1>1, BalInvHolds, PTL

-----------------------------------------------------------------------------
(* The day's close *)

\* What a row brought by a file says, for a bank account: a balance, and the day
\* it posted.
LEMMA BankRows ==
  ASSUME BalInv, HasBalanceColumn
  PROVE  /\ \A i \in DOMAIN rows : rows[i].entry = 0 => rows[i].balance_after = None
         /\ \A i \in DOMAIN rows : rows[i].entry # 0 =>
              LET e == rows[i].entry IN
              /\ e \in DOMAIN book
              /\ rows[i].balance_after = Running(e) /\ Running(e) \in Int
              /\ rows[i].amt = book[e].amt /\ rows[i].day = book[e].day
         /\ \A e \in DOMAIN book : book[e].day = book[e].post /\ book[e].post \in Days
         /\ \A e \in Held : \E i \in DOMAIN rows : rows[i].entry = e /\ e # 0
         /\ Held \subseteq DOMAIN book
         /\ \A i, j \in DOMAIN rows : rows[i].entry = rows[j].entry /\ rows[i].entry # 0 => i = j
<1>1. kind # "card"
  BY DEF HasBalanceColumn
<1>2. \A e \in DOMAIN book : /\ book[e].day = book[e].post /\ book[e].post \in Days
                             /\ Running(e) \in Int
  BY <1>1, Shapes, BookAddsUp DEF BalInv, BookInOrder, AnEntry
<1>3. \A i \in DOMAIN rows : rows[i].entry # 0 =>
        LET e == rows[i].entry IN
        /\ e \in DOMAIN book
        /\ rows[i].balance_after = Running(e) /\ Running(e) \in Int
        /\ rows[i].amt = book[e].amt /\ rows[i].day = book[e].day
  <2> SUFFICES ASSUME NEW i \in DOMAIN rows, rows[i].entry # 0
               PROVE  LET e == rows[i].entry IN
                      /\ e \in DOMAIN book
                      /\ rows[i].balance_after = Running(e) /\ Running(e) \in Int
                      /\ rows[i].amt = book[e].amt /\ rows[i].day = book[e].day
    OBVIOUS
  <2>1. PICK e \in DOMAIN book : rows[i] = RowOf(e)
    BY DEF BalInv, RowsFromBook
  <2>2. /\ RowOf(e).entry = e /\ RowOf(e).day = book[e].day /\ RowOf(e).amt = book[e].amt
        /\ RowOf(e).balance_after = Running(e)
    BY DEF RowOf
  <2> QED BY <1>2, <2>1, <2>2
<1>4. \A e \in Held : \E i \in DOMAIN rows : rows[i].entry = e /\ e # 0
  BY DEF Held, Hand
<1>5. \A i \in DOMAIN rows : rows[i].entry = 0 => rows[i].balance_after = None
  BY DEF BalInv, RowsFromBook
<1>6. \A i, j \in DOMAIN rows : rows[i].entry = rows[j].entry /\ rows[i].entry # 0 => i = j
  BY DEF BalInv, RowsFromBook
<1> QED BY <1>2, <1>3, <1>4, <1>5, <1>6

\* The rows of the latest day with a balance are the entries of that day from its
\* first to the last the ledger has, and their balances the bank's: a chain.
LEMMA DayIsChain ==
  ASSUME BalInv, NEW d \in Nat, BankCanSay(d)
  PROVE  LET last == Max(Held \cap PostedBy(d)) IN
         /\ last \in Held /\ last \in DOMAIN book
         /\ Marked(d) # {} /\ last_day(d) = book[last].day
         /\ latest_balance_marker(d) = Running(last)
<1> DEFINE E == Held \cap PostedBy(d)
           last == Max(E)
           L == book[last].day
           D == {i \in Marked(d) : rows[i].day = L}
           P == {0} \cup {e \in 1 .. last : book[e].post < L}
           prev == Max(P)
           n == last - prev
           f == [k \in 1 .. n |-> CHOOSE i \in D : rows[i].entry = prev + k]
<1>0. HasBalanceColumn /\ E # {} /\ ReadableDay(last)
  BY DEF BankCanSay
<1>1. /\ Len(book) \in Nat /\ DOMAIN book = 1 .. Len(book)
      /\ \A e \in DOMAIN book : /\ book[e].day = book[e].post /\ book[e].post \in Int
                                /\ book[e].amt \in Int
      /\ Len(rows) \in Nat /\ DOMAIN rows = 1 .. Len(rows)
  <2>1. \A e \in DOMAIN book : book[e].day = book[e].post /\ book[e].post \in Days
    BY <1>0, BankRows
  <2>2. Days \subseteq Int
    BY DEF Days
  <2>3. \A e \in DOMAIN book : book[e].amt \in Int
    BY Shapes DEF BalInv, Amounted
  <2> QED BY <2>1, <2>2, <2>3, Shapes DEF BalInv
<1>2. last \in E /\ (\A e \in E : e <= last) /\ last \in DOMAIN book /\ last \in Held
  <2>1. E \subseteq DOMAIN book
    BY <1>0, BankRows
  <2> HIDE DEF E
  <2>2. IsFiniteSet(E) /\ E \subseteq Int
    <3>1. IsFiniteSet(DOMAIN book)
      BY <1>1, FS_Interval
    <3> QED BY <1>1, <2>1, <3>1, FS_Subset
  <2>3. last \in E /\ \A e \in E : e <= last
    BY <1>0, <2>2, Greatest
  <2>4. last \in Held
    BY <2>3 DEF E
  <2> QED BY <2>1, <2>3, <2>4
<1> HIDE DEF last
<1>3. L = book[last].post /\ L <= d /\ L \in Int
  BY <1>1, <1>2 DEF PostedBy
<1>4. \A e \in 1 .. last : e \in DOMAIN book /\ book[e].post <= L /\ (book[e].post = L => e \in E)
  <2> SUFFICES ASSUME NEW e \in 1 .. last
               PROVE  e \in DOMAIN book /\ book[e].post <= L /\ (book[e].post = L => e \in E)
    OBVIOUS
  <2>1. e \in DOMAIN book
    BY <1>1, <1>2
  <2>2. book[e].post <= L
    <3>1. e < last => book[e].post <= book[last].post
      BY <1>2, <2>1 DEF BalInv, BookInOrder
    <3>2. e = last => book[e].post <= book[last].post
      BY <1>1, <1>2
    <3> QED BY <1>1, <1>2, <1>3, <3>1, <3>2
  <2>3. ASSUME book[e].post = L PROVE e \in E
    <3>1. e \in Held
      <4>1. CASE e = last
        BY <1>2, <4>1
      <4>2. CASE e < last
        BY <1>2, <1>3, <2>1, <2>3, <4>2 DEF BalInv, DaysFromTheFirst
      <4> QED BY <1>1, <1>2, <4>1, <4>2
    <3>2. e \in PostedBy(d)
      BY <1>3, <2>1, <2>3 DEF PostedBy
    <3> QED BY <3>1, <3>2
  <2> QED BY <2>1, <2>2, <2>3
<1>5. /\ prev \in Nat /\ prev < last /\ n \in Nat \ {0}
      /\ \A e \in 1 .. last : e > prev <=> book[e].post = L
  <2>0. last \in Nat \ {0}
    BY <1>1, <1>2
  <2>1. prev \in P /\ \A e \in P : e <= prev
    <3>1. P \subseteq 0 .. last /\ IsFiniteSet(0 .. last) /\ 0 \in P /\ 0 .. last \subseteq Int
      BY <2>0, FS_Interval
    <3> HIDE DEF P
    <3>2. IsFiniteSet(P) /\ P \subseteq Int
      BY <3>1, FS_Subset
    <3> QED BY <3>1, <3>2, Greatest
  <2> HIDE DEF prev
  <2>2. prev \in Nat /\ prev < last
    <3>1. prev = 0 \/ (prev \in 1 .. last /\ book[prev].post < L)
      BY <2>1
    <3>2. prev # last
      BY <1>3, <2>0, <3>1
    <3> QED BY <2>0, <3>1, <3>2
  <2>3. ASSUME NEW e \in 1 .. last PROVE e > prev <=> book[e].post = L
    <3>1. e \in DOMAIN book /\ book[e].post \in Int /\ book[e].post <= L
      BY <1>1, <1>4
    <3>2. CASE e > prev
      <4>1. e \notin P
        BY <2>1, <2>2, <3>2
      <4>2. ~ book[e].post < L
        BY <4>1
      <4> QED BY <1>3, <3>1, <3>2, <4>2
    <3>3. CASE e = prev
      <4>1. book[e].post < L
        BY <2>1, <3>3
      <4> QED BY <1>3, <2>2, <3>1, <3>3, <4>1
    <3>4. CASE e < prev
      <4>1. prev \in DOMAIN book /\ book[prev].post < L /\ book[prev].post \in Int
        BY <1>1, <1>4, <2>1, <2>2, <3>4
      <4>2. book[e].post <= book[prev].post
        BY <3>1, <3>4, <4>1 DEF BalInv, BookInOrder
      <4> QED BY <1>3, <2>2, <3>1, <3>4, <4>1, <4>2
    <3> QED BY <2>2, <3>2, <3>3, <3>4
  <2> QED BY <2>0, <2>2, <2>3
<1> HIDE DEF prev, P
<1>6. \A i \in Marked(d) :
        /\ i \in DOMAIN rows /\ rows[i].entry # 0 /\ rows[i].entry \in E
        /\ rows[i].balance_after = Running(rows[i].entry) /\ Running(rows[i].entry) \in Int
        /\ rows[i].amt = book[rows[i].entry].amt /\ rows[i].day = book[rows[i].entry].day
  <2> SUFFICES ASSUME NEW i \in Marked(d)
               PROVE  /\ i \in DOMAIN rows /\ rows[i].entry # 0 /\ rows[i].entry \in E
                      /\ rows[i].balance_after = Running(rows[i].entry) /\ Running(rows[i].entry) \in Int
                      /\ rows[i].amt = book[rows[i].entry].amt
                      /\ rows[i].day = book[rows[i].entry].day
    OBVIOUS
  <2>1. i \in DOMAIN rows /\ rows[i].day <= d /\ rows[i].balance_after # None
    BY DEF Marked
  <2>2. rows[i].entry # 0
    BY <1>0, <2>1, BankRows
  <2>3. /\ rows[i].entry \in DOMAIN book
        /\ rows[i].balance_after = Running(rows[i].entry) /\ Running(rows[i].entry) \in Int
        /\ rows[i].amt = book[rows[i].entry].amt /\ rows[i].day = book[rows[i].entry].day
    BY <1>0, <2>1, <2>2, BankRows
  <2>4. rows[i].entry \in E
    BY <1>1, <2>1, <2>2, <2>3 DEF Held, Hand, PostedBy
  <2> QED BY <2>1, <2>2, <2>3, <2>4
<1>7. \A e \in E : \E i \in Marked(d) : rows[i].entry = e
  <2> SUFFICES ASSUME NEW e \in E PROVE \E i \in Marked(d) : rows[i].entry = e
    OBVIOUS
  <2>1. PICK i \in DOMAIN rows : rows[i].entry = e /\ e # 0
    BY <1>0, BankRows
  <2>2. /\ rows[i].balance_after = Running(e) /\ Running(e) \in Int /\ rows[i].day = book[e].day
        /\ e \in DOMAIN book
    BY <1>0, <2>1, BankRows
  <2>3. book[e].post <= d
    BY DEF PostedBy
  <2>4. i \in Marked(d)
    BY <1>1, <2>2, <2>3, BalanceAssumption DEF Marked
  <2> QED BY <2>1, <2>4
<1>8. Marked(d) # {} /\ last_day(d) = L
  <2>1. PICK i \in Marked(d) : rows[i].entry = last
    BY <1>2, <1>7
  <2>2. rows[i].day = L
    BY <1>6, <2>1
  <2>0. d \in Int /\ Marked(d) # {}
    BY <2>1
  <2>3. last_day(d) \in 1 .. d /\ rows[i].day <= last_day(d)
    BY <2>0, <2>1, MarkedRows
  <2>4. last_day(d) <= L
    <3>1. PICK j \in Marked(d) : rows[j].day = last_day(d)
      BY <2>0, MarkedRows
    <3>2. rows[j].entry \in E /\ rows[j].day = book[rows[j].entry].day
      BY <1>6
    <3>3. rows[j].entry \in DOMAIN book /\ rows[j].entry <= last
      BY <1>0, <1>2, <3>2, BankRows
    <3>4. rows[j].entry \in 1 .. last /\ rows[j].day = book[rows[j].entry].post
      BY <1>1, <1>2, <3>2, <3>3
    <3> QED BY <1>4, <3>1, <3>4
  <2> QED BY <1>3, <2>1, <2>2, <2>3, <2>4
<1>9. \A e \in 1 .. last : e > prev => \E i \in D : rows[i].entry = e
  <2> SUFFICES ASSUME NEW e \in 1 .. last, e > prev PROVE \E i \in D : rows[i].entry = e
    OBVIOUS
  <2>1. book[e].post = L /\ e \in E /\ e \in DOMAIN book
    BY <1>4, <1>5
  <2>2. PICK i \in Marked(d) : rows[i].entry = e
    BY <1>7, <2>1
  <2>3. rows[i].day = L
    BY <1>1, <1>6, <2>1, <2>2
  <2> QED BY <2>2, <2>3
<1>10. \A i \in D : /\ rows[i].entry \in 1 .. last /\ rows[i].entry > prev
                    /\ i \in Marked(d) /\ i \in Nat
  <2> SUFFICES ASSUME NEW i \in D
               PROVE  rows[i].entry \in 1 .. last /\ rows[i].entry > prev
                      /\ i \in Marked(d) /\ i \in Nat
    OBVIOUS
  <2>1. rows[i].entry \in E /\ rows[i].entry \in DOMAIN book /\ rows[i].day = L
        /\ rows[i].day = book[rows[i].entry].day
    BY <1>0, <1>6, BankRows
  <2>2. rows[i].entry \in 1 .. last /\ book[rows[i].entry].post = L
    BY <1>1, <1>2, <2>1
  <2>3. i \in DOMAIN rows
    BY <1>6
  <2> QED BY <1>1, <1>5, <2>2, <2>3
<1>11. \A k \in 1 .. n : f[k] \in D /\ rows[f[k]].entry = prev + k /\ prev + k \in 1 .. last
  <2> SUFFICES ASSUME NEW k \in 1 .. n
               PROVE  f[k] \in D /\ rows[f[k]].entry = prev + k /\ prev + k \in 1 .. last
    OBVIOUS
  <2>1. prev + k \in 1 .. last /\ prev + k > prev
    BY <1>1, <1>2, <1>5
  <2>2. \E i \in D : rows[i].entry = prev + k
    BY <1>9, <2>1
  <2>3. f[k] = CHOOSE i \in D : rows[i].entry = prev + k
    OBVIOUS
  <2> HIDE DEF D, f
  <2> QED BY <2>1, <2>2, <2>3
<1>12. /\ f \in [1 .. n -> D]
       /\ \A k \in 1 .. n : rows[f[k]].balance_after = Running(prev + k) /\ Running(prev + k) \in Int
       /\ \A k \in 1 .. n : before(f[k]) = Running(prev + k - 1)
  <2>1. f \in [1 .. n -> D]
    BY <1>11
  <2>2. \A k \in 1 .. n : rows[f[k]].balance_after = Running(prev + k) /\ Running(prev + k) \in Int
                          /\ rows[f[k]].amt = book[prev + k].amt
    BY <1>6, <1>11
  <2>3. \A k \in 1 .. n : before(f[k]) = Running(prev + k - 1)
    <3> SUFFICES ASSUME NEW k \in 1 .. n PROVE before(f[k]) = Running(prev + k - 1)
      OBVIOUS
    <3>1. prev + k \in 1 .. Len(book) /\ prev \in Nat
      BY <1>1, <1>2, <1>5, <1>11
    <3>2. Running(prev + k) = Running(prev + k - 1) + book[prev + k].amt
      BY <3>1, BookAddsUp DEF BalInv
    <3>3. Running(prev + k - 1) \in Int
      <4>1. prev + k - 1 \in 0 .. Len(book)
        BY <1>1, <3>1
      <4> QED BY <4>1, BookAddsUp DEF BalInv
    <3>4. book[prev + k].amt \in Int
      BY <1>1, <3>1
    <3> HIDE DEF f
    <3>5. before(f[k]) = Running(prev + k) - book[prev + k].amt
      BY <2>2 DEF before
    <3> QED BY <3>2, <3>3, <3>4, <3>5
  <2> QED BY <2>1, <2>2, <2>3
<1>13. \A i, j \in 0 .. n : Running(prev + i) = Running(prev + j) => i = j
  <2> DEFINE points == {i - 1 : i \in {i \in 1 .. last : book[i].day = book[last].day}} \cup {last}
  <2>1. \A i, j \in points : Running(i) = Running(j) => i = j
    BY <1>0 DEF ReadableDay
  <2>2. ASSUME NEW i \in 0 .. n PROVE prev + i \in points
    <3>1. CASE i = n
      BY <1>1, <1>2, <1>5, <3>1
    <3>2. CASE i # n
      <4>1. prev + i + 1 \in 1 .. last /\ prev + i + 1 > prev /\ (prev + i + 1) - 1 = prev + i
        BY <1>1, <1>2, <1>5, <3>2
      <4>2. book[prev + i + 1].day = L
        BY <1>1, <1>4, <1>5, <4>1
      <4> QED BY <4>1, <4>2
    <3> QED BY <3>1, <3>2
  <2> HIDE DEF points
  <2>3. \A i, j \in 0 .. n : prev + i = prev + j => i = j
    BY <1>5
  <2> QED BY <2>1, <2>2, <2>3
<1>14. \A i \in D : \E k \in 1 .. n : f[k] = i
  <2> SUFFICES ASSUME NEW i \in D PROVE \E k \in 1 .. n : f[k] = i
    OBVIOUS
  <2>1. rows[i].entry - prev \in 1 .. n /\ prev + (rows[i].entry - prev) = rows[i].entry
    BY <1>1, <1>2, <1>5, <1>10
  <2>2. rows[f[rows[i].entry - prev]].entry = rows[i].entry /\ f[rows[i].entry - prev] \in D
    <3> HIDE DEF f, D
    <3> QED BY <1>11, <2>1
  <2>3. f[rows[i].entry - prev] = i
    <3> HIDE DEF f
    <3>1. i \in DOMAIN rows /\ f[rows[i].entry - prev] \in DOMAIN rows /\ rows[i].entry # 0
      BY <1>6, <2>2
    <3> QED BY <1>0, <2>2, <3>1, BankRows
  <2> QED BY <2>1, <2>3
<1>15. \A i \in D : rows[i].balance_after \in Int /\ rows[i].amt \in Int
  BY <1>0, <1>1, <1>6, BankRows
<1> HIDE DEF f, D, L, n
<1>16. Chain(D, f, n)
  <2>1. \A k \in 2 .. n : before(f[k]) = rows[f[k - 1]].balance_after
    <3> SUFFICES ASSUME NEW k \in 2 .. n PROVE before(f[k]) = rows[f[k - 1]].balance_after
      OBVIOUS
    <3>1. k \in 1 .. n /\ k - 1 \in 1 .. n /\ prev + k - 1 = prev + (k - 1)
      BY <1>5
    <3> QED BY <1>12, <3>1
  <2>2. \A k, l \in 1 .. n : rows[f[k]].balance_after = rows[f[l]].balance_after => k = l
    <3>1. \A k \in 1 .. n : k \in 0 .. n
      BY <1>5
    <3> QED BY <1>12, <1>13, <3>1
  <2>3. \A k \in 1 .. n : before(f[1]) # rows[f[k]].balance_after
    <3> SUFFICES ASSUME NEW k \in 1 .. n PROVE before(f[1]) # rows[f[k]].balance_after
      OBVIOUS
    <3>1. 1 \in 1 .. n /\ prev + 1 - 1 = prev + 0 /\ 0 \in 0 .. n /\ k \in 0 .. n /\ k # 0
      BY <1>5
    <3>2. before(f[1]) = Running(prev + 0)
      BY <1>12, <3>1
    <3> QED BY <1>12, <1>13, <3>1, <3>2
  <2> QED BY <1>5, <1>10, <1>12, <1>14, <1>15, <2>1, <2>2, <2>3 DEF Chain
<1>17. latest_balance_marker(d) = Running(last)
  <2>1. closing_row(D) = f[n]
    BY <1>16, ClosingRowIsLast
  <2>2. latest_balance_marker(d) = rows[f[n]].balance_after
    BY <1>8, <2>1 DEF latest_balance_marker, D
  <2>3. n \in 1 .. n /\ prev + n = last
    BY <1>1, <1>2, <1>5 DEF n
  <2> QED BY <1>12, <2>2, <2>3
<1> QED BY <1>2, <1>8, <1>17 DEF last, L

\* So the marker and the rows since are what the bank says.
LEMMA MarkerIsBank ==
  ASSUME BalInv, NEW d \in Nat, BankCanSay(d)
  PROVE  Marked(d) # {} /\ MarkedBalance(d) = BankSays(d)
<1> DEFINE last == Max(Held \cap PostedBy(d))
<1>1. /\ Marked(d) # {} /\ last_day(d) = book[last].day
      /\ latest_balance_marker(d) = Running(last)
  BY DayIsChain
<1>2. HasBalanceColumn
  BY DEF BankCanSay
<1>3. \A i \in DOMAIN rows : rows[i].balance_after = None <=> rows[i].entry = 0
  BY <1>2, BankRows, BalanceAssumption
<1>4. last_day(d) \in Nat
  <2>1. d \in Int
    OBVIOUS
  <2>2. last_day(d) \in 1 .. d
    BY <1>1, <2>1, MarkedRows
  <2> QED BY <2>1, <2>2
<1>5. RowsIn(last_day(d) + 1, d) \ Marked(d) = Hand \cap RowsIn(last_day(d) + 1, d)
  <2>1. \A i \in RowsIn(last_day(d) + 1, d) : i \in DOMAIN rows /\ rows[i].day <= d
    BY DEF RowsIn
  <2> QED BY <1>3, <2>1 DEF Marked, Hand
<1> QED BY <1>1, <1>5 DEF MarkedBalance, BankSays, HandTotal

(***************************************************************************)
(* The balance of an account whose exports print running balances is the   *)
(* bank's: the page, the list and the history close the latest day on its  *)
(* last entry, in whichever order the files list a day and however many    *)
(* files it came in, and add the rows entered by hand for later days.      *)
(***************************************************************************)
THEOREM BalanceIsTheBanks == Spec => []CloseIsRead
<1>1. BalInv => CloseIsRead
  <2> SUFFICES ASSUME BalInv PROVE CloseIsRead
    OBVIOUS
  <2>1. HasBalanceColumn => acct.source # "latest_statement"
    BY DEF BalInv, StatementsKept, HasBalanceColumn
  <2>2. CardReadsTheClose
    <3> SUFFICES ASSUME BankCanSay(Ever)
                 PROVE  /\ Batch = BankSays(Ever)
                        /\ acct.source = "transaction_sum" => Single = BankSays(Ever)
      BY DEF CardReadsTheClose
    <3>1. Ever \in Nat
      BY BalanceAssumption DEF Ever
    <3>2. Marked(Ever) # {} /\ MarkedBalance(Ever) = BankSays(Ever)
      BY <3>1, MarkerIsBank
    <3>3. acct.source # "latest_statement"
      BY <2>1 DEF BankCanSay
    <3>4. Batch = latest_bal_after
      BY <3>2, <3>3 DEF Batch
    <3>5. acct.source = "transaction_sum" => Single = MarkedBalance(Ever)
      BY <3>2 DEF Single
    <3> QED BY <3>2, <3>4, <3>5, ListFindsMarker
  <2>3. HistoryReadsTheClose
    <3> SUFFICES ASSUME NEW d \in 1 .. today, BankCanSay(d)
                 PROVE  Series(d) = BankSays(d)
      BY DEF HistoryReadsTheClose
    <3>1. d \in Nat
      BY Shapes DEF BalInv
    <3>2. Marked(d) # {} /\ MarkedBalance(d) = BankSays(d)
      BY <3>1, MarkerIsBank
    <3>3. acct.source # "latest_statement"
      BY <2>1 DEF BankCanSay
    <3>4. Series(d) = latest_bal_after_at(d)
      BY <3>2, <3>3 DEF Series
    <3> QED BY <3>1, <3>2, <3>4, LoopFindsMarker
  <2> QED BY <2>2, <2>3 DEF CloseIsRead
<1> QED BY <1>1, BalInvHolds, PTL

-----------------------------------------------------------------------------
(* The statement typed on the form *)

\* The rows the anchored readings count up to a day.
Since(d) ==
  {i \in DOMAIN rows : rows[i].day <= d /\ (\/ rows[i].day > acct.statement_balance_as_of
                                            \/ i \in anchor_day_rows)}

\* When entries post by the day after, these rows are the entries made by then
\* that the statement has not, each once, and the ones it has were made before.
LEMMA SinceIsTheRest ==
  ASSUME BalInv, AnchorComplete, Lags \subseteq {0, 1},
         NEW d \in Int, acct.statement_balance_as_of <= d
  PROVE  Opening + Total(book, {e \in DOMAIN book : book[e].day <= d})
           = Opening + Total(book, PostedBy(acct.statement_balance_as_of))
               + Total(rows, Since(d))
<1> DEFINE a == acct.statement_balance_as_of
           Rest == {e \in DOMAIN book : book[e].post > a /\ book[e].day <= d}
           n == [i \in DOMAIN rows |-> rows[i].entry]
<1>1. /\ Amounted(book) /\ Amounted(rows)
      /\ \A e \in DOMAIN book : book[e].post \in Int /\ book[e].day \in Int
      /\ a \in Int
  <2>1. \A e \in DOMAIN book : book[e].post \in Days /\ book[e].day \in Days
    BY Shapes DEF BalInv, AnEntry
  <2>2. a \in Days /\ Days \subseteq Int
    BY DEF BalInv, StatementsKept, AnchorComplete, Days
  <2> QED BY <2>1, <2>2, Shapes DEF BalInv
<1> HIDE DEF a
<1>2. \A i \in DOMAIN rows :
        /\ rows[i].entry \in DOMAIN book /\ rows[i].day = book[rows[i].entry].day
        /\ rows[i].amt = book[rows[i].entry].amt
        /\ rows[i].posted_after <=> book[rows[i].entry].post > book[rows[i].entry].day
  <2> SUFFICES ASSUME NEW i \in DOMAIN rows
               PROVE  /\ rows[i].entry \in DOMAIN book /\ rows[i].day = book[rows[i].entry].day
                      /\ rows[i].amt = book[rows[i].entry].amt
                      /\ rows[i].posted_after <=> book[rows[i].entry].post > book[rows[i].entry].day
    OBVIOUS
  <2>1. rows[i].entry # 0
    BY DEF AnchorComplete, Hand
  <2>2. PICK e \in DOMAIN book : rows[i] = RowOf(e)
    BY <2>1 DEF BalInv, RowsFromBook
  <2>3. /\ RowOf(e).entry = e /\ RowOf(e).day = book[e].day /\ RowOf(e).amt = book[e].amt
        /\ RowOf(e).posted_after = (book[e].post > book[e].day)
    BY DEF RowOf
  <2> QED BY <2>2, <2>3
<1>3. \A e \in DOMAIN book : book[e].day <= book[e].post /\ book[e].post <= book[e].day + 1
  <2> SUFFICES ASSUME NEW e \in DOMAIN book
               PROVE  book[e].day <= book[e].post /\ book[e].post <= book[e].day + 1
    OBVIOUS
  <2>1. book[e].post - book[e].day \in {0, 1}
    BY DEF BalInv, BookInOrder
  <2> QED BY <1>1, <2>1
<1>4. ASSUME NEW i \in DOMAIN rows
      PROVE  i \in Since(d) <=> rows[i].entry \in Rest
  <2>1. i \in Since(d) <=> /\ book[rows[i].entry].day <= d
                           /\ \/ book[rows[i].entry].day > a
                              \/ /\ book[rows[i].entry].day = a
                                 /\ book[rows[i].entry].post > book[rows[i].entry].day
    BY <1>2 DEF Since, anchor_day_rows, a
  <2> QED BY <1>1, <1>2, <1>3, <2>1
<1>5. \A e \in Rest : \E i \in DOMAIN rows : rows[i].entry = e
  <2>1. \A e \in Rest : e \in DOMAIN book /\ e \notin PostedBy(a)
    BY <1>1 DEF PostedBy
  <2>2. \A e \in Rest : e \in Held
    BY <2>1 DEF AnchorComplete, a
  <2> QED BY <2>2 DEF Held
<1>6. Since(d) \in SUBSET DOMAIN rows
  BY DEF Since
<1>7. {n[i] : i \in Since(d)} = Rest
  <2>1. \A i \in Since(d) : n[i] \in Rest
    BY <1>4, <1>6
  <2>2. ASSUME NEW e \in Rest PROVE \E i \in Since(d) : n[i] = e
    <3>1. PICK i \in DOMAIN rows : rows[i].entry = e
      BY <1>5
    <3>2. i \in Since(d) /\ n[i] = e
      BY <1>4, <3>1
    <3> QED BY <3>2
  <2> HIDE DEF n, Rest
  <2> QED BY <2>1, <2>2
<1>8. \A i \in Since(d) : n[i] \in DOMAIN book /\ rows[i].amt = book[n[i]].amt
  BY <1>2, <1>6
<1>9. \A i, j \in Since(d) : n[i] = n[j] => i = j
  <2>1. \A i \in DOMAIN rows : rows[i].entry # 0
    BY DEF AnchorComplete, Hand
  <2>2. \A i, j \in DOMAIN rows : rows[i].entry = rows[j].entry => i = j
    BY <2>1 DEF BalInv, RowsFromBook
  <2> QED BY <1>6, <2>2
<1>10. Total(rows, Since(d)) = Total(book, Rest)
  <2> HIDE DEF n, Rest
  <2>1. Total(rows, Since(d)) = Total(book, {n[i] : i \in Since(d)})
    BY <1>1, <1>6, <1>8, <1>9, TotalMatched
  <2> QED BY <1>7, <2>1
<1>11. {e \in DOMAIN book : book[e].day <= d} = PostedBy(a) \cup Rest
  <2>1. ASSUME NEW e \in DOMAIN book
        PROVE  book[e].day <= d <=> book[e].post <= a \/ (book[e].post > a /\ book[e].day <= d)
    BY <1>1, <1>3 DEF a
  <2> QED BY <2>1 DEF PostedBy
<1>12. PostedBy(a) \cap Rest = {} /\ PostedBy(a) \in SUBSET DOMAIN book /\ Rest \in SUBSET DOMAIN book
  BY <1>1 DEF PostedBy
<1> HIDE DEF Rest
<1>13. Total(book, PostedBy(a) \cup Rest) = Total(book, PostedBy(a)) + Total(book, Rest)
  BY <1>1, <1>12, TotalOfUnion
<1>14. Total(book, PostedBy(a)) \in Int /\ Total(book, Rest) \in Int
  BY <1>1, <1>12, TotalLess
<1>15. Total(book, {e \in DOMAIN book : book[e].day <= d}) = Total(book, PostedBy(a)) + Total(rows, Since(d))
  BY <1>10, <1>11, <1>13
<1>16. Opening \in Int /\ Total(rows, Since(d)) \in Int
  BY <1>10, <1>14, BalanceAssumption
<1>17. Opening + (Total(book, PostedBy(a)) + Total(rows, Since(d)))
         = Opening + Total(book, PostedBy(a)) + Total(rows, Since(d))
  BY <1>14, <1>16
<1> QED BY <1>15, <1>17 DEF a

\* What a statement says and the rows since come to the entries' sum in worth.
LEMMA StatementTerms ==
  ASSUME NEW x \in Int, NEW y \in Int
  PROVE  Worth(InStatementTerms(x) + InStatementTerms(y)) = x + y
BY DEF Worth, InStatementTerms

(***************************************************************************)
(* An account anchored at a statement is worth what the book says, and so  *)
(* is every day of its history since, however much of what came before the *)
(* statement is missing: when a card's balance is typed as what is owed    *)
(* and entries post by the day after they are made.  With a longer lag the *)
(* code does not look back far enough, and with a balance typed as a       *)
(* negative it takes a debt for a credit: the README quotes what TLC finds.*)
(***************************************************************************)
THEOREM AnchorIsTrue ==
  ASSUME TypedSigns \subseteq {1}, Lags \subseteq {0, 1}
  PROVE  Spec => []AnchorHolds
<1>1. BalInv => AnchorHolds
  <2> SUFFICES ASSUME BalInv, AnchorComplete
               PROVE  /\ Worth(Single) = Running(Len(book))
                      /\ ~HasBalanceColumn =>
                           \A d \in acct.statement_balance_as_of .. today :
                             Worth(Series(d)) = Opening + Total(book, {i \in DOMAIN book : book[i].day <= d})
    BY DEF AnchorHolds, AnchoredBalanceTrue, HistorySinceAnchorTrue
  <2> DEFINE a == acct.statement_balance_as_of
             On == Opening + Total(book, PostedBy(a))
  <2>1. /\ a \in Days /\ a \in Nat /\ a <= Ever /\ Ever \in Int
        /\ Amounted(book) /\ Amounted(rows)
        /\ Len(book) \in Nat /\ DOMAIN book = 1 .. Len(book)
        /\ today \in Int /\ today <= Ever
    <3>1. a \in Days
      BY DEF BalInv, StatementsKept, AnchorComplete
    <3> QED BY <3>1, Shapes, BalanceAssumption DEF BalInv, Days, Ever
  <2>2. acct.statement_balance = InStatementTerms(On)
    <3>1. acct.statement_balance = 1 * Paper(a)
      BY DEF AnchorComplete
    <3>2. Paper(a) \in Int
      BY <2>1, BookAddsUp DEF BalInv
    <3> QED BY <3>1, <3>2 DEF Paper
  <2>3. On \in Int /\ \A d : Total(rows, Since(d)) \in Int
    <3>1. PostedBy(a) \in SUBSET DOMAIN book /\ \A d : Since(d) \in SUBSET DOMAIN rows
      BY DEF PostedBy, Since
    <3>2. Total(book, PostedBy(a)) \in Int
      BY <2>1, <3>1, TotalLess
    <3>3. ASSUME NEW d PROVE Total(rows, Since(d)) \in Int
      BY <2>1, <3>1, TotalLess
    <3> QED BY <3>2, <3>3, BalanceAssumption
  <2>4. ASSUME NEW d \in Int, a <= d
        PROVE  Worth(acct.statement_balance + InStatementTerms(Total(rows, Since(d))))
                 = Opening + Total(book, {i \in DOMAIN book : book[i].day <= d})
    <3>1. Worth(acct.statement_balance + InStatementTerms(Total(rows, Since(d))))
            = On + Total(rows, Since(d))
      BY <2>2, <2>3, StatementTerms
    <3>2. Opening + Total(book, {i \in DOMAIN book : book[i].day <= d}) = On + Total(rows, Since(d))
      BY <2>4, SinceIsTheRest
    <3> QED BY <3>1, <3>2
  <2>5. \A i \in DOMAIN rows : rows[i].day \in Int /\ rows[i].day \in 1 .. Ever
    BY Shapes DEF BalInv, ARow, Days, Ever
  <2>6. Worth(Single) = Running(Len(book))
    <3>1. Single = StatementAnchored(Ever)
      BY DEF Single, AnchorComplete
    <3>2. RowsIn(a + 1, Ever) \cup {i \in anchor_day_rows : a <= Ever} = Since(Ever)
      BY <2>1, <2>5 DEF RowsIn, Since, anchor_day_rows
    <3>3. {i \in DOMAIN book : book[i].day <= Ever} = 1 .. Len(book)
      <4>1. \A i \in DOMAIN book : book[i].day \in Days
        BY Shapes DEF BalInv, AnEntry
      <4> QED BY <2>1, <4>1 DEF Days, Ever
    <3> QED BY <2>1, <2>4, <3>1, <3>2, <3>3 DEF StatementAnchored, Running
  <2>7. ASSUME ~HasBalanceColumn, NEW d \in a .. today
        PROVE  Worth(Series(d)) = Opening + Total(book, {i \in DOMAIN book : book[i].day <= d})
    <3>1. Marked(d) = {}
      <4>1. ASSUME NEW i \in DOMAIN rows PROVE rows[i].balance_after = None
        <5>1. rows[i].entry = 0 => rows[i].balance_after = None
          BY DEF BalInv, RowsFromBook
        <5>2. rows[i].entry # 0 => \E e \in DOMAIN book : rows[i] = RowOf(e)
          BY DEF BalInv, RowsFromBook
        <5>3. \A e : RowOf(e).balance_after = None
          BY <2>7 DEF RowOf
        <5> QED BY <5>1, <5>2, <5>3
      <4> QED BY <4>1 DEF Marked
    <3>2. Series(d) = SeriesAnchored(d)
      BY <3>1 DEF Series, AnchorComplete
    <3>3. {i \in RowsIn(1, d) : rows[i].day > a \/ i \in anchor_day_rows} = Since(d)
      BY <2>1, <2>5, <2>7 DEF RowsIn, Since
    <3>4. d \in Int /\ a <= d
      BY <2>1, <2>7
    <3> QED BY <2>4, <3>2, <3>3, <3>4 DEF SeriesAnchored
  <2> QED BY <2>6, <2>7
<1> QED BY <1>1, BalInvHolds, PTL
=============================================================================
