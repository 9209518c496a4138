--------------------------- MODULE RecurringProofs ---------------------------
(***************************************************************************)
(* What the app books again and again by itself: scheduled payments, and   *)
(* the interest it accrues.  For every account, plan, rate and calendar.   *)
(*                                                                         *)
(* First the schedules.  A sweep is a fold, of passes that are folds over  *)
(* the ledger: what every row leaves true (SweepRowKeeps), the sweep       *)
(* leaves true (SweptIsFair).  TypesTrue is inductive, and what the user   *)
(* decided and what is confirmed follow with NamesTrue and OccurrencesTrue. *)
(*                                                                         *)
(* Then the interest.  A month is right by itself when its accrual is what *)
(* the balance without it calls for.  Posting from the first wrong month   *)
(* makes every month right, and leaves the months before as they are       *)
(* (PostRunRight); right months all together are the reference             *)
(* (SoundAgrees).                                                          *)
(***************************************************************************)
EXTENDS ScheduledPayments, InterestAccrual, SumProofs

----------------------------------------------------------------------------
(* The order of the ledger, and the folds over it.                          *)

\* The rows have dates, and there are finitely many.
Dated == IsFiniteSet(DOMAIN txns) /\ \A i \in DOMAIN txns : i \in Nat /\ txns[i].date \in Nat

\* Of some rows one is the last: of the latest day the one with the greatest id.
LEMMA LastIsOne ==
  ASSUME Dated, NEW s \in SUBSET DOMAIN txns, s # {}
  PROVE  LastOf(s) \in s
<1> DEFINE Fine == {t \in SUBSET s : t = {} \/ \E m \in t : \A i \in t : NotLater(i, m)}
<1>1. IsFiniteSet(s) /\ \A i \in s : i \in Nat /\ txns[i].date \in Nat
  BY FS_Subset DEF Dated
<1>2. ASSUME NEW t \in SUBSET s, \A i \in t : t \ {i} \in Fine
      PROVE  t \in Fine
  <2> SUFFICES ASSUME t # {} PROVE \E m \in t : \A i \in t : NotLater(i, m)
    OBVIOUS
  <2>1. PICK j \in t : TRUE
    OBVIOUS
  <2>2. NotLater(j, j)
    BY <1>1 DEF NotLater
  <2>3. CASE t = {j}
    BY <2>2, <2>3
  <2>4. CASE t # {j}
    <3>1. PICK m \in t \ {j} : \A i \in t \ {j} : NotLater(i, m)
      <4>1. t \ {j} \in Fine /\ t \ {j} # {}
        BY <1>2, <2>1, <2>4
      <4> QED BY <4>1
    <3>2. NotLater(j, m) \/ NotLater(m, j)
      BY <1>1 DEF NotLater
    <3>3. CASE NotLater(j, m)
      BY <3>1, <3>3
    <3>4. CASE NotLater(m, j)
      <4>1. ASSUME NEW i \in t PROVE NotLater(i, j)
        <5>1. i = j \/ NotLater(i, m)
          BY <3>1
        <5> QED BY <1>1, <2>2, <3>4, <5>1 DEF NotLater
      <4> QED BY <4>1
    <3> QED BY <3>2, <3>3, <3>4
  <2> QED BY <2>3, <2>4
<1>3. SUBSET s \subseteq Fine
  <2> HIDE DEF Fine
  <2> QED BY <1>1, <1>2, ByElements
<1>4. \E m \in s : \A i \in s : NotLater(i, m)
  BY <1>3
<1> QED BY <1>4 DEF LastOf

\* Going through rows by date stays within what each row leaves: here with the
\* rows of an import, below with the ledger and the passes over it.
LEMMA MatchedWithin ==
  ASSUME Dated, NEW S \in SUBSET DOMAIN txns, NEW A, <<>> \in A,
         \A a \in A, r \in S : MatchRow(a, r) \in A
  PROVE  BatchMatches(S) \in A
<1> DEFINE pick == [s \in SUBSET S |-> LastOf(s)]
           step == [a \in A |-> [r \in S |-> MatchRow(a, r)]]
           Op(g) == [s \in SUBSET S |->
                       IF s = {} THEN <<>> ELSE MatchRow(g[s \ {LastOf(s)}], LastOf(s))]
           g == CHOOSE g : g = Op(g)
           none == <<>>
<1>1. BatchMatches(S) = g[S]
  BY Zenon DEF BatchMatches, ByDate, MapThenFoldSet
<1>2. IsFiniteSet(S) /\ \A s \in SUBSET S : s # {} => pick[s] \in s /\ pick[s] = LastOf(s)
  BY LastIsOne, FS_Subset DEF Dated
<1>3. \A a \in A, r \in S : step[a][r] \in A /\ step[a][r] = MatchRow(a, r)
  OBVIOUS
<1>n. none \in A /\ none = <<>>
  OBVIOUS
<1> HIDE DEF pick, step, none
<1>4. Folds(S, pick, A, none, step) # {}
  <2>1. IsFiniteSet(S) /\ (\A s \in SUBSET S : s # {} => pick[s] \in s) /\ none \in A
    BY <1>2, <1>n
  <2>2. \A a \in A, r \in S : step[a][r] \in A
    BY <1>3
  <2> QED BY <2>1, <2>2, FoldWithin
<1> PICK h \in Folds(S, pick, A, none, step) : TRUE
  BY <1>4
<1>h. h \in [SUBSET S -> A] /\ h = FoldRound(S, pick, none, step, h)
  BY DEF Folds
<1>5. ASSUME NEW s \in SUBSET S, s # {}
      PROVE  s \ {LastOf(s)} \in SUBSET S /\ LastOf(s) \in S
  BY <1>2, <1>5
<1>6. h = Op(h)
  <2>1. ASSUME NEW s \in SUBSET S PROVE FoldRound(S, pick, none, step, h)[s] = Op(h)[s]
    BY <1>2, <1>3, <1>5, <1>h, <1>n, <2>1 DEF FoldRound
  <2>2. FoldRound(S, pick, none, step, h) = [s \in SUBSET S |-> FoldRound(S, pick, none, step, h)[s]]
    BY DEF FoldRound
  <2>3. Op(h) = [s \in SUBSET S |-> Op(h)[s]]
    OBVIOUS
  <2> HIDE DEF Op
  <2> QED BY <1>h, <2>1, <2>2, <2>3
<1>7. g = Op(g)
  BY <1>6
<1> HIDE DEF g
<1>8. g[{}] \in A
  BY <1>7
<1>9. ASSUME NEW s \in SUBSET S, s # {}, g[s \ {pick[s]}] \in A PROVE g[s] \in A
  <2>1. g[s] = MatchRow(g[s \ {LastOf(s)}], LastOf(s))
    BY <1>7, <1>9
  <2>2. g[s \ {LastOf(s)}] \in A
    BY <1>2, <1>9
  <2> QED BY <1>5, <1>9, <2>1, <2>2
<1>10. g[S] \in A
  BY <1>2, <1>8, <1>9, FoldStays
<1> QED BY <1>1, <1>10

\* The same of the sweep's pass over the ledger; B says, besides, what holds once
\* the pass has been through some of the rows.
LEMMA SweptThrough ==
  ASSUME Dated, NEW A, NEW st \in A, \A a \in A, r \in DOMAIN txns : SweepRow(a, r) \in A,
         NEW B, <<st, {}>> \in B,
         \A a \in A, s \in SUBSET DOMAIN txns : \A r \in s :
           <<a, s \ {r}>> \in B => <<SweepRow(a, r), s>> \in B
  PROVE  LET end == ByDate(SweepRow, st, DOMAIN txns) IN
         end \in A /\ <<end, DOMAIN txns>> \in B
<1> DEFINE S == DOMAIN txns
           pick == [s \in SUBSET S |-> LastOf(s)]
           step == [a \in A |-> [r \in S |-> SweepRow(a, r)]]
           Op(g) == [s \in SUBSET S |->
                       IF s = {} THEN st ELSE SweepRow(g[s \ {LastOf(s)}], LastOf(s))]
           g == CHOOSE g : g = Op(g)
<1>1. ByDate(SweepRow, st, S) = g[S]
  BY Zenon DEF ByDate, MapThenFoldSet
<1>2. IsFiniteSet(S) /\ \A s \in SUBSET S : s # {} => pick[s] \in s /\ pick[s] = LastOf(s)
  BY LastIsOne, FS_Subset DEF Dated
<1>3. \A a \in A, r \in S : step[a][r] \in A /\ step[a][r] = SweepRow(a, r)
  OBVIOUS
<1>r. \A a \in A, r \in S : SweepRow(a, r) \in A
  OBVIOUS
<1>b. /\ <<st, {}>> \in B
      /\ \A a \in A, s \in SUBSET S : \A r \in s :
           <<a, s \ {r}>> \in B => <<SweepRow(a, r), s>> \in B
  OBVIOUS
<1> HIDE DEF pick, step, S
<1>4. Folds(S, pick, A, st, step) # {}
  <2>1. IsFiniteSet(S) /\ (\A s \in SUBSET S : s # {} => pick[s] \in s) /\ st \in A
    BY <1>2
  <2>2. \A a \in A, r \in S : step[a][r] \in A
    BY <1>3
  <2> QED BY <2>1, <2>2, FoldWithin
<1> PICK h \in Folds(S, pick, A, st, step) : TRUE
  BY <1>4
<1>h. h \in [SUBSET S -> A] /\ h = FoldRound(S, pick, st, step, h)
  BY DEF Folds
<1>5. ASSUME NEW s \in SUBSET S, s # {}
      PROVE  s \ {LastOf(s)} \in SUBSET S /\ LastOf(s) \in S
  BY <1>2, <1>5
<1>6. h = Op(h)
  <2>1. ASSUME NEW s \in SUBSET S PROVE FoldRound(S, pick, st, step, h)[s] = Op(h)[s]
    BY <1>2, <1>3, <1>5, <1>h, <2>1 DEF FoldRound
  <2>2. FoldRound(S, pick, st, step, h) = [s \in SUBSET S |-> FoldRound(S, pick, st, step, h)[s]]
    BY DEF FoldRound
  <2>3. Op(h) = [s \in SUBSET S |-> Op(h)[s]]
    OBVIOUS
  <2> HIDE DEF Op
  <2> QED BY <1>h, <2>1, <2>2, <2>3
<1>7. g = Op(g)
  BY <1>6
<1> HIDE DEF g
<1> DEFINE G == [s \in SUBSET S |-> <<g[s], s>>]
           AB == {x \in A \X SUBSET S : x \in B}
<1>8. G[{}] \in AB
  BY <1>7, <1>b
<1>9. ASSUME NEW s \in SUBSET S, s # {}, G[s \ {pick[s]}] \in AB PROVE G[s] \in AB
  <2> DEFINE last == LastOf(s)
             rest == g[s \ {LastOf(s)}]
  <2>1. g[s] = SweepRow(rest, last) /\ last \in s /\ pick[s] = last
    BY <1>2, <1>7, <1>9
  <2>2. rest \in A /\ <<rest, s \ {last}>> \in B
    BY <1>2, <1>5, <1>9
  <2> HIDE DEF rest, last
  <2>3. SweepRow(rest, last) \in A /\ <<SweepRow(rest, last), s>> \in B
    BY <1>b, <1>r, <2>1, <2>2
  <2> QED BY <2>1, <2>3
<1> HIDE DEF G, AB
<1>10. G[S] \in AB
  BY <1>2, <1>8, <1>9, FoldStays
<1> QED BY <1>1, <1>10 DEF S, G, AB

LEMMA SweptWithin ==
  ASSUME Dated, NEW A, NEW st \in A, \A a \in A, r \in DOMAIN txns : SweepRow(a, r) \in A
  PROVE  ByDate(SweepRow, st, DOMAIN txns) \in A
<1> DEFINE B == A \X SUBSET DOMAIN txns
<1>1. <<st, {}>> \in B
  OBVIOUS
<1>2. \A a \in A, s \in SUBSET DOMAIN txns : \A r \in s :
        <<a, s \ {r}>> \in B => <<SweepRow(a, r), s>> \in B
  OBVIOUS
<1> HIDE DEF B
<1> QED BY <1>1, <1>2, SweptThrough

\* The places of a sequence are finitely many, and of some of them one is the last.
LEMMA IndexPicked ==
  ASSUME NEW n \in Nat
  PROVE  /\ IsFiniteSet(1 .. n)
         /\ \A s \in SUBSET (1 .. n) : s # {} => Max(s) \in s
<1>1. IsFiniteSet(1 .. n)
  BY FS_Interval
<1>2. ASSUME NEW s \in SUBSET (1 .. n), s # {} PROVE Max(s) \in s
  <2>1. IsFiniteSet(s)
    BY <1>1, FS_Subset
  <2>2. s \subseteq Int
    OBVIOUS
  <2> QED BY <1>2, <2>1, <2>2, Greatest
<1> QED BY <1>1, <1>2

\* One more pass, unless the last one settled nothing.
Again(st) == IF st.used = {} THEN st ELSE Pass(st)

\* ... of its passes, where B says what holds after some more of them ...
LEMMA PassesThrough ==
  ASSUME NEW A, Pass(Before) \in A, \A a \in A : Pass(a) \in A,
         NEW B, <<Pass(Before), {}>> \in B,
         \A a \in A, s \in SUBSET (1 .. 23) : \A n \in s :
           <<a, s \ {n}>> \in B => <<Again(a), s>> \in B
  PROVE  Swept \in A /\ <<Swept, 1 .. 23>> \in B
<1> DEFINE base == Pass(Before)
           S == DOMAIN [n \in 1 .. MaxPasses - 1 |-> n]
           pick == [s \in SUBSET S |-> Max(s)]
           step == [a \in A |-> [r \in S |-> Again(a)]]
           Op(g) == [s \in SUBSET S |->
                       IF s = {} THEN base ELSE Again(g[s \ {Max(s)}])]
           g == CHOOSE g : g = Op(g)
<1>1. Swept = g[S]
  BY Zenon DEF Swept, FoldLeft, MapThenFoldSet, Again
<1>s. S = 1 .. 23
  BY DEF MaxPasses
<1>2. IsFiniteSet(S) /\ \A s \in SUBSET S : s # {} => pick[s] \in s /\ pick[s] = Max(s)
  <2> HIDE DEF S
  <2> QED BY <1>s, IndexPicked
<1>n. base \in A /\ \A a \in A : Again(a) \in A
  BY DEF Again
<1>b. /\ <<base, {}>> \in B
      /\ \A a \in A, s \in SUBSET S : \A n \in s :
           <<a, s \ {n}>> \in B => <<Again(a), s>> \in B
  <2> HIDE DEF S
  <2> QED BY <1>s
<1>3. \A a \in A, r \in S : step[a][r] \in A /\ step[a][r] = Again(a)
  BY <1>n
<1> HIDE DEF pick, step, S, base
<1>4. Folds(S, pick, A, base, step) # {}
  <2>1. IsFiniteSet(S) /\ (\A s \in SUBSET S : s # {} => pick[s] \in s) /\ base \in A
    BY <1>2, <1>n
  <2>2. \A a \in A, r \in S : step[a][r] \in A
    BY <1>3
  <2> QED BY <2>1, <2>2, FoldWithin
<1> PICK h \in Folds(S, pick, A, base, step) : TRUE
  BY <1>4
<1>h. h \in [SUBSET S -> A] /\ h = FoldRound(S, pick, base, step, h)
  BY DEF Folds
<1>5. ASSUME NEW s \in SUBSET S, s # {}
      PROVE  s \ {Max(s)} \in SUBSET S /\ Max(s) \in S
  BY <1>2, <1>5
<1>6. h = Op(h)
  <2>1. ASSUME NEW s \in SUBSET S PROVE FoldRound(S, pick, base, step, h)[s] = Op(h)[s]
    BY <1>2, <1>3, <1>5, <1>h, <2>1 DEF FoldRound
  <2>2. FoldRound(S, pick, base, step, h) = [s \in SUBSET S |-> FoldRound(S, pick, base, step, h)[s]]
    BY DEF FoldRound
  <2>3. Op(h) = [s \in SUBSET S |-> Op(h)[s]]
    OBVIOUS
  <2> HIDE DEF Op
  <2> QED BY <1>h, <2>1, <2>2, <2>3
<1>7. g = Op(g)
  BY <1>6
<1> HIDE DEF g
<1> DEFINE G == [s \in SUBSET S |-> <<g[s], s>>]
           AB == {x \in A \X SUBSET S : x \in B}
<1>8. G[{}] \in AB
  BY <1>7, <1>b, <1>n
<1>9. ASSUME NEW s \in SUBSET S, s # {}, G[s \ {pick[s]}] \in AB PROVE G[s] \in AB
  <2> DEFINE last == Max(s)
             rest == g[s \ {Max(s)}]
  <2>1. g[s] = Again(rest) /\ last \in s /\ pick[s] = last
    BY <1>2, <1>7, <1>9
  <2>2. rest \in A /\ <<rest, s \ {last}>> \in B
    BY <1>2, <1>5, <1>9
  <2> HIDE DEF rest, last
  <2>3. Again(rest) \in A /\ <<Again(rest), s>> \in B
    BY <1>b, <1>n, <2>1, <2>2
  <2> QED BY <2>1, <2>3
<1> HIDE DEF G, AB
<1>10. G[S] \in AB
  BY <1>2, <1>8, <1>9, FoldStays
<1> QED BY <1>1, <1>10, <1>s DEF G, AB

LEMMA PassesWithin ==
  ASSUME NEW A, Pass(Before) \in A, \A a \in A : Pass(a) \in A
  PROVE  Swept \in A
<1> DEFINE B == A \X SUBSET (1 .. 23)
<1>1. <<Pass(Before), {}>> \in B
  OBVIOUS
<1>2. \A a \in A, s \in SUBSET (1 .. 23) : \A n \in s :
        <<a, s \ {n}>> \in B => <<Again(a), s>> \in B
  BY DEF Again
<1> HIDE DEF B
<1> QED BY <1>1, <1>2, PassesThrough

\* ... and of the rows an import puts on the ledger.
LEMMA PostedWithin ==
  ASSUME NEW R, NEW seq \in Seq(R), NEW A, NEW base \in A,
         \A a \in A, row \in R : Post(a, row) \in A
  PROVE  FoldLeft(Post, base, seq) \in A
<1> DEFINE S == DOMAIN seq
           pick == [s \in SUBSET S |-> Max(s)]
           step == [a \in A |-> [r \in S |-> Post(a, seq[r])]]
           Op(g) == [s \in SUBSET S |->
                       IF s = {} THEN base ELSE Post(g[s \ {Max(s)}], seq[Max(s)])]
           g == CHOOSE g : g = Op(g)
<1>1. FoldLeft(Post, base, seq) = g[S]
  BY Zenon DEF FoldLeft, MapThenFoldSet
<1>m. Len(seq) \in Nat /\ S = 1 .. Len(seq) /\ \A i \in S : seq[i] \in R
  OBVIOUS
<1>2. IsFiniteSet(S) /\ \A s \in SUBSET S : s # {} => pick[s] \in s /\ pick[s] = Max(s)
  BY <1>m, IndexPicked
<1>n. \A a \in A, r \in S : Post(a, seq[r]) \in A
  BY <1>m
<1>3. \A a \in A, r \in S : step[a][r] \in A /\ step[a][r] = Post(a, seq[r])
  BY <1>n
<1> HIDE DEF pick, step, S
<1>4. Folds(S, pick, A, base, step) # {}
  <2>1. IsFiniteSet(S) /\ (\A s \in SUBSET S : s # {} => pick[s] \in s) /\ base \in A
    BY <1>2, <1>n
  <2>2. \A a \in A, r \in S : step[a][r] \in A
    BY <1>3
  <2> QED BY <2>1, <2>2, FoldWithin
<1> PICK h \in Folds(S, pick, A, base, step) : TRUE
  BY <1>4
<1>h. h \in [SUBSET S -> A] /\ h = FoldRound(S, pick, base, step, h)
  BY DEF Folds
<1>5. ASSUME NEW s \in SUBSET S, s # {}
      PROVE  s \ {Max(s)} \in SUBSET S /\ Max(s) \in S
  BY <1>2, <1>5
<1>6. h = Op(h)
  <2>1. ASSUME NEW s \in SUBSET S PROVE FoldRound(S, pick, base, step, h)[s] = Op(h)[s]
    BY <1>2, <1>3, <1>5, <1>h, <2>1 DEF FoldRound
  <2>2. FoldRound(S, pick, base, step, h) = [s \in SUBSET S |-> FoldRound(S, pick, base, step, h)[s]]
    BY DEF FoldRound
  <2>3. Op(h) = [s \in SUBSET S |-> Op(h)[s]]
    OBVIOUS
  <2> HIDE DEF Op
  <2> QED BY <1>h, <2>1, <2>2, <2>3
<1>7. g = Op(g)
  BY <1>6
<1> HIDE DEF g
<1>8. g[{}] \in A
  BY <1>7, <1>n
<1>9. ASSUME NEW s \in SUBSET S, s # {}, g[s \ {pick[s]}] \in A PROVE g[s] \in A
  <2>1. g[s] = Post(g[s \ {Max(s)}], seq[Max(s)])
    BY <1>7, <1>9
  <2>2. g[s \ {Max(s)}] \in A
    BY <1>2, <1>9
  <2> QED BY <1>5, <1>9, <1>n, <2>1, <2>2
<1>10. g[S] \in A
  BY <1>2, <1>8, <1>9, FoldStays
<1> QED BY <1>1, <1>10 DEF S

----------------------------------------------------------------------------
(* The shapes of the tables.                                                *)

Row == [date : Nat, look : Looks, slot : {NoSlot} \cup (Scheds \X Nat)]
Sched == [name : Names, due : Nat, last : Nat, seen : Nat, active : BOOLEAN,
          source : {"manual", "auto", "statement"}]
Status == {"pending", "confirmed", "rejected"}
Match == [sched : Nat, row : Nat, day : Nat, due : Nat]
Session == [sched : Nat, day : Nat, due : Nat, rows : SUBSET Nat, found : SUBSET Match,
            names : SUBSET Names]
Stages == {"idle", "confirm", "match", "settle", "sweep", "detect"}

\* Tables, and what they point at.
LedgerIs(ts) == ts \in [DOMAIN ts -> Row] /\ DOMAIN ts \subseteq Txns
PlansAre(ss) == ss \in [DOMAIN ss -> Sched] /\ DOMAIN ss \subseteq Scheds
PointInto(ss, ts) == \A p \in DOMAIN ss : ss[p].last \in DOMAIN ts \cup {None}
AskedAre(ps, ss, ts) ==
  ps \in [DOMAIN ps -> Status] /\ DOMAIN ps \subseteq (DOMAIN ss) \X (DOMAIN ts)

TablesTrue ==
  /\ LedgerIs(txns) /\ PlansAre(scheds)
  /\ PointInto(scheds, txns) /\ AskedAre(proposals, scheds, txns)

TypesTrue ==
  /\ home \in Homes
  /\ TablesTrue
  /\ dismissed \subseteq Names /\ refused \in BOOLEAN
  /\ pc \in [Requests -> Stages]
  /\ sess \in [Requests -> Session]

\* The tables are what TypeOK says they are.
LEMMA TypesSuffice == ASSUME TypesTrue PROVE TypeOK
BY DEF TypesTrue, TablesTrue, LedgerIs, PlansAre, PointInto, AskedAre, TypeOK, Row, Sched,
       Status, Stages, NoSlot

\* What is true of every home.
LEMMA HomeTrue ==
  ASSUME home \in Homes
  PROVE  /\ home.names \subseteq Names /\ home.stated \subseteq Names /\ home.found \subseteq Names
         /\ home.files \subseteq DOMAIN Statements /\ home.entries \subseteq Entries
         /\ home.offered \subseteq Nat /\ home.typed \subseteq Nat
         /\ home.txns \in Nat /\ home.scheds \in Nat
BY PlanAssumption DEF Days

\* Rows have dates and are finitely many.
LEMMA LedgerDated ==
  ASSUME home \in Homes, LedgerIs(txns)
  PROVE  Dated
<1>1. IsFiniteSet(Txns)
  BY HomeTrue, FS_Interval DEF Txns
<1>2. IsFiniteSet(DOMAIN txns)
  BY <1>1, FS_Subset DEF LedgerIs
<1>3. \A i \in DOMAIN txns : i \in Nat /\ txns[i].date \in Nat
  BY DEF LedgerIs, Row, Txns
<1> QED BY <1>2, <1>3 DEF Dated

\* The next due day is a day: every period has a length (NextDue).
LEMMA NextDueIsDay ==
  ASSUME NEW s \in Sched, NEW day \in Nat
  PROVE  NextDue(s, day) \in Nat
<1> DEFINE plan == Plan[s.name]
           m == (day - 1) \div MonthLength
           x == (day - 1) % MonthLength
<1>1. /\ plan \in [unit : Units, len : Nat, anchor : Nat, due : Nat]
      /\ plan.unit = "once" \/ plan.len > 0
      /\ MonthLength \in Nat \ {0} /\ s.due \in Nat
  BY PlanAssumption DEF Sched
<1>2. m \in Int /\ x \in Nat /\ day - 1 = MonthLength * m + x /\ x < MonthLength
  <2>1. \A a \in Int, b \in Nat \ {0} :
          a \div b \in Int /\ a % b \in Nat /\ a = (b * (a \div b)) + (a % b) /\ (a % b) < b
    OBVIOUS
  <2> QED BY <1>1, <2>1
<1> HIDE DEF plan, m, x
<1>3. m >= -1
  <2> SUFFICES ASSUME m < -1 PROVE FALSE
    BY <1>2
  <2>1. -2 - m \in Nat /\ MonthLength * (-2 - m) \in Nat
    BY <1>1, <1>2
  <2>2. MonthLength * m = -2 * MonthLength - MonthLength * (-2 - m)
    BY <1>1, <1>2
  <2> QED BY <1>1, <1>2, <2>1, <2>2
<1>4. CASE plan.unit = "months"
  <2>1. m + plan.len \in Nat
    BY <1>1, <1>2, <1>3, <1>4
  <2>2. (m + plan.len) * MonthLength \in Nat
    BY <1>1, <2>1
  <2>3. plan.anchor \in Nat /\ x + 1 \in Nat
    BY <1>1, <1>2
  <2> QED BY <1>4, <2>2, <2>3 DEF NextDue, plan, m, x
<1>5. CASE plan.unit = "days"
  BY <1>1, <1>5 DEF NextDue, plan
<1>6. CASE plan.unit = "once"
  BY <1>1, <1>6 DEF NextDue, plan
<1> QED BY <1>1, <1>4, <1>5, <1>6 DEF Units

\* A schedule that is settled is one still: of that name, from that source.
LEMMA SettledIs ==
  ASSUME NEW s \in Sched, NEW r \in Nat, NEW day \in Nat
  PROVE  /\ Settle(s, r, day) \in Sched /\ Settle(s, r, day).last = r
         /\ Settle(s, r, day).name = s.name /\ Settle(s, r, day).source = s.source
BY NextDueIsDay DEF Settle, Advance, Sched

----------------------------------------------------------------------------
(* What a sweep may do.                                                     *)

\* A score is a number.
LEMMA ScoreIsNumber ==
  ASSUME LedgerIs(txns), NEW s \in Sched, NEW r \in DOMAIN txns
  PROVE  Score(s, r) \in Int
<1>1. txns[r] \in Row
  BY DEF LedgerIs
<1>2. Likeness[s.name][txns[r].look] \in Int
  <2>1. s.name \in Names /\ txns[r].look \in Looks
    BY <1>1 DEF Sched, Row
  <2>2. Likeness[s.name] \in [Looks -> 0 .. 132]
    BY <2>1, PlanAssumption
  <2>3. Likeness[s.name][txns[r].look] \in 0 .. 132
    BY <2>1, <2>2
  <2> QED BY <2>3
<1>3. DatePoints(Gap(txns[r].date, s.due)) \in Int
  BY <1>1 DEF DatePoints, Gap, Sched, Row
<1> QED BY <1>2, <1>3 DEF Score

\* The schedules that answer a row best.
Best(ss, S, r) == {p \in S : IsBest(p, S, LAMBDA q : Score(ss[q], r))}

\* There is at most one.
LEMMA BestIsOne ==
  ASSUME LedgerIs(txns), NEW ss, PlansAre(ss), NEW S \in SUBSET DOMAIN ss,
         NEW r \in DOMAIN txns, NEW p \in Best(ss, S, r), NEW o \in Best(ss, S, r)
  PROVE  p = o
<1>1. \A q \in DOMAIN ss : Score(ss[q], r) \in Int /\ q \in Nat
  BY ScoreIsNumber DEF PlansAre, Scheds
<1>2. /\ p \in S /\ o \in S
      /\ Score(ss[o], r) < Score(ss[p], r) \/ (Score(ss[o], r) = Score(ss[p], r) /\ p <= o)
      /\ Score(ss[p], r) < Score(ss[o], r) \/ (Score(ss[p], r) = Score(ss[o], r) /\ o <= p)
  BY DEF IsBest, Best
<1> QED BY <1>1, <1>2

\* What a sweep has at hand: schedules, proposals, rows taken, schedules settled.
Work ==
  [scheds : [DOMAIN scheds -> Sched],
   proposals : UNION {[D -> Status] : D \in SUBSET ((DOMAIN scheds) \X (DOMAIN txns))},
   claimed : SUBSET Nat, used : SUBSET DOMAIN scheds, settled : SUBSET (Nat \X Nat)]

\* Schedules keep their names and sources and point at rows; every question stays
\* as it was answered; and whoever points at another row than before, is the only
\* one to point at it.
Swings(st) ==
  /\ PointInto(st.scheds, txns)
  /\ \A p \in DOMAIN scheds :
       st.scheds[p].name = scheds[p].name /\ st.scheds[p].source = scheds[p].source
  /\ \A k \in DOMAIN proposals :
       k \in DOMAIN st.proposals /\ st.proposals[k] = proposals[k]
  /\ \A p, q \in DOMAIN scheds :
       st.scheds[p].last # scheds[p].last /\ p # q => st.scheds[p].last # st.scheds[q].last

\* Within a pass, the rows that schedules point at are taken.
OutOfPlay(st) == Claimed(st.scheds) \subseteq st.claimed

\* A row of the ledger settles at most one schedule, and only if no schedule
\* points at it.
LEMMA SweepRowKeeps ==
  ASSUME home \in Homes, TablesTrue, NEW st \in Work, Swings(st), OutOfPlay(st),
         NEW r \in DOMAIN txns
  PROVE  SweepRow(st, r) \in Work /\ Swings(SweepRow(st, r)) /\ OutOfPlay(SweepRow(st, r))
<1> DEFINE open == {p \in DOMAIN st.scheds : Candidate(st, p, r)}
           best == Best(st.scheds, open, r)
           sure == {p \in best : Score(st.scheds[p], r) >= AutoMatch}
           likely == {p \in best \ sure : /\ Score(st.scheds[p], r) >= Propose
                                          /\ <<p, r>> \notin DOMAIN st.proposals}
           ss == [p \in DOMAIN st.scheds |->
                    IF p \in sure THEN Settle(st.scheds[p], r, txns[r].date)
                    ELSE st.scheds[p]]
           ps == [k \in DOMAIN st.proposals \cup (likely \X {r}) |->
                    IF k \in DOMAIN st.proposals THEN st.proposals[k] ELSE "pending"]
           new == [scheds |-> ss, proposals |-> ps,
                   claimed |-> IF sure = {} THEN st.claimed ELSE st.claimed \cup {r},
                   used |-> st.used \cup sure,
                   settled |-> st.settled \cup ({r} \X sure)]
<1> SUFFICES ASSUME r \notin st.claimed
             PROVE  new \in Work /\ Swings(new) /\ OutOfPlay(new)
  BY DEF SweepRow, Best
<1>1. /\ txns[r] \in Row /\ txns[r].date \in Nat /\ r \in Nat /\ r # None
      /\ LedgerIs(txns)
  BY DEF TablesTrue, LedgerIs, Row, Txns, None
<1>2. /\ st.scheds \in [DOMAIN scheds -> Sched] /\ DOMAIN st.scheds = DOMAIN scheds
      /\ DOMAIN scheds \subseteq Scheds /\ Scheds \subseteq Nat
      /\ st.proposals \in UNION {[D -> Status] : D \in SUBSET ((DOMAIN scheds) \X (DOMAIN txns))}
      /\ st.claimed \subseteq Nat /\ st.used \subseteq DOMAIN scheds
      /\ st.settled \subseteq Nat \X Nat
  BY DEF Work, TablesTrue, PlansAre, Scheds
<1>3. PlansAre(st.scheds)
  BY <1>2 DEF PlansAre
<1>4. sure \subseteq DOMAIN scheds /\ likely \subseteq DOMAIN scheds /\ best \subseteq DOMAIN scheds
  BY <1>2 DEF Best
<1>5. \A p, o \in sure : p = o
  <2>1. open \subseteq DOMAIN st.scheds
    OBVIOUS
  <2> HIDE DEF open
  <2> QED BY <1>1, <1>3, <2>1, BestIsOne
<1>6. ASSUME NEW p \in DOMAIN st.scheds
      PROVE  LET x == Settle(st.scheds[p], r, txns[r].date) IN
             /\ x \in Sched /\ x.last = r
             /\ x.name = st.scheds[p].name /\ x.source = st.scheds[p].source
  BY <1>1, <1>2, SettledIs
<1>7. st.scheds \in [DOMAIN st.scheds -> Sched] /\ \A p \in DOMAIN st.scheds : st.scheds[p].last \in Nat
  BY <1>2 DEF Sched
<1>8. \A p \in DOMAIN st.scheds : st.scheds[p].last # r
  BY <1>1 DEF OutOfPlay, Claimed
<1>9. PICK D \in SUBSET ((DOMAIN scheds) \X (DOMAIN txns)) : st.proposals \in [D -> Status]
  BY <1>2
<1> HIDE DEF open, best, likely
<1>10. ss \in [DOMAIN scheds -> Sched]
  BY <1>2, <1>6
<1>11. ps \in [D \cup (likely \X {r}) -> Status]
  BY <1>9 DEF Status
<1>12. D \cup (likely \X {r}) \in SUBSET ((DOMAIN scheds) \X (DOMAIN txns))
  BY <1>4
<1>13. ps \in UNION {[C -> Status] : C \in SUBSET ((DOMAIN scheds) \X (DOMAIN txns))}
  BY <1>11, <1>12
<1>14. \A p \in DOMAIN scheds :
         /\ p \in sure => ss[p].last = r
         /\ p \notin sure => ss[p].last = st.scheds[p].last
         /\ ss[p].name = st.scheds[p].name /\ ss[p].source = st.scheds[p].source
  BY <1>2, <1>6
<1>15. DOMAIN ss = DOMAIN scheds
  BY <1>2
<1>16. \A k \in DOMAIN st.proposals : k \in DOMAIN ps /\ ps[k] = st.proposals[k]
  OBVIOUS
<1>17. {r} \X sure \subseteq Nat \X Nat
  BY <1>1, <1>2, <1>4
<1> HIDE DEF ss, ps, sure
<1>18. new \in Work
  BY <1>1, <1>2, <1>4, <1>10, <1>13, <1>17 DEF Work
<1>19. Swings(new)
  <2>1. PointInto(new.scheds, txns)
    BY <1>2, <1>14, <1>15 DEF PointInto, Swings
  <2>2. ASSUME NEW p \in DOMAIN scheds, NEW q \in DOMAIN scheds,
               ss[p].last # scheds[p].last, p # q, ss[p].last = ss[q].last
        PROVE  FALSE
    <3>1. CASE p \in sure
      BY <1>2, <1>5, <1>8, <1>14, <2>2, <3>1
    <3>2. CASE p \notin sure
      BY <1>2, <1>8, <1>14, <2>2, <3>2 DEF Swings
    <3> QED BY <3>1, <3>2
  <2>3. \A p \in DOMAIN scheds : ss[p].name = scheds[p].name /\ ss[p].source = scheds[p].source
    BY <1>14 DEF Swings
  <2>4. \A k \in DOMAIN proposals : k \in DOMAIN ps /\ ps[k] = proposals[k]
    BY <1>16 DEF Swings
  <2> QED BY <2>1, <2>2, <2>3, <2>4 DEF Swings
<1>20. OutOfPlay(new)
  BY <1>2, <1>14, <1>15 DEF OutOfPlay, Claimed
<1> QED BY <1>18, <1>19, <1>20

\* What a sweep may make of the account.
Fair == {st \in Work : Swings(st)}

\* A pass starts from the rows that are pointed at, and ends fairly.
LEMMA PassKeeps ==
  ASSUME home \in Homes, TablesTrue, NEW st \in Fair
  PROVE  Pass(st) \in Fair
<1> DEFINE A == {x \in Work : Swings(x) /\ OutOfPlay(x)}
           start == [st EXCEPT !.claimed = Claimed(st.scheds), !.used = {}]
<1>1. Dated
  BY LedgerDated DEF TablesTrue
<1>2. start \in A
  <2>1. /\ start.scheds = st.scheds /\ start.proposals = st.proposals
        /\ start.claimed = Claimed(st.scheds)
    BY DEF Fair, Work
  <2>2. Claimed(st.scheds) \subseteq Nat
    BY DEF Fair, Work, Claimed, Sched
  <2>3. start \in Work
    BY <2>2 DEF Fair, Work
  <2>4. Swings(start) /\ OutOfPlay(start)
    BY <2>1 DEF Fair, Swings, OutOfPlay
  <2> QED BY <2>3, <2>4
<1>3. \A a \in A, r \in DOMAIN txns : SweepRow(a, r) \in A
  BY SweepRowKeeps
<1> HIDE DEF start, A
<1>4. ByDate(SweepRow, start, DOMAIN txns) \in A
  BY <1>1, <1>2, <1>3, SweptWithin
<1> QED BY <1>4 DEF Pass, Fair, A, start

\* So does the whole sweep.
LEMMA SweptIsFair ==
  ASSUME home \in Homes, TablesTrue
  PROVE  Swept \in Fair
<1>1. Before \in Fair
  <2>1. Before.scheds = scheds /\ Before.proposals = proposals
    BY DEF Before
  <2>2. Before \in Work
    <3>1. scheds \in [DOMAIN scheds -> Sched]
      BY DEF TablesTrue, PlansAre
    <3>2. proposals \in UNION {[D -> Status] : D \in SUBSET ((DOMAIN scheds) \X (DOMAIN txns))}
      BY DEF TablesTrue, AskedAre
    <3> QED BY <3>1, <3>2 DEF Before, Work
  <2>3. Swings(Before)
    BY <2>1 DEF Swings, TablesTrue
  <2> QED BY <2>2, <2>3 DEF Fair
<1>2. Pass(Before) \in Fair /\ \A st \in Fair : Pass(st) \in Fair
  BY <1>1, PassKeeps
<1> QED BY <1>2, PassesWithin

----------------------------------------------------------------------------
(* What an import may do.                                                   *)

\* A ledger under an import: what it holds, and the rows the import put there.
Batches == [ledger : UNION {[D -> Row] : D \in SUBSET Txns}, rows : SUBSET Txns]
\* No row is lost, and a row that carries an occurrence is one from before.
Grown(acc) ==
  /\ DOMAIN txns \subseteq DOMAIN acc.ledger
  /\ \A i \in DOMAIN acc.ledger :
       acc.ledger[i].slot # NoSlot => i \in DOMAIN txns /\ acc.ledger[i] = txns[i]
Imports == {acc \in Batches : Grown(acc)}

\* An import's row is new, or takes over one that carried an occurrence.
LEMMA PostKeeps ==
  ASSUME home \in Homes, LedgerIs(txns), NEW acc \in Imports,
         NEW row \in [date : Nat, look : Looks]
  PROVE  Post(acc, row) \in Imports
<1> DEFINE open == Placeholders(acc.ledger, row.date)
           near == {i \in open : \A j \in open :
                      LET a == Gap(acc.ledger[i].date, row.date)
                          b == Gap(acc.ledger[j].date, row.date) IN a < b \/ (a = b /\ i <= j)}
           next == {i \in Txns : near = {} /\ IsNextId(acc.ledger, i)}
           Made(i) == IF i \in next THEN [date |-> row.date, look |-> row.look, slot |-> NoSlot]
                      ELSE IF i \in near THEN [acc.ledger[i] EXCEPT !.date = row.date,
                                                                   !.slot = NoSlot]
                      ELSE acc.ledger[i]
           new == [ledger |-> [i \in DOMAIN acc.ledger \cup next |-> Made(i)],
                   rows |-> acc.rows \cup near \cup next]
<1>1. Post(acc, row) = new
  BY DEF Post
<1>2. near \subseteq DOMAIN acc.ledger /\ next \subseteq Txns
  BY DEF Placeholders
<1>3. PICK D \in SUBSET Txns : acc.ledger \in [D -> Row]
  BY DEF Imports, Batches
<1>4. D = DOMAIN acc.ledger /\ acc.rows \subseteq Txns
  BY <1>3 DEF Imports, Batches
<1>5. DOMAIN txns \subseteq DOMAIN acc.ledger
  BY DEF Imports, Grown
<1>6. \A i \in next : i \notin DOMAIN acc.ledger
  BY <1>3, <1>4 DEF IsNextId, Txns
<1> HIDE DEF near, next
<1>7. \A i \in DOMAIN acc.ledger \cup next : Made(i) \in Row
  BY <1>3, <1>4 DEF Row
<1>8. \A i \in DOMAIN acc.ledger \cup next :
        Made(i).slot # NoSlot => i \in DOMAIN acc.ledger /\ Made(i) = acc.ledger[i]
  BY <1>3, <1>4 DEF Row
<1> HIDE DEF Made
<1>9. new.ledger \in [DOMAIN acc.ledger \cup next -> Row]
  BY <1>7
<1>10. DOMAIN acc.ledger \cup next \in SUBSET Txns
  BY <1>2, <1>4
<1>11. new \in Batches
  BY <1>2, <1>4, <1>9, <1>10 DEF Batches
<1>12. Grown(new)
  BY <1>5, <1>8 DEF Grown, Imports
<1> QED BY <1>1, <1>11, <1>12 DEF Imports

\* A whole statement does no more.
LEMMA StatementPosted ==
  ASSUME home \in Homes, LedgerIs(txns), NEW f \in DOMAIN Statements
  PROVE  FoldLeft(Post, [ledger |-> txns, rows |-> {}], Statements[f]) \in Imports
<1> DEFINE base == [ledger |-> txns, rows |-> {}]
           Rows == [date : Days, look : Looks]
<1>1. Statements[f] \in Seq(Rows)
  BY PlanAssumption
<1>2. base \in Imports
  <2>1. txns \in UNION {[D -> Row] : D \in SUBSET Txns}
    BY DEF LedgerIs
  <2> QED BY <2>1 DEF Imports, Batches, Grown
<1>3. \A acc \in Imports, row \in Rows : Post(acc, row) \in Imports
  BY PostKeeps DEF Days
<1> HIDE DEF base, Rows
<1>4. FoldLeft(Post, base, Statements[f]) \in Imports
  BY <1>1, <1>2, <1>3, PostedWithin
<1> QED BY <1>4 DEF base

\* Matching an import's rows gives schedules rows of it.
LEMMA MatchesFound ==
  ASSUME home \in Homes, LedgerIs(txns), NEW S \in SUBSET DOMAIN txns
  PROVE  BatchMatches(S) \in UNION {[D -> S] : D \in SUBSET DOMAIN scheds}
<1> DEFINE A == UNION {[D -> S] : D \in SUBSET DOMAIN scheds}
<1>1. Dated
  BY LedgerDated
<1>2. <<>> \in A
  <2>1. <<>> \in [1 .. Len(<<>>) -> S] /\ 1 .. Len(<<>>) = {}
    OBVIOUS
  <2> QED BY <2>1
<1>3. ASSUME NEW found \in A, NEW r \in S PROVE MatchRow(found, r) \in A
  <2> DEFINE open == {p \in DOMAIN scheds : scheds[p].active} \ DOMAIN found
             best == {p \in open : IsBest(p, open, LAMBDA q : BatchScore(scheds[q], r))}
             new == [p \in DOMAIN found \cup best |-> IF p \in best THEN r ELSE found[p]]
  <2>1. MatchRow(found, r) = new
    BY DEF MatchRow
  <2>2. best \subseteq DOMAIN scheds
    OBVIOUS
  <2>3. PICK D \in SUBSET DOMAIN scheds : found \in [D -> S]
    OBVIOUS
  <2> HIDE DEF best
  <2>4. new \in [D \cup best -> S] /\ D \cup best \in SUBSET DOMAIN scheds
    BY <2>2, <2>3
  <2> HIDE DEF new
  <2> QED BY <2>1, <2>4
<1> HIDE DEF A
<1>4. BatchMatches(S) \in A
  BY <1>1, <1>2, <1>3, MatchedWithin
<1> QED BY <1>4 DEF A

----------------------------------------------------------------------------
(* Tables under one change.                                                 *)

\* A new row of a table keeps the others.
LEMMA WithIs ==
  ASSUME NEW T, NEW R, NEW table, table \in [DOMAIN table -> R], DOMAIN table \subseteq T,
         NEW i \in T, NEW row \in R
  PROVE  /\ With(table, i, row) \in [DOMAIN table \cup {i} -> R]
         /\ DOMAIN With(table, i, row) = DOMAIN table \cup {i}
         /\ DOMAIN With(table, i, row) \subseteq T
         /\ With(table, i, row)[i] = row
         /\ \A j \in DOMAIN table \ {i} : With(table, i, row)[j] = table[j]
BY DEF With

\* A new schedule leaves the others alone, points at no row, and carries its name
\* and source.
LEMMA AddKeeps ==
  ASSUME TypesTrue, NEW n \in Names, NEW source \in {"manual", "auto", "statement"},
         AddSched(n, source)
  PROVE  /\ PlansAre(scheds') /\ PointInto(scheds', txns)
         /\ DOMAIN scheds \subseteq DOMAIN scheds'
         /\ \A p \in DOMAIN scheds : scheds'[p] = scheds[p]
         /\ \A p \in DOMAIN scheds' \ DOMAIN scheds :
              scheds'[p].name = n /\ scheds'[p].source = source
<1>1. PICK p \in Scheds : IsNextId(scheds, p) /\ scheds' = With(scheds, p, NewSched(n, source))
  BY DEF AddSched
<1>2. p \notin DOMAIN scheds
  BY <1>1, HomeTrue DEF IsNextId, Scheds, TypesTrue
<1>3. NewSched(n, source) \in Sched /\ NewSched(n, source).last = None
      /\ NewSched(n, source).name = n /\ NewSched(n, source).source = source
  <2>1. Plan[n].due \in Nat
    BY PlanAssumption
  <2> QED BY <2>1 DEF NewSched, Sched, None
<1>4. scheds \in [DOMAIN scheds -> Sched] /\ DOMAIN scheds \subseteq Scheds
  BY DEF TypesTrue, TablesTrue, PlansAre
<1>5. PointInto(scheds, txns)
  BY DEF TypesTrue, TablesTrue
<1>6. /\ scheds' \in [DOMAIN scheds \cup {p} -> Sched] /\ DOMAIN scheds \cup {p} \subseteq Scheds
      /\ scheds'[p] = NewSched(n, source)
      /\ \A q \in DOMAIN scheds : scheds'[q] = scheds[q]
  BY <1>1, <1>2, <1>3, <1>4 DEF With
<1>7. PlansAre(scheds')
  BY <1>6 DEF PlansAre
<1>8. PointInto(scheds', txns)
  BY <1>3, <1>5, <1>6 DEF PointInto
<1> QED BY <1>3, <1>6, <1>7, <1>8

\* Changing one schedule to another schedule that points at a row keeps the tables.
LEMMA ChangeKeeps ==
  ASSUME TypesTrue, NEW p \in DOMAIN scheds, NEW s \in Sched,
         s.last \in (DOMAIN txns) \cup {None}, scheds' = [scheds EXCEPT ![p] = s]
  PROVE  /\ PlansAre(scheds') /\ PointInto(scheds', txns)
         /\ DOMAIN scheds' = DOMAIN scheds /\ scheds'[p] = s
         /\ \A q \in DOMAIN scheds \ {p} : scheds'[q] = scheds[q]
BY DEF TypesTrue, TablesTrue, PlansAre, PointInto

\* A new ledger row leaves the others alone.
LEMMA RowAdded ==
  ASSUME TypesTrue, NEW i \in Txns, IsNextId(txns, i), NEW date \in Nat, NEW look \in Looks,
         NEW slot \in {NoSlot} \cup (Scheds \X Nat), txns' = WithTxn(i, date, look, slot)
  PROVE  /\ i \in Nat \ {None} /\ i \notin DOMAIN txns
         /\ LedgerIs(txns') /\ DOMAIN txns' = DOMAIN txns \cup {i}
         /\ txns'[i] = [date |-> date, look |-> look, slot |-> slot]
         /\ \A j \in DOMAIN txns : txns'[j] = txns[j]
<1>1. i \in Nat \ {None} /\ i \notin DOMAIN txns
  BY HomeTrue DEF IsNextId, Txns, None, TypesTrue
<1>2. [date |-> date, look |-> look, slot |-> slot] \in Row
  BY DEF Row
<1>3. txns \in [DOMAIN txns -> Row] /\ DOMAIN txns \subseteq Txns
  BY DEF TypesTrue, TablesTrue, LedgerIs
<1> HIDE DEF Txns, Scheds
<1>4. /\ txns' \in [DOMAIN txns \cup {i} -> Row]
      /\ txns'[i] = [date |-> date, look |-> look, slot |-> slot]
      /\ \A j \in DOMAIN txns : txns'[j] = txns[j]
  BY <1>1, <1>2, <1>3 DEF With, WithTxn
<1> QED BY <1>1, <1>3, <1>4 DEF LedgerIs

\* Questions stay about rows and schedules that are there.
LEMMA AskedStays ==
  ASSUME NEW ps, NEW ss, NEW ts, NEW ss2, NEW ts2, AskedAre(ps, ss, ts),
         DOMAIN ss \subseteq DOMAIN ss2, DOMAIN ts \subseteq DOMAIN ts2
  PROVE  AskedAre(ps, ss2, ts2)
BY DEF AskedAre

\* A request's session is one at every stage.
LEMMA SessionsKept ==
  ASSUME TypesTrue, NEW t \in Requests
  PROVE  /\ \A what \in Stages, s \in Session :
              Begin(t, what, s) => pc' \in [Requests -> Stages] /\ sess' \in [Requests -> Session]
         /\ Finish(t) => pc' \in [Requests -> Stages] /\ sess' \in [Requests -> Session]
         /\ Idle \in Session
<1>1. Idle \in Session
  BY DEF Idle, Session, None
<1>2. "idle" \in Stages
  BY DEF Stages
<1>3. pc \in [Requests -> Stages] /\ sess \in [Requests -> Session]
  BY DEF TypesTrue
<1> HIDE DEF Stages, Session, Idle
<1> QED BY <1>1, <1>2, <1>3 DEF Begin, Finish

\* The tables after a step, from those before: what every action must leave true.
Kept ==
  /\ TablesTrue' /\ dismissed' \subseteq Names /\ refused' \in BOOLEAN
  /\ pc' \in [Requests -> Stages] /\ sess' \in [Requests -> Session]

\* Confirming an occurrence keeps the tables.
LEMMA ConfirmKept ==
  ASSUME TypesTrue, home' = home, NEW t \in Requests, Confirm(t)
  PROVE  Kept
<1>0. Txns' = Txns /\ Scheds' = Scheds
  BY DEF Txns, Scheds
<1>1. ASSUME NEW p \in Scheds, NEW day \in home.offered, ConfirmRead(t, p, day)
      PROVE  Kept
  <2> DEFINE s == [Idle EXCEPT !.sched = p, !.day = day, !.due = scheds[p].due]
  <2>1. p \in Nat /\ day \in Nat /\ scheds[p].due \in Nat
    BY <1>1, HomeTrue DEF ConfirmRead, TypesTrue, TablesTrue, PlansAre, Sched, Scheds
  <2>2. s \in Session
    BY <2>1, SessionsKept DEF Idle, Session
  <2>3. pc' \in [Requests -> Stages] /\ sess' \in [Requests -> Session]
    <3>1. "confirm" \in Stages /\ Begin(t, "confirm", s)
      BY <1>1 DEF Stages, ConfirmRead
    <3> QED BY <2>2, <3>1, SessionsKept
  <2>4. TablesTrue'
    BY <1>0, <1>1 DEF ConfirmRead, TypesTrue, TablesTrue, LedgerIs, PlansAre, PointInto,
                      AskedAre, Row
  <2> QED BY <1>1, <2>3, <2>4 DEF ConfirmRead, TypesTrue, Kept
<1>2. ASSUME ConfirmWrite(t) PROVE Kept
  <2> DEFINE p == sess[t].sched
             day == sess[t].day
  <2>1. p \in DOMAIN scheds /\ day \in Nat /\ scheds[p] \in Sched /\ p \in Scheds
    BY <1>2 DEF ConfirmWrite, TypesTrue, TablesTrue, PlansAre, Session
  <2>2. PICK i \in Txns :
          /\ IsNextId(txns, i)
          /\ txns' = WithTxn(i, day, scheds[p].name, <<p, day>>)
          /\ scheds' = [scheds EXCEPT ![p] =
               IF MovesForward(t) THEN Settle(@, i, day)
               ELSE [@ EXCEPT !.last = i, !.seen = day]]
    BY <1>2 DEF ConfirmWrite
  <2> DEFINE s == IF MovesForward(t) THEN Settle(scheds[p], i, day)
                  ELSE [scheds[p] EXCEPT !.last = i, !.seen = day]
  <2> HIDE DEF p, day
  <2>3. scheds[p].name \in Looks
    BY <2>1, PlanAssumption DEF Sched
  <2>4. /\ i \in Nat \ {None} /\ i \notin DOMAIN txns
        /\ LedgerIs(txns') /\ DOMAIN txns' = DOMAIN txns \cup {i}
    <3>1. <<p, day>> \in {NoSlot} \cup (Scheds \X Nat)
      BY <2>1
    <3> QED BY <2>1, <2>2, <2>3, <3>1, RowAdded
  <2>5. s \in Sched /\ s.last = i
    <3>1. /\ Settle(scheds[p], i, day) \in Sched
          /\ Settle(scheds[p], i, day).last = i
      BY <2>1, <2>4, SettledIs
    <3>2. /\ [scheds[p] EXCEPT !.last = i, !.seen = day] \in Sched
          /\ [scheds[p] EXCEPT !.last = i, !.seen = day].last = i
      BY <2>1, <2>4 DEF Sched
    <3>3. CASE MovesForward(t)
      BY <3>1, <3>3
    <3>4. CASE ~ MovesForward(t)
      BY <3>2, <3>4
    <3> QED BY <3>3, <3>4
  <2>6. scheds' = [scheds EXCEPT ![p] = s]
    BY <2>1, <2>2
  <2> HIDE DEF s
  <2>7. PlansAre(scheds') /\ PointInto(scheds', txns') /\ DOMAIN scheds' = DOMAIN scheds
    BY <2>1, <2>4, <2>5, <2>6 DEF TypesTrue, TablesTrue, PlansAre, PointInto
  <2>8. AskedAre(proposals', scheds', txns')
    <3>1. proposals' = proposals /\ AskedAre(proposals, scheds, txns)
      BY <1>2 DEF ConfirmWrite, TypesTrue, TablesTrue
    <3> QED BY <2>4, <2>7, <3>1, AskedStays
  <2>9. TablesTrue'
    BY <1>0, <2>4, <2>7, <2>8 DEF TablesTrue, LedgerIs, PlansAre, PointInto, AskedAre, Row
  <2>10. Finish(t) /\ UNCHANGED <<dismissed, refused>>
    BY <1>2 DEF ConfirmWrite
  <2> QED BY <2>9, <2>10, SessionsKept DEF Kept, TypesTrue
<1>3. ASSUME ConfirmFails(t) PROVE Kept
  <2>1. TablesTrue'
    BY <1>0, <1>3 DEF ConfirmFails, TypesTrue, TablesTrue, LedgerIs, PlansAre, PointInto,
                      AskedAre, Row
  <2>2. Finish(t) /\ UNCHANGED <<dismissed, refused>>
    BY <1>3 DEF ConfirmFails
  <2> QED BY <2>1, <2>2, SessionsKept DEF Kept, TypesTrue
<1> QED BY <1>1, <1>2, <1>3 DEF Confirm

\* An import keeps the tables: it posts rows, finds matches, and may give up.
LEMMA ImportKept ==
  ASSUME TypesTrue, home' = home, NEW t \in Requests, Import(t)
  PROVE  Kept
<1>0. Txns' = Txns /\ Scheds' = Scheds
  BY DEF Txns, Scheds
<1>1. ASSUME NEW f \in home.files, PostStatement(t, f) PROVE Kept
  <2> DEFINE posted == FoldLeft(Post, [ledger |-> txns, rows |-> {}], Statements[f])
             s == [Idle EXCEPT !.rows = posted.rows]
  <2>1. f \in DOMAIN Statements
    BY HomeTrue DEF TypesTrue
  <2>2. posted \in Imports
    BY <2>1, StatementPosted DEF TypesTrue, TablesTrue
  <2>3. txns' = posted.ledger /\ Begin(t, "match", s)
    BY <1>1 DEF PostStatement
  <2> HIDE DEF posted
  <2>4. LedgerIs(txns') /\ DOMAIN txns \subseteq DOMAIN txns' /\ posted.rows \subseteq Txns
    BY <2>2, <2>3 DEF Imports, Batches, Grown, LedgerIs
  <2>5. s \in Session /\ "match" \in Stages
    BY <2>4, SessionsKept DEF Session, Idle, Txns, Stages
  <2>6. UNCHANGED <<scheds, proposals, dismissed, refused>>
    BY <1>1 DEF PostStatement
  <2>7. PlansAre(scheds') /\ PointInto(scheds', txns') /\ AskedAre(proposals', scheds', txns')
    <3>1. PointInto(scheds, txns) /\ PlansAre(scheds) /\ AskedAre(proposals, scheds, txns)
      BY DEF TypesTrue, TablesTrue
    <3> QED BY <2>4, <2>6, <3>1, AskedStays DEF PointInto
  <2>8. TablesTrue'
    BY <1>0, <2>4, <2>7 DEF TablesTrue, LedgerIs, PlansAre, PointInto, AskedAre, Row
  <2> QED BY <2>3, <2>5, <2>6, <2>8, SessionsKept DEF Kept, TypesTrue
<1>2. ASSUME MatchRead(t) PROVE Kept
  <2> DEFINE S == sess[t].rows \cap DOMAIN txns
             found == BatchMatches(S)
             all == {[sched |-> p, row |-> found[p], day |-> txns[found[p]].date,
                      due |-> NextDue(scheds[p], txns[found[p]].date)] : p \in DOMAIN found}
  <2>1. PICK D \in SUBSET DOMAIN scheds : found \in [D -> S]
    BY MatchesFound DEF TypesTrue, TablesTrue
  <2>2. sess' = [sess EXCEPT ![t].found = all] /\ pc' = [pc EXCEPT ![t] = "settle"]
    BY <1>2 DEF MatchRead
  <2> HIDE DEF found
  <2>3. ASSUME NEW p \in DOMAIN found
        PROVE  /\ p \in Nat /\ found[p] \in Nat /\ txns[found[p]].date \in Nat
               /\ NextDue(scheds[p], txns[found[p]].date) \in Nat
    <3>1. p \in DOMAIN scheds /\ found[p] \in DOMAIN txns
      BY <2>1
    <3>2. p \in Nat /\ scheds[p] \in Sched /\ found[p] \in Nat /\ txns[found[p]].date \in Nat
      BY <3>1 DEF TypesTrue, TablesTrue, PlansAre, LedgerIs, Row, Txns, Scheds
    <3> QED BY <3>2, NextDueIsDay
  <2>4. all \in SUBSET Match
    BY <2>3 DEF Match
  <2> HIDE DEF all, S
  <2>5. sess' \in [Requests -> Session]
    <3>1. sess \in [Requests -> Session]
      BY DEF TypesTrue
    <3> QED BY <2>2, <2>4, <3>1 DEF Session
  <2>6. pc' \in [Requests -> Stages]
    BY <2>2 DEF TypesTrue, Stages
  <2>7. TablesTrue'
    BY <1>0, <1>2 DEF MatchRead, TypesTrue, TablesTrue, LedgerIs, PlansAre, PointInto,
                      AskedAre, Row
  <2> QED BY <1>2, <2>5, <2>6, <2>7 DEF MatchRead, Kept, TypesTrue
<1>3. ASSUME MatchFails(t) PROVE Kept
  <2>1. TablesTrue'
    BY <1>0, <1>3 DEF MatchFails, TypesTrue, TablesTrue, LedgerIs, PlansAre, PointInto,
                      AskedAre, Row
  <2>2. Finish(t) /\ UNCHANGED <<dismissed, refused>>
    BY <1>3 DEF MatchFails
  <2> QED BY <2>1, <2>2, SessionsKept DEF Kept, TypesTrue
<1> QED BY <1>1, <1>2, <1>3 DEF Import

\* What a match writes are schedules that point at rows.
LEMMA MatchWriteIs ==
  ASSUME TypesTrue, NEW t \in Requests, MatchWrite(t)
  PROVE  /\ PlansAre(scheds') /\ PointInto(scheds', txns) /\ DOMAIN scheds' = DOMAIN scheds
         /\ \A p \in DOMAIN scheds :
              scheds'[p].name = scheds[p].name /\ scheds'[p].source = scheds[p].source
<1> DEFINE found == sess[t].found
           Of(p) == CHOOSE m \in found : m.sched = p
           hit == {m.sched : m \in found}
           New(p) == [scheds[p] EXCEPT !.last = Of(p).row, !.seen = Of(p).day, !.due = Of(p).due,
                        !.active = IF Plan[scheds[p].name].unit = "once" THEN FALSE ELSE @]
           ss == [p \in DOMAIN scheds |-> IF p \notin hit THEN scheds[p] ELSE New(p)]
<1>1. found \subseteq Match
  BY DEF TypesTrue, Session
<1>2. scheds' = ss /\ \A m \in found : m.sched \in DOMAIN scheds /\ m.row \in DOMAIN txns
  BY DEF MatchWrite
<1>3. scheds \in [DOMAIN scheds -> Sched] /\ DOMAIN scheds \subseteq Scheds /\ PointInto(scheds, txns)
  BY DEF TypesTrue, TablesTrue, PlansAre
<1>4. \A p \in hit : Of(p) \in found
  OBVIOUS
<1> HIDE DEF Of, found
<1>5. ASSUME NEW p \in hit, p \in DOMAIN scheds
      PROVE  /\ New(p) \in Sched /\ New(p).last \in DOMAIN txns
             /\ New(p).name = scheds[p].name /\ New(p).source = scheds[p].source
  <2>1. Of(p).row \in DOMAIN txns /\ Of(p).row \in Nat /\ Of(p).day \in Nat /\ Of(p).due \in Nat
    BY <1>1, <1>2, <1>4 DEF Match
  <2> QED BY <1>3, <1>5, <2>1 DEF Sched
<1> HIDE DEF hit, New
<1>6. ss \in [DOMAIN scheds -> Sched]
  BY <1>3, <1>5
<1>7. PlansAre(ss) /\ DOMAIN ss = DOMAIN scheds
  BY <1>3, <1>6 DEF PlansAre
<1>8. PointInto(ss, txns)
  BY <1>3, <1>5 DEF PointInto
<1>9. \A p \in DOMAIN scheds : ss[p].name = scheds[p].name /\ ss[p].source = scheds[p].source
  BY <1>5
<1> HIDE DEF ss
<1> QED BY <1>2, <1>7, <1>8, <1>9

\* Matching and sweeping keep the tables.
LEMMA MatchKept ==
  ASSUME TypesTrue, home' = home, NEW t \in Requests, MatchWrite(t)
  PROVE  Kept
<1>0. Txns' = Txns /\ Scheds' = Scheds
  BY DEF Txns, Scheds
<1>1. UNCHANGED <<txns, proposals, dismissed, refused>>
  BY DEF MatchWrite
<1>2. AskedAre(proposals, scheds', txns)
  <2>1. AskedAre(proposals, scheds, txns)
    BY DEF TypesTrue, TablesTrue
  <2> QED BY <2>1, MatchWriteIs, AskedStays
<1>3. LedgerIs(txns)
  BY DEF TypesTrue, TablesTrue
<1>4. TablesTrue'
  BY <1>0, <1>1, <1>2, <1>3, MatchWriteIs
     DEF TablesTrue, LedgerIs, PlansAre, PointInto, AskedAre, Row
<1>5. sess' = [sess EXCEPT ![t] = Idle] /\ pc' = [pc EXCEPT ![t] = "sweep"]
  BY DEF MatchWrite
<1>6. sess' \in [Requests -> Session] /\ pc' \in [Requests -> Stages]
  <2>1. sess \in [Requests -> Session] /\ pc \in [Requests -> Stages]
    BY DEF TypesTrue
  <2> QED BY <1>5, <2>1, SessionsKept DEF Stages
<1> QED BY <1>1, <1>4, <1>6 DEF Kept, TypesTrue

\* What a sweep leaves are tables.
LEMMA SweepIs ==
  ASSUME TypesTrue, SweepResult, UNCHANGED <<home, txns>>
  PROVE  TablesTrue' /\ DOMAIN scheds' = DOMAIN scheds
<1>0. Txns' = Txns /\ Scheds' = Scheds
  BY DEF Txns, Scheds
<1>1. Swept \in Fair
  BY SweptIsFair DEF TypesTrue
<1>2. /\ Swept.scheds \in [DOMAIN scheds -> Sched] /\ PointInto(Swept.scheds, txns)
      /\ Swept.proposals \in UNION {[D -> Status] : D \in SUBSET ((DOMAIN scheds) \X (DOMAIN txns))}
  BY <1>1 DEF Fair, Work, Swings
<1>3. scheds' = Swept.scheds /\ proposals' = Swept.proposals
  BY DEF SweepResult
<1>4. DOMAIN scheds \subseteq Scheds /\ LedgerIs(txns)
  BY DEF TypesTrue, TablesTrue, PlansAre
<1>5. DOMAIN scheds' = DOMAIN scheds /\ PlansAre(scheds') /\ PointInto(scheds', txns)
  BY <1>2, <1>3, <1>4 DEF PlansAre
<1>6. AskedAre(proposals', scheds', txns)
  <2>1. PICK D \in SUBSET ((DOMAIN scheds) \X (DOMAIN txns)) : proposals' \in [D -> Status]
    BY <1>2, <1>3
  <2> QED BY <1>5, <2>1 DEF AskedAre
<1>7. TablesTrue'
  BY <1>0, <1>4, <1>5, <1>6 DEF TablesTrue, LedgerIs, PlansAre, PointInto, AskedAre, Row
<1> QED BY <1>5, <1>7

LEMMA SweepKept ==
  ASSUME TypesTrue, home' = home, NEW t \in Requests, ImportSweep(t)
  PROVE  Kept
<1>1. SweepResult /\ Finish(t) /\ UNCHANGED <<txns, dismissed, refused>>
  BY DEF ImportSweep
<1> QED BY <1>1, SweepIs, SessionsKept DEF Kept, TypesTrue

\* Starting keeps the tables.
LEMMA RestartKept ==
  ASSUME TypesTrue, home' = home, Restart
  PROVE  Kept
<1>0. Txns' = Txns /\ Scheds' = Scheds
  BY DEF Txns, Scheds
<1>1. UNCHANGED <<txns, dismissed, refused>>
  BY DEF Restart
<1>2. TablesTrue'
  <2>1. CASE UNCHANGED <<scheds, proposals>>
    BY <1>0, <1>1, <2>1 DEF TypesTrue, TablesTrue, LedgerIs, PlansAre, PointInto, AskedAre, Row
  <2>2. CASE SweepResult
    BY <1>1, <2>2, SweepIs
  <2> QED BY <2>1, <2>2 DEF Restart
<1>3. pc' \in [Requests -> Stages] /\ sess' \in [Requests -> Session]
  <2>1. Idle \in Session
    BY DEF Idle, Session, None
  <2> QED BY <2>1 DEF Restart, Stages
<1> QED BY <1>1, <1>2, <1>3 DEF Kept, TypesTrue

\* A statement's plan and the detector's keep the tables.
LEMMA PlannedKept ==
  ASSUME TypesTrue, home' = home, NEW n \in home.stated, StatementPlan(n)
  PROVE  Kept
<1>0. Txns' = Txns /\ Scheds' = Scheds
  BY DEF Txns, Scheds
<1>1. UNCHANGED <<txns, proposals, dismissed, pc, sess, refused>>
  BY DEF StatementPlan
<1>2. n \in Names /\ Plan[n].due \in Nat
  BY HomeTrue, PlanAssumption DEF TypesTrue
<1>3. PlansAre(scheds') /\ PointInto(scheds', txns) /\ DOMAIN scheds \subseteq DOMAIN scheds'
  <2>1. CASE AddSched(n, "statement")
    BY <1>2, <2>1, AddKeeps
  <2>2. ASSUME NEW p \in DOMAIN scheds,
               scheds' = [scheds EXCEPT ![p].due = Plan[n].due, ![p].name = n]
        PROVE  PlansAre(scheds') /\ PointInto(scheds', txns) /\ DOMAIN scheds \subseteq DOMAIN scheds'
    <3> DEFINE s == [scheds[p] EXCEPT !.due = Plan[n].due, !.name = n]
    <3>1. scheds[p] \in Sched /\ scheds[p].last \in (DOMAIN txns) \cup {None}
      BY DEF TypesTrue, TablesTrue, PlansAre, PointInto
    <3>2. s \in Sched /\ s.last = scheds[p].last
      BY <1>2, <3>1 DEF Sched
    <3>3. scheds \in [DOMAIN scheds -> Sched]
      BY DEF TypesTrue, TablesTrue, PlansAre
    <3>4. scheds' = [scheds EXCEPT ![p] = s]
      BY <2>2, <3>1, <3>3 DEF Sched
    <3> HIDE DEF s
    <3> QED BY <3>1, <3>2, <3>4, ChangeKeeps
  <2> QED BY <2>1, <2>2 DEF StatementPlan
<1>4. LedgerIs(txns) /\ AskedAre(proposals, scheds, txns)
  BY DEF TypesTrue, TablesTrue
<1>5. AskedAre(proposals, scheds', txns)
  BY <1>3, <1>4, AskedStays
<1>6. TablesTrue'
  BY <1>0, <1>1, <1>3, <1>4, <1>5 DEF TablesTrue, LedgerIs, PlansAre, PointInto, AskedAre, Row
<1> QED BY <1>1, <1>6 DEF Kept, TypesTrue

LEMMA DetectKept ==
  ASSUME TypesTrue, home' = home, NEW t \in Requests, DetectPage(t) \/ DetectConfirm(t)
  PROVE  Kept
<1>0. Txns' = Txns /\ Scheds' = Scheds
  BY DEF Txns, Scheds
<1>1. CASE DetectPage(t)
  <2> DEFINE shown == home.found \ ({scheds[p].name : p \in DOMAIN scheds} \cup dismissed)
             s == [Idle EXCEPT !.names = shown]
  <2>1. shown \subseteq Names
    BY HomeTrue DEF TypesTrue
  <2>2. Begin(t, "detect", s)
    BY <1>1 DEF DetectPage
  <2> HIDE DEF shown
  <2>3. s \in Session /\ "detect" \in Stages
    BY <2>1, SessionsKept DEF Session, Idle, Stages
  <2>4. TablesTrue'
    BY <1>0, <1>1 DEF DetectPage, TypesTrue, TablesTrue, LedgerIs, PlansAre, PointInto,
                      AskedAre, Row
  <2>5. UNCHANGED <<dismissed, refused>>
    BY <1>1 DEF DetectPage
  <2> QED BY <2>2, <2>3, <2>4, <2>5, SessionsKept DEF Kept, TypesTrue
<1>2. CASE DetectConfirm(t)
  <2>1. PICK n \in Names : AddSched(n, "auto")
    BY <1>2 DEF DetectConfirm, TypesTrue, Session
  <2>2. PlansAre(scheds') /\ PointInto(scheds', txns) /\ DOMAIN scheds \subseteq DOMAIN scheds'
    BY <2>1, AddKeeps
  <2>3. UNCHANGED <<txns, proposals, dismissed, refused>> /\ Finish(t)
    BY <1>2 DEF DetectConfirm
  <2>4. LedgerIs(txns) /\ AskedAre(proposals, scheds, txns)
    BY DEF TypesTrue, TablesTrue
  <2>5. AskedAre(proposals, scheds', txns)
    BY <2>2, <2>4, AskedStays
  <2>6. TablesTrue'
    BY <1>0, <2>2, <2>3, <2>4, <2>5 DEF TablesTrue, LedgerIs, PlansAre, PointInto, AskedAre, Row
  <2> QED BY <2>3, <2>6, SessionsKept DEF Kept, TypesTrue
<1> QED BY <1>1, <1>2

\* The user's changes keep the tables.
LEMMA UserKept ==
  ASSUME TypesTrue, home' = home, UserChange
  PROVE  Kept
<1>0. Txns' = Txns /\ Scheds' = Scheds
  BY DEF Txns, Scheds
<1>t. /\ LedgerIs(txns) /\ PlansAre(scheds) /\ PointInto(scheds, txns)
      /\ AskedAre(proposals, scheds, txns) /\ dismissed \subseteq Names /\ refused \in BOOLEAN
      /\ pc \in [Requests -> Stages] /\ sess \in [Requests -> Session]
  BY DEF TypesTrue, TablesTrue
<1>k. ASSUME LedgerIs(txns'), PlansAre(scheds'), PointInto(scheds', txns'),
             AskedAre(proposals', scheds', txns'), dismissed' \subseteq Names,
             refused' \in BOOLEAN, UNCHANGED <<pc, sess>>
      PROVE  Kept
  BY <1>0, <1>k, <1>t DEF Kept, TablesTrue, LedgerIs, PlansAre, PointInto, AskedAre, Row
<1>1. ASSUME NEW n \in home.names, Create(n) PROVE Kept
  <2>1. UNCHANGED <<txns, proposals, dismissed, pc, sess, refused>> /\ AddSched(n, "manual")
    BY <1>1 DEF Create
  <2>2. n \in Names
    BY HomeTrue DEF TypesTrue
  <2>3. PlansAre(scheds') /\ PointInto(scheds', txns) /\ DOMAIN scheds \subseteq DOMAIN scheds'
    BY <2>1, <2>2, AddKeeps
  <2>4. AskedAre(proposals, scheds', txns)
    BY <1>t, <2>3, AskedStays
  <2> QED BY <1>k, <1>t, <2>1, <2>3, <2>4
<1>2. ASSUME NEW n \in home.names, RestoreDismissed(n) PROVE Kept
  BY <1>k, <1>t, <1>2 DEF RestoreDismissed
<1>3. ASSUME NEW p \in Scheds, Toggle(p) PROVE Kept
  <2>1. /\ UNCHANGED <<txns, proposals, dismissed, pc, sess, refused>>
        /\ p \in DOMAIN scheds /\ scheds' = [scheds EXCEPT ![p].active = ~ @]
    BY <1>3 DEF Toggle
  <2>2. [scheds[p] EXCEPT !.active = ~ @] \in Sched
    BY <1>t, <2>1 DEF PlansAre, Sched
  <2>3. PlansAre(scheds') /\ PointInto(scheds', txns) /\ DOMAIN scheds' = DOMAIN scheds
    BY <1>t, <2>1, <2>2 DEF PlansAre, PointInto, Sched
  <2>4. AskedAre(proposals, scheds', txns)
    BY <1>t, <2>3, AskedStays
  <2> QED BY <1>k, <1>t, <2>1, <2>3, <2>4
<1>4. ASSUME NEW p \in Scheds, DeleteSched(p) PROVE Kept
  <2>1. /\ p \in DOMAIN scheds
        /\ proposals' = Keep(proposals, {k \in DOMAIN proposals : k[1] # p})
        /\ dismissed' = dismissed \cup {scheds[p].name}
        /\ scheds' = Keep(scheds, DOMAIN scheds \ {p})
        /\ UNCHANGED <<txns, pc, sess, refused>>
    BY <1>4 DEF DeleteSched
  <2>2. PlansAre(scheds') /\ PointInto(scheds', txns) /\ DOMAIN scheds' = DOMAIN scheds \ {p}
    BY <1>t, <2>1 DEF PlansAre, PointInto, Keep
  <2>3. AskedAre(proposals', scheds', txns)
    BY <1>t, <2>1, <2>2 DEF AskedAre, Keep
  <2>4. scheds[p].name \in Names
    BY <1>t, <2>1 DEF PlansAre, Sched
  <2> QED BY <1>k, <1>t, <2>1, <2>2, <2>3, <2>4
<1>5. ASSUME NEW p \in Scheds, NEW day \in home.typed, EditDue(p, day) PROVE Kept
  <2>1. /\ UNCHANGED <<txns, proposals, dismissed, pc, sess, refused>>
        /\ p \in DOMAIN scheds /\ scheds' = [scheds EXCEPT ![p].due = day]
    BY <1>5 DEF EditDue
  <2>2. day \in Nat
    BY HomeTrue DEF TypesTrue
  <2>3. PlansAre(scheds') /\ PointInto(scheds', txns) /\ DOMAIN scheds' = DOMAIN scheds
    BY <1>t, <2>1, <2>2 DEF PlansAre, PointInto, Sched
  <2>4. AskedAre(proposals, scheds', txns)
    BY <1>t, <2>3, AskedStays
  <2> QED BY <1>k, <1>t, <2>1, <2>3, <2>4
<1>6. ASSUME NEW p \in Scheds, NEW r \in Txns, ConfirmProposal(p, r) PROVE Kept
  <2> DEFINE s == IF scheds[p].due <= txns[r].date THEN Settle(scheds[p], r, txns[r].date)
                  ELSE [scheds[p] EXCEPT !.last = r, !.seen = txns[r].date]
  <2>1. /\ UNCHANGED <<txns, dismissed, pc, sess, refused>>
        /\ <<p, r>> \in DOMAIN proposals
        /\ proposals' = [proposals EXCEPT ![<<p, r>>] = "confirmed"]
    BY <1>6 DEF ConfirmProposal, Pending
  <2>2. p \in DOMAIN scheds /\ r \in DOMAIN txns
    BY <1>t, <2>1 DEF AskedAre
  <2>3. scheds[p] \in Sched /\ r \in Nat /\ txns[r].date \in Nat
    BY <1>t, <2>2 DEF PlansAre, LedgerIs, Row, Txns
  <2>4. s \in Sched /\ s.last = r
    <3>1. CASE scheds[p].due <= txns[r].date
      BY <2>3, <3>1, SettledIs
    <3>2. CASE ~ scheds[p].due <= txns[r].date
      BY <2>3, <3>2 DEF Sched
    <3> QED BY <3>1, <3>2
  <2>5. scheds' = [scheds EXCEPT ![p] = s]
    BY <1>6, <2>2 DEF ConfirmProposal
  <2> HIDE DEF s
  <2>6. PlansAre(scheds') /\ PointInto(scheds', txns) /\ DOMAIN scheds' = DOMAIN scheds
    BY <2>2, <2>4, <2>5, ChangeKeeps
  <2>7. AskedAre(proposals', scheds', txns)
    BY <1>t, <2>1, <2>6 DEF AskedAre, Status
  <2> QED BY <1>k, <1>t, <2>1, <2>6, <2>7
<1>7. ASSUME NEW p \in Scheds, NEW r \in Txns, RejectProposal(p, r) PROVE Kept
  <2>1. /\ UNCHANGED <<txns, scheds, dismissed, pc, sess, refused>>
        /\ proposals' = [proposals EXCEPT ![<<p, r>>] = "rejected"]
    BY <1>7 DEF RejectProposal
  <2>2. AskedAre(proposals', scheds, txns)
    BY <1>t, <2>1 DEF AskedAre, Status
  <2> QED BY <1>k, <1>t, <2>1, <2>2
<1>8. ASSUME NEW e \in home.entries, Enter(e) PROVE Kept
  <2>1. UNCHANGED <<scheds, proposals, dismissed, pc, sess, refused>>
    BY <1>8 DEF Enter
  <2>2. e.date \in Nat /\ e.look \in Looks
    BY HomeTrue, PlanAssumption DEF TypesTrue, Days
  <2>3. PICK i \in Txns : IsNextId(txns, i) /\ txns' = WithTxn(i, e.date, e.look, NoSlot)
    BY <1>8 DEF Enter
  <2>4. LedgerIs(txns') /\ DOMAIN txns \subseteq DOMAIN txns'
    BY <2>2, <2>3, RowAdded
  <2>5. PointInto(scheds, txns') /\ AskedAre(proposals, scheds, txns')
    BY <1>t, <2>4, AskedStays DEF PointInto
  <2> QED BY <1>k, <1>t, <2>1, <2>4, <2>5
<1>9. ASSUME NEW r \in Txns, DeleteTxn(r) PROVE Kept
  <2>1. UNCHANGED <<proposals, dismissed, pc, sess>>
    BY <1>9 DEF DeleteTxn
  <2>2. CASE refused' = TRUE /\ UNCHANGED <<txns, scheds>>
    BY <1>k, <1>t, <2>1, <2>2
  <2>3. CASE /\ ~ \E p \in Scheds : <<p, r>> \in DOMAIN proposals
             /\ txns' = Keep(txns, DOMAIN txns \ {r})
             /\ scheds' = Unpoint(r) /\ UNCHANGED refused
    <3>1. LedgerIs(txns') /\ DOMAIN txns' = DOMAIN txns \ {r}
      BY <1>t, <2>3 DEF LedgerIs, Keep
    <3>2. PlansAre(scheds') /\ DOMAIN scheds' = DOMAIN scheds
      BY <1>t, <2>3 DEF Unpoint, PlansAre, Sched, None
    <3>3. PointInto(scheds', txns')
      BY <1>t, <2>3, <3>1 DEF Unpoint, PointInto, None, PlansAre, Sched
    <3>4. AskedAre(proposals, scheds', txns')
      <4>1. \A k \in DOMAIN proposals : k \in (DOMAIN scheds) \X (DOMAIN txns)
        BY <1>t DEF AskedAre
      <4>2. \A k \in DOMAIN proposals : k[2] # r
        BY <1>t, <2>3, <4>1 DEF PlansAre
      <4> QED BY <1>t, <3>1, <3>2, <4>1, <4>2 DEF AskedAre
    <3> QED BY <1>k, <1>t, <2>1, <2>3, <3>1, <3>2, <3>3, <3>4
  <2> QED BY <1>9, <2>2, <2>3 DEF DeleteTxn
<1> QED BY <1>1, <1>2, <1>3, <1>4, <1>5, <1>6, <1>7, <1>8, <1>9 DEF UserChange

----------------------------------------------------------------------------
(* Theorems.                                                                *)

\* TypesTrue is inductive.
LEMMA TypesKept ==
  ASSUME TypesTrue, [Next]_vars
  PROVE  TypesTrue'
<1>0. ASSUME home' = home, Kept PROVE TypesTrue'
  BY <1>0 DEF Kept, TypesTrue
<1>1. CASE UNCHANGED vars
  <2>1. Txns' = Txns /\ Scheds' = Scheds
    BY <1>1 DEF vars, Txns, Scheds
  <2> QED BY <1>1, <2>1 DEF vars, TypesTrue, TablesTrue, LedgerIs, PlansAre, PointInto, AskedAre, Row
<1>2. CASE Next
  <2>1. home' = home
    BY <1>2 DEF Next
  <2>2. ASSUME NEW t \in Requests, Confirm(t) \/ Import(t) \/ DetectPage(t) \/ DetectConfirm(t)
        PROVE  Kept
    BY <2>1, <2>2, ConfirmKept, ImportKept, DetectKept
  <2>3. ASSUME Other PROVE Kept
    BY <2>1, <2>2, <2>3, PlannedKept, UserKept DEF Other
  <2>4. Kept
    BY <1>2, <2>1, <2>3, MatchKept, SweepKept, RestartKept DEF Next
  <2> QED BY <1>0, <2>1, <2>4
<1> QED BY <1>1, <1>2

\* It is true of a server that has just started on an empty account.
LEMMA TypesFirst == ASSUME Init PROVE TypesTrue
<1>1. Idle \in Session
  BY DEF Idle, Session, None
<1>2. <<>> \in [1 .. Len(<<>>) -> Row] /\ 1 .. Len(<<>>) = {}
  OBVIOUS
<1>3. <<>> \in [1 .. Len(<<>>) -> Sched]
  OBVIOUS
<1>4. <<>> \in [1 .. Len(<<>>) -> Status]
  OBVIOUS
<1>5. LedgerIs(<<>>) /\ PlansAre(<<>>) /\ DOMAIN <<>> = {}
  BY <1>2, <1>3 DEF LedgerIs, PlansAre
<1>6. PointInto(<<>>, <<>>) /\ AskedAre(<<>>, <<>>, <<>>)
  BY <1>4, <1>5 DEF PointInto, AskedAre
<1>7. TablesTrue
  BY <1>5, <1>6 DEF Init, TablesTrue
<1> QED BY <1>1, <1>7 DEF Init, TypesTrue, Stages

\* The tables keep their shapes, and a schedule's last match and every proposal
\* name rows and schedules that are still there: for every plan, ledger and number
\* of requests (the deletions of services/scheduled_dismissal.py and
\* _delete_txn_safe leave nothing behind that points at what they delete).
THEOREM SchedulesTyped == Spec => []TypeOK
<1>1. Init => TypesTrue
  BY TypesFirst
<1>2. TypesTrue /\ [Next]_vars => TypesTrue'
  BY TypesKept
<1>3. TypesTrue => TypeOK
  BY TypesSuffice
<1> QED BY <1>1, <1>2, <1>3, PTL DEF Spec

\* A sweep never gives a schedule the row another one points at: a pass takes the
\* rows that are pointed at out of play, and each row it settles (the one-to-one
\* rule of backfill_matches, through every pass of services/scheduled_matcher.py).
THEOREM ClaimsStayApart == Spec => NoSharedClaim
<1> DEFINE Apart == did' \in {"sweep", "start"} =>
              \A p, q \in DOMAIN scheds :
                scheds'[p].last # scheds[p].last /\ p # q => scheds'[p].last # scheds'[q].last
<1>1. Init => TypesTrue
  BY TypesFirst
<1>2. TypesTrue /\ [Next]_vars => TypesTrue'
  BY TypesKept
<1>3. TypesTrue /\ [Next]_vars => [Apart]_vars
  <2> SUFFICES ASSUME TypesTrue, Next, did' \in {"sweep", "start"},
                      NEW p \in DOMAIN scheds, NEW q \in DOMAIN scheds,
                      scheds'[p].last # scheds[p].last, p # q
               PROVE  scheds'[p].last # scheds'[q].last
    BY DEF Apart
  <2>1. SweepResult
    BY DEF Next, ImportSweep, Restart
  <2>2. Swings(Swept)
    BY SweptIsFair DEF Fair, TypesTrue
  <2> QED BY <2>1, <2>2 DEF SweepResult, Swings
<1>4. Spec => [][Apart]_vars
  <2> HIDE DEF Apart
  <2> QED BY <1>1, <1>2, <1>3, PTL DEF Spec
<1> QED BY <1>4 DEF NoSharedClaim, Apart

----------------------------------------------------------------------------
(* Sweeping once is enough.                                                 *)

\* The schedules that row r settles, those in used being settled already ...
Open(ss, used, r) == {p \in DOMAIN ss : Candidate([scheds |-> ss, used |-> used], p, r)}
Sure(ss, used, r) ==
  {p \in Best(ss, Open(ss, used, r), r) : Score(ss[p], r) >= AutoMatch}
\* ... and schedules that no row settles.
Still(ss) == \A r \in DOMAIN txns : r \notin Claimed(ss) => Sure(ss, {}, r) = {}

\* Row r is worded enough like schedule s, or like its last match, to settle it.
Worded(s, r) ==
  \/ Likeness[s.name][txns[r].look] >= 44
  \/ s.last # None /\ txns[s.last].look = txns[r].look

\* What a sweep can still work on: rows with a schedule's wording that are later
\* than what settled it last.
Backlog(ss) ==
  {k \in (DOMAIN ss) \X (DOMAIN txns) :
     LET s == ss[k[1]] IN
     /\ s.active /\ Worded(s, k[2])
     /\ s.seen = 0 \/ txns[k[2]].date > s.seen}

\* No sweep finds more of that than it has passes.
BacklogsAreShort ==
  [][did' \in {"sweep", "start"} => Cardinality(Backlog(scheds)) < MaxPasses]_vars

\* What a row changes.
LEMMA RowSettles ==
  ASSUME NEW st \in Work, NEW r \in DOMAIN txns
  PROVE  LET new == SweepRow(st, r)
             sure == Sure(st.scheds, st.used, r) IN
         /\ r \in st.claimed => new = st
         /\ r \notin st.claimed =>
              /\ new.used = st.used \cup sure
              /\ new.settled = st.settled \cup ({r} \X sure)
              /\ new.scheds = [p \in DOMAIN st.scheds |->
                                 IF p \in sure THEN Settle(st.scheds[p], r, txns[r].date)
                                 ELSE st.scheds[p]]
              /\ sure = {} => new.claimed = st.claimed /\ new.scheds = st.scheds
<1> DEFINE open == {p \in DOMAIN st.scheds : Candidate(st, p, r)}
           sure == Sure(st.scheds, st.used, r)
<1>1. open = Open(st.scheds, st.used, r)
  BY DEF Open, Candidate
<1>2. sure = {p \in {q \in open : IsBest(q, open, LAMBDA o : Score(st.scheds[o], r))} :
                Score(st.scheds[p], r) >= AutoMatch}
  BY <1>1 DEF Sure, Best
<1>3. st.scheds = [p \in DOMAIN st.scheds |-> st.scheds[p]]
  BY DEF Work
<1> DEFINE best == {p \in open : IsBest(p, open, LAMBDA q : Score(st.scheds[q], r))}
           likely == {p \in best \ sure : /\ Score(st.scheds[p], r) >= Propose
                                          /\ <<p, r>> \notin DOMAIN st.proposals}
           ss == [p \in DOMAIN st.scheds |->
                    IF p \in sure THEN Settle(st.scheds[p], r, txns[r].date)
                    ELSE st.scheds[p]]
           ps == [k \in DOMAIN st.proposals \cup (likely \X {r}) |->
                    IF k \in DOMAIN st.proposals THEN st.proposals[k] ELSE "pending"]
           row == [scheds |-> ss, proposals |-> ps,
                   claimed |-> IF sure = {} THEN st.claimed ELSE st.claimed \cup {r},
                   used |-> st.used \cup sure,
                   settled |-> st.settled \cup ({r} \X sure)]
<1> HIDE DEF sure, open
<1>4. SweepRow(st, r) = IF r \in st.claimed THEN st ELSE row
  BY <1>2, Zenon DEF SweepRow, open
<1>5. sure = {} => ss = st.scheds
  BY <1>3
<1> HIDE DEF ss, ps, likely, best
<1>6. row.used = st.used \cup sure /\ row.settled = st.settled \cup ({r} \X sure) /\ row.scheds = ss
      /\ (sure = {} => row.claimed = st.claimed)
  OBVIOUS
<1> QED BY <1>4, <1>5, <1>6 DEF sure, ss

\* It settles a schedule out of that schedule's backlog: without a wording alike
\* the best date does not carry a score to the threshold.
LEMMA SureIsWaiting ==
  ASSUME LedgerIs(txns), NEW ss, PlansAre(ss), NEW used, NEW r \in DOMAIN txns,
         NEW p \in Sure(ss, used, r)
  PROVE  p \in DOMAIN ss /\ p \notin used /\ <<p, r>> \in Backlog(ss)
<1> DEFINE s == ss[p]
           points == DatePoints(Gap(txns[r].date, s.due))
           alike == Likeness[s.name][txns[r].look]
<1>1. /\ p \in DOMAIN ss /\ p \notin used /\ s.active
      /\ s.seen = 0 \/ txns[r].date > s.seen
      /\ Score(s, r) >= 704
  BY DEF Sure, Best, IsBest, Open, Candidate, AutoMatch
<1>2. s \in Sched /\ txns[r] \in Row
  BY <1>1 DEF PlansAre, LedgerIs
<1>3. points \in Int /\ points <= 220
  <2>1. Gap(txns[r].date, s.due) \in Nat
    BY <1>2 DEF Gap, Sched, Row
  <2> QED BY <2>1 DEF DatePoints
<1>4. alike \in Int
  <2>1. s.name \in Names /\ txns[r].look \in Looks
    BY <1>2 DEF Sched, Row
  <2>2. Likeness[s.name] \in [Looks -> 0 .. 132]
    BY <2>1, PlanAssumption
  <2>3. Likeness[s.name][txns[r].look] \in 0 .. 132
    BY <2>1, <2>2
  <2> QED BY <2>3
<1>5. Score(s, r) = 440 + points + alike
        + (IF s.last # None /\ txns[s.last].look = txns[r].look THEN 88 ELSE 0)
  BY DEF Score
<1> HIDE DEF points, alike
<1>6. alike >= 44 \/ (s.last # None /\ txns[s.last].look = txns[r].look)
  BY <1>1, <1>3, <1>4, <1>5
<1>7. Worded(s, r)
  BY <1>6 DEF Worded, alike
<1> QED BY <1>1, <1>7 DEF Backlog

\* Whoever is settled has less before it, and nobody has more.
LEMMA SettlingUsesUp ==
  ASSUME LedgerIs(txns), NEW ss, PlansAre(ss), NEW S \in SUBSET DOMAIN ss,
         NEW r \in DOMAIN txns, txns[r].date > 0, \A p \in S : <<p, r>> \in Backlog(ss)
  PROVE  LET new == [p \in DOMAIN ss |->
                       IF p \in S THEN Settle(ss[p], r, txns[r].date) ELSE ss[p]] IN
         /\ Backlog(new) \subseteq Backlog(ss)
         /\ \A p \in S : <<p, r>> \notin Backlog(new)
<1> DEFINE day == txns[r].date
           new == [p \in DOMAIN ss |-> IF p \in S THEN Settle(ss[p], r, txns[r].date) ELSE ss[p]]
<1>1. \A p \in S : /\ Settle(ss[p], r, day).seen = day /\ Settle(ss[p], r, day).last = r
                   /\ Settle(ss[p], r, day).name = ss[p].name
                   /\ Settle(ss[p], r, day).active => ss[p].active
  <2> SUFFICES ASSUME NEW p \in S PROVE
               /\ Settle(ss[p], r, day).seen = day /\ Settle(ss[p], r, day).last = r
               /\ Settle(ss[p], r, day).name = ss[p].name
               /\ Settle(ss[p], r, day).active => ss[p].active
    OBVIOUS
  <2>1. ss[p] \in Sched
    BY DEF PlansAre
  <2>2. Advance(ss[p], day).active => ss[p].active
    BY <2>1 DEF Advance, Sched
  <2> QED BY <2>1, <2>2 DEF Settle, Advance, Sched
<1>2. \A p \in S : new[p].seen = day /\ new[p].last = r /\ new[p].name = ss[p].name
                   /\ (new[p].active => ss[p].active)
  BY <1>1
<1>3. DOMAIN new = DOMAIN ss /\ \A p \in DOMAIN ss \ S : new[p] = ss[p]
  OBVIOUS
<1>4. day \in Nat /\ day > 0 /\ \A i \in DOMAIN txns : txns[i].date \in Nat
  BY DEF LedgerIs, Row
<1>5. \A p \in DOMAIN ss : ss[p].seen \in Nat
  BY DEF PlansAre, Sched
<1> HIDE DEF new, day
<1>6. ASSUME NEW p \in S PROVE <<p, r>> \notin Backlog(new)
  BY <1>2, <1>4 DEF Backlog, day
<1>7. ASSUME NEW k \in Backlog(new) PROVE k \in Backlog(ss)
  <2>1. k \in (DOMAIN ss) \X (DOMAIN txns)
    BY <1>3 DEF Backlog
  <2>2. CASE k[1] \notin S
    BY <1>3, <2>1, <2>2 DEF Backlog, Worded
  <2>3. CASE k[1] \in S
    <3> DEFINE p == k[1]
               i == k[2]
    <3>1. <<p, r>> \in Backlog(ss)
      BY <2>3
    <3>2. ss[p].active /\ Worded(ss[p], r) /\ (ss[p].seen = 0 \/ day > ss[p].seen)
      BY <3>1 DEF Backlog, day
    <3>3. Worded(new[p], i) /\ txns[i].date > day
      BY <1>2, <1>4, <2>3 DEF Backlog
    <3>4. Worded(ss[p], i)
      BY <1>2, <2>3, <3>2, <3>3 DEF Worded
    <3>5. ss[p].seen = 0 \/ txns[i].date > ss[p].seen
      BY <1>4, <1>5, <2>1, <3>2, <3>3
    <3> QED BY <2>1, <3>2, <3>4, <3>5 DEF Backlog
  <2> QED BY <2>2, <2>3
<1> QED BY <1>6, <1>7 DEF new, day

\* A pass that settles nothing shows that there is nothing to settle; any other
\* leaves less of the backlog.
LEMMA PassProgress ==
  ASSUME home \in Homes, TablesTrue, \A i \in DOMAIN txns : txns[i].date > 0,
         NEW st \in Fair
  PROVE  LET end == Pass(st) IN
         /\ st.settled \subseteq end.settled
         /\ end.used = {} => end.scheds = st.scheds /\ Still(st.scheds)
         /\ end.used # {} => /\ end.settled # {}
                             /\ Backlog(end.scheds) \subseteq Backlog(st.scheds)
                             /\ Backlog(end.scheds) # Backlog(st.scheds)
<1> DEFINE ss == st.scheds
           A == {x \in Work : Swings(x) /\ OutOfPlay(x)}
           start == [st EXCEPT !.claimed = Claimed(st.scheds), !.used = {}]
           Untouched(a, s) ==
             /\ a.used = {} /\ a.scheds = ss /\ a.claimed = Claimed(ss)
             /\ \A r \in s : r \notin Claimed(ss) => Sure(ss, {}, r) = {}
           Moved(a) == a.used # {} /\ a.settled # {} /\ Backlog(a.scheds) # Backlog(ss)
           Fine(a, s) == /\ st.settled \subseteq a.settled
                         /\ Backlog(a.scheds) \subseteq Backlog(ss)
                         /\ Untouched(a, s) \/ Moved(a)
           B == {x \in A \X SUBSET DOMAIN txns : Fine(x[1], x[2])}
<1>1. Dated /\ LedgerIs(txns)
  BY LedgerDated DEF TablesTrue
<1>2. /\ start \in A /\ start.scheds = ss /\ start.claimed = Claimed(ss) /\ start.used = {}
      /\ start.settled = st.settled
  <2>1. /\ start.scheds = st.scheds /\ start.proposals = st.proposals
        /\ start.claimed = Claimed(st.scheds) /\ start.used = {} /\ start.settled = st.settled
    BY DEF Fair, Work
  <2>2. Claimed(st.scheds) \subseteq Nat
    BY DEF Fair, Work, Claimed, Sched
  <2>3. start \in Work
    BY <2>2 DEF Fair, Work
  <2>4. Swings(start) /\ OutOfPlay(start)
    BY <2>1 DEF Fair, Swings, OutOfPlay
  <2> QED BY <2>1, <2>3, <2>4
<1>3. \A a \in A, r \in DOMAIN txns : SweepRow(a, r) \in A
  BY SweepRowKeeps
<1> HIDE DEF start, Fine
<1>4. <<start, {}>> \in B
  BY <1>2 DEF Fine
<1>5. ASSUME NEW a \in A, NEW s \in SUBSET DOMAIN txns, NEW r \in s, <<a, s \ {r}>> \in B
      PROVE  <<SweepRow(a, r), s>> \in B
  <2> DEFINE new == SweepRow(a, r)
             sure == Sure(a.scheds, a.used, r)
  <2>1. new \in A /\ a \in Work
    BY <1>3
  <2>2. Fine(a, s \ {r})
    BY <1>5
  <2>3. /\ r \in a.claimed => new = a
        /\ r \notin a.claimed =>
              /\ new.used = a.used \cup sure
              /\ new.settled = a.settled \cup ({r} \X sure)
              /\ new.scheds = [p \in DOMAIN a.scheds |->
                                 IF p \in sure THEN Settle(a.scheds[p], r, txns[r].date)
                                 ELSE a.scheds[p]]
              /\ sure = {} => new.claimed = a.claimed /\ new.scheds = a.scheds
    BY <2>1, RowSettles
  <2>4. PlansAre(a.scheds)
    BY <2>1 DEF Work, TablesTrue, PlansAre
  <2>5. \A p \in sure : p \in DOMAIN a.scheds /\ <<p, r>> \in Backlog(a.scheds)
    BY <1>1, <2>4, SureIsWaiting
  <2>6. r \notin a.claimed => /\ Backlog(new.scheds) \subseteq Backlog(a.scheds)
                              /\ \A p \in sure : <<p, r>> \notin Backlog(new.scheds)
    <3>1. sure \in SUBSET DOMAIN a.scheds
      BY <2>5
    <3>2. r \in DOMAIN txns /\ txns[r].date > 0
      OBVIOUS
    <3> HIDE DEF sure, new
    <3> QED BY <1>1, <2>3, <2>4, <2>5, <3>1, <3>2, SettlingUsesUp
  <2> HIDE DEF new, A
  <2>7. CASE r \in a.claimed
    <3>1. Fine(new, s)
      BY <2>2, <2>3, <2>7 DEF Fine
    <3> QED BY <2>1, <3>1 DEF new
  <2>8. CASE r \notin a.claimed /\ sure = {}
    <3>1. new.used = a.used /\ new.settled = a.settled /\ new.scheds = a.scheds /\ new.claimed = a.claimed
      BY <2>3, <2>8
    <3>2. Untouched(a, s \ {r}) => Untouched(new, s)
      BY <2>8, <3>1
    <3>3. Moved(a) => Moved(new)
      BY <3>1
    <3>4. Fine(new, s)
      BY <2>2, <3>1, <3>2, <3>3 DEF Fine
    <3> QED BY <2>1, <3>4 DEF new
  <2>9. CASE r \notin a.claimed /\ sure # {}
    <3>1. PICK p \in sure : TRUE
      BY <2>9
    <3> HIDE DEF sure
    <3>2. <<p, r>> \in Backlog(ss) /\ <<p, r>> \notin Backlog(new.scheds)
      BY <2>2, <2>5, <2>6, <2>9 DEF Fine
    <3>3. Moved(new)
      <4>1. p \in new.used /\ <<r, p>> \in new.settled
        BY <2>3, <2>9, <3>1
      <4> QED BY <3>2, <4>1
    <3>4. Fine(new, s)
      BY <2>2, <2>3, <2>6, <2>9, <3>3 DEF Fine
    <3> QED BY <2>1, <3>4 DEF new
  <2> QED BY <2>7, <2>8, <2>9 DEF new
<1> HIDE DEF A, B
<1>6. <<Pass(st), DOMAIN txns>> \in B
  <2>1. Pass(st) = ByDate(SweepRow, start, DOMAIN txns)
    BY DEF Pass, start
  <2> QED BY <1>1, <1>2, <1>3, <1>4, <1>5, <2>1, SweptThrough
<1>7. Fine(Pass(st), DOMAIN txns)
  BY <1>6 DEF B
<1> HIDE DEF Backlog
<1> QED BY <1>7 DEF Fine, Still

\* What there is to work on is finite.
LEMMA BacklogFinite ==
  ASSUME home \in Homes, LedgerIs(txns), NEW ss \in [DOMAIN scheds -> Sched],
         DOMAIN scheds \subseteq Scheds
  PROVE  IsFiniteSet(Backlog(ss)) /\ Cardinality(Backlog(ss)) \in Nat
<1>1. IsFiniteSet(DOMAIN txns)
  BY LedgerDated DEF Dated
<1>2. IsFiniteSet(DOMAIN ss)
  <2>1. IsFiniteSet(Scheds)
    BY HomeTrue, FS_Interval DEF Scheds
  <2> QED BY <2>1, FS_Subset
<1>3. IsFiniteSet((DOMAIN ss) \X (DOMAIN txns))
  BY <1>1, <1>2, FS_Product
<1>4. IsFiniteSet(Backlog(ss))
  BY <1>3, FS_Subset DEF Backlog
<1> QED BY <1>4, FS_CardinalityType

\* A sweep that is not cut off ends with nothing left to settle; one that settles
\* nothing found it so.
LEMMA SweptIsStill ==
  ASSUME home \in Homes, TablesTrue, \A i \in DOMAIN txns : txns[i].date > 0,
         Cardinality(Backlog(scheds)) < MaxPasses
  PROVE  Still(Swept.scheds) /\ (Swept.settled = {} => Still(scheds))
<1> DEFINE Size(ss) == Cardinality(Backlog(ss))
           Fine(a, s) ==
             /\ a.settled = {} => Still(scheds)
             /\ a.used = {} => Still(a.scheds)
             /\ a.used # {} => Size(a.scheds) + Cardinality(s) + 1 <= Size(scheds)
           B == {x \in Fair \X SUBSET (1 .. 23) : Fine(x[1], x[2])}
<1>1. Before \in Fair
  <2>1. Before.scheds = scheds /\ Before.proposals = proposals
    BY DEF Before
  <2>2. Before \in Work
    <3>1. scheds \in [DOMAIN scheds -> Sched]
      BY DEF TablesTrue, PlansAre
    <3>2. proposals \in UNION {[D -> Status] : D \in SUBSET ((DOMAIN scheds) \X (DOMAIN txns))}
      BY DEF TablesTrue, AskedAre
    <3> QED BY <3>1, <3>2 DEF Before, Work
  <2>3. Swings(Before)
    BY <2>1 DEF Swings, TablesTrue
  <2> QED BY <2>2, <2>3 DEF Fair
<1>2. \A st \in Fair : Pass(st) \in Fair
  BY PassKeeps
<1>3. ASSUME NEW a \in Fair
      PROVE  Size(a.scheds) \in Nat /\ IsFiniteSet(Backlog(a.scheds))
  BY BacklogFinite DEF Fair, Work, TablesTrue, PlansAre
<1>4. ASSUME NEW a \in Fair, Pass(a).used # {}
      PROVE  Size(Pass(a).scheds) + 1 <= Size(a.scheds)
  <2>1. /\ Backlog(Pass(a).scheds) \subseteq Backlog(a.scheds)
        /\ Backlog(Pass(a).scheds) # Backlog(a.scheds)
    BY <1>4, PassProgress
  <2>2. Size(a.scheds) \in Nat /\ IsFiniteSet(Backlog(a.scheds)) /\ Size(Pass(a).scheds) \in Nat
    BY <1>2, <1>3
  <2>3. Size(Pass(a).scheds) <= Size(a.scheds) /\ Size(Pass(a).scheds) # Size(a.scheds)
    BY <2>1, <2>2, FS_Subset
  <2> QED BY <2>2, <2>3
<1>i. IsFiniteSet(1 .. 23) /\ Cardinality(1 .. 23) = 23
  <2>1. 1 \in Int /\ 23 \in Int /\ ~ (1 > 23) /\ 23 - 1 + 1 = 23
    OBVIOUS
  <2> QED BY <2>1, FS_Interval
<1>5. \A s \in SUBSET (1 .. 23) : IsFiniteSet(s) /\ Cardinality(s) \in Nat
  BY <1>i, FS_Subset, FS_CardinalityType
<1>6. Before.scheds = scheds /\ Cardinality({}) = 0
  BY FS_EmptySet DEF Before
<1> HIDE DEF Size
<1>7. <<Pass(Before), {}>> \in B
  <2>1. Pass(Before) \in Fair
    BY <1>1, <1>2
  <2>2. Pass(Before).used # {} => Pass(Before).settled # {}
    BY <1>1, PassProgress
  <2>3. Pass(Before).used = {} => Still(scheds) /\ Pass(Before).scheds = scheds
    BY <1>1, <1>6, PassProgress
  <2>4. Pass(Before).used # {} => Size(Pass(Before).scheds) + 0 + 1 <= Size(scheds)
    BY <1>1, <1>3, <1>4, <1>6, <2>1
  <2>5. Fine(Pass(Before), {})
    BY <1>6, <2>2, <2>3, <2>4
  <2> HIDE DEF Fine
  <2> QED BY <2>1, <2>5
<1>8. ASSUME NEW a \in Fair, NEW s \in SUBSET (1 .. 23), NEW n \in s, <<a, s \ {n}>> \in B
      PROVE  <<Again(a), s>> \in B
  <2>1. Fine(a, s \ {n})
    BY <1>8
  <2>2. Again(a) \in Fair
    BY <1>2 DEF Again
  <2>3. CASE a.used = {}
    <3>1. Fine(Again(a), s)
      BY <2>1, <2>3 DEF Again
    <3> HIDE DEF Fine
    <3> QED BY <2>2, <3>1
  <2>4. CASE a.used # {}
    <3>1. Again(a) = Pass(a)
      BY <2>4 DEF Again
    <3>2. Pass(a).settled = {} => Still(scheds)
      BY <2>1, PassProgress
    <3>3. Pass(a).used = {} => Still(Pass(a).scheds)
      BY PassProgress
    <3>4. Pass(a).used # {} => Size(Pass(a).scheds) + Cardinality(s) + 1 <= Size(scheds)
      <4>1. Cardinality(s \ {n}) = Cardinality(s) - 1
        BY <1>5, FS_RemoveElement
      <4>2. Size(a.scheds) \in Nat /\ Size(Pass(a).scheds) \in Nat /\ Size(scheds) \in Nat
        BY <1>1, <1>2, <1>3, <1>6
      <4>3. Cardinality(s) \in Nat
        BY <1>5
      <4> QED BY <1>4, <2>1, <2>4, <4>1, <4>2, <4>3
    <3>5. Fine(Pass(a), s)
      BY <3>2, <3>3, <3>4
    <3> HIDE DEF Fine
    <3> QED BY <2>2, <3>1, <3>5
  <2> QED BY <2>3, <2>4
<1>9. Fine(Swept, 1 .. 23) /\ Swept \in Fair
  <2>1. Pass(Before) \in Fair
    BY <1>1, <1>2
  <2> HIDE DEF Fine, B
  <2>2. Swept \in Fair /\ <<Swept, 1 .. 23>> \in B
    BY <1>2, <1>7, <1>8, <2>1, PassesThrough
  <2> QED BY <2>2 DEF B
<1>10. Swept.used = {}
  <2> SUFFICES ASSUME Swept.used # {} PROVE FALSE
    OBVIOUS
  <2>2. Size(Swept.scheds) \in Nat /\ Size(scheds) \in Nat /\ Size(scheds) < 24
    BY <1>1, <1>3, <1>6, <1>9 DEF MaxPasses, Size
  <2> QED BY <1>9, <1>i, <2>2
<1> QED BY <1>9, <1>10

\* Where no row settles anything, a pass settles nothing.
LEMMA StillSettlesNothing ==
  ASSUME TypesTrue, Still(scheds)
  PROVE  Pass(Before).settled = {}
<1> DEFINE Proposals == UNION {[D -> Status] : D \in SUBSET ((DOMAIN scheds) \X (DOMAIN txns))}
           A == {a \in Work : /\ a.scheds = scheds /\ a.claimed = Claimed(scheds)
                              /\ a.used = {} /\ a.settled = {} /\ Swings(a) /\ OutOfPlay(a)}
           start == [Before EXCEPT !.claimed = Claimed(scheds), !.used = {}]
<1>1. home \in Homes /\ TablesTrue /\ LedgerIs(txns) /\ Dated
  BY LedgerDated DEF TypesTrue, TablesTrue
<1>2. Before.scheds = scheds
  BY DEF Before
<1>3. start \in A
  <2>1. Before.scheds = scheds /\ Before.proposals = proposals /\ Before.settled = {}
    BY DEF Before
  <2>2. scheds \in [DOMAIN scheds -> Sched]
    BY <1>1 DEF TablesTrue, PlansAre
  <2>3. proposals \in UNION {[D -> Status] : D \in SUBSET ((DOMAIN scheds) \X (DOMAIN txns))}
    BY <1>1 DEF TablesTrue, AskedAre
  <2>4. Claimed(scheds) \subseteq Nat
    BY <2>2 DEF Claimed, Sched
  <2>5. Before \in Work
    BY <2>2, <2>3 DEF Before, Work
  <2>6. /\ start.scheds = scheds /\ start.proposals = proposals /\ start.settled = {}
        /\ start.claimed = Claimed(scheds) /\ start.used = {} /\ start \in Work
    BY <2>1, <2>4, <2>5 DEF Work
  <2>7. Swings(start) /\ OutOfPlay(start)
    BY <1>1, <2>6 DEF Swings, OutOfPlay, TablesTrue
  <2> QED BY <2>6, <2>7
<1>4. ASSUME NEW a \in A, NEW r \in DOMAIN txns PROVE SweepRow(a, r) \in A
  <2>1. /\ SweepRow(a, r) \in Work /\ Swings(SweepRow(a, r)) /\ OutOfPlay(SweepRow(a, r))
    BY <1>1, SweepRowKeeps
  <2>2. CASE r \in a.claimed
    BY <2>2, RowSettles
  <2>3. CASE r \notin a.claimed
    <3>1. Sure(a.scheds, a.used, r) = {}
      BY <2>3 DEF Still
    <3>2. /\ SweepRow(a, r).used = {} /\ SweepRow(a, r).settled = {}
          /\ SweepRow(a, r).scheds = scheds /\ SweepRow(a, r).claimed = Claimed(scheds)
      <4>1. LET new == SweepRow(a, r)
                sure == Sure(a.scheds, a.used, r) IN
            /\ new.used = a.used \cup sure
            /\ new.settled = a.settled \cup ({r} \X sure)
            /\ sure = {} => new.claimed = a.claimed /\ new.scheds = a.scheds
        BY <2>3, RowSettles
      <4>2. {r} \X {} = {}
        OBVIOUS
      <4> QED BY <3>1, <4>1, <4>2
    <3> QED BY <2>1, <3>2
  <2> QED BY <2>2, <2>3
<1> HIDE DEF A, start
<1>5. Pass(Before) = ByDate(SweepRow, start, DOMAIN txns)
  BY <1>2 DEF Pass, start
<1>6. Pass(Before) \in A
  BY <1>1, <1>3, <1>4, <1>5, SweptWithin
<1> QED BY <1>6 DEF A

\* A confirmation on its way was on its way, or begins with this step.
LEMMA ConfirmationFrom ==
  ASSUME TypesTrue, Next, NEW t \in Requests, pc'[t] = "confirm"
  PROVE  \/ pc[t] = "confirm" /\ sess'[t] = sess[t]
         \/ \E p \in Scheds, day \in home.offered : ConfirmRead(t, p, day)
<1> DEFINE Goal == \/ pc[t] = "confirm" /\ sess'[t] = sess[t]
                   \/ \E p \in Scheds, day \in home.offered : ConfirmRead(t, p, day)
<1>t. pc \in [Requests -> Stages] /\ sess \in [Requests -> Session]
  BY DEF TypesTrue
<1>k. ASSUME UNCHANGED <<pc, sess>> PROVE Goal
  BY <1>k
<1>3. ASSUME NEW u \in Requests, NEW what \in Stages, what # "confirm",
             pc' = [pc EXCEPT ![u] = what],
             \A v \in Requests : v # u => sess'[v] = sess[v]
      PROVE  Goal
  BY <1>t, <1>3
<1>4. ASSUME NEW u \in Requests, Finish(u) PROVE Goal
  <2>1. "idle" \in Stages
    BY DEF Stages
  <2> QED BY <1>t, <1>3, <1>4, <2>1 DEF Finish
<1>5. ASSUME NEW u \in Requests, Confirm(u) PROVE Goal
  <2>1. ASSUME NEW p \in Scheds, NEW day \in home.offered, ConfirmRead(u, p, day)
        PROVE  Goal
    <3>1. CASE t = u
      BY <2>1, <3>1
    <3>2. CASE t # u
      BY <1>t, <2>1, <3>2 DEF ConfirmRead, Begin
    <3> QED BY <3>1, <3>2
  <2> QED BY <1>4, <1>5, <2>1 DEF Confirm, ConfirmWrite, ConfirmFails
<1>6. ASSUME NEW u \in Requests, Import(u) PROVE Goal
  BY <1>t, <1>3, <1>4, <1>6 DEF Import, PostStatement, Begin, MatchRead, MatchFails, Stages
<1>7. ASSUME NEW u \in Requests, DetectPage(u) \/ DetectConfirm(u) PROVE Goal
  BY <1>t, <1>3, <1>4, <1>7 DEF DetectPage, DetectConfirm, Begin, Stages
<1>8. ASSUME NEW u \in Requests, MatchWrite(u) \/ ImportSweep(u) PROVE Goal
  BY <1>t, <1>3, <1>4, <1>8 DEF MatchWrite, ImportSweep, Stages
<1>9. ASSUME UserChange \/ \E n \in home.stated : StatementPlan(n) PROVE UNCHANGED <<pc, sess>>
  BY <1>9 DEF UserChange, Create, RestoreDismissed, Toggle, DeleteSched, EditDue,
              ConfirmProposal, RejectProposal, Enter, DeleteTxn, StatementPlan
<1>10. ~ Restart
  BY DEF Restart
<1>11. ASSUME Other PROVE Goal
  <2> HIDE DEF Goal
  <2> QED BY <1>5, <1>6, <1>7, <1>9, <1>11, <1>k DEF Other
<1> HIDE DEF Goal
<1>12. Goal
  BY <1>8, <1>10, <1>11 DEF Next
<1> QED BY <1>12 DEF Goal

\* Rows and confirmations on their way have a day.
DaysTrue ==
  /\ \A i \in DOMAIN txns : txns[i].date > 0
  /\ \A t \in Requests : pc[t] = "confirm" => sess[t].day > 0

LEMMA DaysKept ==
  ASSUME TypesTrue, DaysTrue, [Next]_vars
  PROVE  DaysTrue'
<1> DEFINE RowsDated == \A i \in DOMAIN txns' : txns'[i].date > 0
<1>t. /\ txns \in [DOMAIN txns -> Row] /\ pc \in [Requests -> Stages]
      /\ sess \in [Requests -> Session] /\ home \in Homes /\ LedgerIs(txns)
  BY DEF TypesTrue, TablesTrue, LedgerIs
<1>h. /\ home.offered \subseteq Days /\ home.entries \subseteq [date : Days, look : Looks]
      /\ home.files \subseteq DOMAIN Statements
  BY <1>t, PlanAssumption
<1>1. CASE UNCHANGED vars
  BY <1>1 DEF vars, DaysTrue
<1>2. ASSUME NEW i \in Txns, NEW day \in Days, NEW look \in Looks,
             NEW slot \in {NoSlot} \cup (Scheds \X Nat),
             IsNextId(txns, i), txns' = WithTxn(i, day, look, slot)
      PROVE  RowsDated
  <2>1. /\ DOMAIN txns' = DOMAIN txns \cup {i} /\ txns'[i].date = day
        /\ \A j \in DOMAIN txns : txns'[j] = txns[j]
    <3>1. day \in Nat
      BY DEF Days
    <3>2. /\ DOMAIN txns' = DOMAIN txns \cup {i}
          /\ txns'[i] = [date |-> day, look |-> look, slot |-> slot]
          /\ \A j \in DOMAIN txns : txns'[j] = txns[j]
      BY <1>2, <3>1, RowAdded
    <3> QED BY <3>2
  <2> QED BY <2>1 DEF DaysTrue, Days
<1>3. ASSUME NEW t \in Requests, ConfirmWrite(t) PROVE RowsDated
  <2>1. /\ sess[t].sched \in Scheds /\ sess[t].day \in Days
        /\ scheds[sess[t].sched].name \in Looks
    BY <1>3, <1>t, PlanAssumption
       DEF ConfirmWrite, DaysTrue, Session, TypesTrue, TablesTrue, PlansAre, Sched, Days
  <2>2. <<sess[t].sched, sess[t].day>> \in {NoSlot} \cup (Scheds \X Nat)
    BY <2>1 DEF Days
  <2> QED BY <1>2, <1>3, <2>1, <2>2 DEF ConfirmWrite
<1>4. ASSUME NEW t \in Requests, NEW f \in home.files, PostStatement(t, f) PROVE RowsDated
  <2> DEFINE A == {acc \in Imports : \A i \in DOMAIN acc.ledger : acc.ledger[i].date > 0}
             Rows == [date : Days, look : Looks]
             base == [ledger |-> txns, rows |-> {}]
  <2>1. Statements[f] \in Seq(Rows)
    BY <1>h, PlanAssumption
  <2>2. base \in A
    <3>1. txns \in UNION {[D -> Row] : D \in SUBSET Txns}
      BY <1>t DEF LedgerIs
    <3> QED BY <3>1 DEF Imports, Batches, Grown, DaysTrue
  <2>3. ASSUME NEW acc \in A, NEW row \in Rows PROVE Post(acc, row) \in A
    <3>1. row \in [date : Nat, look : Looks] /\ row.date > 0
      BY DEF Days
    <3>2. Post(acc, row) \in Imports
      BY <1>t, <3>1, PostKeeps
    <3>3. ASSUME NEW i \in DOMAIN Post(acc, row).ledger
          PROVE  Post(acc, row).ledger[i].date > 0
      <4>1. \/ Post(acc, row).ledger[i] = [date |-> row.date, look |-> row.look, slot |-> NoSlot]
            \/ i \in DOMAIN acc.ledger /\ Post(acc, row).ledger[i] =
                  [acc.ledger[i] EXCEPT !.date = row.date, !.slot = NoSlot]
            \/ i \in DOMAIN acc.ledger /\ Post(acc, row).ledger[i] = acc.ledger[i]
        BY <3>3 DEF Post, Placeholders
      <4>2. ASSUME i \in DOMAIN acc.ledger PROVE acc.ledger[i] \in Row /\ acc.ledger[i].date > 0
        BY <4>2 DEF Imports, Batches
      <4>3. \A x \in Row : [x EXCEPT !.date = row.date, !.slot = NoSlot].date = row.date
        BY DEF Row
      <4> DEFINE made == Post(acc, row).ledger[i]
                 old == acc.ledger[i]
      <4>4. \/ made = [date |-> row.date, look |-> row.look, slot |-> NoSlot]
            \/ old \in Row /\ made = [old EXCEPT !.date = row.date, !.slot = NoSlot]
            \/ made = old /\ old.date > 0
        BY <4>1, <4>2
      <4> HIDE DEF made, old
      <4>5. ASSUME made = [date |-> row.date, look |-> row.look, slot |-> NoSlot]
            PROVE  made.date > 0
        BY <3>1, <4>5
      <4>6. ASSUME old \in Row, made = [old EXCEPT !.date = row.date, !.slot = NoSlot]
            PROVE  made.date > 0
        <5>1. made.date = row.date
          BY <4>3, <4>6, Zenon
        <5> QED BY <3>1, <5>1
      <4>7. made.date > 0
        BY <4>4, <4>5, <4>6
      <4> QED BY <4>7 DEF made
    <3> QED BY <3>2, <3>3
  <2> HIDE DEF A, Rows, base
  <2>4. FoldLeft(Post, base, Statements[f]) \in A
    BY <2>1, <2>2, <2>3, PostedWithin
  <2>5. txns' = FoldLeft(Post, base, Statements[f]).ledger
    BY <1>4 DEF PostStatement, base
  <2> QED BY <2>4, <2>5 DEF A
<1>5. ASSUME NEW e \in home.entries, Enter(e) PROVE RowsDated
  <2>1. e.date \in Days /\ e.look \in Looks
    BY <1>h
  <2>2. NoSlot \in {NoSlot} \cup (Scheds \X Nat)
    OBVIOUS
  <2> QED BY <1>2, <1>5, <2>1, <2>2 DEF Enter
<1>6. ASSUME UNCHANGED txns PROVE RowsDated
  BY <1>6 DEF DaysTrue
<1>7. ASSUME Next PROVE RowsDated
  <2>1. ASSUME NEW r \in Txns, DeleteTxn(r) PROVE RowsDated
    BY <1>6, <2>1 DEF DeleteTxn, Keep, DaysTrue
  <2>2. ASSUME UserChange PROVE RowsDated
    BY <1>5, <1>6, <2>1, <2>2
       DEF UserChange, Create, RestoreDismissed, Toggle, DeleteSched, EditDue,
           ConfirmProposal, RejectProposal
  <2>3. ASSUME NEW t \in Requests, Confirm(t) \/ Import(t) \/ DetectPage(t) \/ DetectConfirm(t)
        PROVE  RowsDated
    BY <1>3, <1>4, <1>6, <2>3
       DEF Confirm, Import, ConfirmRead, ConfirmFails, MatchRead, MatchFails, DetectPage,
           DetectConfirm
  <2>4. ASSUME Other PROVE RowsDated
    BY <1>6, <2>2, <2>3, <2>4 DEF Other, StatementPlan
  <2> QED BY <1>6, <1>7, <2>4 DEF Next, MatchWrite, ImportSweep, Restart
<1>8. ASSUME Next, NEW t \in Requests, pc'[t] = "confirm"
      PROVE  sess'[t].day > 0
  <2>1. CASE pc[t] = "confirm" /\ sess'[t] = sess[t]
    BY <2>1 DEF DaysTrue
  <2>2. CASE \E p \in Scheds, day \in home.offered : ConfirmRead(t, p, day)
    BY <1>h, <1>t, <2>2 DEF ConfirmRead, Begin, Idle, Days
  <2> QED BY <1>8, <2>1, <2>2, ConfirmationFrom
<1> QED BY <1>1, <1>7, <1>8 DEF DaysTrue

\* After a sweep nothing is left to settle.
SettledTrue == did \in {"sweep", "start"} => Still(scheds)

LEMMA SettledKept ==
  ASSUME TypesTrue, DaysTrue, SettledTrue, [Next]_vars,
         Next /\ did' \in {"sweep", "start"} => Cardinality(Backlog(scheds)) < MaxPasses
  PROVE  SettledTrue'
<1>1. ASSUME UNCHANGED <<txns, scheds>>, Still(scheds) PROVE Still(scheds)'
  BY <1>1 DEF Still, Sure, Best, IsBest, Open, Candidate, Score, Claimed
<1>2. CASE UNCHANGED vars
  BY <1>1, <1>2 DEF vars, SettledTrue
<1>3. ASSUME Next, did' \in {"sweep", "start"} PROVE Still(scheds)'
  <2>1. Still(Swept.scheds) /\ (Swept.settled = {} => Still(scheds))
    BY <1>3, SweptIsStill DEF TypesTrue, DaysTrue
  <2>2. UNCHANGED txns
    BY <1>3 DEF Next, ImportSweep, Restart
  <2>3. SweepResult \/ (UNCHANGED scheds /\ Swept.settled = {})
    BY <1>3 DEF Next, ImportSweep, Restart
  <2>4. CASE UNCHANGED scheds /\ Swept.settled = {}
    BY <1>1, <2>1, <2>2, <2>4
  <2>5. CASE SweepResult
    <3> DEFINE ss == Swept.scheds
    <3>1. scheds' = ss /\ Still(ss)
      BY <2>1, <2>5 DEF SweepResult
    <3> HIDE DEF ss
    <3> QED BY <2>2, <3>1 DEF Still, Sure, Best, IsBest, Open, Candidate, Score, Claimed
  <2> QED BY <2>3, <2>4, <2>5
<1> QED BY <1>2, <1>3 DEF SettledTrue

\* A sweep walks every schedule as far as the ledger carries it, so that a second
\* one finds nothing: unless the rows that wait for a match are more than its passes
\* (the loop of backfill_matches in services/scheduled_matcher.py, which gives up
\* after max_passes).
THEOREM OneSweepIsEnough == Spec /\ BacklogsAreShort => []SweepSettles
<1> DEFINE Inv == TypesTrue /\ DaysTrue /\ SettledTrue
           Short == did' \in {"sweep", "start"} => Cardinality(Backlog(scheds)) < MaxPasses
<1>1. Init => Inv
  <2>1. Init => TypesTrue
    BY TypesFirst
  <2>2. DOMAIN <<>> = {}
    OBVIOUS
  <2> QED BY <2>1, <2>2 DEF Init, DaysTrue, SettledTrue
<1>2. Inv /\ [Next]_vars /\ [Short]_vars => Inv'
  <2> SUFFICES ASSUME Inv, [Next]_vars, [Short]_vars PROVE Inv'
    OBVIOUS
  <2>1. Next /\ did' \in {"sweep", "start"} => Short \/ UNCHANGED vars
    OBVIOUS
  <2>2. CASE UNCHANGED vars
    <3>1. SettledTrue'
      BY <2>2 DEF vars, SettledTrue, Still, Sure, Best, IsBest, Open, Candidate, Score, Claimed
    <3> QED BY <3>1, TypesKept, DaysKept
  <2>3. CASE Short
    BY <2>3, TypesKept, DaysKept, SettledKept
  <2> QED BY <2>2, <2>3
<1>3. Inv => SweepSettles
  BY StillSettlesNothing DEF SettledTrue, SweepSettles
<1>4. BacklogsAreShort => [][Short]_vars
  BY DEF BacklogsAreShort
<1> QED
  <2> HIDE DEF Inv, Short
  <2> QED BY <1>1, <1>2, <1>3, <1>4, PTL DEF Spec

----------------------------------------------------------------------------
(* What the user decided.                                                   *)

\* Where the name of a schedule comes from: from before, or, for another name,
\* from the user, a statement or the detector's page.
NameFrom(p) ==
  \/ /\ p \in DOMAIN scheds
     /\ scheds'[p].name = scheds[p].name /\ scheds'[p].source = scheds[p].source
  \/ scheds'[p].source = "manual" /\ Create(scheds'[p].name)
  \/ /\ scheds'[p].source = "statement" /\ scheds'[p].name \in home.stated
     /\ NotDismissed(scheds'[p].name) \/ (p \in DOMAIN scheds /\ scheds[p].source = "statement")
  \/ /\ scheds'[p].source = "auto"
     /\ \E t \in Requests : scheds'[p].name \in sess[t].names

LEMMA NamesStay ==
  ASSUME TypesTrue, Next, NEW p \in DOMAIN scheds'
  PROVE  NameFrom(p)
<1>t. PlansAre(scheds)
  BY DEF TypesTrue, TablesTrue
<1>s. ASSUME DOMAIN scheds' \subseteq DOMAIN scheds,
             \A q \in DOMAIN scheds' :
               scheds'[q].name = scheds[q].name /\ scheds'[q].source = scheds[q].source
      PROVE  NameFrom(p)
  BY <1>s DEF NameFrom
<1>1. ASSUME NEW n \in home.names, Create(n) PROVE NameFrom(p)
  <2>1. AddSched(n, "manual") /\ n \in Names
    BY <1>1, HomeTrue DEF Create, TypesTrue
  <2> QED BY <1>1, <2>1, AddKeeps DEF NameFrom
<1>2. ASSUME NEW n \in home.stated, StatementPlan(n) PROVE NameFrom(p)
  <2>1. n \in Names
    BY HomeTrue DEF TypesTrue
  <2>2. CASE NotDismissed(n) /\ AddSched(n, "statement")
    BY <2>1, <2>2, AddKeeps DEF NameFrom
  <2>3. ASSUME NEW q \in DOMAIN scheds, scheds[q].source = "statement",
               scheds' = [scheds EXCEPT ![q].due = Plan[n].due, ![q].name = n]
        PROVE  NameFrom(p)
    <3>1. scheds \in [DOMAIN scheds -> Sched]
      BY <1>t DEF PlansAre
    <3>2. DOMAIN scheds' = DOMAIN scheds /\ p \in DOMAIN scheds
      BY <2>3
    <3>3. CASE p = q
      BY <2>3, <3>1, <3>2, <3>3 DEF NameFrom, Sched
    <3>4. CASE p # q
      BY <2>3, <3>1, <3>2, <3>4 DEF NameFrom, Sched
    <3> QED BY <3>3, <3>4
  <2> QED BY <1>2, <2>2, <2>3 DEF StatementPlan
<1>3. ASSUME NEW t \in Requests, DetectConfirm(t) PROVE NameFrom(p)
  <2>1. PICK n \in sess[t].names : AddSched(n, "auto")
    BY <1>3 DEF DetectConfirm
  <2>2. n \in Names
    BY DEF TypesTrue, Session
  <2> QED BY <2>1, <2>2, AddKeeps DEF NameFrom
<1>4. ASSUME NEW t \in Requests, ConfirmWrite(t) PROVE NameFrom(p)
  <2> DEFINE d == sess[t].sched
             day == sess[t].day
  <2>1. PICK i \in Txns :
          scheds' = [scheds EXCEPT ![d] =
            IF MovesForward(t) THEN Settle(@, i, day)
            ELSE [@ EXCEPT !.last = i, !.seen = day]]
    BY <1>4 DEF ConfirmWrite
  <2>2. d \in DOMAIN scheds /\ i \in Nat /\ day \in Nat /\ scheds[d] \in Sched
    BY <1>4, <1>t DEF ConfirmWrite, PlansAre, TypesTrue, Session, Txns
  <2> HIDE DEF d, day
  <2>3. /\ Settle(scheds[d], i, day).name = scheds[d].name
        /\ Settle(scheds[d], i, day).source = scheds[d].source
        /\ [scheds[d] EXCEPT !.last = i, !.seen = day].name = scheds[d].name
        /\ [scheds[d] EXCEPT !.last = i, !.seen = day].source = scheds[d].source
    BY <2>2, SettledIs DEF Sched
  <2>4. CASE MovesForward(t)
    BY <1>s, <2>1, <2>2, <2>3, <2>4
  <2>5. CASE ~ MovesForward(t)
    BY <1>s, <2>1, <2>2, <2>3, <2>5
  <2> QED BY <2>4, <2>5
<1>5. ASSUME NEW t \in Requests, MatchWrite(t) PROVE NameFrom(p)
  BY <1>s, <1>5, MatchWriteIs
<1>6. ASSUME SweepResult PROVE NameFrom(p)
  <2>1. Swings(Swept) /\ Swept \in Work
    BY SweptIsFair DEF Fair, TypesTrue
  <2> QED BY <1>s, <1>6, <2>1 DEF SweepResult, Swings, Work
<1>7. ASSUME NEW q \in Scheds, NEW r \in Txns, ConfirmProposal(q, r) PROVE NameFrom(p)
  <2>1. q \in DOMAIN scheds /\ r \in DOMAIN txns
    BY <1>7 DEF ConfirmProposal, Pending, TypesTrue, TablesTrue, AskedAre
  <2>2. scheds[q] \in Sched /\ r \in Nat /\ txns[r].date \in Nat
    BY <1>t, <2>1 DEF PlansAre, TypesTrue, TablesTrue, LedgerIs, Row, Txns
  <2>3. /\ Settle(scheds[q], r, txns[r].date).name = scheds[q].name
        /\ Settle(scheds[q], r, txns[r].date).source = scheds[q].source
        /\ [scheds[q] EXCEPT !.last = r, !.seen = txns[r].date].name = scheds[q].name
        /\ [scheds[q] EXCEPT !.last = r, !.seen = txns[r].date].source = scheds[q].source
    BY <2>2, SettledIs DEF Sched
  <2>4. CASE scheds[q].due <= txns[r].date
    BY <1>7, <1>s, <2>1, <2>3, <2>4 DEF ConfirmProposal
  <2>5. CASE ~ scheds[q].due <= txns[r].date
    BY <1>7, <1>s, <2>1, <2>3, <2>5 DEF ConfirmProposal
  <2> QED BY <2>4, <2>5
<1>8. ASSUME NEW q \in Scheds, Toggle(q) \/ (\E day \in home.typed : EditDue(q, day)) \/ DeleteSched(q)
      PROVE  NameFrom(p)
  <2>1. scheds \in [DOMAIN scheds -> Sched]
    BY <1>t DEF PlansAre
  <2>2. CASE Toggle(q)
    BY <1>s, <2>1, <2>2 DEF Toggle, Sched
  <2>3. CASE \E day \in home.typed : EditDue(q, day)
    BY <1>s, <2>1, <2>3 DEF EditDue, Sched
  <2>4. CASE DeleteSched(q)
    BY <1>s, <2>1, <2>4 DEF DeleteSched, Keep
  <2> QED BY <1>8, <2>2, <2>3, <2>4
<1>9. ASSUME NEW r \in Txns, DeleteTxn(r) PROVE NameFrom(p)
  <2>1. CASE UNCHANGED scheds
    BY <1>s, <2>1
  <2>2. CASE scheds' = Unpoint(r)
    BY <1>s, <1>t, <2>2 DEF Unpoint, PlansAre, Sched
  <2> QED BY <1>9, <2>1, <2>2 DEF DeleteTxn
<1>10. ASSUME UNCHANGED scheds PROVE NameFrom(p)
  BY <1>s, <1>10
<1>11. ASSUME UserChange PROVE NameFrom(p)
  <2>1. ASSUME NEW n \in home.names, RestoreDismissed(n) PROVE NameFrom(p)
    BY <1>10, <2>1 DEF RestoreDismissed
  <2>2. ASSUME NEW q \in Scheds, NEW r \in Txns, RejectProposal(q, r) PROVE NameFrom(p)
    BY <1>10, <2>2 DEF RejectProposal
  <2>3. ASSUME NEW e \in home.entries, Enter(e) PROVE NameFrom(p)
    BY <1>10, <2>3 DEF Enter
  <2> QED BY <1>1, <1>7, <1>8, <1>9, <1>11, <2>1, <2>2, <2>3 DEF UserChange
<1>12. ASSUME NEW t \in Requests, Confirm(t) \/ Import(t) \/ DetectPage(t) \/ DetectConfirm(t)
       PROVE  NameFrom(p)
  <2>1. CASE Confirm(t)
    BY <1>4, <1>10, <2>1 DEF Confirm, ConfirmRead, ConfirmFails
  <2>2. CASE Import(t)
    BY <1>10, <2>2 DEF Import, PostStatement, MatchRead, MatchFails
  <2>3. CASE DetectPage(t)
    BY <1>10, <2>3 DEF DetectPage
  <2> QED BY <1>3, <1>12, <2>1, <2>2, <2>3
<1>13. ASSUME NEW t \in Requests, ImportSweep(t) PROVE NameFrom(p)
  BY <1>6, <1>13 DEF ImportSweep
<1>14. ASSUME Restart PROVE NameFrom(p)
  BY <1>6, <1>10, <1>14 DEF Restart
<1> QED BY <1>2, <1>5, <1>11, <1>12, <1>13, <1>14 DEF Next, Other

\* A question is decided once, and stays decided while its schedule exists.
AnswersStay ==
  \A k \in DOMAIN proposals :
    proposals[k] # "pending" /\ k[1] \in DOMAIN scheds' =>
      k \in DOMAIN proposals' /\ proposals'[k] = proposals[k]

LEMMA AnswersKept ==
  ASSUME TypesTrue, Next
  PROVE  AnswersStay
<1>1. ASSUME UNCHANGED proposals PROVE AnswersStay
  BY <1>1 DEF AnswersStay
<1>2. ASSUME SweepResult PROVE AnswersStay
  <2>1. Swings(Swept)
    BY SweptIsFair DEF Fair, TypesTrue
  <2> QED BY <1>2, <2>1 DEF SweepResult, Swings, AnswersStay
<1>3. ASSUME NEW p \in Scheds, NEW r \in Txns, ConfirmProposal(p, r) \/ RejectProposal(p, r)
      PROVE  AnswersStay
  <2>1. proposals \in [DOMAIN proposals -> Status]
    BY DEF TypesTrue, TablesTrue, AskedAre
  <2> QED BY <1>3, <2>1 DEF ConfirmProposal, RejectProposal, Pending, AnswersStay
<1>4. ASSUME NEW p \in Scheds, DeleteSched(p) PROVE AnswersStay
  BY <1>4 DEF DeleteSched, Keep, AnswersStay
<1>5. ASSUME UserChange PROVE AnswersStay
  <2>1. ASSUME NEW n \in home.names, Create(n) \/ RestoreDismissed(n) PROVE AnswersStay
    BY <1>1, <2>1 DEF Create, RestoreDismissed
  <2>2. ASSUME NEW p \in Scheds, Toggle(p) \/ \E day \in home.typed : EditDue(p, day)
        PROVE  AnswersStay
    BY <1>1, <2>2 DEF Toggle, EditDue
  <2>3. ASSUME NEW e \in home.entries, Enter(e) PROVE AnswersStay
    BY <1>1, <2>3 DEF Enter
  <2>4. ASSUME NEW r \in Txns, DeleteTxn(r) PROVE AnswersStay
    BY <1>1, <2>4 DEF DeleteTxn
  <2> QED BY <1>3, <1>4, <1>5, <2>1, <2>2, <2>3, <2>4 DEF UserChange
<1>6. ASSUME NEW t \in Requests, Confirm(t) \/ Import(t) \/ DetectPage(t) \/ DetectConfirm(t)
      PROVE  AnswersStay
  <2>1. CASE Confirm(t)
    BY <1>1, <2>1 DEF Confirm, ConfirmRead, ConfirmWrite, ConfirmFails
  <2>2. CASE Import(t)
    BY <1>1, <2>2 DEF Import, PostStatement, MatchRead, MatchFails
  <2>3. CASE DetectPage(t) \/ DetectConfirm(t)
    BY <1>1, <2>3 DEF DetectPage, DetectConfirm
  <2> QED BY <1>6, <2>1, <2>2, <2>3
<1>7. ASSUME NEW n \in home.stated, StatementPlan(n) PROVE AnswersStay
  BY <1>1, <1>7 DEF StatementPlan
<1>8. ASSUME NEW t \in Requests, MatchWrite(t) \/ ImportSweep(t) PROVE AnswersStay
  BY <1>1, <1>2, <1>8 DEF MatchWrite, ImportSweep
<1>9. ASSUME Restart PROVE AnswersStay
  BY <1>1, <1>2, <1>9 DEF Restart
<1> QED BY <1>5, <1>6, <1>7, <1>8, <1>9 DEF Next, Other

\* A page of the detector on its way suggests names only if it finds any, and
\* what came from a statement is called what statements call it.
NamesTrue ==
  /\ home.found = {} => \A t \in Requests : sess[t].names = {}
  /\ \A p \in DOMAIN scheds : scheds[p].source = "statement" => scheds[p].name \in home.stated

LEMMA NamesKept ==
  ASSUME TypesTrue, NamesTrue, [Next]_vars
  PROVE  NamesTrue'
<1>1. CASE UNCHANGED vars
  BY <1>1 DEF vars, NamesTrue
<1>2. CASE Next
  <2>1. home' = home
    BY <1>2 DEF Next
  <2>2. \A p \in DOMAIN scheds' : NameFrom(p)
    BY <1>2, NamesStay
  <2>3. \A p \in DOMAIN scheds' :
          scheds'[p].source = "statement" => scheds'[p].name \in home.stated
    BY <2>2 DEF NameFrom, NamesTrue
  <2>4. ASSUME home.found = {} PROVE \A t \in Requests : sess'[t].names = {}
    <3>t. sess \in [Requests -> Session]
      BY DEF TypesTrue
    <3>k. ASSUME UNCHANGED sess PROVE \A t \in Requests : sess'[t].names = {}
      BY <2>4, <3>k DEF NamesTrue
    <3>b. ASSUME NEW t \in Requests, NEW s, s.names = {}, sess' = [sess EXCEPT ![t] = s]
          PROVE  \A u \in Requests : sess'[u].names = {}
      BY <2>4, <3>b, <3>t DEF NamesTrue
    <3>i. Idle.names = {}
      BY DEF Idle
    <3>f. ASSUME NEW t \in Requests, Finish(t)
          PROVE  \A u \in Requests : sess'[u].names = {}
      BY <3>b, <3>f, <3>i DEF Finish
    <3>1. ASSUME NEW t \in Requests, Confirm(t) PROVE \A u \in Requests : sess'[u].names = {}
      <4>1. ASSUME NEW p \in Scheds, NEW day \in home.offered, ConfirmRead(t, p, day)
            PROVE  \A u \in Requests : sess'[u].names = {}
        <5> DEFINE s == [Idle EXCEPT !.sched = p, !.day = day, !.due = scheds[p].due]
        <5>1. s.names = {}
          BY DEF Idle
        <5>2. sess' = [sess EXCEPT ![t] = s]
          BY <4>1 DEF ConfirmRead, Begin
        <5> HIDE DEF s
        <5> QED BY <3>b, <5>1, <5>2
      <4> QED BY <3>1, <3>f, <4>1 DEF Confirm, ConfirmWrite, ConfirmFails
    <3>2. ASSUME NEW t \in Requests, Import(t) PROVE \A u \in Requests : sess'[u].names = {}
      <4>1. ASSUME NEW f \in home.files, PostStatement(t, f)
            PROVE  \A u \in Requests : sess'[u].names = {}
        <5> DEFINE rows == FoldLeft(Post, [ledger |-> txns, rows |-> {}], Statements[f]).rows
                   s == [Idle EXCEPT !.rows = rows]
        <5> HIDE DEF rows
        <5>1. s.names = {}
          BY DEF Idle
        <5>2. sess' = [sess EXCEPT ![t] = s]
          BY <4>1 DEF PostStatement, Begin, rows
        <5> HIDE DEF s
        <5> QED BY <3>b, <5>1, <5>2
      <4>2. ASSUME MatchRead(t) PROVE \A u \in Requests : sess'[u].names = {}
        <5>1. PICK x : sess' = [sess EXCEPT ![t].found = x]
          BY <4>2 DEF MatchRead
        <5>2. \A u \in Requests : sess'[u].names = sess[u].names
          BY <3>t, <5>1 DEF Session
        <5> QED BY <2>4, <5>2 DEF NamesTrue
      <4> QED BY <3>2, <3>f, <4>1, <4>2 DEF Import, MatchFails
    <3>3. \A t \in Requests : ~ DetectPage(t)
      BY <2>4 DEF DetectPage
    <3>4. ASSUME NEW t \in Requests, MatchWrite(t) PROVE \A u \in Requests : sess'[u].names = {}
      BY <3>b, <3>i, <3>4 DEF MatchWrite
    <3>5. ASSUME Restart PROVE \A u \in Requests : sess'[u].names = {}
      BY <3>i, <3>5 DEF Restart
    <3>6. ASSUME UserChange PROVE UNCHANGED sess
      BY <3>6 DEF UserChange, Create, RestoreDismissed, Toggle, DeleteSched, EditDue,
                  ConfirmProposal, RejectProposal, Enter, DeleteTxn
    <3>7. ASSUME Other PROVE \A u \in Requests : sess'[u].names = {}
      BY <3>f, <3>k, <3>1, <3>2, <3>3, <3>6, <3>7 DEF Other, DetectConfirm, StatementPlan
    <3> QED BY <1>2, <3>f, <3>4, <3>5, <3>7 DEF Next, ImportSweep
  <2> QED BY <2>1, <2>3, <2>4 DEF NamesTrue
<1> QED BY <1>1, <1>2

\* What the user decided stands, for every plan and ledger, any number of requests
\* and of schedules, if statements call what they ask for by one name
\* (routers/imports.py writes "Statement Balance", or "Minimum Payment" when
\* nothing else is owed): with two names a schedule that came under the one is
\* renamed to the other, dismissed or not.
THEOREM DecisionsStandAlways ==
  ASSUME \A h \in Homes : \A m, n \in h.stated : m = n
  PROVE  Spec => DecisionsStand
<1> DEFINE Stands ==
             /\ \A k \in DOMAIN proposals :
                  proposals[k] # "pending" /\ k[1] \in DOMAIN scheds' =>
                    k \in DOMAIN proposals' /\ proposals'[k] = proposals[k]
             /\ home.found = {} =>
                  \A n \in dismissed : Named(n)' \subseteq Named(n) \/ Create(n)
           Inv == TypesTrue /\ NamesTrue
<1>1. Init => Inv
  <2>1. Init => TypesTrue
    BY TypesFirst
  <2>2. DOMAIN <<>> = {}
    OBVIOUS
  <2>3. Init => NamesTrue
    BY <2>2 DEF Init, NamesTrue, Idle
  <2> QED BY <2>1, <2>3
<1>2. Inv /\ [Next]_vars => Inv'
  BY TypesKept, NamesKept
<1>3. Inv /\ [Next]_vars => [Stands]_vars
  <2> SUFFICES ASSUME Inv, Next PROVE Stands
    OBVIOUS
  <2>1. AnswersStay
    BY AnswersKept
  <2>2. ASSUME home.found = {}, NEW n \in dismissed, ~ Create(n), NEW p \in Named(n)'
        PROVE  p \in Named(n)
    <3>1. p \in DOMAIN scheds' /\ scheds'[p].name = n
      BY <2>2 DEF Named
    <3>2. NameFrom(p)
      BY <3>1, NamesStay
    <3>3. ASSUME n \in home.stated, p \in DOMAIN scheds, scheds[p].source = "statement"
          PROVE  scheds[p].name = n
      BY <3>3 DEF NamesTrue, TypesTrue
    <3> QED BY <2>2, <3>1, <3>2, <3>3 DEF NameFrom, Named, NotDismissed, NamesTrue
  <2> QED BY <2>1, <2>2 DEF AnswersStay
<1>4. Spec => [][Stands]_vars
  <2> HIDE DEF Inv, Stands
  <2> QED BY <1>1, <1>2, <1>3, PTL DEF Spec
<1> QED BY <1>4 DEF DecisionsStand, Stands

----------------------------------------------------------------------------
(* Occurrences.                                                             *)

\* No step but a confirmation's makes a row carry an occurrence.
SlotsStay ==
  \A i \in DOMAIN txns' :
    txns'[i].slot # NoSlot => i \in DOMAIN txns /\ txns'[i] = txns[i]

\* A row that carries an occurrence is of its day, no two carry the same, and a
\* confirmation on its way is of one that is not on the ledger.
OccurrencesTrue ==
  /\ \A i \in DOMAIN txns : txns[i].slot # NoSlot => txns[i].slot[2] = txns[i].date
  /\ OneRowPerOccurrence
  /\ \A t \in Requests : pc[t] = "confirm" => ~ FindConfirmed(sess[t].sched, sess[t].day)

LEMMA SlotsKept ==
  ASSUME TypesTrue, Next
  PROVE  SlotsStay \/ \E t \in Requests : ConfirmWrite(t)
<1>1. ASSUME UNCHANGED txns PROVE SlotsStay
  BY <1>1 DEF SlotsStay
<1>2. ASSUME NEW t \in Requests, Import(t) PROVE SlotsStay
  <2>1. ASSUME NEW f \in home.files, PostStatement(t, f) PROVE SlotsStay
    <3> DEFINE posted == FoldLeft(Post, [ledger |-> txns, rows |-> {}], Statements[f])
    <3>1. posted \in Imports
      BY HomeTrue, StatementPosted DEF TypesTrue, TablesTrue
    <3>2. txns' = posted.ledger
      BY <2>1 DEF PostStatement
    <3> HIDE DEF posted
    <3> QED BY <3>1, <3>2 DEF Imports, Grown, SlotsStay
  <2> QED BY <1>1, <1>2, <2>1 DEF Import, MatchRead, MatchFails
<1>3. ASSUME UserChange PROVE SlotsStay
  <2>1. ASSUME NEW e \in home.entries, Enter(e) PROVE SlotsStay
    <3>1. PICK i \in Txns : IsNextId(txns, i) /\ txns' = WithTxn(i, e.date, e.look, NoSlot)
      BY <2>1 DEF Enter
    <3>2. e.date \in Nat /\ e.look \in Looks
      BY HomeTrue, PlanAssumption DEF TypesTrue, Days
    <3>3. /\ DOMAIN txns' = DOMAIN txns \cup {i} /\ txns'[i].slot = NoSlot
          /\ \A j \in DOMAIN txns : txns'[j] = txns[j]
      <4>1. NoSlot \in {NoSlot} \cup (Scheds \X Nat)
        OBVIOUS
      <4>2. /\ DOMAIN txns' = DOMAIN txns \cup {i}
            /\ txns'[i] = [date |-> e.date, look |-> e.look, slot |-> NoSlot]
            /\ \A j \in DOMAIN txns : txns'[j] = txns[j]
        BY <3>1, <3>2, <4>1, RowAdded
      <4> QED BY <4>2
    <3> QED BY <3>3 DEF SlotsStay
  <2>2. ASSUME NEW r \in Txns, DeleteTxn(r) PROVE SlotsStay
    BY <1>1, <2>2 DEF DeleteTxn, Keep, SlotsStay
  <2> QED BY <1>1, <1>3, <2>1, <2>2
          DEF UserChange, Create, RestoreDismissed, Toggle, DeleteSched, EditDue,
              ConfirmProposal, RejectProposal
<1>4. ASSUME Other PROVE SlotsStay \/ \E t \in Requests : ConfirmWrite(t)
  BY <1>1, <1>2, <1>3, <1>4
     DEF Other, Confirm, ConfirmRead, ConfirmFails, DetectPage, DetectConfirm, StatementPlan
<1> QED BY <1>1, <1>4 DEF Next, MatchWrite, ImportSweep, Restart

\* No occurrence is under confirmation twice at the same time.
NoDoubleSubmit ==
  \A t, u \in Requests :
    /\ pc[t] = "confirm" /\ pc[u] = "confirm"
    /\ sess[t].sched = sess[u].sched /\ sess[t].day = sess[u].day
    => t = u

LEMMA OccurrencesKept ==
  ASSUME NoDoubleSubmit, TypesTrue, OccurrencesTrue, [Next]_vars
  PROVE  OccurrencesTrue'
<1>t. /\ txns \in [DOMAIN txns -> Row] /\ pc \in [Requests -> Stages]
      /\ sess \in [Requests -> Session]
  BY DEF TypesTrue, TablesTrue, LedgerIs
<1>1. CASE UNCHANGED vars
  BY <1>1 DEF vars, OccurrencesTrue, OneRowPerOccurrence, FindConfirmed
<1>2. ASSUME Next, NEW t \in Requests, ConfirmWrite(t)
      PROVE  OccurrencesTrue'
  <2> DEFINE p == sess[t].sched
             day == sess[t].day
  <2>1. PICK i \in Txns : IsNextId(txns, i) /\ txns' = WithTxn(i, day, scheds[p].name, <<p, day>>)
    BY <1>2 DEF ConfirmWrite
  <2>2. /\ p \in DOMAIN scheds /\ p \in Scheds /\ day \in Nat /\ scheds[p].name \in Looks
        /\ pc[t] = "confirm" /\ Finish(t)
    BY <1>2, <1>t, PlanAssumption
       DEF ConfirmWrite, Session, TypesTrue, TablesTrue, PlansAre, Sched
  <2>3. ~ FindConfirmed(p, day)
    BY <2>2 DEF OccurrencesTrue
  <2> HIDE DEF p, day
  <2>4. /\ DOMAIN txns' = DOMAIN txns \cup {i}
        /\ txns'[i].slot = <<p, day>> /\ txns'[i].date = day
        /\ \A j \in DOMAIN txns : txns'[j] = txns[j]
    <3> DEFINE slot == <<p, day>>
               look == scheds[p].name
    <3>1. slot \in {NoSlot} \cup (Scheds \X Nat) /\ look \in Looks /\ day \in Nat
      BY <2>2
    <3>2. IsNextId(txns, i) /\ txns' = WithTxn(i, day, look, slot)
      BY <2>1
    <3> HIDE DEF slot, look
    <3>3. /\ DOMAIN txns' = DOMAIN txns \cup {i}
          /\ txns'[i] = [date |-> day, look |-> look, slot |-> slot]
          /\ \A j \in DOMAIN txns : txns'[j] = txns[j]
      BY <3>1, <3>2, RowAdded
    <3> QED BY <3>3 DEF slot
  <2>5. \A j \in DOMAIN txns' : txns'[j].slot # NoSlot => txns'[j].slot[2] = txns'[j].date
    BY <2>4 DEF OccurrencesTrue
  <2>6. \A j \in DOMAIN txns : txns[j].slot # <<p, day>>
    <3>1. SUFFICES ASSUME NEW j \in DOMAIN txns, txns[j].slot = <<p, day>> PROVE FALSE
      OBVIOUS
    <3>2. txns[j].slot # NoSlot
      BY <3>1 DEF NoSlot
    <3>3. txns[j].slot[2] = txns[j].date
      BY <3>2 DEF OccurrencesTrue
    <3>4. txns[j].slot[2] = day
      BY <3>1
    <3> QED BY <2>3, <3>1, <3>3, <3>4 DEF FindConfirmed
  <2>7. OneRowPerOccurrence'
    BY <2>4, <2>6 DEF OccurrencesTrue, OneRowPerOccurrence
  <2>8. ASSUME NEW u \in Requests, pc'[u] = "confirm"
        PROVE  ~ FindConfirmed(sess[u].sched, sess[u].day)'
    <3>1. u # t /\ pc[u] = "confirm" /\ sess'[u] = sess[u]
      BY <1>t, <2>2, <2>8 DEF Finish
    <3>2. ~ (sess[u].sched = p /\ sess[u].day = day)
      BY <2>2, <3>1 DEF NoDoubleSubmit, p, day
    <3>3. ~ FindConfirmed(sess[u].sched, sess[u].day)
      BY <3>1 DEF OccurrencesTrue
    <3>4. txns'[i].slot # <<sess[u].sched, sess[u].day>>
      BY <2>4, <3>2
    <3> QED BY <2>4, <3>1, <3>3, <3>4 DEF FindConfirmed
  <2> QED BY <2>5, <2>7, <2>8 DEF OccurrencesTrue
<1>3. ASSUME Next, SlotsStay PROVE OccurrencesTrue'
  <2>1. \A j \in DOMAIN txns' : txns'[j].slot # NoSlot => txns'[j].slot[2] = txns'[j].date
    BY <1>3 DEF SlotsStay, OccurrencesTrue
  <2>2. OneRowPerOccurrence'
    BY <1>3 DEF SlotsStay, OccurrencesTrue, OneRowPerOccurrence
  <2>3. ASSUME NEW p, NEW day,
               \E i \in DOMAIN txns' : txns'[i].date = day /\ txns'[i].slot = <<p, day>>
        PROVE  FindConfirmed(p, day)
    <3>1. <<p, day>> # NoSlot
      BY DEF NoSlot
    <3> QED BY <1>3, <2>3, <3>1 DEF SlotsStay, FindConfirmed
  <2>4. ASSUME NEW t \in Requests, pc'[t] = "confirm"
        PROVE  ~ FindConfirmed(sess'[t].sched, sess'[t].day)
    <3>1. CASE pc[t] = "confirm" /\ sess'[t] = sess[t]
      BY <3>1 DEF OccurrencesTrue
    <3>2. ASSUME NEW p \in Scheds, NEW day \in home.offered, ConfirmRead(t, p, day)
          PROVE  ~ FindConfirmed(sess'[t].sched, sess'[t].day)
      <4>1. sess'[t].sched = p /\ sess'[t].day = day
        BY <1>t, <3>2 DEF ConfirmRead, Begin, Idle
      <4> QED BY <3>2, <4>1 DEF ConfirmRead
    <3> QED BY <1>3, <2>4, <3>1, <3>2, ConfirmationFrom
  <2>5. ASSUME NEW t \in Requests, pc'[t] = "confirm"
        PROVE  ~ FindConfirmed(sess[t].sched, sess[t].day)'
    BY <2>3, <2>4, <2>5 DEF FindConfirmed
  <2> QED BY <2>1, <2>2, <2>5 DEF OccurrencesTrue
<1> QED BY <1>1, <1>2, <1>3, SlotsKept

\* An occurrence is on the ledger at most once, in whatever order it is submitted,
\* imported over, deleted and submitted again, and whatever other requests overlap,
\* if it is not submitted again before its confirmation is through: find_confirmed
\* is a read before a write, so the same occurrence twice at once can be posted
\* twice (services/scheduled_confirm.py).
THEOREM OccurrencesOnce == Spec /\ []NoDoubleSubmit => []OneRowPerOccurrence
<1> DEFINE Inv == TypesTrue /\ OccurrencesTrue
<1>1. Init => Inv
  <2>1. Init => TypesTrue
    BY TypesFirst
  <2>2. DOMAIN <<>> = {}
    OBVIOUS
  <2>3. Init => OccurrencesTrue
    BY <2>2 DEF Init, OccurrencesTrue, OneRowPerOccurrence
  <2> QED BY <2>1, <2>3
<1>2. Inv /\ NoDoubleSubmit /\ [Next]_vars => Inv'
  BY TypesKept, OccurrencesKept
<1>3. Inv => OneRowPerOccurrence
  BY DEF OccurrencesTrue
<1> QED
  <2> HIDE DEF Inv
  <2> QED BY <1>1, <1>2, <1>3, PTL DEF Spec

\* What holds of the first of a range and passes to the next holds of all.
LEMMA Climb ==
  ASSUME NEW lo \in Int, NEW hi \in Int, NEW S, lo \in S,
         \A m \in lo .. hi - 1 : m \in S => m + 1 \in S
  PROVE  lo .. hi \subseteq S
<1> DEFINE Missed == {n \in Nat : lo + n <= hi /\ lo + n \notin S}
<1> SUFFICES ASSUME NEW m \in lo .. hi, m \notin S PROVE FALSE
  OBVIOUS
<1>1. m - lo \in Missed
  OBVIOUS
<1>2. PICK n \in Missed : \A k \in Missed : ~(<<k, n>> \in OpToRel(<, Nat))
  <2>1. Missed # {} /\ Missed \subseteq Nat
    BY <1>1
  <2> HIDE DEF Missed
  <2>2. QED
    BY <2>1, NatLessThanWellFounded, WFMin
<1>3. n # 0
  OBVIOUS
<1>4. n - 1 \in Nat /\ lo + (n - 1) \in lo .. hi - 1 /\ (lo + (n - 1)) + 1 = lo + n
  BY <1>3
<1>5. lo + (n - 1) \notin S
  BY <1>4
<1>6. n - 1 \in Missed /\ <<n - 1, n>> \in OpToRel(<, Nat)
  BY <1>4, <1>5 DEF OpToRel
<1>7. QED
  BY <1>2, <1>6

\* Natural numbers have a least.
LEMMA Least ==
  ASSUME NEW S, S \subseteq Nat, S # {}
  PROVE  Min(S) \in S /\ \A x \in S : Min(S) <= x
<1>1. PICK n \in S : \A k \in S : ~(<<k, n>> \in OpToRel(<, Nat))
  BY NatLessThanWellFounded, WFMin
<1>2. \A k \in S : n <= k
  <2>1. ASSUME NEW k \in S, k < n PROVE <<k, n>> \in OpToRel(<, Nat)
    BY <2>1 DEF OpToRel
  <2>2. \A k \in S : ~ (k < n)
    BY <1>1, <2>1, Zenon
  <2>3. \A k \in S : k \in Nat /\ n \in Nat
    OBVIOUS
  <2>4. QED
    BY <2>2, <2>3
<1>3. QED
  BY <1>2 DEF Min

----------------------------------------------------------------------------
(* The arithmetic.                                                          *)

\* What the accruals in S come to, and the entries up to a month or in it.
Charged(S) == SumOf(S, LAMBDA a : a.amount)
Booked(dated, m) == SumOf({e \in OtherRows : dated[e] \in 1 .. m}, LAMBDA e : Amount[e])
Entered(dated, m) == SumOf({e \in OtherRows : dated[e] = m}, LAMBDA e : Amount[e])
Upto(S, m) == {a \in S : a.month <= m}

\* Finitely many accruals, each of a month and of an amount.
Accruals(S) == IsFiniteSet(S) /\ \A a \in S : a.month \in Nat \ {0} /\ a.amount \in Int

LEMMA ChargedIs ==
  ASSUME NEW T, NEW S, S \subseteq T
  PROVE  Charged(S) = SumOver([a \in T |-> a.amount], S)
<1> DEFINE f == [a \in T |-> a.amount]
           Turn(g) == [s \in SUBSET S |-> IF s = {} THEN 0
                         ELSE Taken(s).amount + g[s \ {Taken(s)}]]
<1>1. ASSUME NEW g PROVE Round(f, S, g) = Turn(g)
  <2>1. \A s \in SUBSET S : s # {} => f[Taken(s)] = Taken(s).amount
    BY DEF Taken
  <2>2. QED
    BY <2>1 DEF Round
<1>2. SumOver(f, S) = (CHOOSE g : g = Round(f, S, g))[S]
  BY Zenon DEF SumOver, MapThenSumSet, MapThenFoldSet, Round, Taken
<1>3. Charged(S) = (CHOOSE g : g = Turn(g))[S]
  BY Zenon DEF Charged, SumOf, MapThenSumSet, MapThenFoldSet, Taken
<1>4. (CHOOSE g : g = Round(f, S, g)) = (CHOOSE g : g = Turn(g))
  BY <1>1, Zenon
<1>5. QED
  BY <1>2, <1>3, <1>4

LEMMA ChargedInt ==
  ASSUME NEW S, Accruals(S)
  PROVE  Charged(S) \in Int
<1> DEFINE f == [a \in S |-> a.amount]
<1>1. Charged(S) = SumOver(f, S)
  BY ChargedIs
<1>2. IsFiniteSet(S) /\ \A a \in S : f[a] \in Int
  BY DEF Accruals
<1> HIDE DEF f
<1>3. QED
  BY <1>1, <1>2, SumTaken

LEMMA ChargedApart ==
  ASSUME NEW A, NEW B, Accruals(A), Accruals(B), A \cap B = {}
  PROVE  Charged(A \cup B) = Charged(A) + Charged(B)
<1> DEFINE f == [a \in A \cup B |-> a.amount]
<1>1. /\ Charged(A) = SumOver(f, A) /\ Charged(B) = SumOver(f, B)
      /\ Charged(A \cup B) = SumOver(f, A \cup B)
  BY ChargedIs
<1>2. IsFiniteSet(A) /\ IsFiniteSet(B) /\ \A a \in A \cup B : f[a] \in Int
  BY DEF Accruals
<1> HIDE DEF f
<1>3. QED
  BY <1>1, <1>2, SumOfUnion

LEMMA ChargedNone == Charged({}) = 0
<1>1. Charged({}) = SumOver([a \in {} |-> a.amount], {})
  BY ChargedIs
<1>2. QED
  BY <1>1, SumOfNone

LEMMA ChargedOne ==
  ASSUME NEW a, a.month \in Nat \ {0}, a.amount \in Int
  PROVE  Charged({a}) = a.amount
<1> DEFINE f == [x \in {a} |-> x.amount]
<1>1. Charged({a}) = SumOver(f, {a})
  BY ChargedIs
<1>2. IsFiniteSet({a}) /\ (\A x \in {a} : f[x] \in Int) /\ f[a] = a.amount
  BY FS_Singleton
<1> HIDE DEF f
<1>3. {a} \ {a} = {} /\ a \in {a} /\ {a} \in SUBSET {a}
  OBVIOUS
<1>4. SumOver(f, {a}) = f[a] + SumOver(f, {})
  BY <1>2, <1>3, SumLess
<1>5. QED
  BY <1>1, <1>2, <1>4, SumOfNone

LEMMA BookedInt ==
  ASSUME NEW dated, NEW m
  PROVE  Booked(dated, m) \in Int
<1> DEFINE S == {e \in OtherRows : dated[e] \in 1 .. m}
<1>1. Booked(dated, m) = SumOver(Amount, S)
  BY DEF Booked, SumOf, SumOver
<1>2. IsFiniteSet(S) /\ \A e \in S : Amount[e] \in Int
  BY EntryAssumption, FS_Subset
<1> HIDE DEF S
<1>3. QED
  BY <1>1, <1>2, SumTaken

\* Another month, the entries dated in it.
LEMMA BookedNext ==
  ASSUME NEW dated \in [OtherRows -> Nat], NEW m \in Nat \ {0}
  PROVE  /\ Entered(dated, m) \in Int
         /\ Booked(dated, m) = Booked(dated, m - 1) + Entered(dated, m)
<1> DEFINE A == {e \in OtherRows : dated[e] \in 1 .. m - 1}
           B == {e \in OtherRows : dated[e] = m}
<1>1. {e \in OtherRows : dated[e] \in 1 .. m} = A \cup B
  OBVIOUS
<1>2. A \cap B = {}
  OBVIOUS
<1>3. Booked(dated, m) = SumOver(Amount, A \cup B)
  BY <1>1 DEF Booked, SumOf, SumOver
<1>4. Booked(dated, m - 1) = SumOver(Amount, A)
  BY DEF Booked, SumOf, SumOver
<1>5. Entered(dated, m) = SumOver(Amount, B)
  BY DEF Entered, SumOf, SumOver
<1>6. IsFiniteSet(A) /\ IsFiniteSet(B) /\ \A e \in A \cup B : Amount[e] \in Int
  BY EntryAssumption, FS_Subset
<1> HIDE DEF A, B
<1>7. SumOver(Amount, A \cup B) = SumOver(Amount, A) + SumOver(Amount, B)
  BY <1>2, <1>6, SumOfUnion
<1>8. SumOver(Amount, B) \in Int
  BY <1>6, SumTaken
<1>9. QED
  BY <1>3, <1>4, <1>5, <1>7, <1>8

LEMMA BalanceIs ==
  ASSUME NEW rows, NEW dated, NEW m
  PROVE  Balance(rows, dated, m) = Booked(dated, m) + Charged(Upto(rows, m))
BY DEF Balance, Booked, Charged, Upto

LEMMA SomeAccruals ==
  ASSUME NEW S, Accruals(S), NEW T, T \subseteq S
  PROVE  Accruals(T)
BY FS_Subset DEF Accruals

LEMMA InterestInt ==
  ASSUME NEW b \in Int
  PROVE  Interest(b) \in Int
<1> DEFINE up(a) == (2 * a * RateNum + RateDen) \div (2 * RateDen)
<1>1. \A a \in Int : up(a) \in Int
  <2>1. \A a \in Int : 2 * a * RateNum + RateDen \in Int /\ 2 * RateDen \in Int /\ 2 * RateDen > 0
    BY RateAssumption
  <2>2. \A x, y \in Int : y > 0 => x \div y \in Int
    OBVIOUS
  <2>3. QED
    BY <2>1, <2>2
<1>2. Interest(b) = IF b < 0 THEN - up(- b) ELSE up(b)
  BY DEF Interest
<1> HIDE DEF up
<1>3. up(b) \in Int /\ up(- b) \in Int
  BY <1>1
<1>4. QED
  BY <1>2, <1>3

\* Nothing bears no interest.
LEMMA InterestOfNone == Interest(0) = 0
<1>1. \A q \in Int, d \in Int : d > 0 /\ 0 <= q /\ q < d => q \div d = 0
  OBVIOUS
<1>2. /\ RateDen \in Int /\ 2 * RateDen \in Int /\ 2 * RateDen > 0
      /\ 0 <= RateDen /\ RateDen < 2 * RateDen
  BY RateAssumption
<1>3. RateDen \div (2 * RateDen) = 0
  BY <1>1, <1>2
<1>4. 2 * 0 * RateNum + RateDen = RateDen
  BY RateAssumption
<1>5. QED
  BY <1>3, <1>4 DEF Interest

----------------------------------------------------------------------------
(* Right months.                                                            *)

LEMMA WrongIs ==
  ASSUME NEW rows, Accruals(rows), NEW dated, NEW m \in Nat
  PROVE  Wrong(rows, dated, m) <=>
           \/ Cardinality(RowsOf(rows, m)) > 1
           \/ Charged(RowsOf(rows, m)) # Interest(Booked(dated, m) + Charged(Upto(rows, m - 1)))
<1>1. Upto(rows \ RowsOf(rows, m), m) = Upto(rows, m - 1)
  BY DEF Accruals, Upto, RowsOf
<1>2. QED
  BY <1>1, BalanceIs DEF Wrong, Charged

\* Whether a month is wrong depends on the accruals up to it only.
LEMMA WrongLocal ==
  ASSUME NEW S, NEW T, Accruals(S), Accruals(T), NEW dated, NEW m \in Nat,
         Upto(S, m) = Upto(T, m)
  PROVE  Wrong(S, dated, m) <=> Wrong(T, dated, m)
<1>1. RowsOf(S, m) = RowsOf(T, m)
  <2>1. \A U : RowsOf(U, m) = {a \in Upto(U, m) : a.month = m}
    BY DEF RowsOf, Upto
  <2>2. QED
    BY <2>1
<1>2. Upto(S, m - 1) = Upto(T, m - 1)
  <2>1. \A U : Accruals(U) => Upto(U, m - 1) = {a \in Upto(U, m) : a.month <= m - 1}
    BY DEF Upto, Accruals
  <2>2. QED
    BY <2>1
<1>3. QED
  BY <1>1, <1>2, WrongIs

Sound(rows, dated) == \A m \in 1 .. closed : ~ Wrong(rows, dated, m)

\* Right months, all together, are those of the reference.
LEMMA SoundAgrees ==
  ASSUME Accruals(accr), month \in [OtherRows -> Nat], closed \in Nat, Sound(accr, month)
  PROVE  Agrees
<1> DEFINE Turn(w) == [m \in 0 .. closed |->
                         IF m = 0 THEN 0
                         ELSE (w[m - 1] + Entered(month, m)) + Interest(w[m - 1] + Entered(month, m))]
           c == [m \in 0 .. closed |-> Balance(accr, month, m)]
           Same == {m \in 0 .. closed : Worth[m] = c[m]}
<1>1. Worth = CHOOSE w : w = Turn(w)
  BY DEF Worth, Entered
<1>2. ASSUME NEW m \in Int PROVE Accruals(Upto(accr, m)) /\ Accruals(RowsOf(accr, m))
  <2>1. Upto(accr, m) \subseteq accr /\ RowsOf(accr, m) \subseteq accr
    BY DEF Upto, RowsOf
  <2>2. QED
    BY <2>1, SomeAccruals
<1>3. Balance(accr, month, 0) = 0
  <2>1. Upto(accr, 0) = {}
    BY DEF Upto, Accruals
  <2>2. {e \in OtherRows : month[e] \in 1 .. 0} = {}
    OBVIOUS
  <2>3. Booked(month, 0) = SumOver(Amount, {e \in OtherRows : month[e] \in 1 .. 0})
    BY DEF Booked, SumOf, SumOver
  <2>4. Booked(month, 0) = 0
    BY <2>2, <2>3, SumOfNone
  <2>5. Balance(accr, month, 0) = Booked(month, 0) + Charged(Upto(accr, 0))
    BY BalanceIs
  <2>6. Charged(Upto(accr, 0)) = 0
    BY <2>1, ChargedNone
  <2>7. QED
    BY <2>4, <2>5, <2>6
<1>4. ASSUME NEW m \in 1 .. closed
      PROVE  Balance(accr, month, m) =
               (Balance(accr, month, m - 1) + Entered(month, m))
                 + Interest(Balance(accr, month, m - 1) + Entered(month, m))
  <2>1. /\ Entered(month, m) \in Int
        /\ Booked(month, m) = Booked(month, m - 1) + Entered(month, m)
    BY BookedNext
  <2>2. Charged(Upto(accr, m)) = Charged(Upto(accr, m - 1)) + Charged(RowsOf(accr, m))
    <3>1. /\ Upto(accr, m) = Upto(accr, m - 1) \cup RowsOf(accr, m)
          /\ Upto(accr, m - 1) \cap RowsOf(accr, m) = {}
      BY DEF Upto, RowsOf, Accruals
    <3>2. Accruals(Upto(accr, m - 1)) /\ Accruals(RowsOf(accr, m))
      BY <1>2
    <3>3. QED
      BY <3>1, <3>2, ChargedApart
  <2>3. Charged(RowsOf(accr, m)) = Interest(Booked(month, m) + Charged(Upto(accr, m - 1)))
    BY WrongIs DEF Sound
  <2>4. /\ Balance(accr, month, m) = Booked(month, m) + Charged(Upto(accr, m))
        /\ Balance(accr, month, m - 1) = Booked(month, m - 1) + Charged(Upto(accr, m - 1))
    BY BalanceIs
  <2>5. /\ Booked(month, m) \in Int /\ Booked(month, m - 1) \in Int
        /\ Charged(Upto(accr, m - 1)) \in Int
        /\ Charged(RowsOf(accr, m)) \in Int
    BY <1>2, BookedInt, ChargedInt
  <2>6. Booked(month, m) + Charged(Upto(accr, m - 1)) = Balance(accr, month, m - 1) + Entered(month, m)
    BY <2>1, <2>4, <2>5
  <2>7. QED
    BY <2>2, <2>3, <2>4, <2>5, <2>6
<1>5. c = Turn(c)
  <2>1. ASSUME NEW m \in 0 .. closed PROVE c[m] = Turn(c)[m]
    BY <1>3, <1>4
  <2>2. c = [m \in 0 .. closed |-> c[m]] /\ Turn(c) = [m \in 0 .. closed |-> Turn(c)[m]]
    OBVIOUS
  <2> HIDE DEF c, Turn
  <2>3. QED
    BY <2>1, <2>2
<1>6. Worth = Turn(Worth)
  <2> HIDE DEF c, Turn
  <2>1. QED
    BY <1>1, <1>5, Zenon
<1>7. 0 .. closed \subseteq Same
  <2>1. 0 \in Same
    BY <1>3, <1>6
  <2>2. ASSUME NEW m \in 0 .. closed - 1, m \in Same PROVE m + 1 \in Same
    <3>1. m + 1 \in 1 .. closed /\ (m + 1) - 1 = m
      OBVIOUS
    <3>2. /\ Turn(Worth)[m + 1] = (Worth[m] + Entered(month, m + 1)) + Interest(Worth[m] + Entered(month, m + 1))
          /\ Turn(c)[m + 1] = (c[m] + Entered(month, m + 1)) + Interest(c[m] + Entered(month, m + 1))
      BY <3>1
    <3>3. Worth[m + 1] = c[m + 1]
      <4> HIDE DEF Turn, c
      <4>1. QED
        BY <1>5, <1>6, <2>2, <3>2
    <3>4. QED
      BY <3>1, <3>3
  <2> HIDE DEF Same
  <2>3. QED
    BY <2>1, <2>2, Climb
<1>8. ASSUME NEW m \in 1 .. closed
      PROVE  Cardinality(RowsOf(accr, m)) <= 1 /\ Balance(accr, month, m) = Worth[m]
  <2>1. Cardinality(RowsOf(accr, m)) \in Nat
    <3>1. Accruals(RowsOf(accr, m))
      BY <1>2
    <3>2. QED
      BY <3>1, FS_CardinalityType DEF Accruals
  <2>2. ~ (Cardinality(RowsOf(accr, m)) > 1)
    BY DEF Sound, Wrong
  <2>3. Worth[m] = c[m]
    BY <1>7
  <2>4. QED
    BY <2>1, <2>2, <2>3
<1>9. QED
  BY <1>8 DEF Agrees

----------------------------------------------------------------------------
(* Posting.                                                                 *)

\* One month of it, and all of it month after month.
Posted(S, m, i) ==
  [month |-> m, n |-> Min({n \in 1 .. MaxCopies : \A a \in S : <<a.month, a.n>> # <<m, n>>}),
   amount |-> i]
After(S, dated, done, m) ==
  IF m \in done \/ Interest(Balance(S, dated, m)) = 0 THEN S
  ELSE S \cup {Posted(S, m, Interest(Balance(S, dated, m)))}
Posting(rows, dated, done, start, last, g) ==
  [m \in start - 1 .. last |-> IF m < start THEN rows ELSE After(g[m - 1], dated, done, m)]

LEMMA PostRunIs ==
  ASSUME NEW rows, NEW dated, NEW done, NEW start \in Nat, closed \in Nat, start <= closed
  PROVE  \E g : /\ g = Posting(rows, dated, done, start, closed, g)
                /\ PostRun(rows, dated, done, start) = g[closed]
<1> DEFINE P(last, g) == Posting(rows, dated, done, start, last, g)
           Reached == {last \in start - 1 .. closed : \E g : g = P(last, g)}
<1>1. PostRun(rows, dated, done, start) = (CHOOSE g : g = P(closed, g))[closed]
  <2>1. ~ (start > closed)
    OBVIOUS
  <2>2. QED
    BY <2>1 DEF PostRun, Posting, After, Posted
<1>2. start - 1 \in Reached
  <2> DEFINE g == [m \in start - 1 .. start - 1 |-> rows]
  <2>1. g = P(start - 1, g)
    BY DEF Posting
  <2>2. start - 1 \in start - 1 .. closed
    OBVIOUS
  <2> HIDE DEF g, P
  <2>3. QED
    BY <2>1, <2>2
<1>3. ASSUME NEW last \in start - 1 .. closed - 1, last \in Reached
      PROVE  last + 1 \in Reached
  <2>1. PICK g : g = P(last, g)
    BY <1>3
  <2> DEFINE h == [m \in start - 1 .. last + 1 |->
                     IF m = last + 1 THEN After(g[last], dated, done, last + 1) ELSE g[m]]
  <2>2. ASSUME NEW m \in start - 1 .. last + 1 PROVE h[m] = P(last + 1, h)[m]
    <3>1. CASE m = last + 1
      <4>1. h[m - 1] = g[last] /\ ~ (m < start)
        BY <3>1
      <4>2. QED
        BY <3>1, <4>1 DEF Posting
    <3>2. CASE m \in start .. last
      <4>1. h[m] = g[m] /\ h[m - 1] = g[m - 1] /\ ~ (m < start)
        BY <3>2
      <4>2. P(last, g)[m] = After(g[m - 1], dated, done, m)
        BY <3>2 DEF Posting
      <4>3. P(last + 1, h)[m] = After(h[m - 1], dated, done, m)
        BY <3>2 DEF Posting
      <4> HIDE DEF P, h
      <4>4. QED
        BY <2>1, <4>1, <4>2, <4>3
    <3>3. CASE m = start - 1
      <4>1. h[m] = g[m]
        BY <3>3
      <4>2. P(last, g)[m] = rows /\ P(last + 1, h)[m] = rows
        BY <3>3 DEF Posting
      <4> HIDE DEF P, h
      <4>3. QED
        BY <2>1, <4>1, <4>2
    <3>4. QED
      BY <3>1, <3>2, <3>3
  <2>3. /\ h = [m \in start - 1 .. last + 1 |-> h[m]]
        /\ P(last + 1, h) = [m \in start - 1 .. last + 1 |-> P(last + 1, h)[m]]
    BY DEF Posting
  <2>4. last + 1 \in start - 1 .. closed
    OBVIOUS
  <2> HIDE DEF P, h
  <2>5. h = P(last + 1, h)
    BY <2>2, <2>3
  <2>6. QED
    BY <2>4, <2>5
<1>4. closed \in Reached
  <2> HIDE DEF Reached
  <2>1. start - 1 \in Int /\ closed \in Int /\ closed \in start - 1 .. closed
    OBVIOUS
  <2>2. start - 1 .. closed \subseteq Reached
    BY <1>2, <1>3, <2>1, Climb
  <2>3. QED
    BY <2>1, <2>2
<1>5. PICK g : g = P(closed, g)
  BY <1>4
<1> HIDE DEF P
<1>6. (CHOOSE g1 : g1 = P(closed, g1)) = P(closed, CHOOSE g1 : g1 = P(closed, g1))
  BY <1>5, Zenon
<1>7. QED
  BY <1>1, <1>6 DEF P

\* What one month adds.
LEMMA AfterIs ==
  ASSUME NEW S, Accruals(S), NEW dated, NEW done, NEW m \in Nat \ {0}
  PROVE  /\ S \subseteq After(S, dated, done, m)
         /\ \A a \in After(S, dated, done, m) \ S : a.month = m
         /\ Accruals(After(S, dated, done, m))
<1>1. Interest(Balance(S, dated, m)) \in Int
  <2>1. Accruals(Upto(S, m))
    BY SomeAccruals DEF Upto
  <2>2. Booked(dated, m) \in Int /\ Charged(Upto(S, m)) \in Int
    BY <2>1, BookedInt, ChargedInt
  <2>3. Balance(S, dated, m) = Booked(dated, m) + Charged(Upto(S, m))
    BY BalanceIs
  <2>4. QED
    BY <2>2, <2>3, InterestInt
<1> DEFINE p == Posted(S, m, Interest(Balance(S, dated, m)))
<1>2. p.month = m /\ p.amount \in Int
  BY <1>1 DEF Posted
<1> HIDE DEF p
<1>3. Accruals(S \cup {p})
  BY <1>2, FS_AddElement DEF Accruals
<1>4. After(S, dated, done, m) \in {S, S \cup {p}}
  BY DEF After, p
<1>5. QED
  BY <1>2, <1>3, <1>4

\* Posting only adds, from the month it starts with to the last closed one.
LEMMA PostedRange ==
  ASSUME NEW rows, Accruals(rows), NEW dated, NEW done, NEW start \in Nat \ {0}, closed \in Nat,
         start <= closed, NEW g, g = Posting(rows, dated, done, start, closed, g)
  PROVE  \A m \in start - 1 .. closed :
           Accruals(g[m]) /\ rows \subseteq g[m] /\ \A a \in g[m] \ rows : a.month \in start .. m
<1> DEFINE Good(m) == /\ Accruals(g[m]) /\ rows \subseteq g[m]
                      /\ \A a \in g[m] \ rows : a.month \in start .. m
           All == {m \in start - 1 .. closed : Good(m)}
<1>1. start - 1 \in All
  <2>1. g[start - 1] = rows
    BY DEF Posting
  <2>2. Good(start - 1)
    BY <2>1
  <2>3. QED
    BY <2>2
<1>2. ASSUME NEW m \in start - 1 .. closed - 1, m \in All PROVE m + 1 \in All
  <2>1. m + 1 \in start .. closed /\ m + 1 \in Nat \ {0} /\ (m + 1) - 1 = m
    OBVIOUS
  <2>2. g[m + 1] = After(g[m], dated, done, m + 1)
    BY <2>1 DEF Posting
  <2>3. Good(m)
    BY <1>2
  <2>4. /\ g[m] \subseteq g[m + 1] /\ Accruals(g[m + 1])
        /\ \A a \in g[m + 1] \ g[m] : a.month = m + 1
    BY <2>1, <2>2, <2>3, AfterIs
  <2>5. \A a \in g[m + 1] \ rows : a.month \in start .. m + 1
    BY <2>1, <2>3, <2>4
  <2>6. QED
    BY <2>1, <2>3, <2>4, <2>5
<1> HIDE DEF All
<1>3. start - 1 .. closed \subseteq All
  BY <1>1, <1>2, Climb
<1>4. QED
  BY <1>3 DEF All

LEMMA PostRunAdds ==
  ASSUME NEW rows, Accruals(rows), NEW dated, NEW done, NEW start \in Nat \ {0}, closed \in Nat
  PROVE  LET all == PostRun(rows, dated, done, start) IN
         /\ Accruals(all) /\ rows \subseteq all
         /\ \A a \in all \ rows : a.month \in start .. closed
<1>1. CASE start > closed
  BY <1>1 DEF PostRun
<1>2. CASE start <= closed
  <2>1. PICK g : /\ g = Posting(rows, dated, done, start, closed, g)
                 /\ PostRun(rows, dated, done, start) = g[closed]
    BY <1>2, PostRunIs
  <2>2. closed \in start - 1 .. closed
    BY <1>2
  <2>3. /\ Accruals(g[closed]) /\ rows \subseteq g[closed]
        /\ \A a \in g[closed] \ rows : a.month \in start .. closed
    BY <1>2, <2>1, <2>2, PostedRange
  <2>4. QED
    BY <2>1, <2>3
<1>3. QED
  BY <1>1, <1>2

\* What is posted after the rows kept makes every month right from there on,
\* and changes nothing before.
LEMMA PostRunRight ==
  ASSUME NEW rows, Accruals(rows), NEW dated, NEW start \in Nat \ {0}, closed \in Nat,
         \A a \in rows : a.month < start
  PROVE  LET all == PostRun(rows, dated, MonthsOf(rows), start) IN
         /\ \A m \in start .. closed : ~ Wrong(all, dated, m)
         /\ \A m \in 1 .. start - 1 : Wrong(all, dated, m) <=> Wrong(rows, dated, m)
<1> DEFINE all == PostRun(rows, dated, MonthsOf(rows), start)
<1>1. /\ Accruals(all) /\ rows \subseteq all
      /\ \A a \in all \ rows : a.month \in start .. closed
  BY PostRunAdds
<1>2. ASSUME NEW m \in 1 .. start - 1
      PROVE  Wrong(all, dated, m) <=> Wrong(rows, dated, m)
  <2>1. Upto(all, m) = Upto(rows, m)
    BY <1>1 DEF Upto
  <2> HIDE DEF all
  <2>2. QED
    BY <1>1, <2>1, WrongLocal
<1>3. ASSUME NEW m \in start .. closed
      PROVE  ~ Wrong(all, dated, m)
  <2>1. PICK g : /\ g = Posting(rows, dated, MonthsOf(rows), start, closed, g)
                 /\ all = g[closed]
    BY PostRunIs
  <2> HIDE DEF all
  <2>2. ASSUME NEW k \in start - 1 .. closed
        PROVE  /\ Accruals(g[k]) /\ rows \subseteq g[k]
               /\ \A a \in g[k] \ rows : a.month \in start .. k
    <3>1. start <= closed
      OBVIOUS
    <3>2. QED
      BY <2>1, <3>1, PostedRange
  <2>3. ASSUME NEW k \in start .. closed
        PROVE  g[k] = After(g[k - 1], dated, MonthsOf(rows), k)
    BY <2>1 DEF Posting
  <2>4. ASSUME NEW k \in start - 1 .. closed
        PROVE  Upto(all, k) = g[k]
    <3> DEFINE Same == {j \in k .. closed : Upto(g[j], k) = g[k]}
    <3>1. k \in Same
      <4>1. \A a \in g[k] : a.month <= k
        <5>1. \A a \in rows : a.month \in Nat /\ a.month < start
          BY DEF Accruals
        <5>2. QED
          BY <2>2, <5>1
      <4>2. QED
        BY <4>1 DEF Upto
    <3>2. ASSUME NEW j \in k .. closed - 1, j \in Same PROVE j + 1 \in Same
      <4>1. j + 1 \in start .. closed /\ (j + 1) - 1 = j /\ j \in start - 1 .. closed
            /\ j + 1 \in Nat \ {0}
        OBVIOUS
      <4>2. g[j + 1] = After(g[j], dated, MonthsOf(rows), j + 1)
        BY <2>3, <4>1
      <4>3. g[j] \subseteq g[j + 1] /\ \A a \in g[j + 1] \ g[j] : a.month = j + 1
        BY <2>2, <4>1, <4>2, AfterIs
      <4>4. Upto(g[j + 1], k) = Upto(g[j], k)
        BY <4>1, <4>3 DEF Upto
      <4>5. QED
        BY <3>2, <4>1, <4>4
    <3>3. k \in Int /\ closed \in k .. closed
      OBVIOUS
    <3> HIDE DEF Same
    <3>4. k .. closed \subseteq Same
      BY <3>1, <3>2, <3>3, Climb
    <3>5. QED
      BY <2>1, <3>3, <3>4 DEF Same
  <2>5. m - 1 \in start - 1 .. closed /\ m \in start - 1 .. closed /\ m \in Nat \ {0}
    OBVIOUS
  <2> DEFINE S == g[m - 1]
             i == Interest(Balance(S, dated, m))
  <2>6. Upto(all, m - 1) = S /\ Upto(all, m) = g[m] /\ g[m] = After(S, dated, MonthsOf(rows), m)
    BY <2>3, <2>4, <2>5
  <2>7. Accruals(S) /\ \A a \in S : a.month < m
    <3>1. Accruals(S) /\ \A a \in S : a.month \in Nat
      BY <2>2, <2>5 DEF Accruals
    <3>2. \A a \in S : a.month <= m - 1
      BY <2>6 DEF Upto
    <3>3. QED
      BY <3>1, <3>2
  <2>8. Balance(S, dated, m) = Booked(dated, m) + Charged(S)
    <3>1. Upto(S, m) = S
      BY <2>7 DEF Upto, Accruals
    <3>2. QED
      BY <3>1, BalanceIs
  <2>9. i \in Int
    <3>1. Booked(dated, m) \in Int /\ Charged(S) \in Int
      BY <2>7, BookedInt, ChargedInt
    <3> HIDE DEF S
    <3>2. QED
      BY <2>8, <3>1, InterestInt
  <2>10. RowsOf(all, m) = {a \in g[m] : a.month = m}
    BY <2>6 DEF RowsOf, Upto
  <2>11. m \notin MonthsOf(rows)
    BY DEF MonthsOf, Accruals
  <2>12. Cardinality(RowsOf(all, m)) <= 1 /\ Charged(RowsOf(all, m)) = i
    <3> HIDE DEF i
    <3>1. CASE i = 0
      <4>1. g[m] = S
        BY <2>6, <3>1 DEF After, i
      <4>2. RowsOf(all, m) = {}
        BY <2>7, <2>10, <4>1
      <4>3. Cardinality(RowsOf(all, m)) = 0 /\ Charged(RowsOf(all, m)) = 0
        BY <4>2, FS_EmptySet, ChargedNone
      <4>4. QED
        BY <3>1, <4>3
    <3>2. CASE i # 0
      <4>1. g[m] = S \cup {Posted(S, m, i)}
        BY <2>6, <2>11, <3>2 DEF After, i
      <4> DEFINE p == Posted(S, m, i)
      <4>2. p.month = m /\ p.amount = i
        BY DEF Posted
      <4> HIDE DEF p
      <4>3. RowsOf(all, m) = {p}
        BY <2>7, <2>10, <4>1, <4>2 DEF p
      <4>4. Charged({p}) = i /\ Cardinality({p}) = 1
        BY <2>5, <2>9, <4>2, ChargedOne, FS_Singleton
      <4>5. QED
        BY <4>3, <4>4
    <3>3. QED
      BY <3>1, <3>2
  <2>13. Wrong(all, dated, m) <=>
           \/ Cardinality(RowsOf(all, m)) > 1
           \/ Charged(RowsOf(all, m)) # Interest(Booked(dated, m) + Charged(S))
    BY <1>1, <2>5, <2>6, WrongIs
  <2>14. Cardinality(RowsOf(all, m)) \in Nat
    <3>1. RowsOf(all, m) \subseteq all /\ IsFiniteSet(all)
      BY <1>1 DEF RowsOf, Accruals
    <3>2. QED
      BY <3>1, FS_Subset, FS_CardinalityType
  <2>15. QED
    BY <2>8, <2>12, <2>13, <2>14
<1>4. QED
  BY <1>2, <1>3

----------------------------------------------------------------------------
(* The re-check.                                                            *)

Typed == Accruals(accr) /\ month \in [OtherRows -> Nat] /\ closed \in Nat

\* No month before the first transaction is wrong.
LEMMA NotBeforeTheFirst ==
  ASSUME Typed, accr # {}
  PROVE  /\ FirstMonth(accr, month) \in Nat \ {0}
         /\ \A m \in 1 .. closed : Wrong(accr, month, m) => m \in WrongMonths(accr, month)
<1> DEFINE dates == {month[e] : e \in {x \in OtherRows : month[x] # Off}} \cup MonthsOf(accr)
           first == FirstMonth(accr, month)
<1>1. first \in dates /\ first \in Nat \ {0} /\ \A d \in dates : first <= d
  <2>1. dates \subseteq Nat \ {0} /\ dates # {}
    BY DEF Typed, Accruals, MonthsOf, Off
  <2> HIDE DEF dates
  <2>2. Min(dates) \in dates /\ \A d \in dates : Min(dates) <= d
    BY <2>1, Least
  <2>3. first = Min(dates)
    BY DEF FirstMonth, dates
  <2>4. QED
    BY <2>1, <2>2, <2>3
<1>2. ASSUME NEW m \in 1 .. closed, m < first PROVE ~ Wrong(accr, month, m)
  <2>1. RowsOf(accr, m) = {} /\ Upto(accr, m - 1) = {}
    <3>1. \A a \in accr : a.month \in dates /\ a.month \in Nat
      BY DEF MonthsOf, Typed, Accruals
    <3> HIDE DEF dates, first
    <3>2. \A a \in accr : ~ (a.month <= m)
      BY <1>1, <1>2, <3>1
    <3>3. QED
      BY <3>1, <3>2 DEF RowsOf, Upto, Typed
  <2>2. Booked(month, m) = 0
    <3>1. {e \in OtherRows : month[e] \in 1 .. m} = {}
      <4>1. \A e \in OtherRows : month[e] \in 1 .. m => month[e] \in dates
        BY DEF Off
      <4> HIDE DEF dates, first
      <4>2. QED
        BY <1>1, <1>2, <4>1
    <3>2. Booked(month, m) = SumOver(Amount, {e \in OtherRows : month[e] \in 1 .. m})
      BY DEF Booked, SumOf, SumOver
    <3>3. QED
      BY <3>1, <3>2, SumOfNone
  <2>3. Wrong(accr, month, m) <=>
          \/ Cardinality(RowsOf(accr, m)) > 1
          \/ Charged(RowsOf(accr, m)) # Interest(Booked(month, m) + Charged(Upto(accr, m - 1)))
    BY WrongIs DEF Typed
  <2>4. Charged({}) = 0 /\ Cardinality({}) = 0 /\ Interest(0) = 0
    BY ChargedNone, FS_EmptySet, InterestOfNone
  <2>5. QED
    BY <2>1, <2>2, <2>3, <2>4
<1>3. ASSUME NEW m \in 1 .. closed, Wrong(accr, month, m)
      PROVE  m \in WrongMonths(accr, month)
  <2>1. ~ (m < first)
    BY <1>2, <1>3
  <2>2. m \in first .. closed
    BY <1>1, <2>1 DEF Typed
  <2>3. QED
    BY <1>3, <2>2 DEF WrongMonths
<1>4. QED
  BY <1>1, <1>3

Cutoffs == Cutoff(accr, month)
RightBefore(c) == \A m \in 1 .. c - 1 : ~ Wrong(accr, month, m)

\* The walk finds the first wrong month, if there is one.
LEMMA FirstWrong ==
  ASSUME Typed
  PROVE  /\ Cutoffs = {} /\ accr # {} => Sound(accr, month)
         /\ \A c \in Cutoffs : c \in Nat \ {0} /\ c <= closed /\ RightBefore(c) /\ accr # {}
<1>1. WrongMonths(accr, month) \subseteq Nat \ {0}
      /\ \A m \in WrongMonths(accr, month) : m <= closed /\ accr # {}
  BY NotBeforeTheFirst DEF WrongMonths, Typed
<1>2. ASSUME Cutoffs = {}, accr # {} PROVE Sound(accr, month)
  <2>1. WrongMonths(accr, month) = {}
    <3> SUFFICES ASSUME WrongMonths(accr, month) # {} PROVE FALSE
      OBVIOUS
    <3>1. WrongMonths(accr, month) \subseteq Nat
      BY <1>1
    <3>2. /\ Min(WrongMonths(accr, month)) \in WrongMonths(accr, month)
          /\ \A x \in WrongMonths(accr, month) : Min(WrongMonths(accr, month)) <= x
      BY <3>1, Least
    <3>3. QED
      BY <1>2, <3>2 DEF Cutoffs, Cutoff
  <2>2. QED
    BY <1>2, <2>1, NotBeforeTheFirst DEF Sound
<1>3. ASSUME NEW c \in Cutoffs
      PROVE  c \in Nat \ {0} /\ c <= closed /\ RightBefore(c) /\ accr # {}
  <2>1. c \in WrongMonths(accr, month) /\ \A x \in WrongMonths(accr, month) : c <= x
    BY DEF Cutoffs, Cutoff
  <2>2. c \in Nat \ {0} /\ c <= closed /\ accr # {}
    BY <1>1, <2>1
  <2>3. ASSUME NEW m \in 1 .. c - 1, Wrong(accr, month, m) PROVE FALSE
    <3>1. m \in 1 .. closed
      BY <2>2 DEF Typed
    <3>2. m \in WrongMonths(accr, month)
      BY <2>2, <2>3, <3>1, NotBeforeTheFirst
    <3>3. QED
      BY <2>1, <2>2, <3>2
  <2>4. QED
    BY <2>2, <2>3 DEF RightBefore
<1>4. QED
  BY <1>2, <1>3

\* Rebuilding from a month before which nothing is wrong leaves nothing wrong.
LEMMA RebuiltSound ==
  ASSUME Typed, NEW c \in Nat \ {0}, RightBefore(c)
  PROVE  LET kept == accr \ Doomed(accr, c) IN
         Sound(PostRun(kept, month, MonthsOf(kept), c), month)
<1> DEFINE kept == accr \ Doomed(accr, c)
           all == PostRun(kept, month, MonthsOf(kept), c)
<1>1. Accruals(kept) /\ \A a \in kept : a.month < c
  <2>1. Accruals(kept)
    BY SomeAccruals DEF Typed
  <2>2. QED
    BY <2>1 DEF Doomed, Accruals
<1>2. ASSUME NEW m \in 1 .. c - 1 PROVE ~ Wrong(kept, month, m)
  <2>1. Upto(kept, m) = Upto(accr, m)
    BY DEF Upto, Doomed, Typed, Accruals
  <2> HIDE DEF kept
  <2>2. Wrong(kept, month, m) <=> Wrong(accr, month, m)
    BY <1>1, <2>1, WrongLocal DEF Typed
  <2>3. QED
    BY <2>2 DEF RightBefore
<1> HIDE DEF kept
<1>3. /\ \A m \in c .. closed : ~ Wrong(all, month, m)
      /\ \A m \in 1 .. c - 1 : Wrong(all, month, m) <=> Wrong(kept, month, m)
  BY <1>1, PostRunRight DEF Typed
<1> HIDE DEF all
<1>4. \A m \in 1 .. closed : m \in c .. closed \/ m \in 1 .. c - 1
  BY DEF Typed
<1>5. Sound(all, month)
  BY <1>2, <1>3, <1>4 DEF Sound
<1>6. QED
  BY <1>5 DEF all, kept

----------------------------------------------------------------------------
(* What every reachable state keeps.                                        *)

\* A request that is to post has a month to start with, and deletes nothing
\* before it.
Aimed(r) ==
  LET q == req[r] IN
  /\ DOMAIN q = {"cutoff", "doomed", "done"}
  /\ stage[r] \in {"rebuild", "post", "accrue"} => q.cutoff \in Nat \ {0}
  /\ stage[r] = "rebuild" => \A a \in q.doomed : a.month >= q.cutoff
AccInv ==
  /\ inst \in Instances /\ Typed
  /\ DOMAIN stage = Handlers /\ DOMAIN req = Handlers
  /\ \A r \in Handlers : Aimed(r)

\* A single request, with every row re-checked: nothing is wrong while it
\* rests after a check, and what it has read while at work is still so.
SoloAt(r) ==
  LET q == req[r] IN
  /\ stage[r] \in {"idle", "check", "rebuild", "post", "accrue"}
  /\ stage[r] = "idle" /\ ~ due /\ accr # {} => Sound(accr, month)
  /\ stage[r] = "rebuild" => RightBefore(q.cutoff) /\ q.doomed = Doomed(accr, q.cutoff)
  /\ stage[r] = "post" => /\ RightBefore(q.cutoff) /\ Doomed(accr, q.cutoff) = {}
                       /\ q.done = MonthsOf(accr)
SoloInv == \A r \in Handlers : inst.crew = {r} /\ inst.quiet = {} => SoloAt(r)

\* A rebuilding or posting from some month on leaves accruals.
LEMMA PostedTyped ==
  ASSUME Typed, NEW kept, kept \subseteq accr, NEW done, NEW c \in Nat \ {0}
  PROVE  Accruals(PostRun(kept, month, done, c)) /\ kept \subseteq PostRun(kept, month, done, c)
<1>1. Accruals(kept)
  BY SomeAccruals DEF Typed
<1>2. QED
  BY <1>1, PostRunAdds DEF Typed

\* What a start leaves.
LEMMA ResyncedIs ==
  ASSUME Typed
  PROVE  /\ Accruals(Resynced(accr, month))
         /\ Resynced(accr, month) # {} => Sound(Resynced(accr, month), month)
<1>1. CASE Cutoffs = {}
  <2>1. Resynced(accr, month) = accr
    BY <1>1 DEF Resynced, Cutoffs
  <2>2. QED
    BY <1>1, <2>1, FirstWrong DEF Typed
<1>2. CASE Cutoffs # {}
  <2> DEFINE c == Min(Cutoffs)
             kept == accr \ Doomed(accr, c)
  <2>1. Cutoffs \subseteq Nat
    BY FirstWrong
  <2>2. c \in Cutoffs
    BY <1>2, <2>1, Least
  <2>3. c \in Nat \ {0} /\ RightBefore(c)
    BY <2>2, FirstWrong
  <2>4. Resynced(accr, month) = PostRun(kept, month, MonthsOf(kept), c)
    BY <1>2 DEF Resynced, Cutoffs
  <2> HIDE DEF c
  <2>5. Sound(PostRun(kept, month, MonthsOf(kept), c), month)
    BY <2>3, RebuiltSound
  <2>6. kept \subseteq accr
    OBVIOUS
  <2> HIDE DEF kept
  <2>7. Accruals(PostRun(kept, month, MonthsOf(kept), c))
    BY <2>3, <2>6, PostedTyped
  <2>8. QED
    BY <2>4, <2>5, <2>7
<1>3. QED
  BY <1>1, <1>2

\* A step of r leaves the other requests where they are.
Others(r) ==
  /\ DOMAIN stage' = DOMAIN stage /\ DOMAIN req' = DOMAIN req
  /\ \A q \in Handlers \ {r} : stage'[q] = stage[q] /\ req'[q] = req[q]

LEMMA AccInductive == AccInv /\ [AccrualNext]_accrualVars => AccInv'
<1> SUFFICES ASSUME AccInv, [AccrualNext]_accrualVars PROVE AccInv'
  OBVIOUS
<1>1. /\ inst \in Instances /\ Typed /\ Accruals(accr) /\ month \in [OtherRows -> Nat] /\ closed \in Nat
      /\ DOMAIN stage = Handlers /\ DOMAIN req = Handlers
      /\ inst.crew \subseteq Handlers /\ inst.months \in Nat
      /\ inst' = inst
  BY EntryAssumption DEF AccInv, Typed, AccrualNext, accrualVars
<1>2. ASSUME Accruals(accr'), month' \in [OtherRows -> Nat], closed' \in Nat,
             DOMAIN stage' = Handlers, DOMAIN req' = Handlers,
             \A r \in Handlers : Aimed(r)'
      PROVE  AccInv'
  BY <1>1, <1>2 DEF AccInv, Typed
<1>3. ASSUME NEW r \in Handlers, stage'[r] = stage[r], req'[r] = req[r] PROVE Aimed(r)'
  BY <1>3 DEF AccInv, Aimed
<1>4. ASSUME NEW r \in Handlers, req'[r] = NoRead \/ req'[r] = req[r], stage'[r] \in {"idle", "check"}
      PROVE  Aimed(r)'
  BY <1>4 DEF AccInv, Aimed, NoRead
<1>5. ASSUME NEW r \in Handlers, Others(r), Aimed(r)'
      PROVE  DOMAIN stage' = Handlers /\ DOMAIN req' = Handlers /\ \A q \in Handlers : Aimed(q)'
  <2>1. \A q \in Handlers \ {r} : Aimed(q)'
    BY <1>3, <1>5 DEF Others
  <2>2. QED
    BY <1>1, <1>5, <2>1 DEF Others
<1>6. CASE UNCHANGED accrualVars
  <2>1. UNCHANGED <<accr, month, closed, stage, req>>
    BY <1>6 DEF accrualVars
  <2>2. \A r \in Handlers : Aimed(r)'
    BY <1>3, <2>1
  <2>3. QED
    BY <1>1, <1>2, <2>1, <2>2
<1>7. CASE MonthEnds
  <2>1. closed' \in Nat
    BY <1>1, <1>7 DEF MonthEnds
  <2>2. UNCHANGED <<accr, month, stage, req>>
    BY <1>7 DEF MonthEnds
  <2>3. \A r \in Handlers : Aimed(r)'
    BY <1>3, <2>2
  <2>4. QED
    BY <1>1, <1>2, <2>1, <2>2, <2>3
<1>8. CASE ServerStarts
  <2>1. /\ Accruals(accr') /\ UNCHANGED <<month, closed>>
        /\ stage' = [r \in Handlers |-> "idle"] /\ req' = [r \in Handlers |-> NoRead]
    BY <1>1, <1>8, ResyncedIs DEF ServerStarts
  <2>2. \A r \in Handlers : Aimed(r)'
    BY <1>4, <2>1
  <2>3. QED
    BY <1>1, <1>2, <2>1, <2>2
<1>9. ASSUME NEW e \in inst.quiet, NEW m \in Months, PostQuietly(e, m) PROVE AccInv'
  <2>1. month' \in [OtherRows -> Nat]
    <3>1. month' = [month EXCEPT ![e] = m] /\ m \in Nat
      BY <1>1, <1>9 DEF PostQuietly, Months
    <3>2. QED
      BY <1>1, <3>1
  <2>2. UNCHANGED <<accr, closed, stage, req>>
    BY <1>9 DEF PostQuietly
  <2>3. \A r \in Handlers : Aimed(r)'
    BY <1>3, <2>2
  <2>4. QED
    BY <1>1, <1>2, <2>1, <2>2, <2>3
<1>10. ASSUME NEW r \in inst.crew, NEW e \in OtherRows, NEW m \in Months \cup {Off}, Change(r, e, m)
       PROVE  AccInv'
  <2>1. month' \in [OtherRows -> Nat] /\ r \in Handlers
    BY <1>1, <1>10 DEF Change, Months, Off
  <2>2. stage'[r] = "check" /\ req'[r] = req[r]
    BY <1>1, <1>10, <2>1 DEF Change
  <2>3. Aimed(r)'
    BY <1>4, <2>1, <2>2
  <2>4. /\ Others(r)
        /\ accr' = accr /\ closed' = closed
    BY <1>1, <1>10, <2>1, <2>2 DEF Others, Change
  <2>5. QED
    BY <1>1, <1>2, <1>5, <2>1, <2>3, <2>4
<1>11. ASSUME NEW r \in inst.crew, NEW a \in accr, DeleteAccrual(r, a)
       PROVE  AccInv'
  <2>1. r \in Handlers
    BY <1>1
  <2>2. stage'[r] = "check" /\ req'[r] = req[r]
    BY <1>1, <1>11, <2>1 DEF DeleteAccrual
  <2>3. Aimed(r)'
    BY <1>4, <2>1, <2>2
  <2>4. /\ Others(r)
        /\ accr' \subseteq accr /\ closed' = closed /\ month' = month
    BY <1>1, <1>11, <2>1, <2>2 DEF Others, DeleteAccrual
  <2>5. Accruals(accr')
    BY <1>1, <2>4, SomeAccruals
  <2>6. QED
    BY <1>1, <1>2, <1>5, <2>1, <2>3, <2>4, <2>5
<1>12. ASSUME NEW r \in inst.crew, NEW m \in Months, StartAccruing(r, m)
       PROVE  AccInv'
  <2>1. r \in Handlers /\ m \in Nat \ {0}
    BY <1>1 DEF Months
  <2>2. stage'[r] = "accrue" /\ req'[r] = [cutoff |-> m, doomed |-> {}, done |-> MonthsOf(accr)]
    BY <1>1, <1>12, <2>1 DEF StartAccruing
  <2>3. Aimed(r)'
    BY <2>1, <2>2 DEF Aimed
  <2>4. /\ Others(r)
        /\ accr' = accr /\ closed' = closed /\ month' = month
    BY <1>1, <1>12, <2>1, <2>2 DEF Others, StartAccruing
  <2>5. QED
    BY <1>1, <1>2, <1>5, <2>1, <2>3, <2>4
<1>13. ASSUME NEW r \in inst.crew, Check(r)
       PROVE  AccInv'
  <2>1. r \in Handlers
    BY <1>1
  <2>2. CASE Cutoffs = {}
    <3>1. stage'[r] = "idle" /\ req'[r] = NoRead
      BY <1>1, <1>13, <2>1, <2>2 DEF Check, Cutoffs
    <3>2. Aimed(r)'
      BY <1>4, <2>1, <3>1
    <3>3. /\ Others(r)
          /\ accr' = accr /\ closed' = closed /\ month' = month
      BY <1>1, <1>13, <2>1, <2>2, <3>1 DEF Others, Check, Cutoffs
    <3>4. QED
      BY <1>1, <1>2, <1>5, <2>1, <3>2, <3>3
  <2>3. CASE Cutoffs # {}
    <3>1. PICK c \in Cutoffs :
            req' = [req EXCEPT ![r] = [cutoff |-> c, doomed |-> Doomed(accr, c), done |-> {}]]
      BY <1>13, <2>3 DEF Check, Cutoffs
    <3>2. c \in Nat \ {0}
      BY <1>1, FirstWrong
    <3>3. /\ stage'[r] = "rebuild"
          /\ req'[r] = [cutoff |-> c, doomed |-> Doomed(accr, c), done |-> {}]
      BY <1>1, <1>13, <2>1, <2>3, <3>1 DEF Check, Cutoffs
    <3>4. Aimed(r)'
      BY <3>2, <3>3 DEF Aimed, Doomed
    <3>5. /\ Others(r)
          /\ accr' = accr /\ closed' = closed /\ month' = month
      BY <1>1, <1>13, <2>1, <2>3, <3>1, <3>3 DEF Others, Check, Cutoffs
    <3>6. QED
      BY <1>1, <1>2, <1>5, <2>1, <3>4, <3>5
  <2>4. QED
    BY <2>2, <2>3
<1>14. ASSUME NEW r \in inst.crew, Rebuild(r) \/ PostAccruals(r)
       PROVE  AccInv'
  <2>1. r \in Handlers
    BY <1>1
  <2>2. stage'[r] = "idle" /\ req'[r] = NoRead
    BY <1>1, <1>14, <2>1 DEF Rebuild, PostAccruals
  <2>3. Aimed(r)'
    BY <1>4, <2>1, <2>2
  <2>4. /\ Others(r)
        /\ closed' = closed /\ month' = month
    BY <1>1, <1>14, <2>1, <2>2 DEF Others, Rebuild, PostAccruals
  <2>5. req[r].cutoff \in Nat \ {0}
    BY <1>14, <2>1 DEF Rebuild, PostAccruals, AccInv, Aimed
  <2>6. \E kept, done : kept \subseteq accr /\ accr' = PostRun(kept, month, done, req[r].cutoff)
    <3>1. accr \ req[r].doomed \subseteq accr /\ accr \subseteq accr
      OBVIOUS
    <3>2. QED
      BY <1>14, <3>1 DEF Rebuild, PostAccruals
  <2>7. Accruals(accr')
    BY <1>1, <2>5, <2>6, PostedTyped
  <2>8. QED
    BY <1>1, <1>2, <1>5, <2>1, <2>3, <2>4, <2>7
<1>15. ASSUME NEW r \in inst.crew, ReadDone(r)
       PROVE  AccInv'
  <2>1. r \in Handlers
    BY <1>1
  <2>2. DOMAIN req[r] = {"cutoff", "doomed", "done"} /\ req[r].cutoff \in Nat \ {0}
    BY <1>15, <2>1 DEF ReadDone, AccInv, Aimed
  <2>3. stage'[r] = "post" /\ req'[r] = [req[r] EXCEPT !.done = MonthsOf(accr)]
    BY <1>1, <1>15, <2>1 DEF ReadDone
  <2>4. Aimed(r)'
    BY <2>2, <2>3 DEF Aimed
  <2>5. /\ Others(r)
        /\ accr' = accr /\ closed' = closed /\ month' = month
    BY <1>1, <1>15, <2>1, <2>3 DEF Others, ReadDone
  <2>6. QED
    BY <1>1, <1>2, <1>5, <2>1, <2>4, <2>5
<1>16. QED
  BY <1>6, <1>7, <1>8, <1>9, <1>10, <1>11, <1>12, <1>13, <1>14, <1>15 DEF AccrualNext, Operation

LEMMA AccInitially == AccrualInit => AccInv
<1> SUFFICES ASSUME AccrualInit PROVE AccInv
  OBVIOUS
<1>1. Accruals(accr)
  BY FS_EmptySet DEF AccrualInit, Accruals
<1>2. month \in [OtherRows -> Nat] /\ closed \in Nat
  BY DEF AccrualInit, Off
<1>3. \A r \in Handlers : Aimed(r)
  BY DEF AccrualInit, Aimed, NoRead
<1>4. QED
  BY <1>1, <1>2, <1>3 DEF AccrualInit, AccInv, Typed

LEMMA SoloInductive == AccInv /\ SoloInv /\ [AccrualNext]_accrualVars => SoloInv'
<1> SUFFICES ASSUME AccInv, SoloInv, [AccrualNext]_accrualVars,
                    NEW r \in Handlers, inst'.crew = {r}, inst'.quiet = {}
             PROVE  SoloAt(r)'
  BY DEF SoloInv
<1>1. /\ Typed /\ DOMAIN stage = Handlers /\ DOMAIN req = Handlers /\ Aimed(r)
      /\ inst.crew = {r} /\ inst.quiet = {} /\ SoloAt(r)
  BY DEF AccInv, SoloInv, AccrualNext, accrualVars
<1>2. CASE UNCHANGED accrualVars
  <2>1. UNCHANGED <<accr, month, closed, stage, req, due>>
    BY <1>2 DEF accrualVars
  <2>2. QED
    BY <1>1, <2>1 DEF SoloAt, Sound, RightBefore, Doomed, MonthsOf
<1>3. CASE MonthEnds
  <2>1. UNCHANGED <<accr, month, stage, req>> /\ due'
    BY <1>3 DEF MonthEnds
  <2>2. QED
    BY <1>1, <2>1 DEF SoloAt, RightBefore
<1>4. CASE ServerStarts
  <2>1. /\ accr' = Resynced(accr, month) /\ UNCHANGED <<month, closed>>
        /\ stage'[r] = "idle"
    BY <1>4 DEF ServerStarts
  <2>2. accr' # {} => Sound(accr, month)'
    BY <1>1, <2>1, ResyncedIs DEF Sound
  <2>3. QED
    BY <2>1, <2>2 DEF SoloAt
<1>5. ASSUME NEW e \in OtherRows, NEW m \in Months \cup {Off}, Change(r, e, m) PROVE SoloAt(r)'
  <2>1. stage'[r] = "check"
    BY <1>1, <1>5 DEF Change
  <2>2. QED
    BY <2>1 DEF SoloAt
<1>6. ASSUME NEW a \in accr, DeleteAccrual(r, a) PROVE SoloAt(r)'
  <2>1. stage'[r] = "check"
    BY <1>1, <1>6 DEF DeleteAccrual
  <2>2. QED
    BY <2>1 DEF SoloAt
<1>7. ASSUME NEW m \in Months, StartAccruing(r, m) PROVE SoloAt(r)'
  <2>1. stage'[r] = "accrue"
    BY <1>1, <1>7 DEF StartAccruing
  <2>2. QED
    BY <2>1 DEF SoloAt
<1>8. CASE Check(r)
  <2>1. UNCHANGED <<accr, month, closed>>
    BY <1>8 DEF Check
  <2>2. CASE Cutoffs = {}
    <3>1. stage'[r] = "idle"
      BY <1>1, <1>8, <2>2 DEF Check, Cutoffs
    <3>2. accr # {} => Sound(accr, month)
      BY <1>1, <2>2, FirstWrong
    <3>3. accr' # {} => Sound(accr, month)'
      BY <2>1, <3>2 DEF Sound
    <3>4. QED
      BY <3>1, <3>3 DEF SoloAt
  <2>3. CASE Cutoffs # {}
    <3>1. PICK c \in Cutoffs :
            req' = [req EXCEPT ![r] = [cutoff |-> c, doomed |-> Doomed(accr, c), done |-> {}]]
      BY <1>8, <2>3 DEF Check, Cutoffs
    <3>2. stage'[r] = "rebuild"
      BY <1>1, <1>8, <2>3 DEF Check, Cutoffs
    <3>3. req'[r].cutoff = c /\ req'[r].doomed = Doomed(accr, c)
      BY <1>1, <3>1
    <3>4. RightBefore(c)
      BY <1>1, FirstWrong
    <3>5. RightBefore(req[r].cutoff)'
      BY <2>1, <3>3, <3>4 DEF RightBefore
    <3>6. QED
      BY <2>1, <3>2, <3>3, <3>5 DEF SoloAt, Doomed
  <2>4. QED
    BY <2>2, <2>3
<1>9. ASSUME NEW c \in Nat \ {0}, RightBefore(c),
             accr' = PostRun(accr \ Doomed(accr, c), month, MonthsOf(accr \ Doomed(accr, c)), c),
             UNCHANGED <<month, closed>>, stage'[r] = "idle"
      PROVE  SoloAt(r)'
  <2>1. Sound(PostRun(accr \ Doomed(accr, c), month, MonthsOf(accr \ Doomed(accr, c)), c), month)
    BY <1>1, <1>9, RebuiltSound
  <2>2. Sound(accr', month)
    BY <1>9, <2>1
  <2>3. Sound(accr, month)'
    BY <1>9, <2>2 DEF Sound
  <2>4. QED
    BY <1>9, <2>3 DEF SoloAt
<1>10. CASE Rebuild(r)
  <2>1. /\ req[r].cutoff \in Nat \ {0} /\ RightBefore(req[r].cutoff)
        /\ req[r].doomed = Doomed(accr, req[r].cutoff)
    BY <1>1, <1>10 DEF Rebuild, Aimed, SoloAt
  <2>2. UNCHANGED <<month, closed>> /\ stage'[r] = "idle"
    BY <1>1, <1>10 DEF Rebuild
  <2>3. accr' = PostRun(accr \ req[r].doomed, month, MonthsOf(accr \ req[r].doomed), req[r].cutoff)
    BY <1>10 DEF Rebuild
  <2>4. QED
    BY <1>9, <2>1, <2>2, <2>3
<1>11. CASE ReadDone(r)
  <2>1. /\ RightBefore(req[r].cutoff)
        /\ Doomed(accr, req[r].cutoff) = {} /\ DOMAIN req[r] = {"cutoff", "doomed", "done"}
    BY <1>1, <1>11 DEF ReadDone, Aimed, SoloAt
  <2>2. /\ UNCHANGED <<accr, month>> /\ stage'[r] = "post"
        /\ req'[r] = [req[r] EXCEPT !.done = MonthsOf(accr)]
    BY <1>1, <1>11 DEF ReadDone
  <2>3. req'[r].cutoff = req[r].cutoff /\ req'[r].done = MonthsOf(accr)
    BY <2>1, <2>2
  <2>4. RightBefore(req[r].cutoff)' /\ Doomed(accr', req'[r].cutoff) = {}
    BY <2>1, <2>2, <2>3 DEF RightBefore
  <2>5. QED
    BY <2>2, <2>3, <2>4 DEF SoloAt, Doomed, MonthsOf
<1>12. CASE PostAccruals(r)
  <2>1. CASE stage[r] = "accrue"
    <3>1. stage'[r] = "idle" /\ due'
      BY <1>1, <1>12, <2>1 DEF PostAccruals
    <3>2. QED
      BY <3>1 DEF SoloAt
  <2>2. CASE stage[r] = "post"
    <3>1. /\ req[r].cutoff \in Nat \ {0} /\ RightBefore(req[r].cutoff)
          /\ Doomed(accr, req[r].cutoff) = {} /\ req[r].done = MonthsOf(accr)
      BY <1>1, <2>2 DEF Aimed, SoloAt
    <3>2. UNCHANGED <<month, closed>> /\ stage'[r] = "idle"
      BY <1>1, <1>12 DEF PostAccruals
    <3>3. accr \ Doomed(accr, req[r].cutoff) = accr
      BY <3>1
    <3>4. accr' = PostRun(accr, month, MonthsOf(accr), req[r].cutoff)
      BY <1>12, <3>1 DEF PostAccruals
    <3>5. QED
      BY <1>9, <3>1, <3>2, <3>3, <3>4
  <2>3. QED
    BY <1>12, <2>1, <2>2 DEF PostAccruals
<1>13. QED
  BY <1>1, <1>2, <1>3, <1>4, <1>5, <1>6, <1>7, <1>8, <1>10, <1>11, <1>12 DEF AccrualNext, Operation

----------------------------------------------------------------------------
(* The theorems.                                                            *)

\* With one request at a time and every row re-checked, the accruals are those
\* of a calculation from nothing whenever the request is done: for any rows,
\* moved and deleted in any order, any rate, any number of months and restarts.
THEOREM AccrualsAreTrue == AccrualSpec => []AccrualsAgreeAlone
<1>1. AccrualInit => SoloInv
  BY DEF AccrualInit, SoloInv, SoloAt
<1>2. ASSUME AccInv, SoloInv PROVE AccrualsAgreeAlone
  <2> SUFFICES ASSUME Cardinality(inst.crew) = 1, inst.quiet = {}, Quiet, ~ due, accr # {}
               PROVE  Agrees
    BY DEF AccrualsAgreeAlone, AccrualsAgree
  <2>1. inst.crew \subseteq Handlers /\ IsFiniteSet(inst.crew)
    BY <1>2, EntryAssumption, FS_Subset DEF AccInv
  <2>2. PICK r : inst.crew = {r}
    BY <2>1, FS_Singleton
  <2>3. r \in Handlers
    BY <2>1, <2>2
  <2>4. stage[r] = "idle" /\ SoloAt(r)
    BY <1>2, <2>2, <2>3 DEF Quiet, SoloInv
  <2>5. Sound(accr, month)
    BY <2>4 DEF SoloAt
  <2>6. QED
    BY <1>2, <2>5, SoundAgrees DEF AccInv, Typed
<1>3. QED
  BY AccInitially, AccInductive, SoloInductive, <1>1, <1>2, PTL DEF AccrualSpec

\* Every start of the server leaves the accruals of a calculation from nothing,
\* whatever requests racing, rows nobody re-checked and cut off work have left.
THEOREM StartIsARepair == AccrualSpec => StartRepairs
<1> DEFINE Repaired == Typed /\ Sound(accr, month)
<1>1. ASSUME AccInv, ServerStarts, accr' # {} PROVE Repaired'
  <2>1. /\ accr' = Resynced(accr, month) /\ UNCHANGED <<month, closed>> /\ Typed
    BY <1>1 DEF ServerStarts, AccInv
  <2>2. Accruals(accr') /\ Sound(accr, month)'
    BY <1>1, <2>1, ResyncedIs DEF Sound
  <2>3. QED
    BY <2>1, <2>2 DEF Typed
<1>2. Repaired => Agrees
  BY SoundAgrees DEF Typed
<1> HIDE DEF Repaired
<1>3. AccInv => [ServerStarts /\ accr' # {} => Repaired']_accrualVars
  BY <1>1
<1>4. QED
  BY AccInitially, AccInductive, <1>2, <1>3, PTL DEF AccrualSpec, StartRepairs

\* A rebuilding keeps the accruals of the months before the first wrong one, for
\* any number of requests at once.
THEOREM EarlierMonthsStay == AccrualSpec => RightMonthsKept
<1> DEFINE Step == \A r \in Handlers : Rebuild(r) =>
                     \A a \in accr : a.month < req[r].cutoff => a \in accr'
<1>1. ASSUME AccInv PROVE Step
  <2> SUFFICES ASSUME NEW r \in Handlers, Rebuild(r), NEW a \in accr, a.month < req[r].cutoff
               PROVE  a \in accr'
    OBVIOUS
  <2> DEFINE kept == accr \ req[r].doomed
  <2>1. /\ Typed /\ req[r].cutoff \in Nat \ {0}
        /\ \A x \in req[r].doomed : x.month >= req[r].cutoff
    BY <1>1 DEF AccInv, Aimed, Rebuild
  <2>2. accr' = PostRun(kept, month, MonthsOf(kept), req[r].cutoff) /\ kept \subseteq accr
    BY DEF Rebuild
  <2>3. a \in kept
    <3>1. a.month \in Nat
      BY <2>1 DEF Typed, Accruals
    <3>2. QED
      BY <2>1, <3>1
  <2> HIDE DEF kept
  <2>4. kept \subseteq PostRun(kept, month, MonthsOf(kept), req[r].cutoff)
    BY <2>1, <2>2, PostedTyped
  <2>5. QED
    BY <2>2, <2>3, <2>4
<1>2. AccInv => [Step]_accrualVars
  BY <1>1
<1>3. QED
  BY AccInitially, AccInductive, <1>2, PTL DEF AccrualSpec, RightMonthsKept
=============================================================================
