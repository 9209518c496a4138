-------------------------- MODULE CategoriesProofs --------------------------
(***************************************************************************)
(* What holds of the rows, their splits and the rules that place them, for *)
(* any wordings, rules, categories and documents, and any number of        *)
(* requests.                                                               *)
(*                                                                         *)
(* First the sums of splits and what a run learns from its answers, which  *)
(* the model writes as folds; then what each operation does to one row and *)
(* to the rules; then the invariant and the properties of the run.         *)
(***************************************************************************)
EXTENDS Categories, SumProofs

USE DEF Null

-----------------------------------------------------------------------------
(* Sums of splits *)

Amt(ss) == [n \in DOMAIN ss |-> ss[n].amt]

\* What the splits come to is the sum of their amounts.
LEMMA TotalSummed == ASSUME NEW ss PROVE Total(ss) = SumOver(Amt(ss), DOMAIN ss)
<1> DEFINE S == DOMAIN ss
           A(g) == [s \in SUBSET S |-> IF s = {} THEN 0 ELSE ss[Taken(s)].amt + g[s \ {Taken(s)}]]
<1>1. ASSUME NEW g PROVE A(g) = Round(Amt(ss), S, g)
  <2>1. \A s \in SUBSET S : s # {} => Amt(ss)[Taken(s)] = ss[Taken(s)].amt
    BY DEF Taken, Amt
  <2> QED BY <2>1 DEF Round
<1>2. /\ Total(ss) = (CHOOSE g : g = A(g))[S]
      /\ SumOver(Amt(ss), S) = (CHOOSE g : g = Round(Amt(ss), S, g))[S]
  <2>1. Total(ss) = (CHOOSE g : g = A(g))[S]
    BY Zenon DEF Total, FoldSeq, FoldFunction, FoldFunctionOnSet, MapThenFoldSet, Taken
  <2>2. SumOver(Amt(ss), S) = (CHOOSE g : g = Round(Amt(ss), S, g))[S]
    BY Zenon DEF SumOver, MapThenSumSet, MapThenFoldSet, Round, Taken
  <2> QED BY <2>1, <2>2
<1> HIDE DEF A
<1>3. (CHOOSE g : g = A(g)) = (CHOOSE g : g = Round(Amt(ss), S, g))
  BY <1>1, Zenon
<1> QED BY <1>2, <1>3

\* Equal amounts, equal totals.
LEMMA TotalSame ==
  ASSUME NEW ss, NEW tt, DOMAIN ss = DOMAIN tt, \A n \in DOMAIN ss : ss[n].amt = tt[n].amt
  PROVE  Total(ss) = Total(tt)
<1>1. \A n \in DOMAIN ss : Amt(ss)[n] = Amt(tt)[n]
  BY DEF Amt
<1>2. SumOver(Amt(ss), DOMAIN ss) = SumOver(Amt(tt), DOMAIN ss)
  BY <1>1, SumSame
<1> QED BY <1>2, TotalSummed

\* One split comes to its amount.
LEMMA TotalOfOne == ASSUME NEW s, s.amt \in Int PROVE Total(<< s >>) = s.amt
<1> DEFINE ss == << s >>
<1>1. DOMAIN ss = {1} /\ ss[1] = s
  OBVIOUS
<1> HIDE DEF ss
<1>2. IsFiniteSet({1}) /\ \A n \in {1} : Amt(ss)[n] \in Int /\ Amt(ss)[n] = s.amt
  BY <1>1, FS_Singleton DEF Amt
<1>3. SumOver(Amt(ss), {1}) = Amt(ss)[1] + SumOver(Amt(ss), {1} \ {1})
  <2> DEFINE f == Amt(ss)  T == {1}
  <2>1. IsFiniteSet(T) /\ (\A x \in T : f[x] \in Int)
    BY <1>2
  <2>2. T # {} /\ Taken(T) = 1
    BY DEF Taken
  <2> HIDE DEF f, T
  <2>3. SumOver(f, T) = f[Taken(T)] + SumOver(f, T \ {Taken(T)})
    BY <2>1, <2>2, SumTaken
  <2>4. SumOver(f, T) = f[1] + SumOver(f, T \ {1})
    BY <2>2, <2>3
  <2> QED BY <2>4 DEF f, T
<1>4. {1} \ {1} = {} /\ SumOver(Amt(ss), {}) = 0
  BY SumOfNone
<1>5. SumOver(Amt(ss), {1}) = s.amt
  <2>1. Amt(ss)[1] = s.amt
    BY <1>1, <1>2
  <2> QED BY <1>3, <1>4, <2>1
<1>6. Total(ss) = SumOver(Amt(ss), {1})
  BY <1>1, TotalSummed
<1> QED BY <1>5, <1>6 DEF ss

-----------------------------------------------------------------------------
(* What a run learns *)

AnswerRule(d, c) == [pat |-> d, cat |-> c, src |-> "llm", hits |-> 1]

\* The answers of some wordings that become rules.
New(rs, s, answers) ==
  {AnswerRule(d, answers[d]) : d \in {d \in s : /\ answers[d] # Null /\ d \notin Wordless
                                                /\ ~ \E r \in rs : r.pat = d}}

\* Taking in the answers one at a time.
Taking(rs, answers, S, g) ==
  [s \in SUBSET S |->
     IF s = {} THEN rs
     ELSE IF answers[Taken(s)] = Null THEN g[s \ {Taken(s)}]
          ELSE LearnedFromModel(g[s \ {Taken(s)}], Taken(s), answers[Taken(s)])]

\* In whatever order the answers are taken, the rules that were there stay, and a
\* wording without a rule gets one.
LEMMA AllLearnedIs ==
  ASSUME NEW rs, NEW answers, IsFiniteSet(DOMAIN answers)
  PROVE  AllLearned(rs, answers) = rs \cup New(rs, DOMAIN answers, answers)
<1> DEFINE S == DOMAIN answers
           h == [s \in SUBSET S |-> rs \cup New(rs, s, answers)]
           g == CHOOSE g : g = Taking(rs, answers, S, g)
           Same == {s \in SUBSET S : g[s] = h[s]}
<1>1. AllLearned(rs, answers) = g[S]
  BY Zenon DEF AllLearned, FoldSet, MapThenFoldSet, Taking, Taken
<1>2. ASSUME NEW s \in SUBSET S, s # {}
      PROVE  h[s] = IF answers[Taken(s)] = Null THEN h[s \ {Taken(s)}]
                    ELSE LearnedFromModel(h[s \ {Taken(s)}], Taken(s), answers[Taken(s)])
  <2> DEFINE t == Taken(s)  c == answers[t]  q == s \ {t}
  <2>0. t \in s
    BY <1>2 DEF Taken
  <2>1. q \in SUBSET S /\ h[q] = rs \cup New(rs, q, answers) /\ h[s] = rs \cup New(rs, s, answers)
    OBVIOUS
  <2> HIDE DEF h, t
  <2>2. \A r \in New(rs, q, answers) : r.pat \in q
    BY DEF New, AnswerRule
  <2>3. (\E r \in h[q] : r.pat = t) <=> (\E r \in rs : r.pat = t)
    BY <2>1, <2>2
  <2>4. CASE c = Null \/ t \in Wordless \/ \E r \in rs : r.pat = t
    <3>1. New(rs, s, answers) = New(rs, q, answers)
      BY <2>0, <2>4 DEF New
    <3> QED BY <2>1, <2>3, <2>4, <3>1 DEF LearnedFromModel, t
  <2>5. CASE ~(c = Null \/ t \in Wordless \/ \E r \in rs : r.pat = t)
    <3>1. New(rs, s, answers) = New(rs, q, answers) \cup {AnswerRule(t, c)}
      BY <2>0, <2>5 DEF New
    <3>2. LearnedFromModel(h[q], t, c) = h[q] \cup {AnswerRule(t, c)}
      BY <2>3, <2>5 DEF LearnedFromModel, AnswerRule
    <3> QED BY <2>1, <2>5, <3>1, <3>2 DEF t
  <2> QED BY <2>4, <2>5
<1>3. h[{}] = rs
  BY DEF New
<1>4. h = Taking(rs, answers, S, h)
  <2> DEFINE k == Taking(rs, answers, S, h)
  <2>1. \A s \in SUBSET S : k[s] = h[s]
    <3> SUFFICES ASSUME NEW s \in SUBSET S PROVE k[s] = h[s]
      OBVIOUS
    <3> HIDE DEF h
    <3> QED BY <1>2, <1>3 DEF Taking
  <2>2. h = [s \in SUBSET S |-> h[s]]
    OBVIOUS
  <2>3. k = [s \in SUBSET S |-> k[s]]
    <3> HIDE DEF h
    <3> QED BY DEF Taking
  <2> HIDE DEF h, k
  <2>4. k = h
    BY <2>1, <2>2, <2>3
  <2> QED BY <2>4 DEF k
<1>5. h[S] = rs \cup New(rs, S, answers)
  OBVIOUS
<1> HIDE DEF h
<1>6. g = Taking(rs, answers, S, g)
  BY <1>4
<1> HIDE DEF g
<1>7. ASSUME NEW s \in SUBSET S, \A x \in s : s \ {x} \in Same
      PROVE  s \in Same
  <2>1. CASE s = {}
    <3>1. g[{}] = rs /\ h[{}] = rs
      BY <1>4, <1>6 DEF Taking
    <3> QED BY <2>1, <3>1
  <2>2. CASE s # {}
    <3>1. Taken(s) \in s
      BY <2>2 DEF Taken
    <3>2. g[s \ {Taken(s)}] = h[s \ {Taken(s)}]
      BY <1>7, <3>1
    <3>3. g[s] = IF answers[Taken(s)] = Null THEN g[s \ {Taken(s)}]
                 ELSE LearnedFromModel(g[s \ {Taken(s)}], Taken(s), answers[Taken(s)])
      BY <1>6, <2>2 DEF Taking
    <3>4. g[s] = h[s]
      BY <1>2, <2>2, <3>2, <3>3
    <3> QED BY <3>4
  <2> QED BY <2>1, <2>2
<1>8. S \in Same
  <2> HIDE DEF Same
  <2>1. SUBSET S \subseteq Same
    BY <1>7, ByElements
  <2> QED BY <2>1
<1> QED BY <1>1, <1>5, <1>8

-----------------------------------------------------------------------------
(* Rows *)

\* A row that is allocated, and not by a document, is allocated in full.
Sound(row) == row.splits # << >> /\ ~IsFromDocument(row) => validate_splits(row)

RowsGood(rs) ==
  /\ DOMAIN rs \subseteq RowIds
  /\ \A i \in DOMAIN rs : rs[i] \in Row /\ Sound(rs[i])

\* Only the amount and the splits say whether a row is allocated in full.
LEMMA SameSplits ==
  ASSUME NEW row, NEW new, Sound(row), new.amt = row.amt, new.splits = row.splits
  PROVE  Sound(new)
BY DEF Sound, IsFromDocument, validate_splits, Residual

\* A row given another category, event or transfer flag is as sound as it was.
LEMMA Relabelled ==
  ASSUME NEW row, row \in Row, Sound(row)
  PROVE  /\ \A c \in Cats \cup {Null} :
              [row EXCEPT !.cat = c] \in Row /\ Sound([row EXCEPT !.cat = c])
         /\ \A e \in EventType :
              [row EXCEPT !.event = e] \in Row /\ Sound([row EXCEPT !.event = e])
         /\ \A t \in BOOLEAN :
              [row EXCEPT !.transfer = t] \in Row /\ Sound([row EXCEPT !.transfer = t])
<1>1. ASSUME NEW c \in Cats \cup {Null}
      PROVE  [row EXCEPT !.cat = c] \in Row /\ Sound([row EXCEPT !.cat = c])
  <2>1. [row EXCEPT !.cat = c] \in Row
    BY DEF Row
  <2>2. [row EXCEPT !.cat = c].amt = row.amt /\ [row EXCEPT !.cat = c].splits = row.splits
    BY DEF Row
  <2> QED BY <2>1, <2>2, SameSplits
<1>2. ASSUME NEW e \in EventType
      PROVE  [row EXCEPT !.event = e] \in Row /\ Sound([row EXCEPT !.event = e])
  <2>1. [row EXCEPT !.event = e] \in Row
    BY DEF Row
  <2>2. [row EXCEPT !.event = e].amt = row.amt /\ [row EXCEPT !.event = e].splits = row.splits
    BY DEF Row
  <2> QED BY <2>1, <2>2, SameSplits
<1>3. ASSUME NEW t \in BOOLEAN
      PROVE  [row EXCEPT !.transfer = t] \in Row /\ Sound([row EXCEPT !.transfer = t])
  <2>1. [row EXCEPT !.transfer = t] \in Row
    BY DEF Row
  <2>2. /\ [row EXCEPT !.transfer = t].amt = row.amt
        /\ [row EXCEPT !.transfer = t].splits = row.splits
    BY DEF Row
  <2> QED BY <2>1, <2>2, SameSplits
<1> QED BY <1>1, <1>2, <1>3

\* A new row has no splits.
LEMMA NewRowIsSound ==
  ASSUME NEW d \in Descs, NEW amt \in Int, NEW t \in BOOLEAN, NEW c \in Cats \cup {Null},
         NEW e \in EventType
  PROVE  NewRow(d, amt, t, c, e) \in Row /\ Sound(NewRow(d, amt, t, c, e))
<1>1. NewRow(d, amt, t, c, e).splits = << >> /\ << >> \in Seq(Split)
  BY DEF NewRow
<1>2. NewRow(d, amt, t, c, e) \in Row
  BY <1>1 DEF NewRow, Row
<1> QED BY <1>1, <1>2 DEF Sound

\* The classifier gives every row one of the event types.
LEMMA ClassifiedIsSound ==
  ASSUME NEW row, row \in Row, Sound(row)
  PROVE  Classified(row) \in Row /\ Sound(Classified(row))
<1> DEFINE e == classify_transaction(Class[row.desc], row.amt, Words[row.desc],
                                     Source[row.desc], row.transfer)
<1>1. Class[row.desc] \in AccountClasses
  BY WordingAssumption DEF Row
<1>2. e \in EventType
  BY <1>1 DEF classify_transaction, CardRow, BankRow, EventType, Lifestyle, DebtCost, TaxCost,
     NonSpend, AccountClasses
<1> HIDE DEF e
<1>3. [row EXCEPT !.event = e] \in Row /\ Sound([row EXCEPT !.event = e])
  BY <1>2, Relabelled
<1> QED BY <1>3 DEF Classified, e

\* The default split is of the whole amount.
LEMMA PassThroughIsSound ==
  ASSUME NEW row, row \in Row
  PROVE  /\ [row EXCEPT !.splits = << PassThrough(row) >>] \in Row
         /\ Sound([row EXCEPT !.splits = << PassThrough(row) >>])
<1> DEFINE p == PassThrough(row)  new == [row EXCEPT !.splits = << p >>]
<1>1. row.amt \in Int /\ row.cat \in Cats \cup {Null} /\ row.event \in EventType
  BY DEF Row
<1>2. p \in Split /\ p.amt = row.amt
  <2>1. CountsAsSpend(row.event) \in BOOLEAN
    BY DEF CountsAsSpend
  <2> QED BY <1>1, <2>1 DEF PassThrough, SplitOf, Split
<1> HIDE DEF p
<1>3. << p >> \in Seq(Split)
  BY <1>2
<1>4. new \in Row /\ new.amt = row.amt /\ new.splits = << p >>
  BY <1>3 DEF Row
<1> HIDE DEF new
<1>5. Total(<< p >>) = row.amt
  BY <1>1, <1>2, TotalOfOne
<1>6. Residual(new) = 0
  BY <1>1, <1>4, <1>5 DEF Residual
<1>7. Sound(new)
  BY <1>6 DEF Sound, validate_splits, Tolerance
<1> QED BY <1>4, <1>7 DEF new, p

\* What a replacement spares is a sequence of splits, each of a document.
LEMMA SparedAreSplits ==
  ASSUME NEW row, row \in Row
  PROVE  /\ DocSplits(row) \in Seq(Split)
         /\ \A k \in DOMAIN DocSplits(row) : \E n \in DOMAIN row.splits :
              row.splits[n].doc /\ DocSplits(row)[k] = row.splits[n]
<1> DEFINE spared == {n \in DOMAIN row.splits : row.splits[n].doc}
           N == Cardinality(spared)
           InTurn(l) == \A i, j \in 1 .. N : i < j => l[i] < l[j]
           order == CHOOSE l \in [1 .. N -> spared] : InTurn(l)
<1>1. row.splits \in Seq(Split)
  BY DEF Row
<1>2. Len(row.splits) \in Nat /\ DOMAIN row.splits = 1 .. Len(row.splits)
  BY <1>1
<1>3. IsFiniteSet(spared) /\ spared \subseteq Nat
  <2>1. IsFiniteSet(1 .. Len(row.splits))
    <3>1. 1 \in Int /\ Len(row.splits) \in Int
      BY <1>2
    <3> HIDE DEF spared
    <3> QED BY <3>1, FS_Interval
  <2>2. spared \subseteq 1 .. Len(row.splits)
    BY <1>2
  <2> QED BY <1>2, <2>1, <2>2, FS_Subset
<1>4. \A n \in spared : row.splits[n] \in Split /\ n \in DOMAIN row.splits /\ row.splits[n].doc
  BY <1>1
<1>5. DocSplits(row) = [k \in 1 .. N |-> row.splits[order[k]]]
  BY DEF DocSplits
<1> HIDE DEF spared
<1>6. N \in Nat /\ \E l \in [1 .. N -> spared] : InTurn(l)
  BY <1>3, InOrder
<1> HIDE DEF N, InTurn
<1>7. order \in [1 .. N -> spared]
  BY <1>6
<1> HIDE DEF order
<1>8. [k \in 1 .. N |-> row.splits[order[k]]] \in [1 .. N -> Split]
  BY <1>4, <1>7
<1>9. \A k \in 1 .. N : order[k] \in spared
  BY <1>7
<1> QED BY <1>4, <1>5, <1>6, <1>8, <1>9

\* The form sends one line or two, of whole cents.
LEMMA LinesOfTheForm ==
  ASSUME NEW amt \in Int, NEW c \in Cats \cup {Null}, NEW lines \in Layouts(amt, {c}, Offs)
  PROVE  /\ lines \in Seq([amt : Int, cat : Cats \cup {Null}])
<1> DEFINE L == [amt : Int, cat : Cats \cup {Null}]
<1>1. CASE \E k \in {c} : lines = << [amt |-> amt, cat |-> k] >>
  <2>1. lines = << [amt |-> amt, cat |-> c] >> /\ [amt |-> amt, cat |-> c] \in L
    BY <1>1
  <2> QED BY <2>1
<1>2. CASE \E k \in {c}, off \in Offs :
             lines = << [amt |-> 1, cat |-> k], [amt |-> amt - 1 + off, cat |-> Null] >>
  <2>1. PICK off \in Offs :
          lines = << [amt |-> 1, cat |-> c], [amt |-> amt - 1 + off, cat |-> Null] >>
    BY <1>2
  <2>2. off \in Int
    BY PatternAssumption
  <2>3. [amt |-> 1, cat |-> c] \in L /\ [amt |-> amt - 1 + off, cat |-> Null] \in L
    BY <2>2
  <2> HIDE DEF L
  <2> QED BY <2>1, <2>3 DEF L
<1>3. \/ \E k \in {c} : lines = << [amt |-> amt, cat |-> k] >>
      \/ \E k \in {c}, off \in Offs :
           lines = << [amt |-> 1, cat |-> k], [amt |-> amt - 1 + off, cat |-> Null] >>
  BY DEF Layouts
<1> QED BY <1>1, <1>2, <1>3

\* A saved row is allocated in full, whatever is passed on to its splits.
LEMMA EditedIsSound ==
  ASSUME NEW row, row \in Row, NEW amt \in Int, NEW c \in Cats \cup {Null}, NEW t \in BOOLEAN,
         NEW lines \in Layouts(amt, {c}, Offs), Accepted(row, amt, c, t, lines), NEW old
  PROVE  /\ Cascaded(Edited(row, amt, c, t, lines), old) \in Row
         /\ Sound(Cascaded(Edited(row, amt, c, t, lines), old))
<1> DEFINE base == [row EXCEPT !.amt = amt, !.cat = c, !.transfer = t]
           made == [i \in DOMAIN lines |-> SplitOf(base, lines[i].amt, lines[i].cat)]
           ed == Edited(row, amt, c, t, lines)
           ca == Cascaded(ed, old)
<1>1. base \in Row /\ base.amt = amt /\ base.event \in EventType
  BY DEF Row
<1>2. ed = [base EXCEPT !.splits = DocSplits(base) \o made]
  BY DEF Edited, Replaced
<1>3. lines \in Seq([amt : Int, cat : Cats \cup {Null}])
  BY LinesOfTheForm
<1> HIDE DEF base
<1>4. made \in Seq(Split)
  <2>1. Len(lines) \in Nat /\ DOMAIN lines = 1 .. Len(lines)
    BY <1>3
  <2>2. ASSUME NEW i \in DOMAIN lines
        PROVE  SplitOf(base, lines[i].amt, lines[i].cat) \in Split
    <3>1. lines[i] \in [amt : Int, cat : Cats \cup {Null}]
      <4> DEFINE L == [amt : Int, cat : Cats \cup {Null}]
      <4>1. lines \in Seq(L)
        BY <1>3
      <4> HIDE DEF L
      <4>2. lines[i] \in L
        BY <2>1, <4>1
      <4> QED BY <4>2 DEF L
    <3>2. CountsAsSpend(base.event) \in BOOLEAN
      BY DEF CountsAsSpend
    <3> QED BY <1>1, <3>1, <3>2 DEF SplitOf, Split
  <2>3. made \in [1 .. Len(lines) -> Split]
    BY <2>1, <2>2
  <2> QED BY <2>1, <2>3
<1> HIDE DEF made
<1>5. DocSplits(base) \o made \in Seq(Split)
  BY <1>1, <1>4, SparedAreSplits
<1>6. ed \in Row
  BY <1>1, <1>2, <1>5 DEF Row
<1>7. validate_splits(ed)
  BY DEF Accepted
<1> HIDE DEF ed
<1>8. ca \in Row /\ ca.amt = ed.amt /\ Total(ca.splits) = Total(ed.splits)
  <2>1. CASE ed.event = old \/ ed.event = Unclassified
    BY <1>6, <2>1 DEF Cascaded
  <2>2. CASE ~(ed.event = old \/ ed.event = Unclassified)
    <3> DEFINE ss == ed.splits
               tt == [i \in DOMAIN ss |-> IF ss[i].doc THEN ss[i]
                                          ELSE [ss[i] EXCEPT !.event = ed.event]]
    <3>1. ca = [ed EXCEPT !.splits = tt]
      BY <2>2 DEF Cascaded
    <3>2. ss \in Seq(Split) /\ ed.event \in EventType
      BY <1>6 DEF Row
    <3>3. Len(ss) \in Nat /\ DOMAIN ss = 1 .. Len(ss)
      BY <3>2
    <3>4. ASSUME NEW i \in DOMAIN ss
          PROVE  tt[i] \in Split /\ ss[i].amt = tt[i].amt
      <4>1. ss[i] \in Split
        BY <3>2
      <4>2. [ss[i] EXCEPT !.event = ed.event] \in Split
            /\ [ss[i] EXCEPT !.event = ed.event].amt = ss[i].amt
        BY <3>2, <4>1 DEF Split
      <4> QED BY <4>1, <4>2
    <3>5. DOMAIN ss = DOMAIN tt /\ tt \in [1 .. Len(ss) -> Split]
      <4>1. tt = [i \in 1 .. Len(ss) |-> tt[i]]
        BY <3>3
      <4> HIDE DEF tt, ss
      <4> QED BY <3>3, <3>4, <4>1
    <3> HIDE DEF tt, ss
    <3>6. tt \in Seq(Split)
      BY <3>3, <3>5
    <3>7. Total(tt) = Total(ss)
      BY <3>4, <3>5, TotalSame
    <3>8. ca \in Row /\ ca.amt = ed.amt /\ ca.splits = tt
      BY <1>6, <3>1, <3>6 DEF Row
    <3> QED BY <3>7, <3>8 DEF ss
  <2> QED BY <2>1, <2>2
<1> HIDE DEF ca
<1>9. Sound(ca)
  BY <1>7, <1>8 DEF Sound, validate_splits, Residual
<1> QED BY <1>8, <1>9 DEF ca, ed

\* A document's row has the document's splits and no others.
LEMMA DocumentIsSound ==
  ASSUME NEW doc \in Documents
  PROVE  DocumentRow(doc) \in Row /\ Sound(DocumentRow(doc))
<1> DEFINE e == IF doc.type = "payroll" THEN "payroll_income" ELSE "rental_income"
           base == NewRow(doc.desc, doc.net, FALSE, Null, e)
           ss == [n \in DOMAIN doc.lines |->
                    [amt |-> LineAmount(doc.type, doc.lines[n]), cat |-> Null,
                     event |-> LineEvent(doc.type, doc.lines[n]),
                     counts |-> LineCounts(doc.type, doc.lines[n]), doc |-> TRUE]]
           r == DocumentRow(doc)
<1>1. doc.desc \in Descs /\ doc.net \in Int /\ doc.lines \in Seq(Line)
  BY DocumentAssumption
<1>2. e \in EventType
  BY DEF EventType, NonSpend
<1>3. base \in Row
  BY <1>1, <1>2, NewRowIsSound
<1>4. r = [base EXCEPT !.splits = ss]
  BY DEF DocumentRow
<1> HIDE DEF base
<1>5. Len(doc.lines) \in Nat /\ DOMAIN doc.lines = 1 .. Len(doc.lines)
  BY <1>1
<1>6. ASSUME NEW n \in DOMAIN doc.lines PROVE ss[n] \in Split
  <2> DEFINE l == doc.lines[n]
  <2>1. l \in Line
    BY <1>1
  <2>2. LineAmount(doc.type, l) \in Int
    BY <2>1 DEF LineAmount, Line
  <2>3. LineCounts(doc.type, l) \in BOOLEAN
    BY DEF LineCounts
  <2>4. LineEvent(doc.type, l) \in EventType
    <3>1. PayrollLineEvent(l) \in EventType
      BY DEF PayrollLineEvent, EventType, Lifestyle, DebtCost, TaxCost, NonSpend
    <3>2. RentalLineEvent(l) \in EventType
      BY DEF RentalLineEvent, EventType, Lifestyle, NonSpend
    <3> QED BY <3>1, <3>2 DEF LineEvent
  <2> QED BY <2>2, <2>3, <2>4 DEF Split
<1>7. ss \in [1 .. Len(doc.lines) -> Split]
  <2>1. ss = [n \in 1 .. Len(doc.lines) |-> ss[n]]
    BY <1>5
  <2> HIDE DEF ss
  <2> QED BY <1>5, <1>6, <2>1
<1>8. r \in Row /\ r.splits = ss
  <2> HIDE DEF ss, r
  <2>1. ss \in Seq(Split)
    BY <1>5, <1>7
  <2> QED BY <1>3, <1>4, <2>1 DEF Row
<1>9. \A n \in DOMAIN ss : ss[n].doc
  OBVIOUS
<1>10. ss = << >> \/ \E n \in DOMAIN ss : ss[n].doc
  <2> HIDE DEF ss
  <2>1. CASE 1 \in DOMAIN ss
    BY <1>9, <2>1
  <2>2. CASE 1 \notin DOMAIN ss
    <3>1. Len(doc.lines) = 0
      BY <1>5, <1>7, <2>2
    <3> QED BY <1>7, <3>1
  <2> QED BY <2>1, <2>2
<1> HIDE DEF ss, r
<1>11. Sound(r)
  BY <1>8, <1>10 DEF Sound, IsFromDocument
<1> QED BY <1>8, <1>11 DEF r

-----------------------------------------------------------------------------
(* Rules *)

RulesGood(rs) == rs \subseteq Rule /\ \A r, s \in rs : r.pat = s.pat => r = s

\* Every pattern that had a rule has one.
Keeps(rs, qs) == \A r \in rs : \E s \in qs : s.pat = r.pat

\* A hit changes the count of a rule and nothing else of it.
LEMMA HitCounts ==
  ASSUME NEW r \in Rule, NEW n \in Nat
  PROVE  /\ Hit(r, n) \in Rule /\ Hit(r, n).pat = r.pat
         /\ \A c \in Cats : [Hit(r, n) EXCEPT !.cat = c, !.src = "user"] \in Rule
         /\ \A c : [Hit(r, n) EXCEPT !.cat = c, !.src = "user"].pat = r.pat
<1> DEFINE k == IF r.hits + n > MaxHits THEN MaxHits ELSE r.hits + n
<1>1. k \in 1 .. MaxHits
  BY PatternAssumption DEF Rule
<1>2. Hit(r, n) = [r EXCEPT !.hits = k]
  BY DEF Hit
<1> HIDE DEF k
<1>3. Hit(r, n) \in Rule /\ Hit(r, n).pat = r.pat
  BY <1>1, <1>2 DEF Rule
<1>4. ASSUME NEW c PROVE [Hit(r, n) EXCEPT !.cat = c, !.src = "user"].pat = r.pat
  BY <1>3 DEF Rule
<1>5. ASSUME NEW c \in Cats PROVE [Hit(r, n) EXCEPT !.cat = c, !.src = "user"] \in Rule
  BY <1>3 DEF Rule
<1> QED BY <1>3, <1>4, <1>5

\* A correction leaves one rule under its pattern and the others as they were.
LEMMA LearnedKeeps ==
  ASSUME NEW rs, RulesGood(rs), NEW d \in Descs, NEW c \in Cats, NEW qs \in Learned(rs, d, c)
  PROVE  RulesGood(qs) /\ Keeps(rs, qs)
<1> DEFINE same == {r \in rs : r.pat = Core[d]}
           made == [pat |-> Core[d], cat |-> c, src |-> "user", hits |-> 1]
<1>1. CASE Core[d] = Blank
  <2>1. qs = rs
    BY <1>1 DEF Learned
  <2> QED BY <2>1 DEF Keeps
<1>2. CASE Core[d] # Blank /\ same = {}
  <2>1. qs = rs \cup {made}
    BY <1>2 DEF Learned
  <2>2. made \in Rule /\ made.pat = Core[d]
    BY <1>2, PatternAssumption DEF Rule
  <2>3. \A r \in rs : r.pat # Core[d]
    BY <1>2
  <2> HIDE DEF made
  <2> QED BY <2>1, <2>2, <2>3 DEF RulesGood, Keeps
<1>3. CASE Core[d] # Blank /\ same # {}
  <2>1. PICK r \in Strongest(same) :
          qs = (rs \ same) \cup {[Hit(r, 1) EXCEPT !.cat = c, !.src = "user"]}
    BY <1>3 DEF Learned
  <2>2. r \in rs /\ r \in Rule /\ r.pat = Core[d]
    BY DEF Strongest, RulesGood
  <2> DEFINE new == [Hit(r, 1) EXCEPT !.cat = c, !.src = "user"]
  <2>3. new \in Rule /\ new.pat = Core[d]
    BY <2>2, HitCounts
  <2>4. qs = (rs \ same) \cup {new}
    BY <2>1
  <2> HIDE DEF new
  <2>5. \A q \in rs \ same : q.pat # Core[d]
    OBVIOUS
  <2>6. \A q \in same : q.pat = Core[d]
    OBVIOUS
  <2> HIDE DEF same
  <2>7. RulesGood(qs)
    BY <2>3, <2>4, <2>5 DEF RulesGood
  <2>8. Keeps(rs, qs)
    BY <2>3, <2>4, <2>6 DEF Keeps
  <2> QED BY <2>7, <2>8
<1> QED BY <1>1, <1>2, <1>3

\* Answers add rules, under wordings that had none.
LEMMA NewRulesKeep ==
  ASSUME NEW rs, RulesGood(rs), NEW asked, asked \subseteq Descs,
         NEW answers \in [asked -> Cats \cup {Null}]
  PROVE  RulesGood(rs \cup New(rs, asked, answers))
<1>1. ASSUME NEW q \in New(rs, asked, answers)
      PROVE  q \in Rule /\ (\A r \in rs : r.pat # q.pat) /\ q = AnswerRule(q.pat, answers[q.pat])
  <2>1. PICK d \in asked : /\ answers[d] # Null /\ q = AnswerRule(d, answers[d])
                           /\ ~ \E r \in rs : r.pat = d
    BY <1>1 DEF New
  <2>2. d \in Patterns /\ answers[d] \in Cats /\ 1 \in 1 .. MaxHits
    BY <2>1, PatternAssumption
  <2> QED BY <2>1, <2>2 DEF AnswerRule, Rule
<1> QED BY <1>1 DEF RulesGood

\* A wording that had a rule to go by has one still.
LEMMA StillCoveredByKept ==
  ASSUME NEW rs, NEW qs, Keeps(rs, qs), NEW d, Covering(rs, d) # {}
  PROVE  Covering(qs, d) # {}
BY DEF Keeps, Covering, Covers

-----------------------------------------------------------------------------
(* The invariant: the rows are allocated in full, a deleted row keeps no   *)
(* splits, a pattern has one rule, what the model has answered is covered, *)
(* and what a run asks about are wordings.                                 *)

BinGood == DOMAIN bin \subseteq RowIds /\ \A i \in DOMAIN bin : bin[i] \in Row /\ bin[i].splits = << >>

ImportGood ==
  import \in [step : {"none", "classify", "split", "categorise"}, ids : SUBSET RowIds]

LedgerInv == RowsGood(rows) /\ BinGood /\ ImportGood /\ early \subseteq RowIds

AnswersCovered == answered \subseteq Descs /\ \A d \in answered : Covering(rules, d) # {}

RulesInv == cats \subseteq Cats /\ RulesGood(rules) /\ AnswersCovered

JobInv ==
  /\ DOMAIN job.asking \cup DOMAIN job.held \subseteq RowIds /\ job.offered \subseteq Cats
  /\ \A i \in DOMAIN job.asking : job.asking[i] \in Descs

CatInv == LedgerInv /\ RulesInv /\ JobInv

\* The invariant has the properties the run checks in it.
LEMMA InvShows == CatInv => TypeOK /\ SplitsAddUp /\ AskedOnce
<1> SUFFICES ASSUME CatInv PROVE TypeOK /\ SplitsAddUp /\ AskedOnce
  OBVIOUS
<1>1. SplitTypeOK
  BY DEF CatInv, LedgerInv, RowsGood, BinGood, ImportGood, SplitTypeOK
<1>2. OneRulePerPattern
  BY DEF CatInv, RulesInv, RulesGood, OneRulePerPattern
<1>3. TypeOK
  BY <1>1, <1>2 DEF CatInv, RulesInv, RulesGood, AnswersCovered, JobInv, TypeOK
<1>4. SplitsAddUp
  BY DEF CatInv, LedgerInv, RowsGood, Sound, SplitsAddUp
<1>5. AskedOnce
  BY DEF CatInv, RulesInv, AnswersCovered, AskedOnce
<1> QED BY <1>3, <1>4, <1>5

LEMMA InitGood == Init => CatInv
<1> SUFFICES ASSUME Init PROVE CatInv
  OBVIOUS
<1>1. LedgerInv
  <2>1. DOMAIN rows = {} /\ DOMAIN bin = {} /\ import = NoImport /\ early = {}
    BY DEF Init, SplitInit
  <2> QED BY <2>1 DEF LedgerInv, RowsGood, BinGood, ImportGood, NoImport
<1>2. RulesInv
  BY DEF Init, RulesInv, RulesGood, AnswersCovered
<1>3. JobInv
  BY DEF Init, JobInv, Idle
<1> QED BY <1>1, <1>2, <1>3 DEF CatInv

\* One row more, one fewer, one another.
LEMMA RowPut ==
  ASSUME NEW rs, RowsGood(rs), NEW i \in RowIds, NEW row, row \in Row, Sound(row)
  PROVE  RowsGood(With(rs, i, row)) /\ RowsGood([rs EXCEPT ![i] = row])
BY DEF RowsGood, With

LEMMA RowsMapped ==
  ASSUME NEW rs, RowsGood(rs), NEW qs, DOMAIN qs = DOMAIN rs,
         \A i \in DOMAIN rs : qs[i] \in Row /\ Sound(qs[i])
  PROVE  RowsGood(qs)
BY DEF RowsGood

\* What the user does to one row.
LEMMA RowOperationKeeps ==
  ASSUME LedgerInv, cats \subseteq Cats, RowOperation
  PROVE  LedgerInv'
<1>0. RowsGood(rows) /\ BinGood /\ ImportGood /\ early \subseteq RowIds
  BY DEF LedgerInv
<1>1. ASSUME NEW i \in RowIds, NEW d \in Descs, NEW amt \in Amounts, ImportRow(i, d, amt)
      PROVE  LedgerInv'
  <2>1. amt \in Int /\ Unclassified \in EventType
    BY WordingAssumption DEF EventType, Lifestyle
  <2>2. NewRow(d, amt, FALSE, Null, Unclassified) \in Row
        /\ Sound(NewRow(d, amt, FALSE, Null, Unclassified))
    BY <2>1, NewRowIsSound
  <2>3. RowsGood(rows')
    BY <1>0, <1>1, <2>2, RowPut DEF ImportRow
  <2>4. BinGood' /\ early' \subseteq RowIds
    BY <1>0, <1>1 DEF ImportRow, BinGood
  <2>5. ImportGood'
    BY <1>1 DEF ImportRow, ImportGood
  <2> QED BY <2>3, <2>4, <2>5 DEF LedgerInv
<1>2. ASSUME NEW i \in RowIds, NEW d \in Descs, NEW amt \in Amounts, NEW c \in cats \cup {Null},
             NEW t \in BOOLEAN, CreateRow(i, d, amt, t, c)
      PROVE  LedgerInv'
  <2>1. amt \in Int /\ Unclassified \in EventType /\ c \in Cats \cup {Null}
    BY WordingAssumption DEF EventType, Lifestyle
  <2>2. NewRow(d, amt, t, c, Unclassified) \in Row /\ Sound(NewRow(d, amt, t, c, Unclassified))
    BY <2>1, NewRowIsSound
  <2>3. RowsGood(rows')
    BY <1>0, <1>2, <2>2, RowPut DEF CreateRow
  <2>4. BinGood' /\ early' \subseteq RowIds /\ ImportGood'
    BY <1>0, <1>2 DEF CreateRow, BinGood, ImportGood
  <2> QED BY <2>3, <2>4 DEF LedgerInv
<1>3. ASSUME NEW i \in DOMAIN rows, NEW t \in BOOLEAN, SetTransfer(i, t)
      PROVE  LedgerInv'
  <2>1. rows[i] \in Row /\ Sound(rows[i]) /\ i \in RowIds
    BY <1>0 DEF RowsGood
  <2>2. [rows[i] EXCEPT !.transfer = t] \in Row /\ Sound([rows[i] EXCEPT !.transfer = t])
    BY <2>1, Relabelled
  <2>3. rows' = [rows EXCEPT ![i] = [rows[i] EXCEPT !.transfer = t]]
    BY <1>3 DEF SetTransfer
  <2>4. RowsGood(rows')
    BY <1>0, <2>1, <2>2, <2>3, RowPut
  <2>5. BinGood' /\ early' \subseteq RowIds /\ ImportGood'
    BY <1>0, <1>3 DEF SetTransfer, BinGood, ImportGood
  <2> QED BY <2>4, <2>5 DEF LedgerInv
<1>4. ASSUME NEW i \in DOMAIN rows, DeleteRow(i)
      PROVE  LedgerInv'
  <2>1. rows[i] \in Row /\ i \in RowIds /\ << >> \in Seq(Split)
    BY <1>0 DEF RowsGood
  <2> DEFINE kept == [rows[i] EXCEPT !.splits = << >>]
  <2>2. kept \in Row /\ kept.splits = << >>
    BY <2>1 DEF Row
  <2>3. bin' = With(bin, i, kept) /\ rows' = Without(rows, {i}) /\ early' = early \ {i}
        /\ UNCHANGED import
    BY <1>4 DEF DeleteRow
  <2> HIDE DEF kept
  <2>4. BinGood'
    BY <1>0, <2>1, <2>2, <2>3 DEF BinGood, With
  <2>5. RowsGood(rows')
    BY <1>0, <2>3 DEF RowsGood, Without
  <2>6. early' \subseteq RowIds /\ ImportGood'
    BY <1>0, <2>3 DEF ImportGood
  <2> QED BY <2>4, <2>5, <2>6 DEF LedgerInv
<1>5. ASSUME NEW i \in DOMAIN bin, Recover(i)
      PROVE  LedgerInv'
  <2>1. bin[i] \in Row /\ bin[i].splits = << >> /\ i \in RowIds
    BY <1>0 DEF BinGood
  <2>2. Sound(bin[i])
    BY <2>1 DEF Sound
  <2>3. rows' = With(rows, i, bin[i]) /\ bin' = Without(bin, {i}) /\ UNCHANGED <<import, early>>
    BY <1>5 DEF Recover, RecoverRow
  <2>4. RowsGood(rows')
    BY <1>0, <2>1, <2>2, <2>3, RowPut
  <2>5. BinGood'
    BY <1>0, <2>3 DEF BinGood, Without
  <2>6. early' \subseteq RowIds /\ ImportGood'
    BY <1>0, <2>3 DEF ImportGood
  <2> QED BY <2>4, <2>5, <2>6 DEF LedgerInv
<1>6. ASSUME NEW i \in RowIds, NEW doc \in Documents, ApplyDocument(i, doc)
      PROVE  LedgerInv'
  <2>1. DocumentRow(doc) \in Row /\ Sound(DocumentRow(doc))
    BY DocumentIsSound
  <2>2. rows' = With(rows, i, DocumentRow(doc)) /\ UNCHANGED <<bin, import, early>>
    BY <1>6 DEF ApplyDocument
  <2>3. RowsGood(rows')
    BY <1>0, <2>1, <2>2, RowPut
  <2>4. BinGood' /\ early' \subseteq RowIds /\ ImportGood'
    BY <1>0, <2>2 DEF BinGood, ImportGood
  <2> QED BY <2>3, <2>4 DEF LedgerInv
<1>7. ASSUME ImportNothing
      PROVE  LedgerInv'
  <2>1. RowsGood(rows') /\ BinGood' /\ early' \subseteq RowIds
    BY <1>0, <1>7 DEF ImportNothing, BinGood
  <2>2. ImportGood'
    BY <1>7 DEF ImportNothing, ImportGood
  <2> QED BY <2>1, <2>2 DEF LedgerInv
<1> QED BY <1>1, <1>2, <1>3, <1>4, <1>5, <1>6, <1>7 DEF RowOperation

\* What the import does to its rows after they are committed.
LEMMA ImportStepKeeps ==
  ASSUME LedgerInv, ClassifyImported \/ SplitImported \/ ClassificationFails
  PROVE  LedgerInv'
<1>0. RowsGood(rows) /\ BinGood /\ ImportGood /\ early \subseteq RowIds
  BY DEF LedgerInv
<1>1. \A i \in DOMAIN rows : rows[i] \in Row /\ Sound(rows[i])
  BY <1>0 DEF RowsGood
<1>2. CASE ClassifyImported
  <2>1. \A i \in DOMAIN rows : Classified(rows[i]) \in Row /\ Sound(Classified(rows[i]))
    BY <1>1, ClassifiedIsSound
  <2>2. DOMAIN rows' = DOMAIN rows /\ \A i \in DOMAIN rows : rows'[i] \in Row /\ Sound(rows'[i])
    BY <1>1, <1>2, <2>1 DEF ClassifyImported
  <2>3. RowsGood(rows')
    BY <1>0, <2>2, RowsMapped
  <2>4. BinGood' /\ early' \subseteq RowIds /\ ImportGood'
    BY <1>0, <1>2 DEF ClassifyImported, BinGood, ImportGood
  <2> QED BY <2>3, <2>4 DEF LedgerInv
<1>3. CASE SplitImported
  <2>1. \A i \in DOMAIN rows :
          /\ [rows[i] EXCEPT !.splits = << PassThrough(rows[i]) >>] \in Row
          /\ Sound([rows[i] EXCEPT !.splits = << PassThrough(rows[i]) >>])
    BY <1>1, PassThroughIsSound
  <2>2. DOMAIN rows' = DOMAIN rows /\ \A i \in DOMAIN rows : rows'[i] \in Row /\ Sound(rows'[i])
    BY <1>1, <1>3, <2>1 DEF SplitImported
  <2>3. RowsGood(rows')
    BY <1>0, <2>2, RowsMapped
  <2>4. BinGood' /\ early' \subseteq RowIds /\ ImportGood'
    BY <1>0, <1>3 DEF SplitImported, BinGood, ImportGood
  <2> QED BY <2>3, <2>4 DEF LedgerInv
<1>4. CASE ClassificationFails
  <2>1. RowsGood(rows') /\ BinGood' /\ early' \subseteq RowIds /\ ImportGood'
    BY <1>0, <1>4 DEF ClassificationFails, BinGood, ImportGood
  <2> QED BY <2>1 DEF LedgerInv
<1> QED BY <1>2, <1>3, <1>4

\* Rows given categories that exist, by whoever places them.
LEMMA RowsPlaced ==
  ASSUME LedgerInv, UNCHANGED <<bin, early>>, ImportGood', DOMAIN rows' = DOMAIN rows,
         \A i \in DOMAIN rows :
           rows'[i] = rows[i] \/ \E c \in Cats \cup {Null} : rows'[i] = [rows[i] EXCEPT !.cat = c]
  PROVE  LedgerInv'
<1>1. RowsGood(rows) /\ BinGood /\ early \subseteq RowIds
  BY DEF LedgerInv
<1>2. ASSUME NEW i \in DOMAIN rows PROVE rows'[i] \in Row /\ Sound(rows'[i])
  <2>1. rows[i] \in Row /\ Sound(rows[i])
    BY <1>1 DEF RowsGood
  <2>2. \A c \in Cats \cup {Null} :
          [rows[i] EXCEPT !.cat = c] \in Row /\ Sound([rows[i] EXCEPT !.cat = c])
    BY <2>1, Relabelled
  <2>3. CASE rows'[i] = rows[i]
    BY <2>1, <2>3
  <2>4. CASE \E c \in Cats \cup {Null} : rows'[i] = [rows[i] EXCEPT !.cat = c]
    BY <2>2, <2>4
  <2> QED BY <2>3, <2>4
<1>3. RowsGood(rows')
  BY <1>1, <1>2, RowsMapped
<1>4. BinGood' /\ early' \subseteq RowIds
  BY <1>1 DEF BinGood
<1> QED BY <1>3, <1>4 DEF LedgerInv

\* Rules that keep every pattern leave the answers covered.
LEMMA RulesReplaced ==
  ASSUME RulesInv, UNCHANGED <<cats, answered>>, RulesGood(rules'), Keeps(rules, rules')
  PROVE  RulesInv'
<1>1. ASSUME NEW d \in answered PROVE Covering(rules', d) # {}
  <2>1. Covering(rules, d) # {}
    BY DEF RulesInv, AnswersCovered
  <2> QED BY <2>1, StillCoveredByKept
<1>2. AnswersCovered'
  BY <1>1 DEF RulesInv, AnswersCovered
<1> QED BY <1>2 DEF RulesInv

\* The cheap tiers place rows, count hits, and keep what is left to ask.
LEMMA StartKeeps ==
  ASSUME CatInv, NEW ids, ids \subseteq DOMAIN rows, StartRun(ids)
  PROVE  CatInv'
<1> DEFINE todo == Uncategorised(ids)
           ruled == {i \in todo : Covering(rules, rows[i].desc) # {}}
           worded == {i \in todo \ ruled : ByKeyword(rows[i]) # Null}
           rest == todo \ (ruled \cup worded)
<1>1. PICK win \in [ruled -> rules], saved \in SUBSET worded :
        /\ rows' = [i \in DOMAIN rows |->
                     IF i \in ruled THEN [rows[i] EXCEPT !.cat = win[i].cat]
                     ELSE IF i \in saved THEN [rows[i] EXCEPT !.cat = ByKeyword(rows[i])]
                     ELSE rows[i]]
        /\ rules' = {Hit(r, Cardinality({i \in ruled : win[i] = r})) : r \in rules}
        /\ job' = IF rest = {} THEN Idle
                  ELSE [asking |-> [i \in rest |-> rows[i].desc],
                        held |-> [i \in worded \ saved |-> ByKeyword(rows[i])],
                        offered |-> cats, on |-> TRUE]
  BY DEF StartRun
<1>2. import' = NoImport /\ UNCHANGED <<bin, early, cats, answered>>
  BY DEF StartRun
<1>3. todo \subseteq DOMAIN rows
  BY DEF Uncategorised, Chosen
<1>4. cats \subseteq Cats /\ rules \subseteq Rule /\ DOMAIN rows \subseteq RowIds
  BY DEF CatInv, LedgerInv, RowsGood, RulesInv, RulesGood
<1>5. LedgerInv'
  <2>1. ASSUME NEW i \in DOMAIN rows
        PROVE  rows'[i] = rows[i]
               \/ \E c \in Cats \cup {Null} : rows'[i] = [rows[i] EXCEPT !.cat = c]
    <3>1. CASE i \in ruled
      <4>1. win[i] \in Rule
        BY <1>4, <3>1
      <4>2. win[i].cat \in Cats
        BY <4>1 DEF Rule
      <4>3. rows'[i] = [rows[i] EXCEPT !.cat = win[i].cat]
        BY <1>1, <3>1
      <4> QED BY <4>2, <4>3
    <3>2. CASE i \notin ruled /\ i \in saved
      <4>1. ByKeyword(rows[i]) \in Cats \cup {Null}
        BY <1>4 DEF ByKeyword
      <4>2. rows'[i] = [rows[i] EXCEPT !.cat = ByKeyword(rows[i])]
        BY <1>1, <3>2
      <4> QED BY <4>1, <4>2
    <3>3. CASE i \notin ruled /\ i \notin saved
      BY <1>1, <3>3
    <3> QED BY <3>1, <3>2, <3>3
  <2>2. DOMAIN rows' = DOMAIN rows
    BY <1>1
  <2>3. ImportGood'
    BY <1>2 DEF ImportGood, NoImport
  <2> HIDE DEF todo
  <2>4. LedgerInv
    BY DEF CatInv
  <2> QED BY <1>2, <2>1, <2>2, <2>3, <2>4, RowsPlaced
<1>6. RulesInv'
  <2>1. ASSUME NEW r \in rules
        PROVE  /\ Hit(r, Cardinality({i \in ruled : win[i] = r})) \in Rule
               /\ Hit(r, Cardinality({i \in ruled : win[i] = r})).pat = r.pat
    <3> DEFINE mine == {i \in ruled : win[i] = r}
    <3>1. IsFiniteSet(RowIds) /\ mine \subseteq RowIds
      BY <1>3, <1>4, WordingAssumption
    <3> HIDE DEF mine
    <3>2. Cardinality(mine) \in Nat
      BY <3>1, FS_Subset, FS_CardinalityType
    <3>3. r \in Rule
      BY <1>4
    <3>4. Hit(r, Cardinality(mine)) \in Rule /\ Hit(r, Cardinality(mine)).pat = r.pat
      BY <3>2, <3>3, HitCounts
    <3> QED BY <3>4 DEF mine
  <2> HIDE DEF ruled
  <2> DEFINE H(r) == Hit(r, Cardinality({i \in ruled : win[i] = r}))
  <2>2. rules' = {H(r) : r \in rules} /\ \A r \in rules : H(r) \in Rule /\ H(r).pat = r.pat
    BY <1>1, <2>1
  <2> HIDE DEF H
  <2>3. RulesGood(rules)
    BY DEF CatInv, RulesInv
  <2>4. RulesGood(rules')
    BY <2>2, <2>3 DEF RulesGood
  <2>5. Keeps(rules, rules')
    BY <2>2 DEF Keeps
  <2>6. RulesInv
    BY DEF CatInv
  <2> QED BY <1>2, <2>4, <2>5, <2>6, RulesReplaced
<1>7. JobInv'
  <2>1. CASE rest = {}
    <3>1. job' = Idle
      BY <1>1, <2>1
    <3> QED BY <3>1 DEF JobInv, Idle
  <2>2. CASE rest # {}
    <3>1. /\ job'.asking = [i \in rest |-> rows[i].desc]
          /\ job'.held = [i \in worded \ saved |-> ByKeyword(rows[i])] /\ job'.offered = cats
      BY <1>1, <2>2
    <3>2. rest \subseteq DOMAIN rows /\ worded \subseteq DOMAIN rows
      BY <1>3
    <3>3. \A i \in DOMAIN rows : rows[i].desc \in Descs
      BY DEF CatInv, LedgerInv, RowsGood, Row
    <3> HIDE DEF rest, worded
    <3> QED BY <1>4, <3>1, <3>2, <3>3 DEF JobInv
  <2> QED BY <2>1, <2>2
<1> QED BY <1>5, <1>6, <1>7 DEF CatInv

\* The wordings a run asks about are finitely many.
LEMMA AskedIsFinite == ASSUME JobInv PROVE IsFiniteSet(Asked) /\ Asked \subseteq Descs
<1>1. IsFiniteSet(RowIds) /\ DOMAIN job.asking \subseteq RowIds
  BY WordingAssumption DEF JobInv
<1>2. IsFiniteSet(DOMAIN job.asking)
  BY <1>1, FS_Subset
<1>3. IsFiniteSet({job.asking[i] : i \in DOMAIN job.asking})
  <2> DEFINE S == DOMAIN job.asking  n == job.asking
  <2>1. IsFiniteSet(S)
    BY <1>2
  <2> HIDE DEF S, n
  <2>2. IsFiniteSet({n[i] : i \in S})
    BY <2>1, FiniteImage
  <2> QED BY <2>2 DEF S, n
<1> QED BY <1>3 DEF JobInv, Asked

\* What a run leaves of the rules: those there were, and the answers.
LEMMA FinishLearns ==
  ASSUME CatInv, NEW answers \in [Asked -> job.offered \cup {Null}]
  PROVE  /\ AllLearned(rules, answers) = rules \cup New(rules, Asked, answers)
         /\ RulesGood(rules \cup New(rules, Asked, answers))
<1>1. IsFiniteSet(Asked) /\ Asked \subseteq Descs /\ DOMAIN answers = Asked
  BY AskedIsFinite DEF CatInv
<1>2. AllLearned(rules, answers) = rules \cup New(rules, DOMAIN answers, answers)
  BY <1>1, AllLearnedIs
<1>3. answers \in [Asked -> Cats \cup {Null}]
  BY DEF CatInv, JobInv
<1>4. RulesGood(rules)
  BY DEF CatInv, RulesInv
<1>5. RulesGood(rules \cup New(rules, Asked, answers))
  BY <1>1, <1>3, <1>4, NewRulesKeep
<1> QED BY <1>1, <1>2, <1>5

\* A run ends: its rows are placed and its answers learned, or nothing is.
LEMMA FinishKeeps == ASSUME CatInv, FinishRun PROVE CatInv'
<1>1. PICK answers \in [Asked -> job.offered \cup {Null}] :
        \/ /\ \A i \in DOMAIN Placed(answers) : Placed(answers)[i] \in cats
           /\ rows' = [i \in DOMAIN rows |-> IF i \in DOMAIN Placed(answers)
                          THEN [rows[i] EXCEPT !.cat = Placed(answers)[i]] ELSE rows[i]]
           /\ rules' = AllLearned(rules, answers)
           /\ answered' = answered \cup {d \in Asked \ Wordless : answers[d] # Null}
        \/ UNCHANGED <<rows, rules, answered>>
  BY DEF FinishRun
<1>2. job' = Idle /\ UNCHANGED <<bin, import, early, cats>>
  BY DEF FinishRun
<1>3. JobInv'
  BY <1>2 DEF JobInv, Idle
<1>4. LedgerInv /\ RulesInv /\ cats \subseteq Cats
  BY DEF CatInv, RulesInv
<1>5. ImportGood'
  BY <1>2, <1>4 DEF LedgerInv, ImportGood
<1>6. LedgerInv'
  <2>1. DOMAIN rows' = DOMAIN rows
    BY <1>1
  <2>2. \A i \in DOMAIN rows :
          rows'[i] = rows[i] \/ \E c \in Cats \cup {Null} : rows'[i] = [rows[i] EXCEPT !.cat = c]
    BY <1>1, <1>4
  <2> QED BY <1>2, <1>4, <1>5, <2>1, <2>2, RowsPlaced
<1>7. RulesInv'
  <2>1. CASE UNCHANGED <<rows, rules, answered>>
    BY <1>2, <1>4, <2>1 DEF RulesInv, RulesGood, AnswersCovered
  <2>2. CASE /\ rules' = AllLearned(rules, answers)
             /\ answered' = answered \cup {d \in Asked \ Wordless : answers[d] # Null}
    <3>1. rules' = rules \cup New(rules, Asked, answers) /\ RulesGood(rules')
      BY <2>2, FinishLearns
    <3>2. ASSUME NEW d \in answered PROVE Covering(rules', d) # {}
      BY <1>4, <3>1 DEF RulesInv, AnswersCovered, Covering
    <3>3. ASSUME NEW d \in Asked \ Wordless, answers[d] # Null PROVE Covering(rules', d) # {}
      <4>1. \E r \in rules' : r.pat = d
        <5>1. CASE \E r \in rules : r.pat = d
          BY <3>1, <5>1
        <5>2. CASE ~ \E r \in rules : r.pat = d
          <6>1. AnswerRule(d, answers[d]) \in New(rules, Asked, answers)
            BY <3>3, <5>2 DEF New
          <6>2. AnswerRule(d, answers[d]).pat = d
            BY DEF AnswerRule
          <6> QED BY <3>1, <6>1, <6>2
        <5> QED BY <5>1, <5>2
      <4>2. d \in Descs
        BY AskedIsFinite DEF CatInv
      <4>3. d \in PartOf[d]
        BY <4>2, PatternAssumption
      <4> QED BY <4>1, <4>3 DEF Covering, Covers
    <3>4. answered' \subseteq Descs
      BY <1>4, <2>2, AskedIsFinite DEF CatInv, RulesInv, AnswersCovered
    <3> QED BY <1>2, <1>4, <2>2, <3>1, <3>2, <3>3, <3>4 DEF RulesInv, AnswersCovered
  <2> QED BY <1>1, <2>1, <2>2
<1> QED BY <1>3, <1>6, <1>7 DEF CatInv

\* What the user does to categories and rules, and to rows through them.
LEMMA CategoryStepKeeps ==
  ASSUME CatInv,
         \/ \E i \in DOMAIN rows, amt \in Amounts, c \in cats \cup {Null}, t \in BOOLEAN :
              \E lines \in Layouts(amt, {c}, Offs) : EditForm(i, amt, c, t, lines)
         \/ \E i \in DOMAIN rows, c \in cats : CorrectRow(i, c)
         \/ \E i \in DOMAIN rows : Suggest(i)
         \/ \E c \in Cats : category_add(c) \/ category_delete(c)
         \/ \E r \in rules : rule_delete(r)
  PROVE  CatInv' /\ UNCHANGED job
<1>0. /\ RowsGood(rows) /\ BinGood /\ ImportGood /\ early \subseteq RowIds
      /\ cats \subseteq Cats /\ RulesGood(rules) /\ LedgerInv /\ RulesInv
      /\ answered \subseteq Descs
  BY DEF CatInv, LedgerInv, RulesInv, AnswersCovered
<1>1. ASSUME UNCHANGED job, LedgerInv', RulesInv' PROVE CatInv'
  BY <1>1 DEF CatInv, JobInv
<1>2. Keeps(rules, rules)
  BY DEF Keeps
<1>3. \A i \in DOMAIN rows : rows[i].desc \in Descs
  BY <1>0 DEF RowsGood, Row
<1>4. ASSUME NEW i \in DOMAIN rows, NEW amt \in Amounts, NEW c \in cats \cup {Null},
             NEW t \in BOOLEAN, NEW lines \in Layouts(amt, {c}, Offs),
             EditForm(i, amt, c, t, lines)
      PROVE  CatInv' /\ UNCHANGED job
  <2> DEFINE new == Cascaded(Edited(rows[i], amt, c, t, lines), rows[i].event)
  <2>1. /\ Accepted(rows[i], amt, c, t, lines) /\ rows' = [rows EXCEPT ![i] = new]
        /\ early' = (IF rows[i].event = Unclassified THEN early \cup {i} ELSE early)
        /\ UNCHANGED <<bin, import, cats, job, answered>>
        /\ IF c # Null /\ c # rows[i].cat THEN rules' \in Learned(rules, rows[i].desc, c)
           ELSE UNCHANGED rules
    BY <1>4 DEF EditForm, EditRow
  <2>2. amt \in Int /\ c \in Cats \cup {Null} /\ rows[i] \in Row /\ i \in RowIds
    BY <1>0, WordingAssumption DEF RowsGood
  <2>3. new \in Row /\ Sound(new)
    BY <2>1, <2>2, EditedIsSound
  <2> HIDE DEF new
  <2>4. RowsGood(rows')
    BY <1>0, <2>1, <2>2, <2>3, RowPut
  <2>5. LedgerInv'
    BY <1>0, <2>1, <2>2, <2>4 DEF LedgerInv, BinGood, ImportGood
  <2>6. RulesGood(rules') /\ Keeps(rules, rules')
    <3>1. CASE c # Null /\ c # rows[i].cat
      <4>1. c \in Cats /\ rows[i].desc \in Descs /\ rules' \in Learned(rules, rows[i].desc, c)
        BY <1>3, <2>1, <2>2, <3>1
      <4> QED BY <1>0, <4>1, LearnedKeeps
    <3>2. CASE ~(c # Null /\ c # rows[i].cat)
      BY <1>0, <1>2, <2>1, <3>2
    <3> QED BY <3>1, <3>2
  <2>7. RulesInv'
    BY <1>0, <2>1, <2>6, RulesReplaced
  <2> QED BY <1>1, <2>1, <2>5, <2>7
<1>5. ASSUME NEW i \in DOMAIN rows, NEW c \in cats, CorrectRow(i, c)
      PROVE  CatInv' /\ UNCHANGED job
  <2>1. /\ \/ rows' = [rows EXCEPT ![i].cat = c]
           \/ rows' = Rewritten(rows, rows[i].desc, c)
        /\ rules' \in Learned(rules, rows[i].desc, c)
        /\ UNCHANGED <<bin, import, early, cats, job, answered>>
    BY <1>5 DEF CorrectRow
  <2>2. c \in Cats /\ rows[i].desc \in Descs
    BY <1>0, <1>3
  <2>3. DOMAIN rows' = DOMAIN rows /\ \A j \in DOMAIN rows :
          rows'[j] = rows[j] \/ \E k \in Cats \cup {Null} : rows'[j] = [rows[j] EXCEPT !.cat = k]
    BY <2>1, <2>2 DEF Rewritten
  <2>4. ImportGood'
    BY <1>0, <2>1 DEF ImportGood
  <2>5. LedgerInv'
    BY <1>0, <2>1, <2>3, <2>4, RowsPlaced
  <2>6. RulesGood(rules') /\ Keeps(rules, rules')
    BY <1>0, <2>1, <2>2, LearnedKeeps
  <2>7. RulesInv'
    BY <1>0, <2>1, <2>6, RulesReplaced
  <2> QED BY <1>1, <2>1, <2>5, <2>7
<1>6. ASSUME NEW i \in DOMAIN rows, Suggest(i)
      PROVE  CatInv' /\ UNCHANGED job
  <2>1. PICK r \in Strongest(Covering(rules, rows[i].desc)) :
          rules' = (rules \ {r}) \cup {Hit(r, 1)}
    BY <1>6 DEF Suggest
  <2>2. r \in rules /\ r \in Rule
    BY <1>0 DEF Strongest, Covering, RulesGood
  <2>3. Hit(r, 1) \in Rule /\ Hit(r, 1).pat = r.pat
    BY <2>2, HitCounts
  <2>4. RulesGood(rules') /\ Keeps(rules, rules')
    <3> DEFINE h == Hit(r, 1)
    <3>1. rules' = (rules \ {r}) \cup {h} /\ h \in Rule /\ h.pat = r.pat
      BY <2>1, <2>3
    <3> HIDE DEF h
    <3> QED BY <1>0, <2>2, <3>1 DEF RulesGood, Keeps
  <2>5. UNCHANGED <<splitVars, cats, job, answered>>
    BY <1>6 DEF Suggest
  <2>6. RulesInv'
    BY <1>0, <2>4, <2>5, RulesReplaced
  <2>7. LedgerInv'
    BY <1>0, <2>5 DEF splitVars, LedgerInv, RowsGood, BinGood, ImportGood
  <2> QED BY <1>1, <2>5, <2>6, <2>7
<1>7. ASSUME NEW c \in Cats, category_add(c)
      PROVE  CatInv' /\ UNCHANGED job
  <2>1. cats' = cats \cup {c} /\ UNCHANGED <<splitVars, rules, job, answered>>
    BY <1>7 DEF category_add
  <2>2. RulesInv'
    BY <1>0, <2>1 DEF RulesInv, RulesGood, AnswersCovered
  <2>3. LedgerInv'
    BY <1>0, <2>1 DEF splitVars, LedgerInv, RowsGood, BinGood, ImportGood
  <2> QED BY <1>1, <2>1, <2>2, <2>3
<1>8. ASSUME NEW c \in Cats, category_delete(c)
      PROVE  CatInv' /\ UNCHANGED job
  <2>1. /\ cats' = cats \ {c} /\ rules' = {r \in rules : r.cat # c}
        /\ rows' = [i \in DOMAIN rows |-> IF rows[i].cat = c THEN [rows[i] EXCEPT !.cat = Null]
                                          ELSE rows[i]]
        /\ answered' = StillCovered(rules') /\ UNCHANGED <<bin, import, early, job>>
    BY <1>8 DEF category_delete
  <2>2. DOMAIN rows' = DOMAIN rows /\ \A j \in DOMAIN rows :
          rows'[j] = rows[j] \/ \E k \in Cats \cup {Null} : rows'[j] = [rows[j] EXCEPT !.cat = k]
    BY <2>1
  <2>3. ImportGood'
    BY <1>0, <2>1 DEF ImportGood
  <2>4. LedgerInv'
    BY <1>0, <2>1, <2>2, <2>3, RowsPlaced
  <2>5. RulesInv'
    BY <1>0, <2>1 DEF RulesInv, RulesGood, AnswersCovered, StillCovered
  <2> QED BY <1>1, <2>1, <2>4, <2>5
<1>9. ASSUME NEW r \in rules, rule_delete(r)
      PROVE  CatInv' /\ UNCHANGED job
  <2>1. /\ rules' = rules \ {r} /\ answered' = StillCovered(rules')
        /\ UNCHANGED <<splitVars, cats, job>>
    BY <1>9 DEF rule_delete
  <2>2. RulesInv'
    BY <1>0, <2>1 DEF RulesInv, RulesGood, AnswersCovered, StillCovered
  <2>3. LedgerInv'
    BY <1>0, <2>1 DEF splitVars, LedgerInv, RowsGood, BinGood, ImportGood
  <2> QED BY <1>1, <2>1, <2>2, <2>3
<1> QED BY <1>4, <1>5, <1>6, <1>7, <1>8, <1>9

-----------------------------------------------------------------------------
(* The theorems *)

\* A step keeps the invariant; only a run that ends and a restart end a run.
LEMMA StepKeeps ==
  ASSUME CatInv, Next \/ UNCHANGED vars
  PROVE  CatInv' /\ (job.on /\ ~job'.on => FinishRun \/ UNCHANGED rules)
<1>0. LedgerInv /\ RulesInv /\ JobInv /\ cats \subseteq Cats
  BY DEF CatInv, RulesInv
<1>1. ASSUME LedgerInv', UNCHANGED <<cats, rules, job, answered>> PROVE CatInv'
  <2>1. RulesInv'
    BY <1>0, <1>1 DEF RulesInv, RulesGood, AnswersCovered
  <2>2. JobInv'
    BY <1>0, <1>1 DEF JobInv
  <2> QED BY <1>1, <2>1, <2>2 DEF CatInv
<1>2. ASSUME UNCHANGED splitVars PROVE LedgerInv'
  BY <1>0, <1>2 DEF splitVars, LedgerInv, RowsGood, BinGood, ImportGood
<1>3. CASE UserOperation
  <2>1. CASE RowOperation
    <3>1. LedgerInv'
      BY <1>0, <2>1, RowOperationKeeps
    <3>2. UNCHANGED <<cats, rules, job, answered>>
      BY <2>1 DEF RowOperation
    <3> QED BY <1>1, <3>1, <3>2
  <2>2. CASE ~RowOperation
    <3>1. \/ \E i \in DOMAIN rows, amt \in Amounts, c \in cats \cup {Null}, t \in BOOLEAN :
               \E lines \in Layouts(amt, {c}, Offs) : EditForm(i, amt, c, t, lines)
          \/ \E i \in DOMAIN rows, c \in cats : CorrectRow(i, c)
          \/ \E i \in DOMAIN rows : Suggest(i)
          \/ \E c \in Cats : category_add(c) \/ category_delete(c)
          \/ \E r \in rules : rule_delete(r)
      BY <1>3, <2>2 DEF UserOperation
    <3>2. CatInv' /\ UNCHANGED job
      BY <3>1, CategoryStepKeeps
    <3> QED BY <3>2
  <2> QED BY <2>1, <2>2
<1>4. CASE (ClassifyImported \/ SplitImported \/ ClassificationFails)
           /\ UNCHANGED <<cats, rules, job, answered, ops>>
  <2>1. LedgerInv'
    BY <1>0, <1>4, ImportStepKeeps
  <2> QED BY <1>1, <1>4, <2>1
<1>5. CASE RunAfterImport
  <2>1. StartRun(import.ids \cap DOMAIN rows) /\ ~job.on
    BY <1>5 DEF RunAfterImport, StartRun
  <2>2. CatInv'
    BY <2>1, StartKeeps
  <2> QED BY <2>1, <2>2
<1>6. CASE AutoCategorise
  <2>1. StartRun(DOMAIN rows) /\ ~job.on
    BY <1>6 DEF AutoCategorise, StartRun
  <2>2. CatInv'
    BY <2>1, StartKeeps
  <2> QED BY <2>1, <2>2
<1>7. CASE FinishRun
  BY <1>7, FinishKeeps
<1>8. CASE Restart
  <2>1. job' = Idle /\ import' = NoImport /\ UNCHANGED <<rows, bin, early, cats, rules, answered>>
    BY <1>8 DEF Restart
  <2>2. LedgerInv'
    BY <1>0, <2>1 DEF LedgerInv, RowsGood, BinGood, ImportGood, NoImport
  <2>3. RulesInv'
    BY <1>0, <2>1 DEF RulesInv, RulesGood, AnswersCovered
  <2>4. JobInv'
    BY <2>1 DEF JobInv, Idle
  <2> QED BY <2>1, <2>2, <2>3, <2>4 DEF CatInv
<1>9. CASE UNCHANGED vars
  <2>1. UNCHANGED splitVars /\ UNCHANGED <<cats, rules, job, answered>>
    BY <1>9 DEF vars
  <2> QED BY <1>1, <1>2, <2>1
<1> QED BY <1>3, <1>4, <1>5, <1>6, <1>7, <1>8, <1>9 DEF Next

LEMMA CatInvHolds == Spec => []CatInv
<1>1. CatInv /\ [Next]_vars => CatInv'
  BY StepKeeps
<1> QED BY InitGood, <1>1, PTL DEF Spec

\* The tables stay well formed and a pattern has one rule, however corrections,
\* answers of the model, previews and deletions follow one another.
THEOREM OnePatternOneRule == Spec => []TypeOK
<1>1. CatInv => TypeOK
  BY InvShows
<1> QED BY CatInvHolds, <1>1, PTL

\* A row that is allocated is allocated in full, through imports that the user
\* overtakes, edits, deletions, recoveries and documents.
THEOREM AllocatedInFull == Spec => []SplitsAddUp
<1>1. CatInv => SplitsAddUp
  BY InvShows
<1> QED BY CatInvHolds, <1>1, PTL

\* What the model has answered it is not asked again: a rule covers it.
THEOREM NeverAskedAgain == Spec => []AskedOnce
<1>1. CatInv => AskedOnce
  BY InvShows
<1> QED BY CatInvHolds, <1>1, PTL

\* A run of the model ends without touching a rule of the user.
THEOREM UsersRulesStand == Spec => ModelNeverOverrulesUser
<1>1. ASSUME CatInv, [Next]_vars, job.on, ~job'.on, NEW r \in rules
      PROVE  \E s \in rules' : s.pat = r.pat /\ s.cat = r.cat
  <2>1. CASE UNCHANGED rules
    BY <2>1
  <2>2. CASE FinishRun
    <3>1. PICK answers \in [Asked -> job.offered \cup {Null}] :
            rules' = AllLearned(rules, answers) \/ UNCHANGED rules
      BY <2>2 DEF FinishRun
    <3>2. AllLearned(rules, answers) = rules \cup New(rules, Asked, answers)
      BY <1>1, FinishLearns
    <3>3. r \in rules'
      BY <3>1, <3>2
    <3> QED BY <3>3
  <2> QED BY <1>1, <2>1, <2>2, StepKeeps
<1>2. CatInv /\ [Next]_vars =>
        [job.on /\ ~job'.on =>
           \A r \in rules : r.src = "user" => \E s \in rules' : s.pat = r.pat /\ s.cat = r.cat]_vars
  BY <1>1
<1> QED BY CatInvHolds, <1>2, PTL DEF Spec, ModelNeverOverrulesUser

-----------------------------------------------------------------------------
(* Spend: what the splits count is the spend there was.  On a card every    *)
(* type an ordinary row may be given counts, save a transfer's, and so do   *)
(* the splits made before it had a type; and a row that awaits its type has *)
(* no splits yet, or has been saved by the user.                            *)

PlainCard(d) ==
  /\ Class[d] = "card" /\ Words[d] \cap {"payment", "fee", "interest"} = {}
  /\ Source[d] # "payment"

CardSpend == {"card_purchase", "merchant_refund", "card_credit"}

Counted(row) ==
  PlainCard(row.desc) =>
    /\ row.event \in CardSpend \cup {Unclassified, "internal_transfer"}
    /\ \A n \in DOMAIN row.splits :
         ~row.splits[n].doc /\ (row.event # "internal_transfer" => row.splits[n].counts)

Follows(row) ==
  \A n \in DOMAIN row.splits :
    ~row.splits[n].doc => /\ row.splits[n].event = row.event
                          /\ row.splits[n].counts = CountsAsSpend(row.event)

RowsTrue(rs, es) == \A i \in DOMAIN rs : Counted(rs[i]) /\ (i \notin es => Follows(rs[i]))

BinTrue == \A i \in DOMAIN bin : Counted(bin[i])

\* A row that is to be classified has no type, wherever it is by now.
Awaited(rs, es, kept, ids) ==
  \A i \in ids :
    IF i \in DOMAIN rs THEN rs[i].event = Unclassified /\ (i \notin es => rs[i].splits = << >>)
    ELSE i \in DOMAIN kept /\ kept[i].event = Unclassified

ImportAwaits == import.step = "classify" => Awaited(rows, early, bin, import.ids)

SpendInv == RowsTrue(rows, early) /\ BinTrue /\ ImportAwaits

\* No document is of a card, and none takes the id of a row that was deleted
\* while it awaited its type.
DocumentsApart ==
  [][\A i \in RowIds, doc \in Documents :
       ApplyDocument(i, doc) =>
         /\ Class[doc.desc] # "card"
         /\ ~(import.step = "classify" /\ i \in import.ids)]_vars

LEMMA CardSpendCounts == \A e \in CardSpend \cup {Unclassified} : CountsAsSpend(e)
BY DEF CardSpend, CountsAsSpend, NonSpend, Unclassified

\* Only the wording, the type and the splits say what a row's spend is.
LEMMA SameSpend ==
  ASSUME NEW row, NEW new, new.desc = row.desc, new.event = row.event, new.splits = row.splits
  PROVE  (Counted(row) => Counted(new)) /\ (Follows(row) => Follows(new))
BY DEF Counted, Follows

\* A row without splits follows its type.
LEMMA UnsplitFollows ==
  ASSUME NEW row, row.splits = << >>
  PROVE  /\ Follows(row)
         /\ Counted(row) <=> (PlainCard(row.desc) =>
              row.event \in CardSpend \cup {Unclassified, "internal_transfer"})
<1>1. DOMAIN row.splits = {}
  OBVIOUS
<1> QED BY <1>1 DEF Follows, Counted

LEMMA NewRowIsCounted ==
  ASSUME NEW d, NEW amt, NEW t, NEW c
  PROVE  /\ Counted(NewRow(d, amt, t, c, Unclassified)) /\ Follows(NewRow(d, amt, t, c, Unclassified))
         /\ NewRow(d, amt, t, c, Unclassified).event = Unclassified
         /\ NewRow(d, amt, t, c, Unclassified).splits = << >>
<1> DEFINE r == NewRow(d, amt, t, c, Unclassified)
<1>1. r.splits = << >> /\ r.event = Unclassified
  BY DEF NewRow
<1> HIDE DEF r
<1>2. Counted(r) /\ Follows(r)
  BY <1>1, UnsplitFollows
<1> QED BY <1>1, <1>2 DEF r

\* An ordinary row of a card is given a type that counts, or a transfer's.
LEMMA ClassifiedIsCounted ==
  ASSUME NEW row, row \in Row, Counted(row), row.event = Unclassified
  PROVE  /\ Counted(Classified(row))
         /\ row.splits = << >> => Follows(Classified(row))
<1> DEFINE e == classify_transaction(Class[row.desc], row.amt, Words[row.desc],
                                     Source[row.desc], row.transfer)
           new == Classified(row)
<1>1. new.desc = row.desc /\ new.event = e /\ new.splits = row.splits
  BY DEF Classified, Row
<1>2. PlainCard(row.desc) => e \in CardSpend \cup {"internal_transfer"}
  <2> SUFFICES ASSUME PlainCard(row.desc), ~row.transfer PROVE e \in CardSpend
    BY DEF classify_transaction
  <2>1. e = CardRow(row.amt, Words[row.desc], Source[row.desc])
    BY DEF PlainCard, classify_transaction
  <2>2. /\ Words[row.desc] \cap {"fee", "interest"} = {} /\ "payment" \notin Words[row.desc]
        /\ Source[row.desc] # "payment"
    BY DEF PlainCard
  <2> QED BY <2>1, <2>2 DEF CardRow, CardSpend
<1> HIDE DEF e, new
<1>3. Counted(new)
  BY <1>1, <1>2 DEF Counted, Unclassified
<1>4. row.splits = << >> => Follows(new)
  BY <1>1, UnsplitFollows
<1> QED BY <1>3, <1>4 DEF new

\* The default split counts as its row does.
LEMMA PassThroughIsCounted ==
  ASSUME NEW row, row \in Row, Counted(row)
  PROVE  /\ Counted([row EXCEPT !.splits = << PassThrough(row) >>])
         /\ Follows([row EXCEPT !.splits = << PassThrough(row) >>])
         /\ [row EXCEPT !.splits = << PassThrough(row) >>].event = row.event
<1> DEFINE p == PassThrough(row)  new == [row EXCEPT !.splits = << p >>]
<1>1. p.event = row.event /\ p.counts = CountsAsSpend(row.event) /\ ~p.doc
  BY DEF PassThrough, SplitOf
<1> HIDE DEF p
<1>2. new.desc = row.desc /\ new.event = row.event /\ new.splits = << p >>
  BY DEF Row
<1> HIDE DEF new
<1>3. \A n \in DOMAIN new.splits : new.splits[n] = p
  BY <1>2
<1>4. Follows(new)
  BY <1>1, <1>2, <1>3 DEF Follows
<1>5. Counted(new)
  BY <1>1, <1>2, <1>3, CardSpendCounts DEF Counted
<1> QED BY <1>2, <1>4, <1>5 DEF new, p

\* After an edit each split is one of a document, kept, or made for the row's type.
LEMMA EditedSplits ==
  ASSUME NEW row, row \in Row, NEW amt \in Int, NEW c \in Cats \cup {Null}, NEW t \in BOOLEAN,
         NEW lines \in Layouts(amt, {c}, Offs), NEW new, new = Edited(row, amt, c, t, lines)
  PROVE  /\ new.desc = row.desc /\ new.event = row.event
         /\ \A n \in DOMAIN new.splits :
              \/ /\ new.splits[n].doc
                 /\ \E m \in DOMAIN row.splits : row.splits[m].doc
              \/ /\ ~new.splits[n].doc /\ new.splits[n].event = row.event
                 /\ new.splits[n].counts = CountsAsSpend(row.event)
<1> DEFINE base == [row EXCEPT !.amt = amt, !.cat = c, !.transfer = t]
           made == [i \in DOMAIN lines |-> SplitOf(base, lines[i].amt, lines[i].cat)]
           spared == DocSplits(base)
<1>1. /\ base \in Row /\ base.desc = row.desc /\ base.event = row.event
      /\ base.splits = row.splits
  BY DEF Row
<1>2. new = [base EXCEPT !.splits = spared \o made]
  BY DEF Edited, Replaced
<1> HIDE DEF base
<1>3. new.desc = row.desc /\ new.event = row.event /\ new.splits = spared \o made
  BY <1>1, <1>2 DEF Row
<1>4. \A i \in DOMAIN made : ~made[i].doc /\ made[i].event = row.event
                             /\ made[i].counts = CountsAsSpend(row.event)
  BY <1>1 DEF SplitOf
<1>5. Len(lines) \in Nat /\ DOMAIN lines = 1 .. Len(lines)
  BY LinesOfTheForm
<1>6. DOMAIN made = 1 .. Len(lines) /\ made \in Seq({made[i] : i \in DOMAIN made})
  <2>1. made \in [1 .. Len(lines) -> {made[i] : i \in DOMAIN made}]
    BY <1>5
  <2> QED BY <1>5, <2>1
<1>7. /\ spared \in Seq(Split)
      /\ \A k \in DOMAIN spared : spared[k].doc /\ \E m \in DOMAIN row.splits : row.splits[m].doc
  BY <1>1, SparedAreSplits
<1> HIDE DEF made, spared
<1>8. ASSUME NEW n \in DOMAIN (spared \o made)
      PROVE  \/ n \in DOMAIN spared /\ (spared \o made)[n] = spared[n]
             \/ n - Len(spared) \in DOMAIN made /\ (spared \o made)[n] = made[n - Len(spared)]
  <2>1. Len(spared) \in Nat /\ DOMAIN spared = 1 .. Len(spared)
    BY <1>7
  <2>2. Len(made) = Len(lines) /\ Len(made) \in Nat
    BY <1>5, <1>6
  <2>3. n \in 1 .. Len(spared) + Len(made)
    BY <1>7, <1>6
  <2> QED BY <1>6, <1>7, <2>1, <2>2, <2>3
<1> QED BY <1>3, <1>4, <1>7, <1>8

\* A saved row's own splits follow its type, whatever they were before.
LEMMA EditedIsCounted ==
  ASSUME NEW row, row \in Row, NEW amt \in Int, NEW c \in Cats \cup {Null}, NEW t \in BOOLEAN,
         NEW lines \in Layouts(amt, {c}, Offs), Counted(row)
  PROVE  /\ Counted(Cascaded(Edited(row, amt, c, t, lines), row.event))
         /\ Follows(Cascaded(Edited(row, amt, c, t, lines), row.event))
         /\ Cascaded(Edited(row, amt, c, t, lines), row.event).event = row.event
<1> DEFINE new == Cascaded(Edited(row, amt, c, t, lines), row.event)
<1>1. Edited(row, amt, c, t, lines).event = row.event
  BY EditedSplits
<1>2. new = Edited(row, amt, c, t, lines)
  BY <1>1 DEF Cascaded
<1> HIDE DEF new
<1>3. /\ new.desc = row.desc /\ new.event = row.event
      /\ \A n \in DOMAIN new.splits :
           \/ /\ new.splits[n].doc
              /\ \E m \in DOMAIN row.splits : row.splits[m].doc
           \/ /\ ~new.splits[n].doc /\ new.splits[n].event = row.event
              /\ new.splits[n].counts = CountsAsSpend(row.event)
  BY <1>2, EditedSplits
<1>4. Follows(new)
  BY <1>3 DEF Follows
<1>5. Counted(new)
  BY <1>3, CardSpendCounts DEF Counted
<1> QED BY <1>3, <1>4, <1>5 DEF new

LEMMA DocumentIsCounted ==
  ASSUME NEW doc \in Documents, Class[doc.desc] # "card"
  PROVE  Counted(DocumentRow(doc)) /\ Follows(DocumentRow(doc))
<1> DEFINE r == DocumentRow(doc)
<1>1. r.desc = doc.desc /\ \A n \in DOMAIN r.splits : r.splits[n].doc
  BY DEF DocumentRow, NewRow
<1> HIDE DEF r
<1>2. Counted(r) /\ Follows(r)
  BY <1>1 DEF Counted, PlainCard, Follows
<1> QED BY <1>2 DEF r

\* Where every split counts, the spend is what the splits come to.
LEMMA AllCounted ==
  ASSUME NEW row, \A n \in DOMAIN row.splits : row.splits[n].counts
  PROVE  TrueSpend(row) = Total(row.splits)
<1> DEFINE ss == row.splits
           S == DOMAIN ss
           A(g) == [s \in SUBSET S |-> IF s = {} THEN 0 ELSE ss[Taken(s)].amt + g[s \ {Taken(s)}]]
           B(g) == [s \in SUBSET S |->
                      IF s = {} THEN 0
                      ELSE (IF ss[Taken(s)].counts THEN ss[Taken(s)].amt ELSE 0)
                           + g[s \ {Taken(s)}]]
<1>1. ASSUME NEW g PROVE A(g) = B(g)
  <2>1. \A s \in SUBSET S : s # {} => ss[Taken(s)].counts
    BY DEF Taken
  <2> QED BY <2>1
<1>2. Total(ss) = (CHOOSE g : g = A(g))[S]
  BY Zenon DEF Total, FoldSeq, FoldFunction, FoldFunctionOnSet, MapThenFoldSet, Taken
<1>3. TrueSpend(row) = (CHOOSE g : g = B(g))[S]
  BY Zenon DEF TrueSpend, FoldSeq, FoldFunction, FoldFunctionOnSet, MapThenFoldSet, Taken
<1> HIDE DEF A, B
<1>4. (CHOOSE g : g = A(g)) = (CHOOSE g : g = B(g))
  BY <1>1, Zenon
<1> QED BY <1>2, <1>3, <1>4

\* The splits of a row come to a whole number of cents.
LEMMA TotalIsInt == ASSUME NEW row, row \in Row PROVE Total(row.splits) \in Int
<1> DEFINE ss == row.splits
<1>1. ss \in Seq(Split)
  BY DEF Row
<1>2. Len(ss) \in Int /\ DOMAIN ss = 1 .. Len(ss)
  BY <1>1
<1>3. IsFiniteSet(DOMAIN ss)
  <2> HIDE DEF ss
  <2>1. 1 \in Int /\ IsFiniteSet(1 .. Len(ss))
    BY <1>2, FS_Interval
  <2> QED BY <1>2, <2>1
<1> HIDE DEF ss
<1>4. \A n \in DOMAIN ss : Amt(ss)[n] \in Int
  <2>1. \A n \in DOMAIN ss : ss[n] \in Split
    BY <1>1, <1>2
  <2> QED BY <2>1 DEF Amt, Split
<1>5. SumOver(Amt(ss), DOMAIN ss) \in Int
  BY <1>3, <1>4, SumTaken
<1>6. Total(ss) \in Int
  BY <1>5, TotalSummed
<1> QED BY <1>6 DEF ss

\* The invariant has the spend in it.
LEMMA SpendShows == CatInv /\ SpendInv => SpendIsTrue
<1> SUFFICES ASSUME CatInv, SpendInv PROVE SpendIsTrue
  OBVIOUS
<1>1. SpendFollowsType
  BY DEF SpendInv, RowsTrue, Follows, SpendFollowsType
<1>2. ASSUME NEW i \in DOMAIN rows, Ordinary(rows[i]), rows[i].event # Unclassified,
             rows[i].splits # << >>
      PROVE  /\ rows[i].amt \in Int /\ TrueSpend(rows[i]) = Total(rows[i].splits)
             /\ rows[i].amt - Total(rows[i].splits) \in -1 .. 1
  <2>1. rows[i] \in Row /\ Sound(rows[i]) /\ Counted(rows[i])
    BY DEF CatInv, LedgerInv, RowsGood, SpendInv, RowsTrue
  <2>2. PlainCard(rows[i].desc) /\ rows[i].event # "internal_transfer"
    BY <1>2 DEF Ordinary, PlainCard
  <2>3. \A n \in DOMAIN rows[i].splits : rows[i].splits[n].counts /\ ~rows[i].splits[n].doc
    BY <2>1, <2>2 DEF Counted
  <2>4. validate_splits(rows[i])
    BY <1>2, <2>1, <2>3 DEF Sound, IsFromDocument
  <2> QED BY <2>1, <2>3, <2>4, AllCounted DEF validate_splits, Residual, Tolerance, Row
<1>3. RefundCancels
  <2> SUFFICES ASSUME NEW i \in DOMAIN rows, NEW j \in DOMAIN rows,
                      Ordinary(rows[i]), IsPurchase(rows[i]), rows[i].splits # << >>,
                      Ordinary(rows[j]), IsGivenBack(rows[j]), rows[j].splits # << >>,
                      rows[i].amt + rows[j].amt = 0
               PROVE  TrueSpend(rows[i]) + TrueSpend(rows[j]) \in -2 * Tolerance .. 2 * Tolerance
    BY DEF RefundCancels
  <2>1. rows[i].event # Unclassified /\ rows[j].event # Unclassified
    BY DEF IsPurchase, IsGivenBack
  <2>2. /\ rows[i].amt \in Int /\ rows[i].amt - TrueSpend(rows[i]) \in -1 .. 1
        /\ rows[j].amt \in Int /\ rows[j].amt - TrueSpend(rows[j]) \in -1 .. 1
    BY <1>2, <2>1
  <2>3. TrueSpend(rows[i]) \in Int /\ TrueSpend(rows[j]) \in Int
    BY <1>2, <2>1, TotalIsInt DEF CatInv, LedgerInv, RowsGood
  <2> QED BY <2>2, <2>3 DEF Tolerance
<1> QED BY <1>1, <1>3 DEF SpendIsTrue

\* Placing rows leaves their spend alone.
LEMMA SpendPlaced ==
  ASSUME SpendInv, UNCHANGED <<bin, early>>, import' \in {import, NoImport},
         DOMAIN rows' = DOMAIN rows,
         \A i \in DOMAIN rows : /\ rows'[i].desc = rows[i].desc /\ rows'[i].event = rows[i].event
                                /\ rows'[i].splits = rows[i].splits
  PROVE  SpendInv'
<1>1. \A i \in DOMAIN rows : /\ Counted(rows[i]) => Counted(rows'[i])
                             /\ Follows(rows[i]) => Follows(rows'[i])
  BY SameSpend
<1>2. RowsTrue(rows, early)' /\ BinTrue'
  BY <1>1 DEF SpendInv, RowsTrue, BinTrue
<1>3. Awaited(rows, early, bin, import.ids) => Awaited(rows, early, bin, import.ids)'
      \/ import' # import
  BY DEF Awaited
<1>4. ImportAwaits'
  BY <1>3 DEF SpendInv, ImportAwaits, NoImport
<1> QED BY <1>2, <1>4 DEF SpendInv

\* What the user does to one row.
LEMMA RowOperationCounts ==
  ASSUME LedgerInv, SpendInv, RowOperation,
         \A i \in RowIds, doc \in Documents :
           ApplyDocument(i, doc) => /\ Class[doc.desc] # "card"
                                    /\ ~(import.step = "classify" /\ i \in import.ids)
  PROVE  SpendInv'
<1>0. /\ RowsTrue(rows, early) /\ BinTrue /\ ImportAwaits
      /\ \A i \in DOMAIN rows : rows[i] \in Row
      /\ \A i \in DOMAIN bin : bin[i] \in Row /\ bin[i].splits = << >>
  BY DEF SpendInv, LedgerInv, RowsGood, BinGood
<1>1. ASSUME NEW i \in RowIds, NEW d \in Descs, NEW amt \in Amounts, ImportRow(i, d, amt)
      PROVE  SpendInv'
  <2> DEFINE r == NewRow(d, amt, FALSE, Null, Unclassified)
  <2>1. Counted(r) /\ Follows(r) /\ r.event = Unclassified /\ r.splits = << >>
    BY NewRowIsCounted
  <2>2. /\ rows' = With(rows, i, r) /\ import'.step = "classify" /\ import'.ids = {i}
        /\ UNCHANGED <<bin, early>>
    BY <1>1 DEF ImportRow
  <2> HIDE DEF r
  <2>3. RowsTrue(rows, early)' /\ BinTrue'
    BY <1>0, <2>1, <2>2 DEF RowsTrue, BinTrue, With
  <2>4. Awaited(rows, early, bin, import.ids)'
    BY <2>1, <2>2 DEF Awaited, With
  <2> QED BY <2>3, <2>4 DEF SpendInv, ImportAwaits
<1>2. ASSUME NEW i \in RowIds, NEW d \in Descs, NEW amt \in Amounts, NEW c \in cats \cup {Null},
             NEW t \in BOOLEAN, CreateRow(i, d, amt, t, c)
      PROVE  SpendInv'
  <2> DEFINE r == NewRow(d, amt, t, c, Unclassified)
  <2>1. Counted(r) /\ Follows(r) /\ r.event = Unclassified /\ r.splits = << >>
    BY NewRowIsCounted
  <2>2. rows' = With(rows, i, r) /\ UNCHANGED <<bin, import, early>>
    BY <1>2 DEF CreateRow
  <2> HIDE DEF r
  <2>3. RowsTrue(rows, early)' /\ BinTrue'
    BY <1>0, <2>1, <2>2 DEF RowsTrue, BinTrue, With
  <2>4. ImportAwaits'
    BY <1>0, <2>1, <2>2 DEF ImportAwaits, Awaited, With
  <2> QED BY <2>3, <2>4 DEF SpendInv
<1>3. ASSUME NEW i \in DOMAIN rows, NEW t \in BOOLEAN, SetTransfer(i, t)
      PROVE  SpendInv'
  <2>1. rows' = [rows EXCEPT ![i].transfer = t] /\ UNCHANGED <<bin, import, early>>
    BY <1>3 DEF SetTransfer
  <2>2. DOMAIN rows' = DOMAIN rows /\ \A j \in DOMAIN rows :
          /\ rows'[j].desc = rows[j].desc /\ rows'[j].event = rows[j].event
          /\ rows'[j].splits = rows[j].splits
    BY <1>0, <2>1 DEF Row
  <2> QED BY <2>1, <2>2, SpendPlaced
<1>4. ASSUME NEW i \in DOMAIN rows, DeleteRow(i)
      PROVE  SpendInv'
  <2> DEFINE kept == [rows[i] EXCEPT !.splits = << >>]
  <2>1. kept.desc = rows[i].desc /\ kept.event = rows[i].event /\ kept.splits = << >>
    BY <1>0 DEF Row
  <2>2. bin' = With(bin, i, kept) /\ rows' = Without(rows, {i}) /\ early' = early \ {i}
        /\ UNCHANGED import
    BY <1>4 DEF DeleteRow
  <2> HIDE DEF kept
  <2>3. Counted(kept)
    BY <1>0, <2>1 DEF RowsTrue, Counted
  <2>4. RowsTrue(rows, early)'
    BY <1>0, <2>2 DEF RowsTrue, Without
  <2>5. BinTrue'
    BY <1>0, <2>2, <2>3 DEF BinTrue, With
  <2>6. ImportAwaits'
    BY <1>0, <2>1, <2>2 DEF ImportAwaits, Awaited, With, Without
  <2> QED BY <2>4, <2>5, <2>6 DEF SpendInv
<1>5. ASSUME NEW i \in DOMAIN bin, Recover(i)
      PROVE  SpendInv'
  <2>1. /\ rows' = With(rows, i, bin[i]) /\ bin' = Without(bin, {i}) /\ i \notin DOMAIN rows
        /\ UNCHANGED <<import, early>>
    BY <1>5 DEF Recover, RecoverRow
  <2>2. Counted(bin[i]) /\ Follows(bin[i]) /\ bin[i].splits = << >>
    BY <1>0, UnsplitFollows DEF BinTrue
  <2>3. RowsTrue(rows, early)' /\ BinTrue'
    BY <1>0, <2>1, <2>2 DEF RowsTrue, BinTrue, With, Without
  <2>4. ImportAwaits'
    BY <1>0, <2>1, <2>2 DEF ImportAwaits, Awaited, With, Without
  <2> QED BY <2>3, <2>4 DEF SpendInv
<1>6. ASSUME NEW i \in RowIds, NEW doc \in Documents, ApplyDocument(i, doc)
      PROVE  SpendInv'
  <2> DEFINE r == DocumentRow(doc)
  <2>1. Counted(r) /\ Follows(r)
    BY <1>6, DocumentIsCounted
  <2>2. rows' = With(rows, i, r) /\ UNCHANGED <<bin, import, early>>
    BY <1>6 DEF ApplyDocument
  <2>3. ~(import.step = "classify" /\ i \in import.ids)
    BY <1>6
  <2> HIDE DEF r
  <2>4. RowsTrue(rows, early)' /\ BinTrue'
    BY <1>0, <2>1, <2>2 DEF RowsTrue, BinTrue, With
  <2>5. ImportAwaits'
    BY <1>0, <2>2, <2>3 DEF ImportAwaits, Awaited, With
  <2> QED BY <2>4, <2>5 DEF SpendInv
<1>7. ASSUME ImportNothing
      PROVE  SpendInv'
  <2>1. import'.step = "categorise" /\ UNCHANGED <<rows, bin, early>>
    BY <1>7 DEF ImportNothing
  <2> QED BY <1>0, <2>1 DEF SpendInv, RowsTrue, BinTrue, ImportAwaits
<1> QED BY <1>1, <1>2, <1>3, <1>4, <1>5, <1>6, <1>7 DEF RowOperation

\* What the import does to its rows after they are committed.
LEMMA ImportStepCounts ==
  ASSUME LedgerInv, SpendInv, ClassifyImported \/ SplitImported \/ ClassificationFails
  PROVE  SpendInv'
<1>0. /\ RowsTrue(rows, early) /\ BinTrue /\ ImportAwaits
      /\ \A i \in DOMAIN rows : rows[i] \in Row
  BY DEF SpendInv, LedgerInv, RowsGood
<1>1. CASE ClassifyImported
  <2>1. /\ rows' = [i \in DOMAIN rows |-> IF i \in import.ids THEN Classified(rows[i])
                                          ELSE rows[i]]
        /\ import.step = "classify" /\ import'.step = "split" /\ UNCHANGED <<bin, early>>
    BY <1>1 DEF ClassifyImported
  <2>2. ASSUME NEW i \in DOMAIN rows
        PROVE  Counted(rows'[i]) /\ (i \notin early => Follows(rows'[i]))
    <3>1. CASE i \in import.ids
      <4>1. rows[i].event = Unclassified /\ (i \notin early => rows[i].splits = << >>)
        BY <1>0, <2>1, <3>1 DEF ImportAwaits, Awaited
      <4>2. rows'[i] = Classified(rows[i]) /\ rows[i] \in Row /\ Counted(rows[i])
        BY <1>0, <2>1, <3>1 DEF RowsTrue
      <4> QED BY <4>1, <4>2, ClassifiedIsCounted
    <3>2. CASE i \notin import.ids
      BY <1>0, <2>1, <3>2 DEF RowsTrue
    <3> QED BY <3>1, <3>2
  <2>3. RowsTrue(rows, early)' /\ BinTrue'
    BY <1>0, <2>1, <2>2 DEF RowsTrue, BinTrue
  <2> QED BY <2>1, <2>3 DEF SpendInv, ImportAwaits
<1>2. CASE SplitImported
  <2>1. /\ rows' = [i \in DOMAIN rows |->
                      IF i \in import.ids /\ rows[i].splits = << >>
                      THEN [rows[i] EXCEPT !.splits = << PassThrough(rows[i]) >>] ELSE rows[i]]
        /\ import'.step = "categorise" /\ UNCHANGED <<bin, early>>
    BY <1>2 DEF SplitImported
  <2>2. ASSUME NEW i \in DOMAIN rows
        PROVE  Counted(rows'[i]) /\ (i \notin early => Follows(rows'[i]))
    <3>1. rows[i] \in Row /\ Counted(rows[i]) /\ (i \notin early => Follows(rows[i]))
      BY <1>0 DEF RowsTrue
    <3> QED BY <2>1, <3>1, PassThroughIsCounted
  <2>3. RowsTrue(rows, early)' /\ BinTrue'
    BY <1>0, <2>1, <2>2 DEF RowsTrue, BinTrue
  <2> QED BY <2>1, <2>3 DEF SpendInv, ImportAwaits
<1>3. CASE ClassificationFails
  <2>1. import'.step = "categorise" /\ UNCHANGED <<rows, bin, early>>
    BY <1>3 DEF ClassificationFails
  <2> QED BY <1>0, <2>1 DEF SpendInv, RowsTrue, BinTrue, ImportAwaits
<1> QED BY <1>1, <1>2, <1>3

\* A run places rows at its start and at its end.
LEMMA RunCounts ==
  ASSUME LedgerInv, SpendInv, (\E ids \in SUBSET DOMAIN rows : StartRun(ids)) \/ FinishRun
  PROVE  SpendInv'
<1>1. \A i \in DOMAIN rows : rows[i] \in Row
  BY DEF LedgerInv, RowsGood
<1>3. CASE FinishRun
  <2>1. PICK answers \in [Asked -> job.offered \cup {Null}] :
          \/ rows' = [i \in DOMAIN rows |-> IF i \in DOMAIN Placed(answers)
                          THEN [rows[i] EXCEPT !.cat = Placed(answers)[i]] ELSE rows[i]]
          \/ UNCHANGED rows
    BY <1>3 DEF FinishRun
  <2>2. UNCHANGED <<bin, import, early>>
    BY <1>3 DEF FinishRun
  <2>3. DOMAIN rows' = DOMAIN rows /\ \A j \in DOMAIN rows :
          /\ rows'[j].desc = rows[j].desc /\ rows'[j].event = rows[j].event
          /\ rows'[j].splits = rows[j].splits
    BY <1>1, <2>1 DEF Row
  <2> QED BY <2>2, <2>3, SpendPlaced
<1>4. CASE \E ids \in SUBSET DOMAIN rows : StartRun(ids)
  <2>0. PICK ids \in SUBSET DOMAIN rows : StartRun(ids)
    BY <1>4
  <2> DEFINE todo == Uncategorised(ids)
             ruled == {i \in todo : Covering(rules, rows[i].desc) # {}}
             worded == {i \in todo \ ruled : ByKeyword(rows[i]) # Null}
  <2>1. PICK win \in [ruled -> rules], saved \in SUBSET worded :
          rows' = [i \in DOMAIN rows |->
                     IF i \in ruled THEN [rows[i] EXCEPT !.cat = win[i].cat]
                     ELSE IF i \in saved THEN [rows[i] EXCEPT !.cat = ByKeyword(rows[i])]
                     ELSE rows[i]]
    BY <2>0 DEF StartRun
  <2> HIDE DEF ruled, worded
  <2>2. import' = NoImport /\ UNCHANGED <<bin, early>>
    BY <1>4 DEF StartRun
  <2>3. DOMAIN rows' = DOMAIN rows /\ \A j \in DOMAIN rows :
          /\ rows'[j].desc = rows[j].desc /\ rows'[j].event = rows[j].event
          /\ rows'[j].splits = rows[j].splits
    BY <1>1, <2>1 DEF Row
  <2> QED BY <2>2, <2>3, SpendPlaced
<1> QED BY <1>3, <1>4

LEMMA SpendStarts == Init => SpendInv
BY DEF Init, SplitInit, NoImport, SpendInv, RowsTrue, BinTrue, ImportAwaits

\* What the user does to categories and rules, and to rows through them.
LEMMA CategoryStepCounts ==
  ASSUME LedgerInv, SpendInv, cats \subseteq Cats,
         \/ \E i \in DOMAIN rows, amt \in Amounts, c \in cats \cup {Null}, t \in BOOLEAN :
              \E lines \in Layouts(amt, {c}, Offs) : EditForm(i, amt, c, t, lines)
         \/ \E i \in DOMAIN rows, c \in cats : CorrectRow(i, c)
         \/ \E i \in DOMAIN rows : Suggest(i)
         \/ \E c \in Cats : category_add(c) \/ category_delete(c)
         \/ \E r \in rules : rule_delete(r)
  PROVE  SpendInv'
<1>0. /\ RowsTrue(rows, early) /\ BinTrue /\ ImportAwaits
      /\ \A i \in DOMAIN rows : rows[i] \in Row
  BY DEF SpendInv, LedgerInv, RowsGood
<1>1. ASSUME NEW i \in DOMAIN rows, NEW amt \in Amounts, NEW c \in cats \cup {Null},
             NEW t \in BOOLEAN, NEW lines \in Layouts(amt, {c}, Offs),
             EditForm(i, amt, c, t, lines)
      PROVE  SpendInv'
  <2>1. PICK new :
          /\ new = Cascaded(Edited(rows[i], amt, c, t, lines), rows[i].event)
          /\ rows' = [rows EXCEPT ![i] = new]
          /\ early' = (IF rows[i].event = Unclassified THEN early \cup {i} ELSE early)
          /\ UNCHANGED <<bin, import>>
    BY <1>1 DEF EditForm, EditRow
  <2>2. Counted(new) /\ Follows(new) /\ new.event = rows[i].event
    <3>1. amt \in Int /\ c \in Cats \cup {Null} /\ rows[i] \in Row /\ Counted(rows[i])
      BY <1>0, WordingAssumption DEF RowsTrue
    <3> DEFINE row == rows[i]
    <3> HIDE DEF row
    <3>2. /\ Counted(Cascaded(Edited(row, amt, c, t, lines), row.event))
          /\ Follows(Cascaded(Edited(row, amt, c, t, lines), row.event))
          /\ Cascaded(Edited(row, amt, c, t, lines), row.event).event = row.event
      BY <3>1, EditedIsCounted DEF row
    <3> QED BY <2>1, <3>2 DEF row
  <2>3. RowsTrue(rows, early)' /\ BinTrue'
    BY <1>0, <2>1, <2>2 DEF RowsTrue, BinTrue
  <2>4. ImportAwaits'
    BY <1>0, <2>1, <2>2 DEF ImportAwaits, Awaited
  <2> QED BY <2>3, <2>4 DEF SpendInv
<1>2. ASSUME UNCHANGED <<bin, import, early>>, DOMAIN rows' = DOMAIN rows,
             \A j \in DOMAIN rows :
               /\ rows'[j].desc = rows[j].desc /\ rows'[j].event = rows[j].event
               /\ rows'[j].splits = rows[j].splits
      PROVE  SpendInv'
  BY <1>2, SpendPlaced
<1>3. ASSUME NEW i \in DOMAIN rows, NEW c \in cats, CorrectRow(i, c)
      PROVE  SpendInv'
  <2>1. /\ \/ rows' = [rows EXCEPT ![i].cat = c]
           \/ rows' = Rewritten(rows, rows[i].desc, c)
        /\ UNCHANGED <<bin, import, early>>
    BY <1>3 DEF CorrectRow
  <2>2. DOMAIN rows' = DOMAIN rows /\ \A j \in DOMAIN rows :
          rows'[j] = rows[j] \/ rows'[j] = [rows[j] EXCEPT !.cat = c]
    BY <2>1 DEF Rewritten
  <2>3. \A j \in DOMAIN rows :
          /\ rows'[j].desc = rows[j].desc /\ rows'[j].event = rows[j].event
          /\ rows'[j].splits = rows[j].splits
    BY <1>0, <2>2 DEF Row
  <2> QED BY <1>2, <2>1, <2>2, <2>3
<1>4. ASSUME NEW c \in Cats, category_delete(c)
      PROVE  SpendInv'
  <2>1. /\ rows' = [i \in DOMAIN rows |-> IF rows[i].cat = c THEN [rows[i] EXCEPT !.cat = Null]
                                          ELSE rows[i]]
        /\ UNCHANGED <<bin, import, early>>
    BY <1>4 DEF category_delete
  <2>2. DOMAIN rows' = DOMAIN rows /\ \A j \in DOMAIN rows :
          /\ rows'[j].desc = rows[j].desc /\ rows'[j].event = rows[j].event
          /\ rows'[j].splits = rows[j].splits
    BY <1>0, <2>1 DEF Row
  <2> QED BY <1>2, <2>1, <2>2
<1>5. ASSUME UNCHANGED splitVars PROVE SpendInv'
  BY <1>2, <1>5 DEF splitVars
<1>6. CASE \/ \E i \in DOMAIN rows : Suggest(i)
           \/ \E c \in Cats : category_add(c)
           \/ \E r \in rules : rule_delete(r)
  BY <1>5, <1>6 DEF Suggest, category_add, rule_delete
<1> QED BY <1>1, <1>3, <1>4, <1>6

LEMMA SpendStep ==
  ASSUME CatInv, SpendInv, Next \/ UNCHANGED vars,
         \/ \A i \in RowIds, doc \in Documents :
              ApplyDocument(i, doc) => /\ Class[doc.desc] # "card"
                                       /\ ~(import.step = "classify" /\ i \in import.ids)
         \/ UNCHANGED vars
  PROVE  SpendInv'
<1>0. LedgerInv /\ cats \subseteq Cats
  BY DEF CatInv, RulesInv
<1>1. ASSUME import' \in {import, NoImport}, UNCHANGED <<rows, bin, early>> PROVE SpendInv'
  BY <1>1, SpendPlaced
<1>2. CASE UNCHANGED vars
  <2>1. import' \in {import, NoImport} /\ UNCHANGED <<rows, bin, early>>
    BY <1>2 DEF vars, splitVars
  <2> QED BY <1>1, <2>1
<1>3. CASE UserOperation /\ ~UNCHANGED vars
  <2>1. CASE RowOperation
    BY <1>0, <1>3, <2>1, RowOperationCounts
  <2>2. CASE ~RowOperation
    BY <1>0, <1>3, <2>2, CategoryStepCounts DEF UserOperation
  <2> QED BY <2>1, <2>2
<1>4. CASE ClassifyImported \/ SplitImported \/ ClassificationFails
  BY <1>0, <1>4, ImportStepCounts
<1>5. CASE RunAfterImport \/ AutoCategorise \/ FinishRun
  <2>1. (\E ids \in SUBSET DOMAIN rows : StartRun(ids)) \/ FinishRun
    BY <1>5 DEF RunAfterImport, AutoCategorise
  <2> QED BY <1>0, <2>1, RunCounts
<1>6. CASE Restart
  BY <1>1, <1>6 DEF Restart
<1> QED BY <1>2, <1>3, <1>4, <1>5, <1>6 DEF Next

\* The spend read from the splits is the spend of the rows, and what was bought
\* on a card and given back in full is none, whatever was edited, split anew,
\* deleted, recovered or placed: for all documents that are of no card and take
\* the id of no row that was deleted while it awaited its type.
THEOREM SpendIsOfTheRows == Spec /\ DocumentsApart => []SpendIsTrue
<1> DEFINE Apart ==
             \A i \in RowIds, doc \in Documents :
               ApplyDocument(i, doc) =>
                 /\ Class[doc.desc] # "card"
                 /\ ~(import.step = "classify" /\ i \in import.ids)
<1>1. CatInv /\ SpendInv /\ [Next]_vars /\ [Apart]_vars => SpendInv'
  BY SpendStep
<1>2. CatInv /\ SpendInv => SpendIsTrue
  BY SpendShows
<1> QED BY CatInvHolds, SpendStarts, <1>1, <1>2, PTL DEF Spec, DocumentsApart
=============================================================================
