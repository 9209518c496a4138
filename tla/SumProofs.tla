----------------------------- MODULE SumProofs -----------------------------
(***************************************************************************)
(* Sums over finite sets, which the models write with MapThenSumSet: that  *)
(* the fold is the sum, in whatever order the elements are taken.  Then,   *)
(* what finitely many numbers have: a greatest, and an order; and at the   *)
(* end folds with any other step.                                          *)
(*                                                                         *)
(* The library's induction theorems have an operator for a parameter; here *)
(* induction is over a set that is closed under what adds an element.      *)
(***************************************************************************)
EXTENDS Integers, FiniteSetsExt, FiniteSetTheorems, WellFoundedInduction, TLAPS

SumOver(f, S) == MapThenSumSet(LAMBDA x : f[x], S)

Taken(s) == CHOOSE x \in s : TRUE

\* One round of the fold, over the subsets of S.
Round(f, S, g) == [s \in SUBSET S |-> IF s = {} THEN 0 ELSE f[Taken(s)] + g[s \ {Taken(s)}]]

\* A family that has a set as soon as it has the set less any one element has
\* every finite set.
LEMMA ByElements ==
  ASSUME NEW S, IsFiniteSet(S), NEW F,
         \A s \in SUBSET S : (\A x \in s : s \ {x} \in F) => s \in F
  PROVE  SUBSET S \subseteq F
<1> SUFFICES ASSUME (SUBSET S) \ F # {} PROVE FALSE
  OBVIOUS
<1> DEFINE Bad == (SUBSET S) \ F
           Sizes == {Cardinality(s) : s \in Bad}
<1>1. \A s \in SUBSET S : IsFiniteSet(s) /\ Cardinality(s) \in Nat
  BY FS_Subset, FS_CardinalityType
<1>2. IsWellFoundedOn(OpToRel(<, Nat), Nat)
  BY NatLessThanWellFounded
<1>3. Sizes # {} /\ Sizes \subseteq Nat
  BY <1>1
<1>4. PICK n \in Sizes : \A m \in Sizes : ~(<<m, n>> \in OpToRel(<, Nat))
  <2> HIDE DEF Sizes
  <2> QED BY <1>2, <1>3, WFMin
<1>5. PICK s \in Bad : Cardinality(s) = n
  OBVIOUS
<1>6. PICK x \in s : s \ {x} \notin F
  OBVIOUS
<1>7. s \ {x} \in Bad
  BY <1>6
<1>8. Cardinality(s \ {x}) = n - 1 /\ n \in Nat /\ n - 1 \in Nat
  <2>1. s \in SUBSET S /\ s \ {x} \in SUBSET S /\ x \in s
    OBVIOUS
  <2>2. Cardinality(s \ {x}) = Cardinality(s) - 1
    BY <1>1, <2>1, FS_RemoveElement
  <2> HIDE DEF Bad, Sizes
  <2> QED BY <1>1, <1>5, <2>1, <2>2
<1>9. Cardinality(s \ {x}) \in Sizes
  BY <1>7
<1>10. <<n - 1, n>> \in OpToRel(<, Nat)
  BY <1>8 DEF OpToRel
<1> QED
  BY <1>4, <1>8, <1>9, <1>10

\* The fold is a function that its rounds leave as it is.
LEMMA FoldIsFixed ==
  ASSUME NEW S, IsFiniteSet(S), NEW f, \A x \in S : f[x] \in Int
  PROVE  \E g \in [SUBSET S -> Int] : g = Round(f, S, g)
<1> DEFINE Below(n) == {s \in SUBSET S : Cardinality(s) <= n}
           Good(n) == {g \in [Below(n) -> Int] : \A s \in Below(n) :
             g[s] = IF s = {} THEN 0 ELSE f[Taken(s)] + g[s \ {Taken(s)}]}
           Reached == {n \in Nat : Good(n) # {}}
<1>1. \A s \in SUBSET S : IsFiniteSet(s) /\ Cardinality(s) \in Nat
  BY FS_Subset, FS_CardinalityType
<1>2. \A s \in SUBSET S : s # {} =>
        /\ Taken(s) \in s /\ f[Taken(s)] \in Int
        /\ s \ {Taken(s)} \in SUBSET S
        /\ Cardinality(s \ {Taken(s)}) = Cardinality(s) - 1
  <2> SUFFICES ASSUME NEW s \in SUBSET S, s # {}
               PROVE  /\ Taken(s) \in s
                      /\ Cardinality(s \ {Taken(s)}) = Cardinality(s) - 1
    OBVIOUS
  <2>1. Taken(s) \in s
    BY DEF Taken
  <2> QED BY <2>1, <1>1, FS_RemoveElement
<1>3. 0 \in Reached
  <2> DEFINE g == [s \in Below(0) |-> 0]
  <2>1. \A s \in Below(0) : s = {}
    BY <1>1, FS_EmptySet
  <2>2. g \in Good(0)
    BY <2>1
  <2> QED BY <2>2
<1>4. ASSUME NEW n \in Reached PROVE n + 1 \in Reached
  <2>1. PICK g \in Good(n) : TRUE
    OBVIOUS
  <2> DEFINE h == [s \in Below(n + 1) |->
                     IF s \in Below(n) THEN g[s] ELSE f[Taken(s)] + g[s \ {Taken(s)}]]
  <2>2. n \in Nat /\ Below(n) \subseteq Below(n + 1)
    BY <1>1
  <2>3. ASSUME NEW s \in Below(n + 1), s # {}
        PROVE  s \ {Taken(s)} \in Below(n)
    BY <2>2, <2>3, <1>1, <1>2
  <2>4. ASSUME NEW s \in Below(n + 1), s \notin Below(n)
        PROVE  s # {}
    <3>1. {} \in Below(n)
      BY <2>2, FS_EmptySet
    <3> QED BY <2>4, <3>1
  <2>5. ASSUME NEW s \in Below(n + 1)
        PROVE  /\ h[s] \in Int
               /\ h[s] = IF s = {} THEN 0 ELSE f[Taken(s)] + h[s \ {Taken(s)}]
    <3>1. CASE s \in Below(n)
      <4>1. s # {} => s \ {Taken(s)} \in Below(n) /\ s \ {Taken(s)} \in Below(n + 1)
        BY <2>2, <2>3
      <4>2. /\ g[s] \in Int /\ h[s] = g[s]
            /\ g[s] = IF s = {} THEN 0 ELSE f[Taken(s)] + g[s \ {Taken(s)}]
        BY <2>1, <3>1
      <4>3. s # {} => h[s \ {Taken(s)}] = g[s \ {Taken(s)}]
        BY <4>1
      <4> HIDE DEF h, Good, Below
      <4> QED BY <4>2, <4>3
    <3>2. CASE s \notin Below(n)
      <4>1. s # {} /\ s \ {Taken(s)} \in Below(n) /\ s \ {Taken(s)} \in Below(n + 1)
        BY <2>2, <2>3, <2>4, <3>2
      <4>2. h[s] = f[Taken(s)] + g[s \ {Taken(s)}]
        BY <3>2
      <4>3. h[s \ {Taken(s)}] = g[s \ {Taken(s)}] /\ g[s \ {Taken(s)}] \in Int
        BY <4>1, <2>1
      <4>4. f[Taken(s)] \in Int
        BY <4>1, <1>2
      <4> HIDE DEF h, Good, Below
      <4> QED BY <4>1, <4>2, <4>3, <4>4
    <3> QED BY <3>1, <3>2
  <2>6. h \in Good(n + 1)
    <3>1. h \in [Below(n + 1) -> Int]
      <4>1. h = [s \in Below(n + 1) |-> h[s]]
        OBVIOUS
      <4> HIDE DEF h
      <4> QED BY <2>5, <4>1
    <3> HIDE DEF h, Below
    <3> QED BY <2>5, <3>1
  <2>7. n + 1 \in Nat
    BY <2>2
  <2> HIDE DEF Good
  <2> QED BY <2>6, <2>7
<1>5. Cardinality(S) \in Reached
  <2> DEFINE Missed == Nat \ Reached
  <2> HIDE DEF Reached
  <2> SUFFICES ASSUME Missed # {} PROVE FALSE
    BY <1>1
  <2>1. PICK n \in Missed : \A m \in Missed : ~(<<m, n>> \in OpToRel(<, Nat))
    BY NatLessThanWellFounded, WFMin
  <2>2. n # 0
    BY <1>3
  <2>3. n - 1 \in Nat /\ (n - 1) + 1 = n
    BY <2>2
  <2>4. n - 1 \in Missed
    BY <1>4, <2>3
  <2>5. <<n - 1, n>> \in OpToRel(<, Nat)
    BY <2>3 DEF OpToRel
  <2> QED BY <2>1, <2>4, <2>5
<1>6. Below(Cardinality(S)) = SUBSET S
  BY <1>1, FS_Subset
<1>7. PICK g \in Good(Cardinality(S)) : TRUE
  BY <1>5
<1> HIDE DEF Below
<1> QED BY <1>6, <1>7 DEF Round

\* Two such functions agree where both are defined.
LEMMA FoldIsOne ==
  ASSUME NEW S, IsFiniteSet(S), NEW T, S \subseteq T, NEW f, NEW g, NEW h,
         g = Round(f, S, g), h = Round(f, T, h)
  PROVE  \A s \in SUBSET S : g[s] = h[s]
<1> DEFINE Same == {s \in SUBSET S : g[s] = h[s]}
<1>1. ASSUME NEW s \in SUBSET S, \A x \in s : s \ {x} \in Same
      PROVE  g[s] = h[s]
  <2>1. s \in SUBSET T
    OBVIOUS
  <2>2. /\ Round(f, S, g)[s] = IF s = {} THEN 0 ELSE f[Taken(s)] + g[s \ {Taken(s)}]
        /\ Round(f, T, h)[s] = IF s = {} THEN 0 ELSE f[Taken(s)] + h[s \ {Taken(s)}]
    BY <2>1 DEF Round
  <2>3. s # {} => g[s \ {Taken(s)}] = h[s \ {Taken(s)}]
    BY <1>1 DEF Taken
  <2> QED BY <2>2, <2>3
<1>2. SUBSET S \subseteq Same
  <2>1. \A s \in SUBSET S : (\A x \in s : s \ {x} \in Same) => s \in Same
    BY <1>1
  <2> HIDE DEF Same
  <2> QED BY <2>1, ByElements
<1> QED BY <1>2

\* The sum of numbers is a number, and the next element taken adds its own.
LEMMA SumTaken ==
  ASSUME NEW S, IsFiniteSet(S), NEW f, \A x \in S : f[x] \in Int
  PROVE  /\ SumOver(f, S) \in Int
         /\ S # {} => SumOver(f, S) = f[Taken(S)] + SumOver(f, S \ {Taken(S)})
<1> DEFINE G(s) == CHOOSE g : g = Round(f, s, g)
<1>1. \A s \in SUBSET S : SumOver(f, s) = G(s)[s]
  BY Zenon DEF SumOver, MapThenSumSet, MapThenFoldSet, Round, Taken
<1>2. ASSUME NEW s \in SUBSET S
      PROVE  G(s) = Round(f, s, G(s)) /\ \A t \in SUBSET s : G(s)[t] \in Int
  <2>1. IsFiniteSet(s)
    BY FS_Subset
  <2>2. PICK h \in [SUBSET s -> Int] : h = Round(f, s, h)
    BY <2>1, FoldIsFixed
  <2>3. G(s) = Round(f, s, G(s))
    BY <2>2, Zenon
  <2> HIDE DEF G
  <2>4. \A t \in SUBSET s : h[t] = G(s)[t]
    BY <2>1, <2>2, <2>3, FoldIsOne
  <2> QED BY <2>2, <2>3, <2>4
<1>3. SumOver(f, S) \in Int
  BY <1>1, <1>2
<1>4. ASSUME S # {} PROVE SumOver(f, S) = f[Taken(S)] + SumOver(f, S \ {Taken(S)})
  <2> DEFINE rest == S \ {Taken(S)}
  <2>1. Round(f, S, G(S))[S] = f[Taken(S)] + G(S)[rest]
    BY <1>4 DEF Round
  <2>2. G(rest)[rest] = G(S)[rest]
    <3>1. rest \subseteq S /\ IsFiniteSet(rest)
      BY FS_Subset
    <3>2. G(rest) = Round(f, rest, G(rest)) /\ G(S) = Round(f, S, G(S))
      BY <1>2, <3>1
    <3> HIDE DEF G, rest
    <3>3. \A s \in SUBSET rest : G(rest)[s] = G(S)[s]
      BY <3>1, <3>2, FoldIsOne
    <3> QED BY <3>3
  <2>3. G(S) = Round(f, S, G(S))
    BY <1>2
  <2> HIDE DEF G
  <2> QED BY <1>1, <2>1, <2>2, <2>3
<1> QED BY <1>3, <1>4

\* What nothing adds up to.
LEMMA SumOfNone == \A f : SumOver(f, {}) = 0
<1> SUFFICES ASSUME NEW f PROVE SumOver(f, {}) = 0
  OBVIOUS
<1> DEFINE G == CHOOSE g : g = Round(f, {}, g)
<1>1. SumOver(f, {}) = G[{}]
  BY Zenon DEF SumOver, MapThenSumSet, MapThenFoldSet, Round, Taken
<1>2. PICK h \in [SUBSET {} -> Int] : h = Round(f, {}, h)
  BY FoldIsFixed, FS_EmptySet
<1>3. G = Round(f, {}, G)
  BY <1>2, Zenon
<1>4. Round(f, {}, G)[{}] = 0
  BY DEF Round
<1> QED BY <1>1, <1>3, <1>4

\* The sum takes its elements in any order.
LEMMA SumLess ==
  ASSUME NEW S, IsFiniteSet(S), NEW f, \A x \in S : f[x] \in Int
  PROVE  /\ \A s \in SUBSET S : SumOver(f, s) \in Int
         /\ \A s \in SUBSET S : \A x \in s : SumOver(f, s) = f[x] + SumOver(f, s \ {x})
<1> DEFINE Any == {s \in SUBSET S : \A x \in s : SumOver(f, s) = f[x] + SumOver(f, s \ {x})}
<1>1. ASSUME NEW s \in SUBSET S
      PROVE  /\ SumOver(f, s) \in Int
             /\ s # {} => SumOver(f, s) = f[Taken(s)] + SumOver(f, s \ {Taken(s)})
  <2>1. IsFiniteSet(s)
    BY FS_Subset
  <2> QED BY <2>1, SumTaken
<1>2. ASSUME NEW s \in SUBSET S, \A y \in s : s \ {y} \in Any, NEW x \in s
      PROVE  SumOver(f, s) = f[x] + SumOver(f, s \ {x})
  <2> DEFINE p == Taken(s)
  <2>1. p \in s
    BY DEF Taken
  <2>2. CASE x = p
    BY <1>1, <2>2
  <2>3. CASE x # p
    <3> DEFINE r == (s \ {x}) \ {p}
    <3>1. (s \ {p}) \ {x} = r
      OBVIOUS
    <3>2. SumOver(f, s \ {p}) = f[x] + SumOver(f, r)
      BY <1>2, <2>1, <2>3, <3>1
    <3>3. SumOver(f, s \ {x}) = f[p] + SumOver(f, r)
      BY <1>2, <2>1, <2>3
    <3>4. SumOver(f, s) = f[p] + SumOver(f, s \ {p})
      BY <1>1, <2>1
    <3>5. f[x] \in Int /\ f[p] \in Int /\ SumOver(f, r) \in Int
      BY <1>1, <2>1
    <3> HIDE DEF p, r
    <3> QED BY <3>2, <3>3, <3>4, <3>5
  <2> QED BY <2>2, <2>3
<1>3. SUBSET S \subseteq Any
  <2>1. \A s \in SUBSET S : (\A x \in s : s \ {x} \in Any) => s \in Any
    BY <1>2
  <2> HIDE DEF Any
  <2> QED BY <2>1, ByElements
<1> QED BY <1>1, <1>3

\* Equal terms, equal sums.
LEMMA SumSame ==
  ASSUME NEW S, NEW f, NEW h, \A x \in S : f[x] = h[x]
  PROVE  SumOver(f, S) = SumOver(h, S)
<1>1. ASSUME NEW g PROVE Round(f, S, g) = Round(h, S, g)
  <2>1. \A s \in SUBSET S : s # {} => f[Taken(s)] = h[Taken(s)]
    BY DEF Taken
  <2> QED BY <2>1 DEF Round
<1>2. /\ SumOver(f, S) = (CHOOSE g : g = Round(f, S, g))[S]
      /\ SumOver(h, S) = (CHOOSE g : g = Round(h, S, g))[S]
  BY Zenon DEF SumOver, MapThenSumSet, MapThenFoldSet, Round, Taken
<1>3. (CHOOSE g : g = Round(f, S, g)) = (CHOOSE g : g = Round(h, S, g))
  BY <1>1, Zenon
<1> QED BY <1>2, <1>3

\* What is apart adds up.
LEMMA SumOfUnion ==
  ASSUME NEW A, NEW B, IsFiniteSet(A), IsFiniteSet(B), A \cap B = {},
         NEW f, \A x \in A \cup B : f[x] \in Int
  PROVE  SumOver(f, A \cup B) = SumOver(f, A) + SumOver(f, B)
<1> DEFINE Apart == {s \in SUBSET A : SumOver(f, s \cup B) = SumOver(f, s) + SumOver(f, B)}
<1>1. IsFiniteSet(A \cup B)
  BY FS_Union
<1>2. \A s \in SUBSET (A \cup B) :
        /\ SumOver(f, s) \in Int
        /\ \A x \in s : SumOver(f, s) = f[x] + SumOver(f, s \ {x})
  BY <1>1, SumLess
<1>3. ASSUME NEW s \in SUBSET A, \A x \in s : s \ {x} \in Apart
      PROVE  s \in Apart
  <2>1. CASE s = {}
    <3>1. s \cup B = B /\ SumOver(f, B) \in Int
      BY <1>2, <2>1
    <3> QED BY <2>1, <3>1, SumOfNone
  <2>2. CASE s # {}
    <3>1. PICK x \in s : TRUE
      BY <2>2
    <3>2. (s \cup B) \ {x} = (s \ {x}) \cup B
      OBVIOUS
    <3>3. SumOver(f, (s \ {x}) \cup B) = SumOver(f, s \ {x}) + SumOver(f, B)
      BY <1>3, <3>1
    <3>4. SumOver(f, s \cup B) = f[x] + SumOver(f, (s \ {x}) \cup B)
      BY <1>2, <3>1, <3>2
    <3>5. SumOver(f, s) = f[x] + SumOver(f, s \ {x})
      BY <1>2, <3>1
    <3>6. f[x] \in Int /\ SumOver(f, s \ {x}) \in Int /\ SumOver(f, B) \in Int
      BY <1>2, <3>1
    <3> QED BY <3>3, <3>4, <3>5, <3>6
  <2> QED BY <2>1, <2>2
<1>4. SUBSET A \subseteq Apart
  <2> HIDE DEF Apart
  <2> QED BY <1>3, ByElements
<1> QED BY <1>4

\* Terms that are nothing.
LEMMA SumOfZeros ==
  ASSUME NEW S, IsFiniteSet(S), NEW f, \A x \in S : f[x] = 0
  PROVE  SumOver(f, S) = 0
<1> DEFINE Nought == {s \in SUBSET S : SumOver(f, s) = 0}
<1>0. \A x \in S : f[x] \in Int
  OBVIOUS
<1>1. ASSUME NEW s \in SUBSET S, NEW x \in s
      PROVE  SumOver(f, s) = f[x] + SumOver(f, s \ {x})
  BY <1>0, SumLess
<1>2. ASSUME NEW s \in SUBSET S, \A x \in s : s \ {x} \in Nought
      PROVE  s \in Nought
  <2>1. CASE s = {}
    BY <2>1, SumOfNone
  <2>2. CASE s # {}
    <3>1. PICK x \in s : TRUE
      BY <2>2
    <3>2. SumOver(f, s) = f[x] + SumOver(f, s \ {x}) /\ SumOver(f, s \ {x}) = 0 /\ f[x] = 0
      BY <1>1, <1>2, <3>1
    <3> QED BY <3>2
  <2> QED BY <2>1, <2>2
<1>3. SUBSET S \subseteq Nought
  <2> HIDE DEF Nought
  <2> QED BY <1>2, ByElements
<1> QED BY <1>3

\* Sums of differences.
LEMMA SumMinus ==
  ASSUME NEW S, IsFiniteSet(S), NEW f, NEW h,
         \A x \in S : f[x] \in Int /\ h[x] \in Int
  PROVE  SumOver([x \in S |-> f[x] - h[x]], S) = SumOver(f, S) - SumOver(h, S)
<1> DEFINE d == [x \in S |-> f[x] - h[x]]
           Fine == {s \in SUBSET S : SumOver(d, s) = SumOver(f, s) - SumOver(h, s)}
<1>1. \A x \in S : d[x] \in Int /\ d[x] = f[x] - h[x]
  OBVIOUS
<1> HIDE DEF d
<1>0. (\A x \in S : f[x] \in Int) /\ (\A x \in S : h[x] \in Int)
  OBVIOUS
<1>2. ASSUME NEW s \in SUBSET S, NEW x \in s
      PROVE  SumOver(f, s) \in Int /\ SumOver(f, s) = f[x] + SumOver(f, s \ {x})
  BY <1>0, SumLess
<1>3. ASSUME NEW s \in SUBSET S, NEW x \in s
      PROVE  SumOver(h, s) \in Int /\ SumOver(h, s) = h[x] + SumOver(h, s \ {x})
  BY <1>0, SumLess
<1>4. ASSUME NEW s \in SUBSET S, NEW x \in s
      PROVE  SumOver(d, s) \in Int /\ SumOver(d, s) = d[x] + SumOver(d, s \ {x})
  BY <1>1, SumLess
<1>5. ASSUME NEW s \in SUBSET S, \A x \in s : s \ {x} \in Fine
      PROVE  s \in Fine
  <2>1. CASE s = {}
    BY <2>1, SumOfNone
  <2>2. CASE s # {}
    <3>1. PICK x \in s : TRUE
      BY <2>2
    <3>2. SumOver(d, s \ {x}) = SumOver(f, s \ {x}) - SumOver(h, s \ {x})
      BY <1>5, <3>1
    <3>3. /\ SumOver(f, s \ {x}) \in Int /\ SumOver(h, s \ {x}) \in Int
          /\ f[x] \in Int /\ h[x] \in Int
      BY <1>0, <3>1, SumLess
    <3>4. /\ SumOver(f, s) = f[x] + SumOver(f, s \ {x})
          /\ SumOver(h, s) = h[x] + SumOver(h, s \ {x})
          /\ SumOver(d, s) = (f[x] - h[x]) + SumOver(d, s \ {x})
      BY <1>1, <1>2, <1>3, <1>4, <3>1
    <3>5. SumOver(d, s) = SumOver(f, s) - SumOver(h, s)
      BY <3>2, <3>3, <3>4
    <3> QED BY <3>5
  <2> QED BY <2>1, <2>2
<1>6. SUBSET S \subseteq Fine
  <2> HIDE DEF Fine
  <2> QED BY <1>5, ByElements
<1> QED BY <1>6 DEF d

\* As many names as there are elements, or fewer.
LEMMA FiniteImage ==
  ASSUME NEW S, IsFiniteSet(S), NEW n
  PROVE  IsFiniteSet({n[x] : x \in S})
<1> DEFINE Image(s) == {n[x] : x \in s}
           Fine == {s \in SUBSET S : IsFiniteSet(Image(s))}
<1>1. ASSUME NEW s \in SUBSET S, \A x \in s : s \ {x} \in Fine
      PROVE  s \in Fine
  <2>1. CASE s = {}
    <3>1. Image(s) = {}
      BY <2>1
    <3> QED BY <3>1, FS_EmptySet
  <2>2. CASE s # {}
    <3>1. PICK x \in s : TRUE
      BY <2>2
    <3>2. Image(s) = Image(s \ {x}) \cup {n[x]}
      BY <3>1
    <3>3. IsFiniteSet(Image(s \ {x}))
      BY <1>1, <3>1
    <3> HIDE DEF Image
    <3>4. IsFiniteSet(Image(s \ {x}) \cup {n[x]})
      BY <3>3, FS_AddElement
    <3> QED BY <3>2, <3>4
  <2> QED BY <2>1, <2>2
<1>2. SUBSET S \subseteq Fine
  <2> HIDE DEF Fine
  <2> QED BY <1>1, ByElements
<1> QED BY <1>2

\* A sum over other names of the elements, each name used once.
LEMMA SumRenamed ==
  ASSUME NEW S, IsFiniteSet(S), NEW n, NEW f,
         \A x, y \in S : n[x] = n[y] => x = y,
         \A x \in S : f[n[x]] \in Int
  PROVE  SumOver(f, {n[x] : x \in S}) = SumOver([x \in S |-> f[n[x]]], S)
<1> DEFINE d == [x \in S |-> f[n[x]]]
           Image(s) == {n[x] : x \in s}
           Fine == {s \in SUBSET S : SumOver(f, Image(s)) = SumOver(d, s)}
<1>1. \A x \in S : d[x] \in Int /\ d[x] = f[n[x]]
  OBVIOUS
<1> HIDE DEF d
<1>2. ASSUME NEW s \in SUBSET S, NEW x \in s
      PROVE  SumOver(d, s) = d[x] + SumOver(d, s \ {x})
  BY <1>1, SumLess
<1>3. ASSUME NEW s \in SUBSET S, \A x \in s : s \ {x} \in Fine
      PROVE  s \in Fine
  <2>1. CASE s = {}
    <3>1. Image(s) = {}
      BY <2>1
    <3> QED BY <2>1, <3>1, SumOfNone, FS_EmptySet
  <2>2. CASE s # {}
    <3>1. PICK x \in s : TRUE
      BY <2>2
    <3>2. Image(s) = Image(s \ {x}) \cup {n[x]} /\ Image(s) \ {n[x]} = Image(s \ {x})
      BY <3>1
    <3>3. SumOver(f, Image(s \ {x})) = SumOver(d, s \ {x})
      BY <1>3, <3>1
    <3>4. \A y \in Image(s) : f[y] \in Int
      OBVIOUS
    <3>5. n[x] \in Image(s)
      BY <3>1
    <3>6. IsFiniteSet(Image(s))
      BY FS_Subset, FiniteImage
    <3> HIDE DEF Image
    <3>7. SumOver(f, Image(s)) = f[n[x]] + SumOver(f, Image(s) \ {n[x]})
      BY <3>4, <3>5, <3>6, SumLess
    <3> QED BY <1>1, <1>2, <3>1, <3>2, <3>3, <3>6, <3>7
  <2> QED BY <2>1, <2>2
<1>4. SUBSET S \subseteq Fine
  <2> HIDE DEF Fine
  <2> QED BY <1>3, ByElements
<1> QED BY <1>4 DEF d

\* A sum taken group by group.
LEMMA SumInGroups ==
  ASSUME NEW S, IsFiniteSet(S), NEW f, \A x \in S : f[x] \in Int,
         NEW K, IsFiniteSet(K), NEW k, \A x \in S : k[x] \in K
  PROVE  SumOver(f, S) = SumOver([j \in K |-> SumOver(f, {x \in S : k[x] = j})], K)
<1> DEFINE d == [j \in K |-> SumOver(f, {x \in S : k[x] = j})]
           Of(J) == {x \in S : k[x] \in J}
           Fine == {J \in SUBSET K : SumOver(f, Of(J)) = SumOver(d, J)}
<1>1. \A j \in K : d[j] \in Int /\ d[j] = SumOver(f, {x \in S : k[x] = j})
  BY SumLess
<1> HIDE DEF d
<1>2. ASSUME NEW J \in SUBSET K, NEW j \in J
      PROVE  SumOver(d, J) = d[j] + SumOver(d, J \ {j})
  <2>1. \A i \in K : d[i] \in Int
    BY <1>1
  <2> QED BY ONLY IsFiniteSet(K), <2>1, SumLess
<1>3. ASSUME NEW J \in SUBSET K, \A j \in J : J \ {j} \in Fine
      PROVE  J \in Fine
  <2>1. CASE J = {}
    <3>1. Of(J) = {}
      BY <2>1
    <3> QED BY <2>1, <3>1, SumOfNone
  <2>2. CASE J # {}
    <3>1. PICK j \in J : TRUE
      BY <2>2
    <3> DEFINE A == {x \in S : k[x] = j}
               B == Of(J \ {j})
    <3>2. Of(J) = A \cup B /\ A \cap B = {}
      BY <3>1
    <3>3. IsFiniteSet(A) /\ IsFiniteSet(B) /\ \A x \in A \cup B : f[x] \in Int
      BY FS_Subset
    <3>4. SumOver(f, B) = SumOver(d, J \ {j})
      BY <1>3, <3>1
    <3>5. d[j] = SumOver(f, A)
      BY <1>1, <3>1
    <3> HIDE DEF A, B, Of
    <3>6. SumOver(f, A \cup B) = SumOver(f, A) + SumOver(f, B)
      BY <3>2, <3>3, SumOfUnion
    <3> QED BY <1>2, <3>1, <3>2, <3>4, <3>5, <3>6
  <2> QED BY <2>1, <2>2
<1>4. SUBSET K \subseteq Fine
  <2> HIDE DEF Fine
  <2> QED BY <1>3, ByElements
<1>5. Of(K) = S
  OBVIOUS
<1> QED BY <1>4, <1>5 DEF d

\* Natural numbers add up to one.
LEMMA SumOfNats ==
  ASSUME NEW S, IsFiniteSet(S), NEW f, \A x \in S : f[x] \in Nat
  PROVE  SumOver(f, S) \in Nat
<1> DEFINE Fine == {s \in SUBSET S : SumOver(f, s) \in Nat}
<1>0. \A x \in S : f[x] \in Int
  OBVIOUS
<1>1. ASSUME NEW s \in SUBSET S, \A x \in s : s \ {x} \in Fine
      PROVE  s \in Fine
  <2>1. CASE s = {}
    BY <2>1, SumOfNone
  <2>2. CASE s # {}
    <3>1. PICK x \in s : TRUE
      BY <2>2
    <3>2. SumOver(f, s) = f[x] + SumOver(f, s \ {x})
      BY <1>0, <3>1, SumLess
    <3>3. SumOver(f, s \ {x}) \in Nat /\ f[x] \in Nat
      BY <1>1, <3>1
    <3> QED BY <3>2, <3>3
  <2> QED BY <2>1, <2>2
<1>2. SUBSET S \subseteq Fine
  <2> HIDE DEF Fine
  <2> QED BY <1>1, ByElements
<1> QED BY <1>2

\* Only the terms that are something count.
LEMMA SumOfSome ==
  ASSUME NEW S, IsFiniteSet(S), NEW T, T \subseteq S, NEW f, \A x \in T : f[x] \in Int
  PROVE  SumOver([x \in S |-> IF x \in T THEN f[x] ELSE 0], S) = SumOver(f, T)
<1> DEFINE d == [x \in S |-> IF x \in T THEN f[x] ELSE 0]
<1>1. /\ IsFiniteSet(T) /\ IsFiniteSet(S \ T)
      /\ T \cap (S \ T) = {} /\ T \cup (S \ T) = S
  BY FS_Subset
<1>2. (\A x \in S : d[x] \in Int) /\ (\A x \in S \ T : d[x] = 0) /\ (\A x \in T : d[x] = f[x])
  OBVIOUS
<1> HIDE DEF d
<1>3. SumOver(d, S \ T) = 0
  BY <1>1, <1>2, SumOfZeros
<1>4. SumOver(d, T) = SumOver(f, T)
  BY <1>2, SumSame
<1>5. \A x \in T \cup (S \ T) : d[x] \in Int
  BY <1>1, <1>2
<1>6. SumOver(d, T \cup (S \ T)) = SumOver(d, T) + SumOver(d, S \ T)
  BY <1>1, <1>5, SumOfUnion
<1>7. SumOver(d, T) \in Int
  BY <1>1, <1>2, SumLess
<1>8. SumOver(d, T \cup (S \ T)) = SumOver(f, T)
  BY <1>3, <1>4, <1>6, <1>7
<1>9. SumOver(d, S) = SumOver(f, T)
  BY <1>1, <1>8, Zenon
<1> QED BY <1>9 DEF d

-----------------------------------------------------------------------------
(* The greatest of some numbers, and numbers in order *)

\* Of finitely many numbers one is the greatest.
LEMMA Greatest ==
  ASSUME NEW S, IsFiniteSet(S), S \subseteq Int, S # {}
  PROVE  Max(S) \in S /\ \A x \in S : x <= Max(S)
<1> DEFINE Fine == {s \in SUBSET S : s = {} \/ \E m \in s : \A x \in s : x <= m}
<1>1. ASSUME NEW s \in SUBSET S, \A x \in s : s \ {x} \in Fine
      PROVE  s \in Fine
  <2> SUFFICES ASSUME s # {} PROVE \E m \in s : \A x \in s : x <= m
    OBVIOUS
  <2>1. PICK y \in s : TRUE
    OBVIOUS
  <2>2. CASE s = {y}
    BY <2>2
  <2>3. CASE s # {y}
    <3> DEFINE r == s \ {y}
    <3>0. r \in Fine /\ r # {}
      BY <1>1, <2>1, <2>3
    <3>1. PICK m \in r : \A x \in r : x <= m
      BY <3>0
    <3>2. m \in Int /\ y \in Int
      BY <2>1
    <3>3. CASE y <= m
      BY <3>1, <3>3
    <3>4. CASE m < y
      <4>1. \A x \in s : x \in Int
        OBVIOUS
      <4>2. \A x \in s : x <= y
        BY <3>1, <3>2, <3>4, <4>1
      <4> QED BY <2>1, <4>2
    <3> QED BY <3>2, <3>3, <3>4
  <2> QED BY <2>2, <2>3
<1>2. SUBSET S \subseteq Fine
  <2> HIDE DEF Fine
  <2> QED BY <1>1, ByElements
<1>3. PICK m \in S : \A x \in S : x <= m
  BY <1>2
<1>4. \A x \in S : m >= x
  BY <1>3
<1>5. Max(S) \in S /\ \A x \in S : Max(S) >= x
  BY <1>4 DEF Max
<1> QED BY <1>5

\* Finitely many numbers can be listed in order.
LEMMA InOrder ==
  ASSUME NEW S, IsFiniteSet(S), S \subseteq Nat
  PROVE  /\ Cardinality(S) \in Nat
         /\ \E l \in [1 .. Cardinality(S) -> S] :
              \A i, j \in 1 .. Cardinality(S) : i < j => l[i] < l[j]
<1> DEFINE Up(s) == {l \in [1 .. Cardinality(s) -> s] :
                       \A i, j \in 1 .. Cardinality(s) : i < j => l[i] < l[j]}
           Fine == {s \in SUBSET S : Up(s) # {}}
<1>1. \A s \in SUBSET S : IsFiniteSet(s) /\ Cardinality(s) \in Nat
  BY FS_Subset, FS_CardinalityType
<1>2. ASSUME NEW s \in SUBSET S, \A x \in s : s \ {x} \in Fine
      PROVE  s \in Fine
  <2>1. CASE s = {}
    <3>1. Cardinality(s) = 0
      BY <2>1, FS_EmptySet
    <3> DEFINE e == [i \in 1 .. 0 |-> 0]
    <3>2. e \in Up(s)
      BY <2>1, <3>1
    <3> QED BY <3>2
  <2>2. CASE s # {}
    <3> DEFINE m == Max(s)  n == Cardinality(s)  r == s \ {m}
    <3>1. m \in s /\ \A x \in s : x <= m
      <4>1. s \subseteq Int /\ IsFiniteSet(s)
        BY <1>1
      <4> QED BY <2>2, <4>1, Greatest
    <3>2. /\ n \in Nat \ {0} /\ Cardinality(r) = n - 1
          /\ \A x \in r : x < m
      <4>1. n \in Nat /\ Cardinality(r) = n - 1
        BY <1>1, <3>1, FS_RemoveElement
      <4>2. Cardinality(r) \in Nat
        <5>1. r \in SUBSET S
          OBVIOUS
        <5> QED BY <1>1, <5>1
      <4>3. n # 0
        BY <4>1, <4>2
      <4>4. \A x \in r : x \in Nat /\ m \in Nat /\ x <= m /\ x # m
        BY <3>1
      <4>5. \A x \in r : x < m
        <5> HIDE DEF m
        <5> QED BY <4>4
      <4> QED BY <4>1, <4>3, <4>5
    <3>3. PICK l \in Up(r) : TRUE
      BY <1>2, <3>1
    <3> HIDE DEF m, n
    <3> DEFINE u == [i \in 1 .. n |-> IF i = n THEN m ELSE l[i]]
    <3>4. l \in [1 .. n - 1 -> r] /\ \A i, j \in 1 .. n - 1 : i < j => l[i] < l[j]
      BY <3>2, <3>3
    <3>5. u \in [1 .. n -> s]
      BY <3>1, <3>2, <3>4
    <3>6. ASSUME NEW i \in 1 .. n, NEW j \in 1 .. n, i < j PROVE u[i] < u[j]
      <4>1. i \in 1 .. n - 1 /\ u[i] = l[i] /\ l[i] \in r
        BY <3>2, <3>4, <3>6
      <4>2. CASE j = n
        BY <3>2, <4>1, <4>2
      <4>3. CASE j # n
        <5>1. j \in 1 .. n - 1 /\ u[j] = l[j]
          BY <3>2, <4>3
        <5> HIDE DEF u
        <5> QED BY <3>4, <3>6, <4>1, <5>1
      <4> QED BY <4>2, <4>3
    <3>7. u \in Up(s)
      <4> HIDE DEF u
      <4> QED BY <3>5, <3>6 DEF n
    <3> QED BY <3>7
  <2> QED BY <2>1, <2>2
<1>3. SUBSET S \subseteq Fine
  <2> HIDE DEF Fine
  <2> QED BY <1>2, ByElements
<1> QED BY <1>1, <1>3

----------------------------------------------------------------------------
(* Folds with any step: what every step leaves true, the fold leaves true.  *)

\* One round of a fold with any step: of a set, what pick takes comes last.
FoldRound(S, pick, base, step, g) ==
  [s \in SUBSET S |-> IF s = {} THEN base ELSE step[g[s \ {pick[s]}]][pick[s]]]

\* The functions into A that such rounds leave as they are.
Folds(S, pick, A, base, step) == {g \in [SUBSET S -> A] : g = FoldRound(S, pick, base, step, g)}

\* A fold whose steps stay within a set exists as a function into it.
LEMMA FoldWithin ==
  ASSUME NEW S, IsFiniteSet(S), NEW pick, \A s \in SUBSET S : s # {} => pick[s] \in s,
         NEW A, NEW base \in A, NEW step, \A a \in A, x \in S : step[a][x] \in A
  PROVE  Folds(S, pick, A, base, step) # {}
<1> DEFINE Below(n) == {s \in SUBSET S : Cardinality(s) <= n}
           Good(n) == {g \in [Below(n) -> A] : \A s \in Below(n) :
             g[s] = IF s = {} THEN base ELSE step[g[s \ {pick[s]}]][pick[s]]}
           Reached == {n \in Nat : Good(n) # {}}
<1>1. \A s \in SUBSET S : IsFiniteSet(s) /\ Cardinality(s) \in Nat
  BY FS_Subset, FS_CardinalityType
<1>2. \A s \in SUBSET S : s # {} =>
        /\ pick[s] \in s /\ s \ {pick[s]} \in SUBSET S
        /\ Cardinality(s \ {pick[s]}) = Cardinality(s) - 1
  BY <1>1, FS_RemoveElement
<1>3. 0 \in Reached
  <2> DEFINE g == [s \in Below(0) |-> base]
  <2>1. \A s \in Below(0) : s = {}
    BY <1>1, FS_EmptySet
  <2>2. g \in Good(0)
    BY <2>1
  <2> QED BY <2>2
<1>4. ASSUME NEW n \in Reached PROVE n + 1 \in Reached
  <2>1. PICK g \in Good(n) : TRUE
    OBVIOUS
  <2> DEFINE h == [s \in Below(n + 1) |->
                     IF s \in Below(n) THEN g[s] ELSE step[g[s \ {pick[s]}]][pick[s]]]
  <2>2. n \in Nat /\ Below(n) \subseteq Below(n + 1)
    BY <1>1
  <2>3. ASSUME NEW s \in Below(n + 1), s # {}
        PROVE  s \ {pick[s]} \in Below(n)
    BY <2>2, <2>3, <1>1, <1>2
  <2>4. ASSUME NEW s \in Below(n + 1), s \notin Below(n)
        PROVE  s # {}
    <3>1. {} \in Below(n)
      BY <2>2, FS_EmptySet
    <3> QED BY <2>4, <3>1
  <2>5. ASSUME NEW s \in Below(n + 1)
        PROVE  /\ h[s] \in A
               /\ h[s] = IF s = {} THEN base ELSE step[h[s \ {pick[s]}]][pick[s]]
    <3>1. CASE s \in Below(n)
      <4>1. s # {} => s \ {pick[s]} \in Below(n) /\ s \ {pick[s]} \in Below(n + 1)
        BY <2>2, <2>3
      <4>2. /\ g[s] \in A /\ h[s] = g[s]
            /\ g[s] = IF s = {} THEN base ELSE step[g[s \ {pick[s]}]][pick[s]]
        BY <2>1, <3>1
      <4>3. s # {} => h[s \ {pick[s]}] = g[s \ {pick[s]}]
        BY <4>1
      <4> HIDE DEF h, Good, Below
      <4> QED BY <4>2, <4>3
    <3>2. CASE s \notin Below(n)
      <4>1. s # {} /\ s \ {pick[s]} \in Below(n) /\ s \ {pick[s]} \in Below(n + 1)
        BY <2>2, <2>3, <2>4, <3>2
      <4>2. h[s] = step[g[s \ {pick[s]}]][pick[s]]
        BY <3>2
      <4>3. h[s \ {pick[s]}] = g[s \ {pick[s]}] /\ g[s \ {pick[s]}] \in A
        BY <4>1, <2>1
      <4>4. pick[s] \in S
        BY <4>1, <1>2
      <4> HIDE DEF h, Good, Below
      <4> QED BY <4>1, <4>2, <4>3, <4>4
    <3> QED BY <3>1, <3>2
  <2>6. h \in Good(n + 1)
    <3>1. h \in [Below(n + 1) -> A]
      <4>1. h = [s \in Below(n + 1) |-> h[s]]
        OBVIOUS
      <4> HIDE DEF h
      <4> QED BY <2>5, <4>1
    <3> HIDE DEF h, Below
    <3> QED BY <2>5, <3>1
  <2>7. n + 1 \in Nat
    BY <2>2
  <2> HIDE DEF Good
  <2> QED BY <2>6, <2>7
<1>5. Cardinality(S) \in Reached
  <2> DEFINE Missed == Nat \ Reached
  <2> HIDE DEF Reached
  <2> SUFFICES ASSUME Missed # {} PROVE FALSE
    BY <1>1
  <2>1. PICK n \in Missed : \A m \in Missed : ~(<<m, n>> \in OpToRel(<, Nat))
    BY NatLessThanWellFounded, WFMin
  <2>2. n # 0
    BY <1>3
  <2>3. n - 1 \in Nat /\ (n - 1) + 1 = n
    BY <2>2
  <2>4. n - 1 \in Missed
    BY <1>4, <2>3
  <2>5. <<n - 1, n>> \in OpToRel(<, Nat)
    BY <2>3 DEF OpToRel
  <2> QED BY <2>1, <2>4, <2>5
<1>6. Below(Cardinality(S)) = SUBSET S
  BY <1>1, FS_Subset
<1>7. PICK g \in Good(Cardinality(S)) : TRUE
  BY <1>5
<1>8. /\ g \in [SUBSET S -> A]
      /\ \A s \in SUBSET S :
           g[s] = IF s = {} THEN base ELSE step[g[s \ {pick[s]}]][pick[s]]
  <2> HIDE DEF Below
  <2> QED BY <1>6, <1>7
<1>9. g = FoldRound(S, pick, base, step, g)
  <2> HIDE DEF Good
  <2>1. g = [s \in SUBSET S |-> g[s]]
    BY <1>8
  <2> QED BY <1>8, <2>1 DEF FoldRound
<1> QED BY <1>8, <1>9 DEF Folds

\* A function that takes such steps wherever it is within the set, from within
\* it, stays within.
LEMMA FoldStays ==
  ASSUME NEW S, IsFiniteSet(S), NEW pick, \A s \in SUBSET S : s # {} => pick[s] \in s,
         NEW A, NEW g, g[{}] \in A,
         \A s \in SUBSET S : s # {} /\ g[s \ {pick[s]}] \in A => g[s] \in A
  PROVE  g[S] \in A
<1> DEFINE Within == {s \in SUBSET S : g[s] \in A}
<1>1. ASSUME NEW s \in SUBSET S, \A x \in s : s \ {x} \in Within
      PROVE  s \in Within
  <2>1. CASE s = {}
    BY <2>1
  <2>2. CASE s # {}
    <3>1. s \ {pick[s]} \in Within
      BY <1>1, <2>2
    <3> QED BY <2>2, <3>1
  <2> QED BY <2>1, <2>2
<1>2. SUBSET S \subseteq Within
  <2> HIDE DEF Within
  <2> QED BY <1>1, ByElements
<1> QED BY <1>2
=============================================================================
