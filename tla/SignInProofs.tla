---------------------------- MODULE SignInProofs ----------------------------
(***************************************************************************)
(* The first run leaves nothing without an owner, no more attempts to sign *)
(* in are let through within a window than the limit says, and an answer   *)
(* to a challenge counts once: for any number of setups, sessions, tabs    *)
(* and rows, and every value of the limits.                                *)
(***************************************************************************)
EXTENDS SignIn, TLAPS, FiniteSetTheorems, SequenceTheorems, WellFoundedInduction

----------------------------------------------------------------------------
(* Attempts.  The limiter and the history drop what is too old at different *)
(* times; counted from the newest on they agree, if what was dropped counts *)
(* as too old.                                                              *)

Ages == 0 .. Window + 1
Newest(s, k) == IF k < Len(s) THEN s[Len(s) - k] ELSE Window + 1

AttemptInv ==
  /\ hits \in Seq(Ages) /\ taken \in Seq(Ages)
  /\ Len(hits) <= MaxAttempts
  /\ \A k \in Nat : Newest(hits, k) = Newest(taken, k)

\* A set of numbers that has one has a least one (used for FirstInside).
LEMMA LeastNumber ==
  ASSUME NEW T, T \subseteq Nat, T /= {}
  PROVE  \E x \in T : \A y \in T : x <= y
<1> DEFINE Before == OpToRel(<, Nat)
<1>1. IsWellFoundedOn(Before, Nat)
  BY NatLessThanWellFounded
<1> HIDE DEF Before
<1>2. PICK x \in T : \A y \in T : ~(<<y, x>> \in Before)
  BY <1>1, WFMin
<1>3. ASSUME NEW y \in T, ~(x <= y) PROVE FALSE
  <2>1. x \in Nat /\ y \in Nat
    OBVIOUS
  <2>2. y < x
    BY <1>3, <2>1
  <2>3. <<y, x>> \in Before
    BY <2>1, <2>2 DEF Before, OpToRel
  <2> QED BY <1>2, <2>3
<1> QED BY <1>2, <1>3

\* popleft stops at the first attempt inside the window, or when none is left.
LEMMA FirstInsideIs ==
  ASSUME NEW s \in Seq(Ages)
  PROVE  /\ FirstInside(s) \in 1 .. Len(s) + 1
         /\ \A i \in 1 .. FirstInside(s) - 1 : ~ Inside(s[i])
<1> DEFINE Stops(n) == /\ n <= Len(s) => Inside(s[n])
                       /\ \A i \in 1 .. n - 1 : ~ Inside(s[i])
           T == {n \in 1 .. Len(s) + 1 : n <= Len(s) => Inside(s[n])}
<1>1. Len(s) \in Nat
  BY LenProperties
<1>2. T \subseteq Nat /\ Len(s) + 1 \in T
  BY <1>1
<1>3. PICK x \in T : \A y \in T : x <= y
  BY <1>2, LeastNumber
<1>4. ASSUME NEW i \in 1 .. x - 1 PROVE ~ Inside(s[i])
  <2>1. i \in 1 .. Len(s) + 1 /\ ~ (x <= i)
    BY <1>1, <1>3
  <2> QED BY <1>3, <2>1
<1>5. \E n \in 1 .. Len(s) + 1 : Stops(n)
  BY <1>3, <1>4
<1>6. FirstInside(s) = CHOOSE n \in 1 .. Len(s) + 1 : Stops(n)
  BY DEF FirstInside
<1> QED BY <1>5, <1>6

\* What is dropped was too old: the newest attempts stay as they were.
LEMMA RecentKeeps ==
  ASSUME NEW s \in Seq(Ages)
  PROVE  /\ Recent(s) \in Seq(Ages)
         /\ Len(Recent(s)) <= Len(s)
         /\ \A k \in Nat : Newest(Recent(s), k) = Newest(s, k)
<1> DEFINE f == FirstInside(s)  l == Len(s)  r == Recent(s)
<1>1. f \in 1 .. l + 1 /\ \A i \in 1 .. f - 1 : ~ Inside(s[i])
  BY FirstInsideIs
<1>2. l \in Nat /\ \A i \in 1 .. l : s[i] \in Ages
  BY LenProperties, ElementOfSeq
<1>3. r = SubSeq(s, f, l)
  BY DEF Recent
<1> HIDE DEF f, l, r
<1>4. f \in Int /\ l \in Int /\ \A i \in f .. l : s[i] \in Ages
  BY <1>1, <1>2
<1>5. /\ r \in Seq(Ages)
      /\ Len(r) = IF f <= l THEN l - f + 1 ELSE 0
      /\ \A i \in 1 .. l - f + 1 : r[i] = s[f + i - 1]
  BY <1>3, <1>4, SubSeqProperties
<1>6. Len(r) = l - f + 1
  BY <1>1, <1>2, <1>5
<1>7. ASSUME NEW k \in Nat PROVE Newest(r, k) = Newest(s, k)
  <2>1. CASE k < l - f + 1
    <3>1. l - f + 1 - k \in 1 .. l - f + 1 /\ f + (l - f + 1 - k) - 1 = l - k /\ k < l
      BY <1>1, <1>2, <2>1
    <3>2. r[l - f + 1 - k] = s[l - k]
      BY <1>5, <3>1
    <3>3. Newest(r, k) = r[l - f + 1 - k]
      BY <1>1, <1>2, <1>6, <2>1 DEF Newest
    <3>4. Newest(s, k) = s[l - k]
      BY <3>1 DEF Newest, l
    <3> QED BY <3>2, <3>3, <3>4
  <2>2. CASE ~ (k < l - f + 1) /\ k < l
    <3>1. l - k \in 1 .. f - 1 /\ l - k \in 1 .. l
      BY <1>1, <1>2, <2>2
    <3>2. s[l - k] \in Ages /\ ~ Inside(s[l - k])
      BY <1>1, <1>2, <3>1
    <3>3. s[l - k] = Window + 1
      BY <3>2, LimitAssumption DEF Ages, Inside
    <3> QED BY <1>6, <2>2, <3>3 DEF Newest, l
  <2>3. CASE ~ (k < l)
    <3>1. ~ (k < l - f + 1)
      BY <1>1, <1>2, <2>3
    <3> QED BY <1>6, <2>3, <3>1 DEF Newest, l
  <2> QED BY <2>1, <2>2, <2>3
<1>8. Len(r) <= l
  BY <1>1, <1>2, <1>6
<1> QED BY <1>5, <1>7, <1>8 DEF l, r

\* An attempt that is let through is the newest.
LEMMA AppendNewest ==
  ASSUME NEW s \in Seq(Ages)
  PROVE  /\ Append(s, 0) \in Seq(Ages) /\ Len(Append(s, 0)) = Len(s) + 1
         /\ \A k \in Nat : Newest(Append(s, 0), k) = IF k = 0 THEN 0 ELSE Newest(s, k - 1)
<1> DEFINE t == Append(s, 0)  l == Len(s)
<1>1. 0 \in Ages
  BY LimitAssumption DEF Ages
<1>2. l \in Nat
  BY LenProperties
<1>3. /\ t \in Seq(Ages) /\ Len(t) = l + 1
      /\ \A i \in 1 .. l : t[i] = s[i]
      /\ t[l + 1] = 0
  BY <1>1, AppendProperties
<1> HIDE DEF t, l
<1>4. ASSUME NEW k \in Nat PROVE Newest(t, k) = IF k = 0 THEN 0 ELSE Newest(s, k - 1)
  <2>1. CASE k = 0
    BY <1>2, <1>3, <2>1 DEF Newest
  <2>2. CASE k # 0 /\ k < l + 1
    <3>1. (l + 1) - k = l - (k - 1) /\ l - (k - 1) \in 1 .. l /\ k - 1 < l
      BY <1>2, <2>2
    <3> QED BY <1>3, <2>2, <3>1 DEF Newest, l
  <2>3. CASE ~ (k < l + 1)
    BY <1>2, <1>3, <2>3 DEF Newest, l
  <2> QED BY <2>1, <2>2, <2>3
<1> QED BY <1>3, <1>4 DEF t, l

\* Time ages all attempts alike, and what is too old stays so.
LEMMA AgedNewest ==
  ASSUME NEW s \in Seq(Ages), NEW t, t = [i \in DOMAIN s |-> Older(s[i], Window)]
  PROVE  /\ t \in Seq(Ages) /\ Len(t) = Len(s)
         /\ \A k \in Nat : Newest(t, k) = Older(Newest(s, k), Window)
<1>1. Len(s) \in Nat /\ DOMAIN s = 1 .. Len(s) /\ \A i \in 1 .. Len(s) : s[i] \in Ages
  BY LenProperties, ElementOfSeq
<1>2. \A a \in Ages : Older(a, Window) \in Ages
  BY LimitAssumption DEF Ages, Older
<1>3. t \in [1 .. Len(s) -> Ages]
  BY <1>1, <1>2
<1>4. t \in Seq(Ages) /\ Len(t) = Len(s)
  BY <1>1, <1>3, SeqDef
<1>5. ASSUME NEW k \in Nat PROVE Newest(t, k) = Older(Newest(s, k), Window)
  <2>1. CASE k < Len(s)
    <3>1. Len(s) - k \in 1 .. Len(s)
      BY <1>1, <2>1
    <3> QED BY <1>1, <1>4, <2>1, <3>1 DEF Newest
  <2>2. CASE ~ (k < Len(s))
    BY <1>4, <2>2, LimitAssumption DEF Newest, Older
  <2> QED BY <2>1, <2>2
<1> QED BY <1>4, <1>5

\* Whatever becomes of an attempt, limiter and history stay agreed.
LEMMA TryKeeps ==
  ASSUME AttemptInv, NEW ok, Try(ok)
  PROVE  AttemptInv'
<1> DEFINE r == Recent(hits)  p == Recent(taken)
<1>1. /\ r \in Seq(Ages) /\ Len(r) <= Len(hits)
      /\ \A k \in Nat : Newest(r, k) = Newest(hits, k)
  BY RecentKeeps DEF AttemptInv
<1>2. /\ p \in Seq(Ages)
      /\ \A k \in Nat : Newest(p, k) = Newest(taken, k)
  BY RecentKeeps DEF AttemptInv
<1>3. Len(r) \in Nat /\ Len(hits) \in Nat
  BY <1>1, LenProperties DEF AttemptInv
<1>4. CASE Len(r) >= MaxAttempts
  <2>1. hits' = r /\ taken' = taken
    BY <1>4 DEF Try, Hit
  <2> HIDE DEF r
  <2>2. Len(r) <= MaxAttempts
    BY <1>1, <1>3, LimitAssumption DEF AttemptInv
  <2> QED BY <1>1, <2>1, <2>2 DEF AttemptInv, Newest, Ages
<1>5. CASE ~ (Len(r) >= MaxAttempts)
  <2>1. hits' = Append(r, 0) /\ taken' = Append(p, 0)
    BY <1>5 DEF Try, Hit
  <2> HIDE DEF r, p
  <2>2. /\ hits' \in Seq(Ages) /\ taken' \in Seq(Ages) /\ Len(hits') = Len(r) + 1
        /\ \A k \in Nat : /\ Newest(hits', k) = IF k = 0 THEN 0 ELSE Newest(r, k - 1)
                          /\ Newest(taken', k) = IF k = 0 THEN 0 ELSE Newest(p, k - 1)
    BY <1>1, <1>2, <2>1, AppendNewest
  <2>3. Len(hits') <= MaxAttempts
    BY <1>3, <1>5, <2>2, LimitAssumption
  <2>4. ASSUME NEW k \in Nat PROVE Newest(hits', k) = Newest(taken', k)
    <3>1. CASE k = 0
      BY <2>2, <3>1
    <3>2. CASE k # 0
      <4>1. k - 1 \in Nat
        BY <3>2
      <4> QED BY <1>1, <1>2, <2>2, <3>2, <4>1 DEF AttemptInv
    <3> QED BY <3>1, <3>2
  <2> QED BY <2>2, <2>3, <2>4 DEF AttemptInv, Newest, Ages
<1> QED BY <1>4, <1>5

LEMMA TickKeepsAttempts ==
  ASSUME AttemptInv, Tick
  PROVE  AttemptInv'
<1> DEFINE p == Recent(taken)
<1>1. /\ p \in Seq(Ages)
      /\ \A k \in Nat : Newest(p, k) = Newest(taken, k)
  BY RecentKeeps DEF AttemptInv
<1>2. /\ hits' = [i \in DOMAIN hits |-> Older(hits[i], Window)]
      /\ taken' = [i \in DOMAIN p |-> Older(p[i], Window)]
  BY DEF Tick
<1> HIDE DEF p
<1>3. /\ hits' \in Seq(Ages) /\ Len(hits') = Len(hits)
      /\ \A k \in Nat : Newest(hits', k) = Older(Newest(hits, k), Window)
  BY <1>2, AgedNewest DEF AttemptInv
<1>4. /\ taken' \in Seq(Ages)
      /\ \A k \in Nat : Newest(taken', k) = Older(Newest(p, k), Window)
  BY <1>1, <1>2, AgedNewest
<1>5. \A k \in Nat : Newest(hits', k) = Newest(taken', k)
  BY <1>1, <1>3, <1>4 DEF AttemptInv
<1> QED BY <1>3, <1>4, <1>5 DEF AttemptInv, Newest, Ages

\* What the history has inside the window the limiter still counts.
LEMMA BoundFollows ==
  ASSUME AttemptInv
  PROVE  AttemptsBounded
<1> DEFINE m == Len(taken)
           inside == {i \in DOMAIN taken : Inside(taken[i])}
           last == (m - MaxAttempts + 1) .. m
<1>1. m \in Nat /\ DOMAIN taken = 1 .. m /\ Len(hits) \in Nat /\ MaxAttempts \in Nat \ {0}
  BY LenProperties, LimitAssumption DEF AttemptInv
<1>2. ASSUME NEW i \in inside PROVE i \in last
  <2>1. i \in 1 .. m /\ m - i \in Nat /\ m - i < m /\ m - (m - i) = i
    BY <1>1
  <2>2. Newest(taken, m - i) = taken[i]
    BY <2>1 DEF Newest
  <2>3. Newest(hits, m - i) # Window + 1
    BY <1>2, <2>1, <2>2, LimitAssumption DEF AttemptInv, Inside
  <2>4. m - i < Len(hits)
    BY <2>3 DEF Newest
  <2> QED BY <1>1, <2>1, <2>4 DEF AttemptInv
<1>3. m - MaxAttempts + 1 \in Int /\ m \in Int
  BY <1>1
<1> HIDE DEF m, inside
<1>4. IsFiniteSet(last) /\ Cardinality(last) = MaxAttempts
  <2>1. m - MaxAttempts + 1 <= m /\ m - (m - MaxAttempts + 1) + 1 = MaxAttempts
    BY <1>1
  <2>2. /\ IsFiniteSet(last)
        /\ Cardinality(last) = IF m - MaxAttempts + 1 > m THEN 0
                               ELSE m - (m - MaxAttempts + 1) + 1
    BY <1>3, FS_Interval, Zenon
  <2> QED BY <1>1, <1>3, <2>1, <2>2
<1>5. Cardinality(inside) <= Cardinality(last)
  BY <1>2, <1>4, FS_Subset
<1> QED BY <1>4, <1>5 DEF AttemptsBounded, inside

----------------------------------------------------------------------------
(* The first run.  The setup that has the write lock sees rows that belong  *)
(* to nobody, to a user, or to itself; once it has its copy of the database *)
(* there is one from before the first user, its own or an older one.        *)

Locking == {"admin", "claimed"}
Covered == {"saved", "counted"} \cup Locking
CopyIsThere == \E b \in backups : b.fresh

WorkOwned ==
  /\ DOMAIN work \subseteq Rows
  /\ \A r \in DOMAIN work : work[r] \in users \cup {writer, NoOne}
OwnersExist == \A r \in Present : owner[r] \in users \cup {NoOne}
OneWriter == \A s \in Setups : step[s] \in Locking => writer = s
CopyFirst == users # {} \/ (\E s \in Setups : step[s] \in Covered) => CopyIsThere
NoOrphan ==
  /\ Seeds \subseteq Present /\ Seeds \subseteq DOMAIN work
  /\ users # {} => \A r \in Present : owner[r] \in users

ClaimInv ==
  /\ ClaimTypeOK /\ WorkOwned /\ OwnersExist /\ OneWriter /\ CopyFirst
  /\ ~ Clears => NoOrphan

\* Every way a setup, or the start, leaves the state of the claim.
LEMMA ClaimInitial == ClaimInit \/ (\E s \in Setups : ClaimedInit(s)) => ClaimInv
<1> USE DEF ClaimInv, ClaimTypeOK, WorkOwned, OwnersExist, OneWriter, CopyFirst, NoOrphan,
            Present, Covered, Locking, CopyIsThere
<1>1. ASSUME ClaimInit PROVE ClaimInv
  BY <1>1, SetupAssumption DEF ClaimInit, Rows
<1>2. ASSUME NEW s \in Setups, ClaimedInit(s) PROVE ClaimInv
  <2>1. /\ users = {s} /\ writer = NoOne /\ file = Legacy \cup Seeds \cup {Profile[s]}
        /\ owner = [r \in Legacy \cup Seeds \cup {Profile[s]} |-> s] /\ work = owner
        /\ step = [q \in Setups |-> IF q = s THEN "done" ELSE "refused"]
    BY <1>2 DEF ClaimedInit
  <2>2. CopyIsThere
    BY <1>2 DEF ClaimedInit
  <2>3. Legacy \cup Seeds \cup {Profile[s]} \subseteq Rows
    BY DEF Rows
  <2> QED BY <2>1, <2>2, <2>3
<1> QED BY <1>1, <1>2

LEMMA SetupStepKeeps ==
  ASSUME ClaimInv, NEW s \in Setups, SetupStep(s)
  PROVE  ClaimInv'
<1> USE DEF ClaimInv, ClaimTypeOK, WorkOwned, OwnersExist, OneWriter, CopyFirst, NoOrphan,
            Present, Covered, Locking, CopyIsThere, Goes
<1>1. CASE BeginSetup(s)
  BY <1>1 DEF BeginSetup
<1>2. CASE BackUp(s)
  <2>1. CASE Goes(s, "refused") /\ UNCHANGED backups
    BY <1>2, <2>1 DEF BackUp
  <2>2. CASE /\ backups' = backups \cup {[rows |-> file, fresh |-> users = {}]}
             /\ Goes(s, "saved")
    <3>1. CASE users = {}
      <4>1. [rows |-> file, fresh |-> users = {}] \in backups'
        BY <2>2
      <4>2. [rows |-> file, fresh |-> users = {}].fresh
        BY <3>1
      <4>3. \E b \in backups' : b.fresh
        BY <4>1, <4>2, Zenon
      <4> QED BY <1>2, <2>2, <4>3 DEF BackUp
    <3>2. CASE users # {}
      <4>1. \E b \in backups' : b.fresh
        BY <2>2, <3>2
      <4> QED BY <1>2, <2>2, <4>1 DEF BackUp
    <3> QED BY <3>1, <3>2
  <2> QED BY <1>2, <2>1, <2>2 DEF BackUp
<1>3. CASE CountRows(s)
  BY <1>3 DEF CountRows
<1>4. CASE AddAdmin(s)
  BY <1>4, SetupAssumption DEF AddAdmin
<1>5. CASE ClaimRows(s)
  BY <1>5 DEF ClaimRows
<1>6. CASE FinishSetup(s)
  <2>1. writer = s /\ writer' = NoOne /\ work' = owner' /\ UNCHANGED <<file, backups>>
    BY <1>6 DEF FinishSetup
  <2>2. CopyIsThere
    BY <1>6 DEF FinishSetup
  <2>3. CASE ~ Verified(s)
    BY <1>6, <2>1, <2>2, <2>3 DEF FinishSetup
  <2>4. CASE Verified(s)
    <3>1. users' = users \cup {s} /\ owner' = WithProfile(s) /\ Goes(s, "signin")
      BY <1>6, <2>4 DEF FinishSetup
    <3>2. \A r \in DOMAIN work : work[r] \in users'
      BY <2>1, <2>4, <3>1 DEF Verified
    <3>3. /\ DOMAIN work \subseteq DOMAIN owner' /\ DOMAIN owner' \subseteq Rows
          /\ \A r \in DOMAIN owner' : owner'[r] \in users'
      BY <3>1, <3>2 DEF WithProfile, Rows
    <3> QED BY <2>1, <2>2, <3>1, <3>3
  <2> QED BY <2>3, <2>4
<1> QED BY <1>1, <1>2, <1>3, <1>4, <1>5, <1>6 DEF SetupStep

LEMMA RestartKeeps ==
  ASSUME ClaimInv, RestartSetups
  PROVE  ClaimInv'
<1> USE DEF ClaimInv, ClaimTypeOK, WorkOwned, OwnersExist, OneWriter, CopyFirst, NoOrphan,
            Present, Covered, Locking, CopyIsThere
<1> DEFINE own == Adopted(owner)
<1>1. /\ DOMAIN own = DOMAIN owner
      /\ \A r \in DOMAIN own : own[r] \in users \cup {NoOne}
      /\ \A r \in DOMAIN own : owner[r] # NoOne => own[r] = owner[r]
  <2>1. CASE Cardinality(users) = 1
    <3>1. users # {}
      BY <2>1, FS_EmptySet
    <3> QED BY <2>1, <3>1 DEF Adopted
  <2>2. CASE Cardinality(users) # 1
    BY <2>2 DEF Adopted
  <2> QED BY <2>1, <2>2
<1> HIDE DEF own
<1>2. owner' = Seeded(own)
  BY DEF RestartSetups, own
<1>3. /\ DOMAIN own \subseteq DOMAIN owner' /\ DOMAIN owner' \subseteq Rows
      /\ \A r \in DOMAIN owner' : owner'[r] \in users \cup {NoOne}
  BY <1>1, <1>2 DEF Seeded, Rows
<1>4. ~ Clears => \A r \in DOMAIN owner' : r \in DOMAIN own /\ owner'[r] = own[r]
  BY <1>1, <1>2 DEF Seeded
<1>5. /\ UNCHANGED <<users, backups>> /\ writer' = NoOne /\ work' = owner' /\ file' = DOMAIN owner
      /\ step' = [s \in Setups |-> IF step[s] \in {"refused", "done"} THEN step[s]
                                   ELSE IF s \in users THEN "done" ELSE "idle"]
  BY DEF RestartSetups
<1>6. users \subseteq Setups /\ NoOne \notin Setups
  BY SetupAssumption
<1>7. (~ Clears => NoOrphan)'
  BY <1>1, <1>3, <1>4, <1>5, <1>6
<1> QED BY <1>1, <1>3, <1>5, <1>7

LEMMA CategoriesKeep ==
  ASSUME ClaimInv, Checkpoint \/ ClearCategories
  PROVE  ClaimInv'
BY DEF ClaimInv, ClaimTypeOK, WorkOwned, OwnersExist, OneWriter, CopyFirst, NoOrphan,
       Present, Covered, Locking, CopyIsThere, Checkpoint, ClearCategories

\* The invariant only speaks of the claim.
LEMMA ClaimElsewhere ==
  ASSUME ClaimInv, UNCHANGED claimVars
  PROVE  ClaimInv'
BY DEF ClaimInv, ClaimTypeOK, WorkOwned, OwnersExist, OneWriter, CopyFirst, NoOrphan,
       Present, Covered, Locking, CopyIsThere, claimVars

\* The setup that is done signs in.
LEMMA FirstSessionKeepsClaim ==
  ASSUME ClaimInv, NEW s \in Setups, FirstSession(s)
  PROVE  ClaimInv'
BY DEF ClaimInv, ClaimTypeOK, WorkOwned, OwnersExist, OneWriter, CopyFirst, NoOrphan,
       Present, Covered, Locking, CopyIsThere, FirstSession, Goes

----------------------------------------------------------------------------
(* Sessions and challenges.                                                 *)

SessionRow == [age : 0 .. AbsoluteDays + 1, idle : 0 .. IdleDays + 1]
SessionInv ==
  /\ DOMAIN sessions \subseteq Tokens
  /\ \A t \in DOMAIN sessions : sessions[t] \in SessionRow
  /\ cookie \in [token : Tokens \cup {NoToken}, age : Int, seen : Int]

\* A tab whose challenge is still pending has had no answer accepted.
ChallengeInv ==
  /\ pending \in [tab : Tabs \cup {NoTab}, age : Nat]
  /\ accepted \in [Tabs -> {0, 1}]
  /\ \A tab \in Tabs : pending.tab = tab => accepted[tab] = 0

LEMMA StartKeeps ==
  ASSUME SessionInv, NEW t \in Tokens, StartSession(t)
  PROVE  SessionInv'
<1>1. Fresh \in SessionRow
  BY LimitAssumption DEF Fresh, SessionRow
<1> QED BY <1>1 DEF SessionInv, StartSession, Put, SessionRow

LEMMA LookupKeeps ==
  ASSUME SessionInv, NEW t, sessions' = AfterLookup(t), UNCHANGED cookie
  PROVE  SessionInv'
<1>1. \A u \in DOMAIN sessions : Touched(sessions[u]) \in SessionRow
  BY LimitAssumption DEF SessionInv, Touched, SessionRow
<1>2. /\ DOMAIN sessions' \subseteq DOMAIN sessions
      /\ \A u \in DOMAIN sessions' : sessions'[u] \in {sessions[u], Touched(sessions[u])}
  BY DEF AfterLookup, Dropped, Put
<1> QED BY <1>1, <1>2 DEF SessionInv, SessionRow

LEMMA TickKeepsSessions ==
  ASSUME SessionInv, Tick
  PROVE  SessionInv'
<1>1. ASSUME NEW t \in DOMAIN sessions PROVE sessions'[t] \in SessionRow
  <2>1. /\ sessions[t].age \in 0 .. AbsoluteDays + 1
        /\ sessions[t].idle \in 0 .. IdleDays + 1
    BY DEF SessionInv, SessionRow
  <2>2. /\ Older(sessions[t].age, AbsoluteDays) \in 0 .. AbsoluteDays + 1
        /\ Older(sessions[t].idle, IdleDays) \in 0 .. IdleDays + 1
    BY <2>1, LimitAssumption DEF Older
  <2> QED BY <2>2 DEF Tick, SessionRow
<1>2. cookie' \in [token : Tokens \cup {NoToken}, age : Int, seen : Int]
  <2>1. CASE cookie' = NoCookie
    BY <2>1 DEF NoCookie
  <2>2. CASE cookie' = [cookie EXCEPT !.age = Older(@, CookieDays), !.seen = Older(@, IdleDays)]
    <3>1. Older(cookie.age, CookieDays) \in Int /\ Older(cookie.seen, IdleDays) \in Int
      BY DEF SessionInv, Older
    <3> QED BY <2>2, <3>1 DEF SessionInv
  <2> QED BY <2>1, <2>2 DEF Tick
<1>3. DOMAIN sessions' = DOMAIN sessions
  BY DEF Tick
<1> QED BY <1>1, <1>2, <1>3 DEF SessionInv, SessionRow

LEMMA CeremonyKeeps ==
  ASSUME ChallengeInv, NEW tab \in Tabs, AskForChallenge(tab) \/ AnswerChallenge(tab)
  PROVE  ChallengeInv'
<1>1. CASE AskForChallenge(tab)
  BY <1>1 DEF AskForChallenge, ChallengeInv
<1>2. CASE AnswerChallenge(tab)
  <2>1. pending' = NoChallenge
    BY <1>2 DEF AnswerChallenge, AfterPop
  <2>2. accepted' \in [Tabs -> {0, 1}]
    <3>1. CASE Answers(tab) /\ ~ busy
      <4>1. accepted[tab] = 0
        BY <3>1 DEF Answers, ChallengeInv
      <4>2. accepted' = [accepted EXCEPT ![tab] = IF @ > 1 THEN @ ELSE @ + 1]
        BY <1>2, <3>1 DEF AnswerChallenge
      <4> QED BY <4>1, <4>2 DEF ChallengeInv
    <3>2. CASE ~ (Answers(tab) /\ ~ busy)
      BY <1>2, <3>2 DEF AnswerChallenge, ChallengeInv
    <3> QED BY <3>1, <3>2
  <2> QED BY <2>1, <2>2, LimitAssumption DEF ChallengeInv, NoChallenge
<1> QED BY <1>1, <1>2

LEMMA TickKeepsChallenge ==
  ASSUME ChallengeInv, Tick
  PROVE  ChallengeInv'
BY LimitAssumption DEF ChallengeInv, Tick, NoChallenge, Older

----------------------------------------------------------------------------
(* The steps.                                                               *)

SignInInv == ClaimInv /\ SessionInv /\ AttemptInv /\ ChallengeInv

LEMMA SessionElsewhere == SessionInv /\ UNCHANGED <<sessions, cookie>> => SessionInv'
BY DEF SessionInv, SessionRow

LEMMA AttemptElsewhere == AttemptInv /\ UNCHANGED <<hits, taken>> => AttemptInv'
BY DEF AttemptInv, Newest, Ages

LEMMA ChallengeElsewhere == ChallengeInv /\ UNCHANGED <<pending, accepted>> => ChallengeInv'
BY DEF ChallengeInv

LEMMA SignInInit == Init => SignInInv
<1> SUFFICES ASSUME Init PROVE SignInInv
  OBVIOUS
<1>1. ClaimInv
  BY ClaimInitial DEF Init
<1>2. SessionInv
  BY DEF Init, SessionInv, NoCookie
<1>3. AttemptInv
  <2>1. hits = << >> /\ taken = << >>
    BY DEF Init
  <2>2. << >> \in Seq(Ages) /\ Len(<< >>) = 0
    BY EmptySeq
  <2> QED BY <2>1, <2>2, LimitAssumption DEF AttemptInv
<1>4. ChallengeInv
  BY LimitAssumption DEF Init, ChallengeInv, NoChallenge
<1> QED BY <1>1, <1>2, <1>3, <1>4 DEF SignInInv

LEMMA SignInNext == SignInInv /\ [Next]_vars => SignInInv'
<1> SUFFICES ASSUME SignInInv, [Next]_vars PROVE SignInInv'
  OBVIOUS
<1> USE DEF SignInInv
<1> USE ClaimElsewhere, SessionElsewhere, AttemptElsewhere, ChallengeElsewhere
<1>1. CASE UNCHANGED vars
  BY <1>1 DEF vars, sessionVars, attemptVars
<1>2. CASE ClaimStep
  <2>1. ClaimInv'
    BY <1>2, SetupStepKeeps, CategoriesKeep DEF ClaimStep
  <2> QED BY <1>2, <2>1 DEF ClaimStep, sessionVars, attemptVars
<1>3. ASSUME NEW s \in Setups, FirstSession(s) PROVE SignInInv'
  <2>1. ClaimInv'
    BY <1>3, FirstSessionKeepsClaim
  <2>2. SessionInv'
    BY <1>3, StartKeeps DEF FirstSession
  <2> QED BY <1>3, <2>1, <2>2 DEF FirstSession, attemptVars
<1>4. CASE Pages
  <2>1. ASSUME NEW q \in Requests, OpenPage(q) PROVE SignInInv'
    <3>1. SessionInv'
      BY <2>1 DEF OpenPage, SessionInv, SessionRow
    <3> QED BY <2>1, <3>1 DEF OpenPage, attemptVars
  <2>2. ASSUME NEW q \in Requests, Gate(q) PROVE SignInInv'
    <3>1. SessionInv'
      BY <2>2, LookupKeeps DEF Gate
    <3> QED BY <2>2, <3>1 DEF Gate, attemptVars
  <2>3. ASSUME NEW q \in Requests, Route(q) PROVE SignInInv'
    <3>1. SessionInv'
      BY <2>3, LookupKeeps DEF Route
    <3> QED BY <2>3, <3>1 DEF Route, attemptVars
  <2>4. CASE SignOut
    <3>1. SessionInv'
      BY <2>4 DEF SignOut, SessionInv, Dropped, NoCookie, SessionRow
    <3> QED BY <2>4, <3>1 DEF SignOut, attemptVars
  <2> QED BY <1>4, <2>1, <2>2, <2>3, <2>4 DEF Pages
<1>5. CASE TurnedAway
  BY <1>5, TryKeeps DEF TurnedAway, sessionVars
<1>6. CASE SignInByPassword
  <2>1. SessionInv'
    BY <1>6, StartKeeps DEF SignInByPassword
  <2> QED BY <1>6, <2>1, TryKeeps DEF SignInByPassword
<1>7. ASSUME NEW tab \in Tabs, AskForChallenge(tab) PROVE SignInInv'
  BY <1>7, TryKeeps, CeremonyKeeps DEF AskForChallenge, sessionVars
<1>8. ASSUME NEW tab \in Tabs, AnswerChallenge(tab) PROVE SignInInv'
  <2>1. SessionInv'
    BY <1>8, StartKeeps DEF AnswerChallenge
  <2> QED BY <1>8, <2>1, TryKeeps, CeremonyKeeps DEF AnswerChallenge
<1>9. CASE BusyChanges
  BY <1>9 DEF BusyChanges, attemptVars
<1>10. CASE Restart
  <2>1. ClaimInv'
    BY <1>10, RestartKeeps DEF Restart
  <2>2. AttemptInv'
    <3>1. hits' = << >> /\ taken' = << >>
      BY <1>10 DEF Restart
    <3>2. << >> \in Seq(Ages) /\ Len(<< >>) = 0
      BY EmptySeq
    <3> QED BY <3>1, <3>2, LimitAssumption DEF AttemptInv, Newest, Ages
  <2>3. ChallengeInv'
    BY <1>10, LimitAssumption DEF Restart, ChallengeInv, NoChallenge
  <2> QED BY <1>10, <2>1, <2>2, <2>3 DEF Restart
<1>11. CASE Tick
  BY <1>11, TickKeepsSessions, TickKeepsAttempts, TickKeepsChallenge DEF Tick
<1> QED
  BY <1>1, <1>2, <1>3, <1>4, <1>5, <1>6, <1>7, <1>8, <1>9, <1>10, <1>11 DEF Next, Ceremonies

LEMMA SignInAlways == Spec => []SignInInv
BY SignInInit, SignInNext, PTL DEF Spec

----------------------------------------------------------------------------
(* What follows.                                                            *)

\* However password and passkey attempts, refusals and restarts mix, no more
\* than MaxAttempts get through within a window (RateLimiter.hit), and sessions,
\* cookie and the claim's rows keep their shapes.
THEOREM AttemptsStayBounded == Spec => []TypeOK
<1>1. SignInInv => TypeOK
  BY BoundFollows
     DEF SignInInv, ClaimInv, SessionInv, SessionRow, AttemptInv, Ages, TypeOK
<1> QED BY <1>1, SignInAlways, PTL

\* Unless the owner deletes all categories, which the next start seeds anew, no
\* overlap of setups, failed update or restart leaves a row without an owner
\* once there is a user, or a user without a copy from before
\* (verify_claim_integrity and the order in setup_claim).
THEOREM ClaimStaysWhole ==
  ASSUME ~ Clears
  PROVE  Spec => []ClaimIsWhole
<1>1. SignInInv => ClaimIsWhole
  BY DEF SignInInv, ClaimInv, NoOrphan, CopyFirst, CopyIsThere, ClaimIsWhole
<1> QED BY <1>1, SignInAlways, PTL

\* However often an answer is sent, in however many tabs, the challenge it
\* answers counts once (_pop in webauthn_service.py).
THEOREM AnswersCountOnce == Spec => []AnswerOnce
<1>1. SignInInv => AnswerOnce
  BY DEF SignInInv, ChallengeInv, AnswerOnce
<1> QED BY <1>1, SignInAlways, PTL
=============================================================================
