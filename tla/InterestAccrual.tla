-------------------------- MODULE InterestAccrual --------------------------
(***************************************************************************)
(* Interest this app derives itself (services/interest_accrual.py): one    *)
(* accrual row per month on the balance of the month's end, compounding,   *)
(* and the re-check that request handlers and the start of the server run  *)
(* after the account's other rows have changed.                            *)
(*                                                                         *)
(* A handler commits its change first; the re-check reads the ledger       *)
(* without a lock and takes SQLite's write lock with its first delete or   *)
(* insert, so two handlers can check the same ledger and both repair it.   *)
(***************************************************************************)
EXTENDS Integers, FiniteSets, FiniteSetsExt

CONSTANTS
  OtherRows,    \* the account's rows other than accruals
  Amount,       \* Amount[e]: the amount of row e, in cents
  Handlers,     \* request handlers
  Instances,    \* what a behaviour is about: [crew, months, quiet], the
                \* requests there are, a bound on the months of the calendar,
                \* the rows that get on the ledger without a re-check
  RateNum,      \* the monthly rate is RateNum / RateDen
  RateDen,
  MaxCopies     \* bound on accrual rows of one month

Off == 0                            \* the month of a row not on the ledger

ASSUME EntryAssumption ==
  /\ IsFiniteSet(OtherRows) /\ IsFiniteSet(Handlers)
  /\ Amount \in [OtherRows -> Int]
  /\ Instances \subseteq [crew : SUBSET Handlers, months : Nat, quiet : SUBSET OtherRows]
ASSUME RateAssumption ==
  RateNum \in Nat \ {0} /\ RateDen \in Nat \ {0} /\ MaxCopies \in Nat

VARIABLES
  inst,     \* the member of Instances this behaviour is about
  month,    \* the month each row is dated in, Off if it is not there
  accr,     \* the accrual rows; n tells apart rows of one month
  closed,   \* months whose last day is not in the future
  stage,    \* where each request is
  req,      \* what the re-check of a request read
  due,      \* history: no re-check since a month closed or accruing began
  started   \* history: the user has started the accrual and deleted none since

Months == 1 .. inst.months

accrualVars == <<inst, month, accr, closed, stage, req, due, started>>

----------------------------------------------------------------------------
(* The arithmetic of the service.                                           *)

SumOf(S, val(_)) == MapThenSumSet(val, S)
Balance(rows, dated, m) ==
  SumOf({e \in OtherRows : dated[e] \in 1 .. m}, LAMBDA e : Amount[e])
    + SumOf({a \in rows : a.month <= m}, LAMBDA a : a.amount)

\* (abs(balance) * rate / 12) rounded half up, away from zero.
Interest(b) ==
  LET size(a) == (2 * a * RateNum + RateDen) \div (2 * RateDen) IN
  IF b < 0 THEN - size(- b) ELSE size(b)

RowsOf(rows, m) == {a \in rows : a.month = m}
MonthsOf(rows) == {a.month : a \in rows}

\* The month of the earliest transaction, accruals included.
FirstMonth(rows, dated) ==
  Min({dated[e] : e \in {x \in OtherRows : dated[x] # Off}} \cup MonthsOf(rows))
Empty(rows, dated) == rows = {} /\ \A e \in OtherRows : dated[e] = Off

\* Mistake: every month is charged on the balance before this run.
PostRunSimple(rows, dated, done, start) ==
  rows \cup {[month |-> m, n |-> 1, amount |-> Interest(Balance(rows, dated, m))] :
               m \in {x \in start .. closed : /\ x \notin done
                                              /\ Interest(Balance(rows, dated, x)) # 0}}

\* accrue_interest: one month after the other, each on a balance that has
\* the interest of the months before in it.
PostRun(rows, dated, done, start) ==
  LET free(S, m) == Min({n \in 1 .. MaxCopies : \A a \in S : <<a.month, a.n>> # <<m, n>>})
      post[m \in start - 1 .. closed] ==
        IF m < start THEN rows
        ELSE LET before == post[m - 1]
                 i == Interest(Balance(before, dated, m))
             IN IF m \in done \/ i = 0 THEN before
                ELSE before \cup {[month |-> m, n |-> free(before, m), amount |-> i]}
  IN IF start > closed THEN rows ELSE post[closed]

\* Mistake: several accruals in one month are taken for one.
WrongByTotal(rows, dated, m) ==
  LET own == RowsOf(rows, m) IN
  own # {} /\ (CHOOSE a \in own : TRUE).amount # Interest(Balance(rows \ own, dated, m))

\* A month the re-check rejects: two accruals, or not the amount that the
\* balance without its own accrual calls for.
Wrong(rows, dated, m) ==
  LET own == RowsOf(rows, m) IN
  \/ Cardinality(own) > 1
  \/ SumOf(own, LAMBDA a : a.amount) # Interest(Balance(rows \ own, dated, m))

WrongMonths(rows, dated) ==
  IF rows = {} THEN {}
  ELSE {m \in FirstMonth(rows, dated) .. closed : Wrong(rows, dated, m)}

\* accrues_own_interest and the walk of resync_account_interest: the months
\* from which on everything is rebuilt, at most one.
Cutoff(rows, dated) ==
  {m \in WrongMonths(rows, dated) : \A x \in WrongMonths(rows, dated) : m <= x}

\* Mistake: the accruals before the first wrong month go as well.
DoomedAll(rows, cutoff) == rows

Doomed(rows, cutoff) == {a \in rows : a.month >= cutoff}

\* resync_account_interest with nothing in between.
Resynced(rows, dated) ==
  IF Cutoff(rows, dated) = {} THEN rows
  ELSE LET c == Min(Cutoff(rows, dated))
           kept == rows \ Doomed(rows, c)
       IN PostRun(kept, dated, MonthsOf(kept), c)

----------------------------------------------------------------------------
NoRead == [cutoff |-> Off, doomed |-> {}, done |-> {}]

AccrualInit ==
  /\ inst \in Instances
  /\ month = [e \in OtherRows |-> Off]
  /\ accr = {} /\ closed = 0
  /\ stage = [r \in Handlers |-> "idle"]
  /\ req = [r \in Handlers |-> NoRead]
  /\ due = FALSE /\ started = FALSE

\* The handlers that create, edit (here: re-date) or delete a row, and the
\* import: commit, then re-check.
Change(r, e, m) ==
  /\ stage[r] = "idle" /\ m # month[e]
  /\ month' = [month EXCEPT ![e] = m]
  /\ stage' = [stage EXCEPT ![r] = "check"]
  /\ UNCHANGED <<accr, closed, req, due, started>>

\* transaction_delete on an accrual row.
DeleteAccrual(r, a) ==
  /\ stage[r] = "idle" /\ a \in accr
  /\ accr' = accr \ {a}
  /\ started' = FALSE
  /\ stage' = [stage EXCEPT ![r] = "check"]
  /\ UNCHANGED <<month, closed, req, due>>

\* A recovered row, a confirmed schedule occurrence, the counterpart of a
\* transfer: these handlers do not re-check.
PostQuietly(e, m) ==
  /\ month[e] = Off
  /\ month' = [month EXCEPT ![e] = m]
  /\ UNCHANGED <<accr, closed, stage, req, due, started>>

\* resync_account_interest up to the rows to delete.
Check(r) ==
  /\ stage[r] = "check"
  /\ IF Cutoff(accr, month) = {}
     THEN /\ stage' = [stage EXCEPT ![r] = "idle"]
          /\ req' = [req EXCEPT ![r] = NoRead]
          /\ due' = FALSE
     ELSE /\ \E c \in Cutoff(accr, month) :
               req' = [req EXCEPT ![r] = [cutoff |-> c, doomed |-> Doomed(accr, c),
                                          done |-> {}]]
          /\ stage' = [stage EXCEPT ![r] = "rebuild"]
          /\ UNCHANGED due
  /\ UNCHANGED <<month, accr, closed, started>>

\* Deleting takes the write lock, so the rebuilding that follows reads what
\* is there and nothing comes between.
Rebuild(r) ==
  /\ stage[r] = "rebuild" /\ req[r].doomed # {}
  /\ LET kept == accr \ req[r].doomed IN
     accr' = PostRun(kept, month, MonthsOf(kept), req[r].cutoff)
  /\ stage' = [stage EXCEPT ![r] = "idle"]
  /\ req' = [req EXCEPT ![r] = NoRead]
  /\ due' = FALSE
  /\ UNCHANGED <<month, closed, started>>

\* With nothing to delete accrue_interest first reads, without the lock,
\* which months are done ...
ReadDone(r) ==
  /\ stage[r] = "rebuild" /\ req[r].doomed = {}
  /\ req' = [req EXCEPT ![r].done = MonthsOf(accr)]
  /\ stage' = [stage EXCEPT ![r] = "post"]
  /\ UNCHANGED <<month, accr, closed, due, started>>

\* ... and so does the Accrue interest button.
StartAccruing(r, start) ==
  /\ stage[r] = "idle" /\ ~ Empty(accr, month)
  /\ start >= FirstMonth(accr, month)
  /\ req' = [req EXCEPT ![r] = [cutoff |-> start, doomed |-> {}, done |-> MonthsOf(accr)]]
  /\ stage' = [stage EXCEPT ![r] = "accrue"]
  /\ UNCHANGED <<month, accr, closed, due, started>>

\* The posting itself is one transaction.
PostAccruals(r) ==
  /\ stage[r] \in {"post", "accrue"}
  /\ accr' = PostRun(accr, month, req[r].done, req[r].cutoff)
  /\ due' = (stage[r] = "accrue")
  /\ started' = (started \/ accr' # {})
  /\ stage' = [stage EXCEPT ![r] = "idle"]
  /\ req' = [req EXCEPT ![r] = NoRead]
  /\ UNCHANGED <<month, closed>>

\* The end of a month; nobody posts its interest until something happens.
MonthEnds ==
  /\ closed < inst.months
  /\ closed' = closed + 1
  /\ due' = TRUE
  /\ UNCHANGED <<month, accr, stage, req, started>>

\* The server stops, whatever its requests were doing, and starts: lifespan
\* runs _sync_interest_accruals before it serves any request.
ServerStarts ==
  /\ accr' = Resynced(accr, month)
  /\ stage' = [r \in Handlers |-> "idle"]
  /\ req' = [r \in Handlers |-> NoRead]
  /\ due' = FALSE
  /\ UNCHANGED <<month, closed, started>>

Operation ==
  \/ \E e \in inst.quiet, m \in Months : PostQuietly(e, m)
  \/ \E r \in inst.crew :
       \/ \E e \in OtherRows \ inst.quiet, m \in Months \cup {Off} : Change(r, e, m)
       \/ \E a \in accr : DeleteAccrual(r, a)
       \/ \E m \in Months : StartAccruing(r, m)
       \/ Check(r) \/ Rebuild(r) \/ ReadDone(r) \/ PostAccruals(r)

AccrualNext == (MonthEnds \/ ServerStarts \/ Operation) /\ UNCHANGED inst

AccrualSpec == AccrualInit /\ [][AccrualNext]_accrualVars

----------------------------------------------------------------------------
(* Properties.                                                              *)

\* The reference: what the account is worth at the end of each month when the
\* interest of every month is charged on all that came before.
Worth ==
  LET w[m \in 0 .. closed] ==
        IF m = 0 THEN 0
        ELSE LET b == w[m - 1] + SumOf({e \in OtherRows : month[e] = m}, LAMBDA e : Amount[e])
             IN b + Interest(b)
  IN w

\* Every closed month carries the accrual of the reference, and only one.
Agrees ==
  \A m \in 1 .. closed :
    /\ Cardinality(RowsOf(accr, m)) <= 1
    /\ Balance(accr, month, m) = Worth[m]

Quiet == \A r \in Handlers : stage[r] = "idle"

\* Once the handlers are done, the accruals are those of the rows the ledger
\* now holds: repairing from the first wrong month is as good as starting
\* over (resync_account_interest: "Make the account's accruals agree with the
\* transactions it now holds").
AccrualsAgree == Quiet /\ ~ due /\ accr # {} => Agrees

\* AccrualsAgree for a handler at a time, with every row re-checked.
AccrualsAgreeAlone == Cardinality(inst.crew) = 1 /\ inst.quiet = {} => AccrualsAgree

\* A start repairs whatever races, unchecked rows and lost requests have left.
StartRepairs == [][ServerStarts /\ accr' # {} => Agrees']_accrualVars

\* The re-check touches no accrual before the first month that is wrong.
RightMonthsKept ==
  [][\A r \in Handlers : Rebuild(r) =>
       \A a \in accr : a.month < req[r].cutoff => a \in accr']_accrualVars

\* "and only then does this service keep it current" (accrues_own_interest):
\* the accrual of an account that has been started stays current.
StartedStaysCurrent == Quiet /\ ~ due /\ started => Agrees

============================================================================
