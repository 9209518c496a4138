----------------------------- MODULE Valuations -----------------------------
(***************************************************************************)
(* An account whose worth is a valuation: its dated valuations, the mark   *)
(* kept on the account itself, and what the account page, the list of      *)
(* accounts and the history chart read of them in the base currency        *)
(* (services/asset_valuation_service.py, routers/valuations.py, the value  *)
(* fields of routers/accounts.py, and the valuation branches of            *)
(* services/account_service.py, with the rates of FxRates.tla).            *)
(***************************************************************************)
EXTENDS FxRates

CONSTANTS
  Values,    \* the values a user may type or a provider return
  MaxMarks,  \* bound: the ids of valuations made by hand
  MaxVals    \* bound: valuations that statements may bring

Currencies == {"base", "foreign"}
Sources == {"latest_valuation", "manual_mark"}
Unset == -1

ASSUME ValueAssumption == Values \subseteq Nat \ {0} /\ MaxVals \in Nat /\ MaxMarks \in Nat

\* A date is a day and, within it, midnight (0) or the moment a row was written.
Valuation == [id : Nat, day : Days, moment : Nat, value : Int, ccy : Currencies]
Before(a, b) == a.day < b.day \/ (a.day = b.day /\ a.moment < b.moment)

VARIABLES
  vals,      \* asset_valuations
  acct,      \* the account: currency, balance_truth_source, current_value
  inOrder    \* the mark and the rows were written in the order of their dates (history)

valVars == <<vals, acct, inOrder>>

NextId == IF vals = {} THEN 1 ELSE 1 + Max({v.id : v \in vals})
NewVal(day, moment, value, ccy) ==
  [id |-> NextId, day |-> day, moment |-> moment, value |-> value, ccy |-> ccy]
ValNow(value, ccy) == NewVal(today, NextId, value, ccy)

\* The latest by date; rows of one date come in any order.
LatestBy(vs) == {v \in vs : \A o \in vs : ~Before(v, o)}
\* ... and the one with the greatest id, as the list takes it.
LatestRow(vs) == CHOOSE v \in LatestBy(vs) : \A o \in LatestBy(vs) : o.id <= v.id

MarkOf == IF acct.mark = Unset THEN 0 ELSE acct.mark
InBase(value, ccy, level) ==
  IF ccy = "base" \/ value = 0 THEN value ELSE Converted(value, level)

\* get_account_balance_rich for today: _balance_from_valuation converts from the
\* valuation's currency, the caller then from the account's.
page_readings ==
  IF acct.source = "latest_valuation" /\ vals /= {}
  THEN {InBase(InBase(v.value, v.ccy, get_rate(today)), acct.ccy, get_rate(today)) :
          v \in LatestBy(vals)}
  ELSE {InBase(MarkOf, acct.ccy, get_rate(today))}

\* get_many_account_balances_rich
list_reading ==
  IF acct.source = "latest_valuation" /\ vals /= {}
  THEN InBase(LatestRow(vals).value, LatestRow(vals).ccy, latest_rate)
  ELSE InBase(MarkOf, acct.ccy, latest_rate)

\* get_many_account_balances_series: valuations up to the day for both sources.
chart_readings(day) ==
  LET past == {v \in vals : v.day <= day}
      read == IF past = {} THEN {<<MarkOf, acct.ccy>>}
              ELSE {<<v.value, v.ccy>> : v \in LatestBy(past)}
  IN  {InBase(p[1], p[2], level) : p \in read, level \in fx_rate_at(day)}

----------------------------------------------------------------------------

\* add_valuation: the mark follows whatever the date.
add_valuation(day, value, ccy) ==
  /\ NextId <= MaxMarks
  /\ vals' = vals \cup {NewVal(day, 0, value, ccy)}
  /\ acct' = [acct EXCEPT !.mark = value]
  /\ inOrder' = (inOrder /\ ccy = acct.ccy /\ \A v \in vals : Before(v, NewVal(day, 0, value, ccy)))
  /\ UNCHANGED fxVars

\* update_valuation: the session does not flush before the query for the latest
\* row, so the query still sees the old date.
update_valuation(v, day, value, ccy) ==
  LET row == [v EXCEPT !.day = day, !.moment = 0, !.value = value, !.ccy = ccy] IN
  /\ vals' = (vals \ {v}) \cup {row}
  /\ \E latest \in LatestBy(vals) :
       acct' = [acct EXCEPT !.mark = IF latest = v THEN value ELSE @]
  /\ inOrder' = (inOrder /\ ccy = acct.ccy
                 /\ \A o \in vals \ {v} : Before(o, row) = Before(o, v) /\ Before(row, o) = Before(v, o))
  /\ UNCHANGED fxVars

\* Mistake: the row is not flushed before the query for the latest one.
delete_unflushed(v) ==
  /\ vals' = vals \ {v}
  /\ \E latest \in LatestBy(vals) : acct' = [acct EXCEPT !.mark = latest.value]
  /\ inOrder' = \A o \in vals \ {v} : o.ccy = acct.ccy
  /\ UNCHANGED fxVars

\* delete_valuation: flushes, then takes the mark from the latest row left.
delete_valuation(v) ==
  LET left == vals \ {v} IN
  /\ vals' = left
  /\ IF left = {} THEN acct' = [acct EXCEPT !.mark = Unset]
     ELSE \E latest \in LatestBy(left) : acct' = [acct EXCEPT !.mark = latest.value]
  /\ inOrder' = \A o \in left : o.ccy = acct.ccy
  /\ UNCHANGED fxVars

\* apply_valuation and _try_fetch_property_value: a row dated now and the mark.
apply_valuation(value) ==
  /\ NextId <= MaxMarks
  /\ vals' = vals \cup {ValNow(value, acct.ccy)}
  /\ acct' = [acct EXCEPT !.mark = value, !.source = "manual_mark"]
  /\ inOrder' = (inOrder /\ \A v \in vals : Before(v, ValNow(value, acct.ccy)))
  /\ UNCHANGED fxVars

\* account_create and account_update for a property or a vehicle: a value typed
\* into the form, or else the purchase price, becomes the mark, and no
\* valuation is written.
account_update(value, price) ==
  /\ acct' = [acct EXCEPT !.source = "manual_mark",
                          !.mark = IF value /= Unset THEN value ELSE price]
  /\ inOrder' = (vals = {})
  /\ UNCHANGED <<vals, fxVars>>

\* ... with an address and no value: the provider's estimate on top.
account_update_fetched(value) == apply_valuation(value)

\* Opening the page when no rate is within reach: sync_current_rates from the
\* account's currency, one row for today, and the reading again.
page_fetches ==
  /\ acct.ccy = "foreign" /\ get_rate(today) = NoRate /\ page_readings /= {0}
  /\ Upserts("page", "direct", {today}, NoRate)
  /\ UNCHANGED <<today, rates, vals, acct, inOrder>>

ValInit(ccy, mark, source, vs) ==
  FxInit /\ vals = vs /\ inOrder = TRUE
         /\ acct = [ccy |-> ccy, mark |-> mark, source |-> source]

ValStep ==
  \/ \E day \in Days, value \in Values, ccy \in Currencies : add_valuation(day, value, ccy)
  \/ \E v \in vals, day \in Days, value \in Values, ccy \in Currencies :
       update_valuation(v, day, value, ccy)
  \/ \E v \in vals : delete_valuation(v)
  \/ \E value \in Values : apply_valuation(value)
  \/ \E value, price \in Values \cup {Unset} : account_update(value, price)
  \/ \E value \in Values : account_update_fetched(value)

----------------------------------------------------------------------------

\* What the readings need to agree: one direction of rates, none dated ahead,
\* the newest within reach; no valuation dated ahead and no two of one date.
RatesSettled ==
  /\ Cardinality({r.way : r \in rates}) <= 1
  /\ \A r \in rates : r.day <= today
  /\ rates /= {} => \E r \in rates : today - r.day <= Reach
ValsSettled ==
  /\ \A v \in vals : v.day <= today
  /\ \A v, o \in vals : v.day = o.day /\ v.moment = o.moment => v = o

\* The page, the list and the chart's last point show one worth: three pieces
\* of code read marks, valuations and rates each in its own way, while rates
\* arrive row by row and valuations are added, changed and deleted.  For a
\* marked account the rows and the mark must have been written in date order;
\* an account read from its valuations must be kept in the base currency
\* (PageConvertsOnce says what happens otherwise).
WorthAgrees ==
  RatesSettled /\ ValsSettled
  /\ (IF acct.source = "manual_mark" THEN inOrder ELSE acct.ccy = "base" \/ vals = {})
  => page_readings = {list_reading} /\ chart_readings(today) = {list_reading}

\* The comment in update_valuation (asset_valuation_service.py:124): "Keep
\* account.current_value in sync if this is the latest entry".
MarkFollowsLatest ==
  [][\A v \in vals : \A w \in vals' :
       (v.id = w.id /\ v /= w /\ w \in LatestBy(vals)' /\ Cardinality(LatestBy(vals)') = 1)
       => acct'.mark = w.value]_<<vals, acct>>

\* The page converts a valuation once, as the list does whatever the account's
\* currency (account_service.py:957-960).
PageConvertsOnce == RatesSettled /\ ValsSettled => page_readings = {list_reading}

ValTypeOK ==
  /\ RateTypeOK
  /\ vals \subseteq Valuation
  /\ acct \in [ccy : Currencies, mark : Int, source : Sources]
  /\ inOrder \in BOOLEAN
============================================================================
