------------------------------ MODULE Holdings ------------------------------
(***************************************************************************)
(* Accounts valued from statements of holdings: a brokerage                *)
(* (services/ibkr_import.py), restricted stock (services/rsu_service.py)   *)
(* and a pension (services/epa_pension_import.py), the prices they keep    *)
(* (services/price_service.py, routers/portfolio.py) and the history of    *)
(* holdings wound back from them.  Every import ends in a valuation of     *)
(* Valuations.tla, from which the account is read.                         *)
(*                                                                         *)
(* What the statements say is given by the constants: the fills of the     *)
(* broker, the units and the price of each holding on each day.  One share *)
(* is traded; awards of stock and pension funds are holdings alike.        *)
(***************************************************************************)
EXTENDS Valuations

CONSTANTS
  Fills,     \* Fills[k]: the executions that share one deduplication key:
             \* [day, qty, times]
  Opening,   \* units of the share held before the first day
  Periods,   \* the periods the broker's statements cover: [from, to]
  Holds,     \* the awards of stock, or the pension funds
  Units,     \* Units[h][d]: the units a statement of day d reports, Unset where it
             \* does not list the holding
  Price,     \* Price[d]: the price per unit that statements of day d report
  Live,      \* the price a market feed returns
  Shapes     \* the kinds of account an instance looks at

\* A brokerage is told apart by whether its requests take turns ("broker") or the
\* first statement may be confirmed by two at once ("overlap").
Brokers == {"broker", "overlap"}
Kinds == {"abroad", "property", "rsu", "pension"} \cup Brokers
Share == "share"

ASSUME HoldingAssumption ==
  /\ IsFiniteSet(DOMAIN Fills) /\ IsFiniteSet(Holds)
  /\ \A k \in DOMAIN Fills : Fills[k] \in [day : Days, qty : Int, times : Nat]
  /\ Opening \in Int /\ Live \in Nat
  /\ Periods \subseteq [from : Days, to : Days]
  /\ Units \in [Holds -> [Days -> Nat \cup {Unset}]] /\ Share \notin Holds
  /\ Price \in [Days -> Nat \ {0}]
  /\ Shapes \subseteq Kinds

VARIABLES
  kind,      \* the kind of the account
  lots,      \* units by holding: position_lots, or rsu_vests not yet vested
  booked,    \* stock_trades: the rows of each key; stock_dividends are alike
  prices,    \* price_snapshots: a date and a price
  read,      \* the statements read: [all, last] (history)
  stated     \* the worth the statement read last gives, while statements and prices
             \* come in the order of their dates, Unset otherwise (history)

holdVars == <<kind, lots, booked, prices, read, stated>>

----------------------------------------------------------------------------

Keys == DOMAIN Fills
Traded(ks) == MapThenSumSet(LAMBDA k : Fills[k].qty * Fills[k].times, ks)
Held(day) == Opening + Traded({k \in Keys : Fills[k].day <= day})
InPeriod(p) == {k \in Keys : Fills[k].day \in p.from .. p.to}
Nav(p) == Held(p.to) * Price[p.to]

Worth(units, price) == MapThenSumSet(LAMBDA h : units[h] * price, DOMAIN units)
Listed(day) == {h \in Holds : Units[h][day] /= Unset}
Reported(day) == [h \in Holds |-> IF h \in Listed(day) THEN Units[h][day] ELSE 0]

LatestPrices(ps) == {q \in ps : \A o \in ps : ~Before(q, o)}
StatementPrice(day) == [day |-> day, moment |-> 0, price |-> Price[day]]

WithRow(date, value) == vals \cup {NewVal(date.day, date.moment, value, acct.ccy)}
Midnight(day) == [day |-> day, moment |-> 0]
Now == [day |-> today, moment |-> NextId]
Read(from, to) == [all |-> read.all \cup {[from |-> from, to |-> to]},
                   last |-> [from |-> from, to |-> to]]

\* The statements so far came in the order of their dates, and so does this one.
DatesInOrder(day) == read.all = {} \/ (stated /= Unset /\ read.last.to <= day)

\* Mistake: a key that is in the ledger is booked again.
BookedAgain(p) ==
  [k \in Keys |-> booked[k] + (IF k \in InPeriod(p) THEN Fills[k].times ELSE 0)]

\* Trades and dividends are skipped when their key is in the ledger already;
\* those of one file are not flushed, so two alike in it are both kept.
Booked(p) ==
  [k \in Keys |-> IF booked[k] > 0 \/ k \notin InPeriod(p) THEN booked[k] ELSE Fills[k].times]

\* One price a day from the broker's statements; the first one stays.
Priced(day) ==
  IF \E q \in prices : q.day = day THEN prices
  ELSE prices \cup {StatementPrice(day)}

\* POST /import/ibkr-confirm: parse_ibkr_csv, apply_ibkr_statement.  An account
\* without value gets no valuation and keeps its source.
apply_ibkr_statement(p) ==
  /\ kind \in Brokers /\ p.to <= today /\ Cardinality(vals) < MaxVals
  /\ lots' = [lots EXCEPT ![Share] = Held(p.to)]
  /\ booked' = Booked(p)
  /\ prices' = IF Held(p.to) = 0 THEN prices ELSE Priced(p.to)
  /\ vals' = IF Nav(p) = 0 THEN vals ELSE WithRow(Midnight(p.to), Nav(p))
  /\ acct' = IF Nav(p) = 0 THEN acct ELSE [acct EXCEPT !.source = "latest_valuation"]
  /\ read' = Read(p.from, p.to)
  /\ stated' = IF Nav(p) /= 0 /\ DatesInOrder(p.to) THEN Nav(p) ELSE Unset
  /\ UNCHANGED <<fxVars, inOrder, kind>>

\* The same statement confirmed by two requests at once.  The lock of the
\* database is first taken when old lots are deleted; an account that has none
\* lets both requests find no lot and no key, and both write.
ibkr_confirm_twice(p) ==
  /\ kind = "overlap" /\ read.all = {} /\ p.to <= today
  /\ Cardinality(vals) + 1 < MaxVals /\ Nav(p) /= 0
  /\ lots' = [lots EXCEPT ![Share] = 2 * Held(p.to)]
  /\ booked' = [k \in Keys |-> 2 * Booked(p)[k]]
  /\ prices' = Priced(p.to)
  /\ vals' = WithRow(Midnight(p.to), Nav(p))
             \cup {[NewVal(p.to, 0, Nav(p), acct.ccy) EXCEPT !.id = @ + 1]}
  /\ acct' = [acct EXCEPT !.source = "latest_valuation"]
  /\ read' = Read(p.from, p.to)
  /\ stated' = Nav(p)
  /\ UNCHANGED <<fxVars, inOrder, kind>>

\* Mistake: the lots of earlier statements stay.
LotsStacked(day) == [h \in DOMAIN lots |-> lots[h] + (IF h \in Holds THEN Reported(day)[h] ELSE 0)]

\* All lots of a pension are deleted and those of the statement written.
LotsReplaced(day) == [h \in DOMAIN lots |-> IF h \in Holds THEN Reported(day)[h] ELSE lots[h]]

\* The vests of the grants that are listed are deleted and written anew; a grant
\* that is not listed keeps its own.
VestsReplaced(day) == [h \in DOMAIN lots |-> IF h \in Listed(day) THEN Reported(day)[h] ELSE lots[h]]

\* Every price so far is older than the statement of a day, or its own.
PricesBefore(day) ==
  \A q \in prices : q.day < day \/ q = StatementPrice(day)

\* New units, the statement's price beside the others, and a valuation to follow.
ReadStatement(day, units) ==
  /\ day <= today /\ Cardinality(vals) < MaxVals
  /\ lots' = units
  /\ prices' = prices \cup {StatementPrice(day)}
  /\ acct' = [acct EXCEPT !.source = "latest_valuation"]
  /\ read' = Read(day, day)
  /\ UNCHANGED <<fxVars, inOrder, kind, booked>>

\* The valuation takes the latest price by date, and that price's date.
import_rsu_grants(day) ==
  /\ kind = "rsu"
  /\ ReadStatement(day, VestsReplaced(day))
  /\ \E q \in LatestPrices(prices') : vals' = WithRow(q, Worth(VestsReplaced(day), q.price))
  /\ stated' = IF DatesInOrder(day) /\ PricesBefore(day)
                  /\ \A h \in Holds \ Listed(day) : lots[h] = 0
               THEN Worth(Reported(day), Price[day]) ELSE Unset

\* The valuation takes the latest price by date, and is dated now.
import_pension_positions(day) ==
  /\ kind = "pension"
  /\ ReadStatement(day, LotsReplaced(day))
  /\ \E q \in LatestPrices(prices') : vals' = WithRow(Now, Worth(LotsReplaced(day), q.price))
  /\ stated' = IF DatesInOrder(day) /\ PricesBefore(day)
               THEN Worth(Reported(day), Price[day]) ELSE Unset

\* _save_price_snapshot: one live price a day, over whatever the day has.
Saved == {q \in prices : q.day < today} \cup {[day |-> today, moment |-> NextId, price |-> Live]}

\* GET /portfolio and POST refresh-prices: the feed answers and prices are kept.
refresh_prices ==
  /\ kind \in Brokers /\ lots[Share] /= 0
  /\ prices' = Saved
  /\ UNCHANGED <<fxVars, valVars, kind, lots, booked, read, stated>>

\* POST refresh-rsu-price: a live price, or the latest one kept, and a valuation.
refresh_rsu_price ==
  /\ kind = "rsu" /\ read.all /= {} /\ Cardinality(vals) < MaxVals
  /\ prices' \in {prices, Saved}
  /\ \E q \in LatestPrices(prices') : vals' = WithRow(q, Worth(lots, q.price))
  /\ stated' = IF prices' = prices THEN stated ELSE Unset
  /\ UNCHANGED <<fxVars, acct, inOrder, kind, lots, booked, read>>

----------------------------------------------------------------------------

NoneRead == [all |-> {}, last |-> [from |-> 0, to |-> 0]]

\* A property may have a mark before its first valuation.  The account abroad
\* has a worth in the foreign currency: a mark, with or without the valuation it
\* came from, or a valuation, also of an account that is itself in the base currency.
AccountInit ==
  CASE kind = "property" ->
         \E mark \in {Unset} \cup Values, source \in Sources : ValInit("base", mark, source, {})
    [] kind = "abroad" ->
         \E value \in Values :
           LET row == [id |-> 1, day |-> 0, moment |-> 0, value |-> value, ccy |-> "foreign"] IN
           \/ \E vs \in {{}, {row}}, source \in Sources : ValInit("foreign", value, source, vs)
           \/ ValInit("base", Unset, "latest_valuation", {row})
    [] OTHER -> ValInit("base", Unset, "latest_valuation", {})

Init ==
  /\ kind \in Shapes
  /\ AccountInit
  /\ lots = [h \in Holds \cup {Share} |-> 0]
  /\ booked = [k \in Keys |-> 0]
  /\ prices = {}
  /\ read = NoneRead
  /\ stated = Unset

\* Rates move for the account abroad; the valuations of the property are worked
\* on; for the others days pass and statements come.
Next ==
  \/ kind = "abroad" /\ FxStep /\ UNCHANGED <<valVars, holdVars>>
  \/ kind = "abroad" /\ page_fetches /\ UNCHANGED holdVars
  \/ kind = "property" /\ ValStep /\ UNCHANGED holdVars
  \/ kind /= "abroad" /\ Tick /\ UNCHANGED <<valVars, holdVars>>
  \/ \E p \in Periods : apply_ibkr_statement(p) \/ ibkr_confirm_twice(p)
  \/ \E day \in Days : import_rsu_grants(day) \/ import_pension_positions(day)
  \/ refresh_prices
  \/ refresh_rsu_price

vars == <<fxVars, valVars, holdVars>>
Spec == Init /\ [][Next]_vars

----------------------------------------------------------------------------

TypeOK ==
  /\ ValTypeOK
  /\ kind \in Kinds
  /\ lots \in [Holds \cup {Share} -> Int]
  /\ booked \in [Keys -> Nat]
  /\ \A q \in prices : q \in [day : Days, moment : Nat, price : Nat]
  /\ stated \in Int

\* compute_account_value_by_symbol and compute_portfolio_history: the units of
\* the lots less every trade booked, plus the trades up to the day.
WoundBack(day) ==
  lots[Share] - MapThenSumSet(LAMBDA k : Fills[k].qty * booked[k],
                              {k \in Keys : Fills[k].day > day})

Covered(day) ==
  \A d \in day + 1 .. read.last.to : \E p \in read.all : d \in p.from .. p.to

\* While requests take turns, the statement read last is also the latest, and the
\* statements read leave no gap after a day, the history shows for that day what
\* was held on it, however much the statements overlap and in whatever order they
\* were read: the lots come from one statement, the trades from all of them.
HoldingsReconstructed ==
  kind = "broker" /\ read.all /= {} /\ (\A p \in read.all : p.to <= read.last.to) =>
    \A day \in -1 .. read.last.to : Covered(day) => WoundBack(day) = Held(day)

\* An account valued from statements is worth what its latest one says, when
\* they were read in the order of their dates and no award went unlisted: reading
\* one again, or a newer one, or one by two requests at once, neither adds to the
\* worth nor leaves an older one in front.
StatementValued ==
  stated /= Unset => list_reading = stated /\ page_readings = {stated}

\* epa_pension_import.py:152-155: the price kept is the one by which "valuation
\* matches the statement to the penny", whatever was read before.
ToThePenny ==
  [][kind = "pension" /\ read' /= read =>
       \E v \in vals' \ vals : v.value = Worth(Reported(read'.last.to), Price[read'.last.to])]_vars
=============================================================================
