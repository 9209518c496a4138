------------------------------ MODULE FxRates ------------------------------
(***************************************************************************)
(* The exchange rates between one foreign currency and the base currency   *)
(* (models/currency_rate.py, services/fx_service.py,                       *)
(* services/fx_rate_fetcher.py, routers/fx.py and the thread main.py       *)
(* starts), and the three readings account_service.py makes of them.       *)
(*                                                                         *)
(* A row is stored in one of two directions.  The model keeps, for both,   *)
(* what one foreign unit is worth in the base currency (the level), so an  *)
(* inverse row holds 1/rate; rounding to six digits is left out.           *)
(***************************************************************************)
EXTENDS Integers, FiniteSets, FiniteSetsExt

CONSTANTS
  LastDay,   \* bound: the days of the model are 0 .. LastDay
  Reach,     \* how far a dated lookup looks (the code: 30 days)
  Market,    \* Market[d]: the level the feeds report for day d
  Typed,     \* levels the user may type
  MaxRates,  \* bound: requests for rates come while there are fewer rows
  Enough     \* rows after which the start takes the history as filled (1200)

Days == 0 .. LastDay
Ways == {"direct", "inverse"}
NoRate == 0

ASSUME RateAssumption ==
  /\ LastDay \in Nat /\ Reach \in Nat /\ Enough \in Nat /\ MaxRates \in Nat
  /\ Market \in [Days -> Nat \ {0}]
  /\ Typed \subseteq Nat \ {0}

RateRow == [way : Ways, day : Days, level : Nat \ {0}]
Writers == {"boot", "page"}
Idle == [way |-> "inverse", left |-> {}, typed |-> NoRate, found |-> "unread", more |-> FALSE]

VARIABLES
  today,
  rates,   \* currency_rates: at most one row per direction and day
  job      \* the upserts each writer still has to make

fxVars == <<today, rates, job>>

----------------------------------------------------------------------------
(* The readings.                                                            *)

Along(way) == {r \in rates : r.way = way}
Gap(a, b) == IF a < b THEN b - a ELSE a - b
Near(way, day) == {r \in Along(way) : Gap(r.day, day) <= Reach}

\* A row of that very day has no gap, so the exact lookup is the nearest one.
\* Rows equally far: the later one, the list being in descending order.
Nearest(near, day) ==
  CHOOSE r \in near : \A o \in near :
    \/ Gap(r.day, day) < Gap(o.day, day)
    \/ Gap(r.day, day) = Gap(o.day, day) /\ r.day >= o.day

get_rate(day) ==
  CASE Near("direct", day) /= {} -> Nearest(Near("direct", day), day).level
    [] Near("inverse", day) /= {} /\ Near("direct", day) = {} ->
         Nearest(Near("inverse", day), day).level
    [] OTHER -> NoRate

Newest(rs) == CHOOSE r \in rs : \A o \in rs : o.day <= r.day

\* get_many_account_balances_rich: the latest row whatever its age, a direct
\* one before any inverse one.
latest_rate ==
  CASE Along("direct") /= {} -> Newest(Along("direct")).level
    [] Along("direct") = {} /\ rates /= {} -> Newest(rates).level
    [] OTHER -> NoRate

\* fx_rate_at: both directions in one list by date; the two rows of one day
\* come in an order the query does not fix.
fx_rate_at(day) ==
  LET past == {r.day : r \in {q \in rates : q.day <= day}}
      at == IF past /= {} THEN Max(past) ELSE Min({r.day : r \in rates})
  IN  IF rates = {} THEN {NoRate} ELSE {r.level : r \in {q \in rates : q.day = at}}

\* convert_amount, and what its callers do when it has no rate: keep the amount.
Converted(value, level) == IF level = NoRate THEN value ELSE value * level

----------------------------------------------------------------------------
(* The writers.  upsert_rate looks for the row, then updates or inserts and *)
(* commits; two writers can do so at the same time.                         *)

Upserts(w, way, days, typed) ==
  /\ job[w].left = {} /\ Cardinality(rates) < MaxRates
  /\ job' = [job EXCEPT ![w] = [Idle EXCEPT !.way = way, !.left = days, !.typed = typed]]

\* POST /fx/add
fx_add_rate(way, day, level) ==
  Upserts("page", way, {day}, level) /\ UNCHANGED <<today, rates>>

\* POST /fx/fetch-current: sync_current_rates.  When no feed answers nothing
\* is written, which is a step that changes nothing.
fx_fetch_current(way) ==
  Upserts("page", way, {today}, NoRate) /\ UNCHANGED <<today, rates>>

\* POST /fx/fetch-historical: sync_historical_rates from a day up to yesterday.
fx_fetch_historical(way, from) ==
  Upserts("page", way, from .. today - 1, NoRate) /\ UNCHANGED <<today, rates>>

NextDay(w) == Min(job[w].left)
RowThere(w) == \E r \in rates : r.way = job[w].way /\ r.day = NextDay(w)

LookUp(w) ==
  /\ job[w].left /= {} /\ job[w].found = "unread"
  /\ job' = [job EXCEPT ![w].found = IF RowThere(w) THEN "row" ELSE "none"]
  /\ UNCHANGED <<today, rates>>

\* Mistake: the row of the day is left beside the new one.
KeptBeside(row) == rates \cup {row}

\* One row per direction and day, as uq_rate_pair_date has it.
Kept(row) == {r \in rates : <<r.way, r.day>> /= <<row.way, row.day>>} \cup {row}

\* The unique constraint refuses an insert when the row has appeared since:
\* the request fails, and the thread of the start ends with it, its session
\* unusable.
Store(w) ==
  LET j == job[w]
      d == NextDay(w)
      row == [way |-> j.way, day |-> d, level |-> IF j.typed = NoRate THEN Market[d] ELSE j.typed]
      refused == j.found = "none" /\ RowThere(w)
  IN  /\ j.left /= {} /\ j.found /= "unread"
      /\ rates' = IF refused THEN rates ELSE Kept(row)
      /\ job' = [job EXCEPT ![w] = IF refused THEN Idle
                                   ELSE [j EXCEPT !.left = @ \ {d}, !.found = "unread"]]
      /\ UNCHANGED today

\* _bootstrap_fx_rates: today's rate, then the history if rows are missing.
BootHistory ==
  /\ job["boot"].left = {} /\ job["boot"].more
  /\ job' = [job EXCEPT !["boot"].left =
               IF Cardinality(Along("inverse")) >= Enough THEN {} ELSE 0 .. today - 1,
             !["boot"].more = FALSE]
  /\ UNCHANGED <<today, rates>>

Booting == [Idle EXCEPT !.left = {today}, !.more = TRUE]

\* The process starts again: what the writers had committed stays.
Restart ==
  /\ job' = [w \in Writers |-> IF w = "boot" THEN Booting ELSE Idle]
  /\ UNCHANGED <<today, rates>>

Tick == today < LastDay /\ today' = today + 1 /\ UNCHANGED <<rates, job>>

FxInit == today = 0 /\ rates = {} /\ job = [w \in Writers |-> IF w = "boot" THEN Booting ELSE Idle]

FxStep ==
  \/ \E way \in Ways, day \in Days, level \in Typed : fx_add_rate(way, day, level)
  \/ \E way \in Ways : fx_fetch_current(way)
  \/ \E way \in Ways, from \in Days : fx_fetch_historical(way, from)
  \/ \E w \in Writers : LookUp(w)
  \/ \E w \in Writers : Store(w)
  \/ BootHistory
  \/ Restart
  \/ Tick

RateTypeOK ==
  /\ today \in Days
  /\ rates \subseteq RateRow
  /\ \A r, s \in rates : r.way = s.way /\ r.day = s.day => r = s
  /\ job \in [Writers -> [way : Ways, left : SUBSET Days, typed : Nat,
                          found : {"unread", "row", "none"}, more : BOOLEAN]]
============================================================================
