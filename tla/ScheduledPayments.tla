------------------------- MODULE ScheduledPayments -------------------------
(***************************************************************************)
(* Scheduled payments of one account: confirming a projected occurrence    *)
(* into the ledger (services/scheduled_confirm.py), settling schedules     *)
(* from an import's rows and from the whole ledger and proposing what is   *)
(* uncertain (services/scheduled_matcher.py), deciding proposals, deleting *)
(* a schedule for good (services/scheduled_dismissal.py) and the routes    *)
(* and imports that call them.                                             *)
(*                                                                         *)
(* A request that reads, then writes, takes two steps; what happens in     *)
(* between it does not see.  Rows whose amount is not the schedule's are   *)
(* left out: 15% off scores no amount points and the other evidence alone  *)
(* stays under both thresholds.  Months all have MonthLength days, so a    *)
(* day of the month is never clamped.  Scores are in units of 1/880.       *)
(***************************************************************************)
EXTENDS Integers, Sequences, FiniteSets, SequencesExt

CONSTANTS
  Requests,     \* request handlers that can run at the same time
  Names,        \* normalised descriptions of schedules
  Plan,         \* Plan[n]: unit, length and anchor day of n's period, first due day
  Looks,        \* wordings of ledger rows; a schedule's own name is one of them
  Likeness,     \* Likeness[n][k]: 132 times the similarity of wording k to n
  Statements,   \* Statements[f]: the rows of statement f, a sequence of [date, look]
  Entries,      \* rows entered by hand, a set of [date, look]
  MonthLength,  \* days in a month
  Homes         \* what a behaviour is about: [names, files, entries] of the ones
                \* above, the days the forecast offers for confirmation
                \* (offered) and the due days the user may type in (typed), the
                \* names the detector finds (found) and a statement's metadata
                \* asks for (stated), and the bounds on ids (txns, scheds)

None == 0
NoSlot == <<>>
Units == {"days", "months", "once"}
Days == Nat \ {0}  \* 0 is no day

ASSUME PlanAssumption ==
  /\ Looks \subseteq STRING /\ Names \subseteq Looks
  /\ Plan \in [Names -> [unit : Units, len : Nat, anchor : Nat, due : Nat]]
  /\ \A n \in Names : Plan[n].unit = "once" \/ Plan[n].len > 0
  /\ Likeness \in [Names -> [Looks -> 0 .. 132]]
  /\ \A f \in DOMAIN Statements : Statements[f] \in Seq([date : Days, look : Looks])
  /\ Entries \subseteq [date : Days, look : Looks]
  /\ Homes \subseteq [names : SUBSET Names, files : SUBSET DOMAIN Statements,
                      entries : SUBSET Entries, offered : SUBSET Days, typed : SUBSET Nat,
                      found : SUBSET Names, stated : SUBSET Names, txns : Nat, scheds : Nat]
  /\ MonthLength \in Nat \ {0}

VARIABLES
  home,       \* the member of Homes this behaviour is about
  txns,       \* ledger: id -> [date, look, slot]; slot is the occurrence confirmed
  scheds,     \* scheduled_payments: id -> [name, due, last, seen, active, source]
  proposals,  \* scheduled_match_proposals: <<schedule, row>> -> status
  dismissed,  \* names the user deleted a schedule of
  imported,   \* statements whose rows are on the ledger
  pc, sess,   \* where each request is, and what it read
  settledBy,  \* history: <<row, schedule>> pairs a match has settled
  refused,    \* history: a deletion failed on a foreign key
  did         \* history: the kind of the last step

Txns == 1 .. home.txns
Scheds == 1 .. home.scheds
vars ==
  <<home, txns, scheds, proposals, dismissed, imported, pc, sess, settledBy, refused, did>>

Idle == [sched |-> None, day |-> 0, due |-> 0, rows |-> {}, found |-> {}, names |-> {}]

----------------------------------------------------------------------------
(* Tables.  A new row gets one more than the largest id in use.             *)

IsNextId(table, i) ==
  (\A j \in DOMAIN table : j < i) /\ (i = 1 \/ i - 1 \in DOMAIN table)
With(table, i, row) ==
  [j \in DOMAIN table \cup {i} |-> IF j = i THEN row ELSE table[j]]
Keep(table, S) == [j \in S |-> table[j]]
Gap(a, b) == IF a <= b THEN b - a ELSE a - b

\* ORDER BY date; rows of one day in id order.
NotLater(i, j) == txns[i].date < txns[j].date \/ (txns[i].date = txns[j].date /\ i <= j)
LastOf(ids) == CHOOSE j \in ids : \A i \in ids : NotLater(i, j)
ByDate(op(_, _), base, ids) ==
  MapThenFoldSet(LAMBDA r, acc : op(acc, r), base, LAMBDA r : r, LAMBDA s : LastOf(s), ids)

----------------------------------------------------------------------------
(* The calendar and the scores.                                             *)

\* _advance_next_due: one period on from the matched day, on the anchor day.
NextDue(s, day) ==
  LET plan == Plan[s.name]
      month == (day - 1) \div MonthLength
      anchor == IF plan.anchor = 0 THEN ((day - 1) % MonthLength) + 1 ELSE plan.anchor IN
  CASE plan.unit = "days" -> day + plan.len
    [] plan.unit = "months" -> (month + plan.len) * MonthLength + anchor
    [] plan.unit = "once" -> s.due
Advance(s, day) ==
  [s EXCEPT !.due = NextDue(s, day),
            !.active = IF Plan[s.name].unit = "once" THEN FALSE ELSE @]
\* A match: row r of that day settles the schedule.
Settle(s, r, day) ==
  [Advance(s, day) EXCEPT !.last = r, !.seen = day]

DatePoints(gap) == IF gap <= 1 THEN 220 ELSE IF gap >= 12 THEN 0 ELSE 20 * (12 - gap)
\* 0.50 amount, 0.25 date, 0.15 description, 0.10 history.
Score(s, r) ==
  440 + DatePoints(Gap(txns[r].date, s.due)) + Likeness[s.name][txns[r].look]
      + (IF s.last # None /\ txns[s.last].look = txns[r].look THEN 88 ELSE 0)
AutoMatch == 704
Propose == 484

----------------------------------------------------------------------------
(* match_batch: one import's rows against the active schedules.             *)

\* How well row r answers schedule s; 0 when a gate rejects it.
BatchScore(s, r) ==
  LET gap == Gap(txns[r].date, s.due)
      alike == Likeness[s.name][txns[r].look] IN
  IF gap > 5 \/ 10 * alike < 4 * 132 THEN 0 ELSE alike * (6 - gap)

\* The first of the best, if any is better than nothing.
IsBest(p, S, Worth(_)) ==
  /\ p \in S /\ Worth(p) > 0
  /\ \A q \in S : Worth(q) < Worth(p) \/ (Worth(q) = Worth(p) /\ p <= q)

\* found maps a schedule to the row that settled it.
MatchRow(found, r) ==
  LET open == {p \in DOMAIN scheds : scheds[p].active} \ DOMAIN found
      best == {p \in open : IsBest(p, open, LAMBDA q : BatchScore(scheds[q], r))} IN
  [p \in DOMAIN found \cup best |-> IF p \in best THEN r ELSE found[p]]
BatchMatches(rows) == ByDate(MatchRow, <<>>, rows)

----------------------------------------------------------------------------
(* backfill_matches: the whole ledger, in passes.                           *)

\* Mistake: a row that settles one schedule may settle another.
NothingClaimed(ss) == {}
\* The rows schedules currently point at.
Claimed(ss) == {ss[p].last : p \in DOMAIN ss} \ {None}

Candidate(st, p, r) ==
  LET s == st.scheds[p] IN
  /\ s.active /\ p \notin st.used
  /\ s.seen = 0 \/ txns[r].date > s.seen
  /\ Gap(txns[r].date, s.due) < 12

SweepRow(st, r) ==
  LET open == {p \in DOMAIN st.scheds : Candidate(st, p, r)}
      best == {p \in open : IsBest(p, open, LAMBDA q : Score(st.scheds[q], r))}
      sure == {p \in best : Score(st.scheds[p], r) >= AutoMatch}
      likely == {p \in best \ sure : /\ Score(st.scheds[p], r) >= Propose
                                     /\ <<p, r>> \notin DOMAIN st.proposals} IN
  IF r \in st.claimed THEN st
  ELSE [scheds |-> [p \in DOMAIN st.scheds |->
                      IF p \in sure THEN Settle(st.scheds[p], r, txns[r].date)
                      ELSE st.scheds[p]],
        proposals |-> [k \in DOMAIN st.proposals \cup (likely \X {r}) |->
                         IF k \in DOMAIN st.proposals THEN st.proposals[k] ELSE "pending"],
        claimed |-> IF sure = {} THEN st.claimed ELSE st.claimed \cup {r},
        used |-> st.used \cup sure,
        settled |-> st.settled \cup ({r} \X sure)]

\* One pass settles at most one row per schedule.
Pass(st) ==
  ByDate(SweepRow, [st EXCEPT !.claimed = Claimed(st.scheds), !.used = {}], DOMAIN txns)
MaxPasses == 24
Before == [scheds |-> scheds, proposals |-> proposals, claimed |-> {}, used |-> {},
           settled |-> {}]
\* Mistake: a single pass.
SweepOnce == Pass(Before)
\* Passes repeat until one of them settles nothing.
Swept ==
  FoldLeft(LAMBDA st, n : IF st.used = {} THEN st ELSE Pass(st), Pass(Before),
           [n \in 1 .. MaxPasses - 1 |-> n])

----------------------------------------------------------------------------
Init ==
  /\ home \in Homes
  /\ txns = <<>> /\ scheds = <<>> /\ proposals = <<>>
  /\ dismissed = {} /\ imported = {}
  /\ pc = [t \in Requests |-> "idle"]
  /\ sess = [t \in Requests |-> Idle]
  /\ settledBy = {} /\ refused = FALSE /\ did = "other"

Begin(t, what, s) ==
  /\ pc[t] = "idle"
  /\ pc' = [pc EXCEPT ![t] = what] /\ sess' = [sess EXCEPT ![t] = s]
Finish(t) ==
  pc' = [pc EXCEPT ![t] = "idle"] /\ sess' = [sess EXCEPT ![t] = Idle]

NewSched(n, source) ==
  [name |-> n, due |-> Plan[n].due, last |-> None, seen |-> 0, active |-> TRUE,
   source |-> source]
AddSched(n, source) ==
  \E p \in Scheds : /\ IsNextId(scheds, p)
                    /\ scheds' = With(scheds, p, NewSched(n, source))
WithTxn(i, date, look, slot) ==
  With(txns, i, [date |-> date, look |-> look, slot |-> slot])

\* Mistake: nothing looks for an earlier confirmation.
NeverConfirmed(p, day) == FALSE
\* find_confirmed: the occurrence's row is recognised by what it carries.
FindConfirmed(p, day) ==
  \E i \in DOMAIN txns : txns[i].date = day /\ txns[i].slot = <<p, day>>

\* scheduled_confirm reads the schedule and looks for an earlier confirmation
\* (an occurrence found confirmed is left alone) ...
ConfirmRead(t, p, day) ==
  /\ p \in DOMAIN scheds /\ ~ FindConfirmed(p, day)
  /\ Begin(t, "confirm", [Idle EXCEPT !.sched = p, !.day = day, !.due = scheds[p].due])
  /\ UNCHANGED <<txns, scheds, proposals, dismissed, imported, settledBy, refused>>

\* Only ever move the schedule forward, as far as this request knows.
MovesForward(t) == sess[t].due <= sess[t].day

\* ... and then posts the row and advances the schedule.
ConfirmWrite(t) ==
  LET p == sess[t].sched  day == sess[t].day IN
  /\ pc[t] = "confirm" /\ p \in DOMAIN scheds
  /\ \E i \in Txns :
       /\ IsNextId(txns, i)
       /\ txns' = WithTxn(i, day, scheds[p].name, <<p, day>>)
       /\ scheds' = [scheds EXCEPT ![p] =
            IF MovesForward(t) THEN Settle(@, i, day)
            ELSE [@ EXCEPT !.last = i, !.seen = day]]
       /\ settledBy' = settledBy \cup {<<i, p>>}
  /\ Finish(t)
  /\ UNCHANGED <<proposals, dismissed, imported, refused>>

\* The schedule was deleted in between: the request fails, nothing is posted.
ConfirmFails(t) ==
  /\ pc[t] = "confirm" /\ sess[t].sched \notin DOMAIN scheds
  /\ Finish(t)
  /\ UNCHANGED <<txns, scheds, proposals, dismissed, imported, settledBy, refused>>

----------------------------------------------------------------------------
(* Imports.  What an import puts on the ledger is ImportLedger's subject;   *)
(* here its rows are new, or take over a confirmed row within 7 days.       *)

Placeholders(ledger, day) ==
  {i \in DOMAIN ledger : ledger[i].slot # NoSlot /\ Gap(ledger[i].date, day) <= 7}
Post(acc, row) ==
  LET open == Placeholders(acc.ledger, row.date)
      near == {i \in open : \A j \in open :
                 LET a == Gap(acc.ledger[i].date, row.date)
                     b == Gap(acc.ledger[j].date, row.date) IN a < b \/ (a = b /\ i <= j)}
      next == {i \in Txns : near = {} /\ IsNextId(acc.ledger, i)} IN
  [ledger |-> [i \in DOMAIN acc.ledger \cup next |->
                 IF i \in next THEN [date |-> row.date, look |-> row.look, slot |-> NoSlot]
                 ELSE IF i \in near THEN [acc.ledger[i] EXCEPT !.date = row.date,
                                                              !.slot = NoSlot]
                 ELSE acc.ledger[i]],
   rows |-> acc.rows \cup near \cup next]

\* The import has committed its rows.
PostStatement(t, f) ==
  LET posted == FoldLeft(Post, [ledger |-> txns, rows |-> {}], Statements[f]) IN
  /\ f \notin imported
  /\ Cardinality(DOMAIN txns) + Len(Statements[f]) <= home.txns
  /\ txns' = posted.ledger
  /\ imported' = imported \cup {f}
  /\ Begin(t, "match", [Idle EXCEPT !.rows = posted.rows])
  /\ UNCHANGED <<scheds, proposals, dismissed, settledBy, refused>>

\* match_batch reads the batch's rows and the active schedules ...
MatchRead(t) ==
  LET found == BatchMatches(sess[t].rows \cap DOMAIN txns) IN
  /\ pc[t] = "match"
  /\ pc' = [pc EXCEPT ![t] = "settle"]
  /\ sess' = [sess EXCEPT ![t].found =
                {[sched |-> p, row |-> found[p], day |-> txns[found[p]].date,
                  due |-> NextDue(scheds[p], txns[found[p]].date)] : p \in DOMAIN found}]
  /\ UNCHANGED <<txns, scheds, proposals, dismissed, imported, settledBy, refused>>

\* ... and its commit writes the matches it found.
MatchWrite(t) ==
  LET found == sess[t].found
      Of(p) == CHOOSE m \in found : m.sched = p IN
  /\ pc[t] = "settle"
  /\ \A m \in found : m.sched \in DOMAIN scheds /\ m.row \in DOMAIN txns
  /\ scheds' = [p \in DOMAIN scheds |->
       IF p \notin {m.sched : m \in found} THEN scheds[p]
       ELSE [scheds[p] EXCEPT !.last = Of(p).row, !.seen = Of(p).day, !.due = Of(p).due,
               !.active = IF Plan[scheds[p].name].unit = "once" THEN FALSE ELSE @]]
  /\ settledBy' = settledBy \cup {<<m.row, m.sched>> : m \in found}
  /\ pc' = [pc EXCEPT ![t] = "sweep"] /\ sess' = [sess EXCEPT ![t] = Idle]
  /\ UNCHANGED <<txns, proposals, dismissed, imported, refused>>

\* A row or a schedule it matched is gone: the whole step fails and is logged.
MatchFails(t) ==
  /\ pc[t] = "settle"
  /\ \E m \in sess[t].found : m.sched \notin DOMAIN scheds \/ m.row \notin DOMAIN txns
  /\ Finish(t)
  /\ UNCHANGED <<txns, scheds, proposals, dismissed, imported, settledBy, refused>>

SweepResult ==
  /\ scheds' = Swept.scheds /\ proposals' = Swept.proposals
  /\ settledBy' = settledBy \cup Swept.settled

\* backfill_matches at the end of an import.
ImportSweep(t) ==
  /\ pc[t] = "sweep"
  /\ SweepResult
  /\ Finish(t)
  /\ UNCHANGED <<txns, dismissed, imported, refused>>

\* _sync_scheduled_matches: the server starts, no request is being served;
\* a sweep that settled nothing is rolled back.
Restart ==
  /\ IF Swept.settled = {} THEN UNCHANGED <<scheds, proposals, settledBy>> ELSE SweepResult
  /\ pc' = [t \in Requests |-> "idle"] /\ sess' = [t \in Requests |-> Idle]
  /\ UNCHANGED <<txns, dismissed, imported, refused>>

\* is_dismissed.
NotDismissed(n) == n \notin dismissed

\* A statement's metadata names a due amount: the active schedule that came
\* from a statement is brought up to date, or one is built.
StatementPlan(n) ==
  LET known == {p \in DOMAIN scheds : scheds[p].source = "statement" /\ scheds[p].active} IN
  /\ \/ \E p \in known :
          /\ \A q \in known : p <= q
          /\ scheds' = [scheds EXCEPT ![p].due = Plan[n].due, ![p].name = n]
     \/ known = {} /\ NotDismissed(n) /\ AddSched(n, "statement")
  /\ UNCHANGED <<txns, proposals, dismissed, imported, pc, sess, settledBy, refused>>

----------------------------------------------------------------------------
(* The user.                                                                *)

\* scheduled_create: the user's own schedule, tombstone or not.
Create(n) ==
  /\ AddSched(n, "manual")
  /\ UNCHANGED <<txns, proposals, dismissed, imported, pc, sess, settledBy, refused>>

\* scheduled_update, as far as the due day goes, and scheduled_toggle.
EditDue(p, day) ==
  /\ p \in DOMAIN scheds
  /\ scheds' = [scheds EXCEPT ![p].due = day]
  /\ UNCHANGED <<txns, proposals, dismissed, imported, pc, sess, settledBy, refused>>
Toggle(p) ==
  /\ p \in DOMAIN scheds
  /\ scheds' = [scheds EXCEPT ![p].active = ~ @]
  /\ UNCHANGED <<txns, proposals, dismissed, imported, pc, sess, settledBy, refused>>

\* scheduled_delete: proposals go first, the name is remembered.
DeleteSched(p) ==
  /\ p \in DOMAIN scheds
  /\ proposals' = Keep(proposals, {k \in DOMAIN proposals : k[1] # p})
  /\ dismissed' = dismissed \cup {scheds[p].name}
  /\ scheds' = Keep(scheds, DOMAIN scheds \ {p})
  /\ settledBy' = {m \in settledBy : m[2] # p}
  /\ UNCHANGED <<txns, imported, pc, sess, refused>>

RestoreDismissed(n) ==
  /\ n \in dismissed
  /\ dismissed' = dismissed \ {n}
  /\ UNCHANGED <<txns, scheds, proposals, imported, pc, sess, settledBy, refused>>

\* detect_page shows what is neither scheduled nor dismissed ...
DetectPage(t) ==
  LET shown == home.found \ ({scheds[p].name : p \in DOMAIN scheds} \cup dismissed) IN
  /\ shown # {}
  /\ Begin(t, "detect", [Idle EXCEPT !.names = shown])
  /\ UNCHANGED <<txns, scheds, proposals, dismissed, imported, settledBy, refused>>
\* ... and detect_confirm adds what the user ticked.
DetectConfirm(t) ==
  /\ pc[t] = "detect"
  /\ \E n \in sess[t].names : AddSched(n, "auto")
  /\ Finish(t)
  /\ UNCHANGED <<txns, proposals, dismissed, imported, settledBy, refused>>

\* Mistake: any proposal can be decided.
AnyProposal(p, r) == <<p, r>> \in DOMAIN proposals
Pending(p, r) == <<p, r>> \in DOMAIN proposals /\ proposals[<<p, r>>] = "pending"

\* confirm_proposal: the schedule moves if the row is not before its due day.
ConfirmProposal(p, r) ==
  LET s == scheds[p]  day == txns[r].date IN
  /\ Pending(p, r)
  /\ proposals' = [proposals EXCEPT ![<<p, r>>] = "confirmed"]
  /\ scheds' = [scheds EXCEPT ![p] =
       IF s.due <= day THEN Settle(s, r, day) ELSE [s EXCEPT !.last = r, !.seen = day]]
  /\ settledBy' = settledBy \cup {<<r, p>>}
  /\ UNCHANGED <<txns, dismissed, imported, pc, sess, refused>>
RejectProposal(p, r) ==
  /\ Pending(p, r)
  /\ proposals' = [proposals EXCEPT ![<<p, r>>] = "rejected"]
  /\ UNCHANGED <<txns, scheds, dismissed, imported, pc, sess, settledBy, refused>>

\* transaction_create.
Enter(e) ==
  /\ \E i \in Txns : IsNextId(txns, i) /\ txns' = WithTxn(i, e.date, e.look, NoSlot)
  /\ UNCHANGED <<scheds, proposals, dismissed, imported, pc, sess, settledBy, refused>>

\* Mistake: the pointers stay.
UnpointNothing(r) == scheds
Unpoint(r) == [p \in DOMAIN scheds |->
                 IF scheds[p].last = r THEN [scheds[p] EXCEPT !.last = None] ELSE scheds[p]]
\* _delete_txn_safe: schedules stop pointing at the row; a proposal that
\* still refers to it fails the request on the foreign key.
DeleteTxn(r) ==
  /\ r \in DOMAIN txns
  /\ IF \E p \in Scheds : <<p, r>> \in DOMAIN proposals
     THEN refused' = TRUE /\ UNCHANGED <<txns, scheds, settledBy>>
     ELSE /\ txns' = Keep(txns, DOMAIN txns \ {r})
          /\ scheds' = Unpoint(r)
          /\ settledBy' = {m \in settledBy : m[1] # r}
          /\ UNCHANGED refused
  /\ UNCHANGED <<proposals, dismissed, imported, pc, sess>>

Confirm(t) ==
  \/ \E p \in Scheds, day \in home.offered : ConfirmRead(t, p, day)
  \/ ConfirmWrite(t) \/ ConfirmFails(t)
Import(t) ==
  \/ \E f \in home.files : PostStatement(t, f)
  \/ MatchRead(t) \/ MatchFails(t)
UserChange ==
  \/ \E n \in home.names : Create(n) \/ RestoreDismissed(n)
  \/ \E p \in Scheds : Toggle(p) \/ DeleteSched(p)
  \/ \E p \in Scheds, day \in home.typed : EditDue(p, day)
  \/ \E p \in Scheds, r \in Txns : ConfirmProposal(p, r) \/ RejectProposal(p, r)
  \/ \E e \in home.entries : Enter(e)
  \/ \E r \in Txns : DeleteTxn(r)
Other ==
  \/ \E t \in Requests : Confirm(t) \/ Import(t) \/ DetectPage(t) \/ DetectConfirm(t)
  \/ \E n \in home.stated : StatementPlan(n)
  \/ UserChange
Next ==
  /\ \/ Other /\ did' = "other"
     \/ (\E t \in Requests : MatchWrite(t)) /\ did' = "match"
     \/ (\E t \in Requests : ImportSweep(t)) /\ did' = "sweep"
     \/ Restart /\ did' = "start"
  /\ UNCHANGED home
Spec == Init /\ [][Next]_vars

----------------------------------------------------------------------------
\* The shapes of the tables, and what they point at: a schedule's last match and
\* a proposal name rows and schedules that are still there.
TypeOK ==
  /\ DOMAIN txns \subseteq Txns
  /\ \A i \in DOMAIN txns :
       /\ txns[i].date \in Nat /\ txns[i].look \in Looks
       /\ txns[i].slot = NoSlot \/ txns[i].slot \in Scheds \X Nat
  /\ DOMAIN scheds \subseteq Scheds
  /\ \A p \in DOMAIN scheds :
       scheds[p] \in [name : Names, due : Nat, last : (DOMAIN txns) \cup {None}, seen : Nat,
                      active : BOOLEAN, source : {"manual", "auto", "statement"}]
  /\ DOMAIN proposals \subseteq (DOMAIN scheds) \X (DOMAIN txns)
  /\ \A k \in DOMAIN proposals : proposals[k] \in {"pending", "confirmed", "rejected"}
  /\ dismissed \subseteq Names /\ refused \in BOOLEAN
  /\ pc \in [Requests -> {"idle", "confirm", "match", "settle", "sweep", "detect"}]

\* A sweep never gives a schedule the row another one points at: whoever it
\* settles is, afterwards, the only schedule pointing at that row.
NoSharedClaim ==
  [][did' \in {"sweep", "start"} =>
       \A p, q \in DOMAIN scheds :
         scheds'[p].last # scheds[p].last /\ p # q => scheds'[p].last # scheds'[q].last]_vars

\* A sweep walks every schedule as far as the ledger carries it: an immediate
\* second sweep would settle nothing.
SweepSettles == did \in {"sweep", "start"} => Pass(Before).settled = {}

\* An occurrence is on the ledger at most once, however often it is submitted.
OneRowPerOccurrence ==
  \A i, j \in DOMAIN txns : txns[i].slot = txns[j].slot /\ txns[i].slot # NoSlot => i = j

Named(n) == {p \in DOMAIN scheds : scheds[p].name = n}

\* What the user decided stands: a question answered stays answered and is not
\* asked again for as long as the schedule exists, and a name whose schedule he
\* deleted gets no new one from a statement unless he creates it by hand.
DecisionsStand ==
  [][/\ \A k \in DOMAIN proposals :
          proposals[k] # "pending" /\ k[1] \in DOMAIN scheds' =>
            k \in DOMAIN proposals' /\ proposals'[k] = proposals[k]
     /\ home.found = {} =>
          \A n \in dismissed : Named(n)' \subseteq Named(n) \/ Create(n)]_vars

\* ... nor from the detector, whose page may be older than the deletion.
DetectedStaysGone ==
  [][\A n \in dismissed : Named(n)' \subseteq Named(n) \/ Create(n)]_vars

\* A row settles one schedule in its life.
SettlesOnce == \A m, k \in settledBy : m[1] = k[1] => m[2] = k[2]

\* Matching an import's row advances the schedule it settles.
MatchAdvances ==
  [][did' = "match" =>
       \A p \in DOMAIN scheds :
         scheds'[p].last # scheds[p].last => scheds'[p].due > scheds[p].due]_vars

\* Matching advances by one period: no due day in between is skipped.
NoOccurrenceSkipped ==
  [][did' = "match" =>
       \A p \in DOMAIN scheds :
         LET plan == Plan[scheds[p].name] IN
         plan.unit = "months" =>
           scheds'[p].due <= scheds[p].due + plan.len * MonthLength]_vars

\* After the sweep of a start, every uncertain match is there for the user.
UncertainVisible == did = "start" => Pass(Before).proposals = proposals

\* Deleting a ledger row never fails.
DeleteNeverRefused == ~ refused
=============================================================================
