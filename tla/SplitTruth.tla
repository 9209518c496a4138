----------------------------- MODULE SplitTruth -----------------------------
(***************************************************************************)
(* The ledger rows as the truth layer sees them: each row has an event     *)
(* type and is allocated to splits, and spend is read from the splits      *)
(* alone (services/split_service.py, split_auto.py, transaction_truth.py,  *)
(* spend_analysis.py, payroll documents in document_apply.py, and the      *)
(* handlers of routers/transactions.py that touch them).                   *)
(*                                                                         *)
(* The module states the operations; Categories.tla adds the categories,   *)
(* the rules and the run that places rows, and has the specification.      *)
(* Amounts are in cents, in one currency.                                  *)
(***************************************************************************)
EXTENDS EventTypes, SequencesExt, FiniteSetsExt

CONSTANTS
  RowIds,    \* bound: the rows that may exist
  Descs,     \* wordings; a wording comes from one account
  Words,     \* Words[d]: the signals in wording d
  Class,     \* Class[d]: the class of the account d appears on
  Source,    \* Source[d]: the row type the bank's export gives it
  Amounts,
  Cats,      \* bound: the categories that may exist
  Documents  \* the payslips and rental statements that may be applied

Null == "null"

Line == [code : LineCodes, kind : LineKinds, amt : Int, aside : BOOLEAN, cash : BOOLEAN]

ASSUME WordingAssumption ==
  /\ Words \in [Descs -> SUBSET Signals]
  /\ Class \in [Descs -> AccountClasses]
  /\ Source \in [Descs -> SourceTypes]
  /\ Amounts \subseteq Int
  /\ IsFiniteSet(RowIds) /\ Null \notin Cats

ASSUME DocumentAssumption ==
  Documents \subseteq [type : {"payroll", "rental"}, desc : Descs, net : Int, lines : Seq(Line)]

Split == [amt : Int, cat : Cats \cup {Null}, event : EventType, counts : BOOLEAN,
          doc : BOOLEAN]
Row == [desc : Descs, amt : Int, transfer : BOOLEAN, cat : Cats \cup {Null},
        event : EventType, splits : Seq(Split)]

VARIABLES
  rows,    \* the transactions with their splits, by id
  bin,     \* deleted_transactions: what is kept of a deleted row
  import,  \* the import under way: [step, ids]
  early    \* rows saved from the edit form before they were classified (history)

splitVars == <<rows, bin, import, early>>

----------------------------------------------------------------------------
(* Splits.                                                                  *)

Total(ss) == FoldSeq(LAMBDA s, sum : s.amt + sum, 0, ss)
Residual(row) == row.amt - Total(row.splits)
Tolerance == 1
validate_splits(row) == Residual(row) \in -Tolerance .. Tolerance

SplitOf(row, amt, cat) ==
  [amt |-> amt, cat |-> cat, event |-> row.event, counts |-> CountsAsSpend(row.event),
   doc |-> FALSE]

\* create_default_split
PassThrough(row) == SplitOf(row, row.amt, row.cat)

\* What delete_splits_for_transaction spares: the splits of a document, in order.
DocSplits(row) ==
  LET spared == {n \in DOMAIN row.splits : row.splits[n].doc}
      order == CHOOSE s \in [1 .. Cardinality(spared) -> spared] :
                 \A i, j \in 1 .. Cardinality(spared) : i < j => s[i] < s[j]
  IN  [k \in 1 .. Cardinality(spared) |-> row.splits[order[k]]]

\* Mistake: every line of the form counts as spend.
ReplacedAsSpend(row, lines) ==
  [row EXCEPT !.splits = DocSplits(row) \o
     [i \in DOMAIN lines |-> [SplitOf(row, lines[i].amt, lines[i].cat) EXCEPT !.counts = TRUE]]]

\* replace_transaction_splits: the lines of the form, after the splits of a
\* document, which are kept.
Replaced(row, lines) ==
  [row EXCEPT !.splits = DocSplits(row) \o
     [i \in DOMAIN lines |-> SplitOf(row, lines[i].amt, lines[i].cat)]]

\* get_true_spend, compute_spend_summary
TrueSpend(row) ==
  FoldSeq(LAMBDA s, sum : (IF s.counts THEN s.amt ELSE 0) + sum, 0, row.splits)

\* cascade_event_type_to_splits, run where the event type was changed.
Cascaded(row, oldEvent) ==
  IF row.event = oldEvent \/ row.event = Unclassified THEN row
  ELSE [row EXCEPT !.splits =
          [i \in DOMAIN @ |-> IF @[i].doc THEN @[i] ELSE [@[i] EXCEPT !.event = row.event]]]

----------------------------------------------------------------------------
(* Import.  The rows are committed first; they are classified and then      *)
(* split in transactions of their own, and what fails there is logged.      *)

NewRow(d, amt, transfer, cat, event) ==
  [desc |-> d, amt |-> amt, transfer |-> transfer, cat |-> cat, event |-> event,
   splits |-> << >>]
Free == RowIds \ DOMAIN rows
With(fn, i, value) == [j \in DOMAIN fn \cup {i} |-> IF j = i THEN value ELSE fn[j]]
Without(fn, ids) == [j \in DOMAIN fn \ ids |-> fn[j]]
NoImport == [step |-> "none", ids |-> {}]

ImportRow(i, d, amt) ==
  /\ import = NoImport
  /\ i \in Free
  /\ rows' = With(rows, i, NewRow(d, amt, FALSE, Null, Unclassified))
  /\ import' = [step |-> "classify", ids |-> {i}]
  /\ UNCHANGED <<bin, early>>

Classified(row) ==
  [row EXCEPT !.event = classify_transaction(Class[row.desc], row.amt, Words[row.desc],
                                             Source[row.desc], row.transfer)]

\* classify_batch
ClassifyImported ==
  /\ import.step = "classify"
  /\ rows' = [i \in DOMAIN rows |-> IF i \in import.ids THEN Classified(rows[i]) ELSE rows[i]]
  /\ import' = [import EXCEPT !.step = "split"]
  /\ UNCHANGED <<bin, early>>

\* ensure_splits_after_import
SplitImported ==
  /\ import.step = "split"
  /\ rows' = [i \in DOMAIN rows |->
                IF i \in import.ids /\ rows[i].splits = << >>
                THEN [rows[i] EXCEPT !.splits = << PassThrough(rows[i]) >>] ELSE rows[i]]
  /\ import' = [import EXCEPT !.step = "categorise"]
  /\ UNCHANGED <<bin, early>>

ClassificationFails ==
  /\ import.step \in {"classify", "split"}
  /\ import' = [import EXCEPT !.step = "categorise"]
  /\ UNCHANGED <<rows, bin, early>>

----------------------------------------------------------------------------
(* The pages.                                                               *)

\* transaction_create: neither classified nor split.
CreateRow(i, d, amt, transfer, cat) ==
  /\ i \in Free
  /\ rows' = With(rows, i, NewRow(d, amt, transfer, cat, Unclassified))
  /\ UNCHANGED <<bin, import, early>>

\* What the edit form sends: one line, snapped to the amount, or two.  `off'
\* is by how much the two miss the amount.
Layouts(amt, cats, offs) ==
  { << [amt |-> amt, cat |-> c] >> : c \in cats } \cup
  { << [amt |-> 1, cat |-> c], [amt |-> amt - 1 + off, cat |-> Null] >> :
      c \in cats, off \in offs }

FormTolerance == 2
FormAdds(amt, lines) == amt - Total(lines) \in -FormTolerance .. FormTolerance

Edited(row, amt, cat, transfer, lines) ==
  Replaced([row EXCEPT !.amt = amt, !.cat = cat, !.transfer = transfer], lines)

\* Mistake: what the form adds up to is all that is looked at.
AcceptedByForm(row, amt, cat, transfer, lines) == FormAdds(amt, lines)

\* An edit is saved when the form adds up and so do the splits it leaves.
Accepted(row, amt, cat, transfer, lines) ==
  /\ FormAdds(amt, lines)
  /\ validate_splits(Edited(row, amt, cat, transfer, lines))

\* transaction_update; the event type of the row is left as it was.
EditRow(i, amt, cat, transfer, lines) ==
  /\ i \in DOMAIN rows
  /\ Accepted(rows[i], amt, cat, transfer, lines)
  /\ rows' = [rows EXCEPT ![i] =
                Cascaded(Edited(rows[i], amt, cat, transfer, lines), rows[i].event)]
  /\ early' = IF rows[i].event = Unclassified THEN early \cup {i} ELSE early
  /\ UNCHANGED <<bin, import>>

\* bulk_toggle_transfer, and a link made or confirmed on the transfers page.
SetTransfer(i, transfer) ==
  /\ i \in DOMAIN rows
  /\ rows[i].transfer # transfer
  /\ rows' = [rows EXCEPT ![i].transfer = transfer]
  /\ UNCHANGED <<bin, import, early>>

\* _log_deleted: the splits go with the row and are not kept.
DeleteRow(i) ==
  /\ i \in DOMAIN rows
  /\ bin' = With(bin, i, [rows[i] EXCEPT !.splits = << >>])
  /\ rows' = Without(rows, {i})
  /\ early' = early \ {i}
  /\ UNCHANGED import

\* recover_transactions, where the row may be inserted.
RecoverRow(i) ==
  /\ i \in DOMAIN bin \ DOMAIN rows
  /\ rows' = With(rows, i, bin[i])
  /\ bin' = Without(bin, {i})
  /\ UNCHANGED <<import, early>>

----------------------------------------------------------------------------
(* apply_financial_document.  A document that parses becomes a row with one *)
(* split per line.                                                          *)

ParseTolerance == 2
NetSum(doc) == FoldSeq(LAMBDA l, sum : (IF l.aside THEN 0 ELSE l.amt) + sum, 0, doc.lines)
Parses(doc) == NetSum(doc) - doc.net \in -ParseTolerance .. ParseTolerance

DocumentRow(doc) ==
  [NewRow(doc.desc, doc.net, FALSE, Null,
          IF doc.type = "payroll" THEN "payroll_income" ELSE "rental_income")
   EXCEPT !.splits =
     [n \in DOMAIN doc.lines |->
        [amt |-> LineAmount(doc.type, doc.lines[n]), cat |-> Null,
         event |-> LineEvent(doc.type, doc.lines[n]),
         counts |-> LineCounts(doc.type, doc.lines[n]), doc |-> TRUE]]]

ApplyDocument(i, doc) ==
  /\ i \in Free
  /\ Parses(doc)
  /\ rows' = With(rows, i, DocumentRow(doc))
  /\ UNCHANGED <<bin, import, early>>

SplitInit ==
  /\ rows = [i \in {} |-> Null]
  /\ bin = [i \in {} |-> Null]
  /\ import = NoImport
  /\ early = {}

----------------------------------------------------------------------------
(* The shapes of the rows and their splits.                                 *)
SplitTypeOK ==
  /\ DOMAIN rows \subseteq RowIds /\ \A i \in DOMAIN rows : rows[i] \in Row
  /\ DOMAIN bin \subseteq RowIds /\ \A i \in DOMAIN bin : bin[i] \in Row
  /\ import.step \in {"none", "classify", "split", "categorise"}
  /\ import.ids \subseteq RowIds /\ early \subseteq RowIds

IsFromDocument(row) == \E n \in DOMAIN row.splits : row.splits[n].doc

(* A row that is allocated is allocated in full: whatever was imported,     *)
(* edited, deleted and recovered, and whatever the user did while the       *)
(* import had not yet split the row, its splits add up to its amount within *)
(* the cent.  docs/TRUTH_MODEL.md:49.                                       *)
SplitsAddUp ==
  \A i \in DOMAIN rows :
    rows[i].splits # << >> /\ ~IsFromDocument(rows[i]) => validate_splits(rows[i])

(* What a split counts as follows from the type of its row, so the spend    *)
(* read from the splits is the spend of the rows.  The rows the user saved  *)
(* before the import had classified them are left out: their splits were    *)
(* made for an unclassified row.                                            *)
SpendFollowsType ==
  \A i \in DOMAIN rows \ early : \A n \in DOMAIN rows[i].splits :
    ~rows[i].splits[n].doc =>
      /\ rows[i].splits[n].event = rows[i].event
      /\ rows[i].splits[n].counts = CountsAsSpend(rows[i].event)

IsPurchase(row) == row.event # Unclassified /\ row.amt < 0
IsGivenBack(row) == row.event # Unclassified /\ row.amt > 0
Ordinary(row) ==
  /\ Class[row.desc] = "card" /\ row.event # "internal_transfer"
  /\ Words[row.desc] \cap {"payment", "fee", "interest"} = {} /\ Source[row.desc] # "payment"

(* What was bought on a card and given back in full is no spend: the two    *)
(* rows cancel however the bank words the credit, unless it calls it a      *)
(* payment, whatever was edited or split anew since.                        *)
RefundCancels ==
  \A i, j \in DOMAIN rows :
    /\ Ordinary(rows[i]) /\ IsPurchase(rows[i]) /\ rows[i].splits # << >>
    /\ Ordinary(rows[j]) /\ IsGivenBack(rows[j]) /\ rows[j].splits # << >>
    /\ rows[i].amt + rows[j].amt = 0
    => TrueSpend(rows[i]) + TrueSpend(rows[j]) \in -2 * Tolerance .. 2 * Tolerance

(* A row that is a transfer is not spend.  docs/TRUTH_MODEL.md:20-21.       *)
TransferIsNoSpend ==
  \A i \in DOMAIN rows : rows[i].transfer => TrueSpend(rows[i]) = 0

(* What the splits count is the spend there was.                            *)
SpendIsTrue == SpendFollowsType /\ RefundCancels
=============================================================================
