----------------------------- MODULE DayLedger -----------------------------
(***************************************************************************)
(* What importing, deleting and recovering promise, layers of duplicate    *)
(* detection, locks and fingerprints left out: how often each amount of    *)
(* each day is on an account's ledger, and how often among the rows the    *)
(* user deleted.  ImportLedger implements it.                              *)
(***************************************************************************)
EXTENDS Naturals

CONSTANTS
  Exports,  \* statement exports of one account
  Counts    \* Counts[f][q]: how often export f states q, an amount of a day

Amounts == UNION {DOMAIN Counts[f] : f \in Exports}

VARIABLES
  kept,     \* kept[q]: how often q is on the ledger
  removed,  \* removed[q]: how often q is in the log of deleted rows
  recorded  \* the exports that were imported

vars == <<kept, removed, recorded>>

Init ==
  /\ kept = [q \in Amounts |-> 0]
  /\ removed = [q \in Amounts |-> 0]
  /\ recorded = {}

Known(q) == kept[q] + removed[q] > 0

\* import_transactions: what the export states and nobody knows of is entered,
\* as often as it is stated; what is known, kept or removed, is left alone.
Record(f) ==
  /\ kept' = [q \in Amounts |->
                IF q \in DOMAIN Counts[f] /\ ~ Known(q) THEN Counts[f][q] ELSE kept[q]]
  /\ recorded' = recorded \cup {f}
  /\ UNCHANGED removed

\* transaction_delete and bulk_delete.
Remove(q) ==
  /\ kept[q] > 0
  /\ kept' = [kept EXCEPT ![q] = @ - 1]
  /\ removed' = [removed EXCEPT ![q] = @ + 1]
  /\ UNCHANGED recorded

\* recover_transactions.
Restore(q) ==
  /\ removed[q] > 0
  /\ removed' = [removed EXCEPT ![q] = @ - 1]
  /\ kept' = [kept EXCEPT ![q] = @ + 1]
  /\ UNCHANGED recorded

Next ==
  \/ \E f \in Exports : Record(f)
  \/ \E q \in Amounts : Remove(q) \/ Restore(q)

Spec == Init /\ [][Next]_vars
=============================================================================
