---------------------------- MODULE ImportLedger ----------------------------
(***************************************************************************)
(* One account's ledger under concurrent requests: statement imports with  *)
(* their six layers of duplicate detection (services/import_service.py),   *)
(* manual entries, confirmed schedule occurrences, edits, deletion into    *)
(* the deleted-transactions log and recovery from it                       *)
(* (routers/transactions.py).                                              *)
(*                                                                         *)
(* SQLite in WAL mode gives the ledger a single write lock: the first DML  *)
(* statement of a request takes it, commit or rollback gives it back.      *)
(* Reads take no lock, so what a handler read before its first write may   *)
(* be stale by the time it writes.  txns and tombs are the tables as the   *)
(* lock holder sees them; rollback is the image to go back to if the       *)
(* holder fails.                                                           *)
(***************************************************************************)
EXTENDS Integers, Sequences, FiniteSets

CONSTANTS
  Importers,    \* request handlers that run an import
  Editors,      \* request handlers that delete or recover a row
  NoThread,     \* nobody holds the write lock
  Files,        \* statement exports the user can upload
  Content,      \* Content[f]: the parsed rows of file f, in file order
  Similar,      \* pairs of wordings _wording_matches_existing accepts
  Entries,      \* rows the user may put on the ledger ahead of the bank
  Rewordings,   \* descriptions the user may edit a row to
  MaxId,        \* bound on transaction ids
  MaxTombs,     \* bound on the deleted-transactions log
  MaxImports,   \* bound on import batches
  Households    \* what a behaviour is about: [files, ahead, edits]

None == 0                       \* SQL NULL for a balance or a batch
NoHash == <<>>                  \* SQL NULL for a source fingerprint
NoFile == "none"
Ids == 1 .. MaxId

(* A parsed row of a file: `valid' is false when the date, the amount or    *)
(* the description could not be read; `bytes' stands for the literal cells  *)
(* of the line, which is what the fingerprint hashes.                       *)
FileRow == [valid : BOOLEAN, date : Nat, desc : STRING, amount : Int,
            balance : Nat, bytes : STRING]

ASSUME ContentAssumption ==
  /\ Files \subseteq DOMAIN Content
  /\ \A f \in Files : Content[f] \in Seq(FileRow)
  /\ NoFile \notin Files
Threads == Importers \cup Editors
ASSUME ThreadAssumption == NoThread \notin Threads
ASSUME BoundAssumption == MaxId \in Nat /\ MaxTombs \in Nat /\ MaxImports \in Nat
ASSUME WordAssumption ==
  /\ Similar \subseteq STRING \X STRING
  /\ Rewordings \subseteq STRING
  /\ Entries \subseteq [date : Nat, desc : STRING, amount : Int,
                        raw : {"none", "scheduled"}]

\* The files there are to import, whether rows are entered and reworded ahead
\* of the bank, whether rows are deleted and recovered.
ASSUME HouseholdAssumption ==
  Households \subseteq [files : SUBSET Files, ahead : BOOLEAN, edits : BOOLEAN]

Hashes == {NoHash} \cup (STRING \X Nat)
Txn == [date : Nat, desc : STRING, amount : Int, balance : Nat, batch : Nat,
        raw : {"none", "scheduled", "bank"}, hash : Hashes]
\* A row of deleted_transactions.  `lost' is a history field: the
\* fingerprint the deleted row had, which the log does not keep.
Tomb == [original_id : Ids, date : Nat, desc : STRING, amount : Int,
         balance : Nat, batch : Nat, lost : Hashes]

VARIABLES
  txns,      \* the transactions table: a function from ids in use to rows
  tombs,     \* the deleted_transactions table
  splits,    \* ids that carry at least one transaction_splits row
  lock,      \* holder of SQLite's write lock
  rollback,  \* [txns, batches] before the holder's first write
  batches,   \* import batches created so far
  pc,        \* where each request is
  sess,      \* the local state of each request
  settled,   \* history: files an import of which has committed
  household  \* the member of Households this behaviour is about

vars == <<txns, tombs, splits, lock, rollback, batches, pc, sess, settled, household>>

----------------------------------------------------------------------------
(* Tables.                                                                  *)

IsTable(table, range, ids) ==
  /\ table = [i \in DOMAIN table |-> table[i]]
  /\ DOMAIN table \subseteq ids
  /\ \A i \in DOMAIN table : table[i] \in range

\* The id SQLite gives the next row: one more than the largest in use, so
\* the id of a deleted last row is handed out again.
IsNextId(table, i) ==
  /\ \A j \in DOMAIN table : j < i
  /\ i = 1 \/ i - 1 \in DOMAIN table

Insert(table, i, row) ==
  [j \in DOMAIN table \cup {i} |-> IF j = i THEN row ELSE table[j]]
Without(table, i) == [j \in DOMAIN table \ {i} |-> table[j]]

\* What a request without the lock reads: the last committed state.
Committed == IF lock = NoThread THEN txns ELSE rollback.txns

IsFirst(i, S) == i \in S /\ \A j \in S : i <= j
Gap(a, b) == IF a <= b THEN b - a ELSE a - b

----------------------------------------------------------------------------
(* A request's local state.  An import keeps the file and the row it is at, *)
(* the rows and tombstones it loaded (base, gone), the fingerprints known   *)
(* so far (hashes), the keys added by reconciled rows (rekeyed), what was   *)
(* popped from the two lists of unbalanced twins, the expectations used,    *)
(* the rows a balance was carried onto and the ids it created.  A deletion  *)
(* or a recovery keeps the id it works on and the row as it read it (copy). *)

Idle == [file |-> NoFile, pos |-> 0, base |-> <<>>, gone |-> {},
         hashes |-> {}, rekeyed |-> {}, keyPopped |-> {}, dayPopped |-> {},
         used |-> {}, carried |-> {}, created |-> {}, target |-> None,
         copy |-> {}]

(* The tests of the import loop, one operator per layer.                    *)

Row(t) == Content[sess[t].file][sess[t].pos]
Key(r) == <<r.date, r.desc, r.amount>>

\* Mistake: the line's place among its equals is left out.
FingerprintOfBytes(f, i) == <<Content[f][i].bytes>>

\* source_fingerprint.fingerprint: the literal cells of the line and how
\* often the same line was seen earlier in this file.
Fingerprint(f, i) ==
  <<Content[f][i].bytes,
    Cardinality({j \in 1 .. i - 1 : /\ Content[f][j].valid
                                    /\ Content[f][j].bytes = Content[f][i].bytes})>>
RowHash(t) == Fingerprint(sess[t].file, sess[t].pos)

HashKnown(t) == RowHash(t) \in sess[t].hashes

\* Mistake: rows created by this very import count as known.
KeyKnownInFile(t) ==
  \/ \E i \in DOMAIN txns : Key(txns[i]) = Key(Row(t))
  \/ Key(Row(t)) \in sess[t].rekeyed
\* Mistake: the running balance is part of the key.
KeyKnownByBalance(t) ==
  LET base == sess[t].base IN
  \E i \in DOMAIN base : /\ Key(base[i]) = Key(Row(t))
                         /\ base[i].balance = Row(t).balance

KeyKnown(t) ==
  LET base == sess[t].base IN
  \/ \E i \in DOMAIN base : Key(base[i]) = Key(Row(t))
  \/ Key(Row(t)) \in sess[t].rekeyed

SameDayAmount(a, b) == a.date = b.date /\ a.amount = b.amount

WordingKnown(t) ==
  LET base == sess[t].base IN
  \E i \in DOMAIN base : /\ SameDayAmount(base[i], Row(t))
                         /\ <<Row(t).desc, base[i].desc>> \in Similar

\* Mistake: only the exact wording of a deleted row is remembered.
RemovedExactly(t) ==
  \E d \in sess[t].gone : SameDayAmount(d, Row(t)) /\ d.desc = Row(t).desc
\* Mistake: the duplicate layers look at the ledger only.
RemovedForgotten(t) == FALSE

\* The user deleted this row, under the same or nearly the same wording.
Removed(t) ==
  \E d \in sess[t].gone :
    /\ SameDayAmount(d, Row(t))
    /\ d.desc = Row(t).desc \/ <<Row(t).desc, d.desc>> \in Similar

\* Expectations: rows that came from no file and have no running balance.
Window(p) == IF p.raw = "scheduled" THEN 7 ELSE 3
\* Mistake: an expectation has to be worded like the bank's row.
ExpectationsSameWording(t) ==
  LET base == sess[t].base IN
  {i \in DOMAIN base :
     /\ base[i].batch = None /\ base[i].balance = None
     /\ base[i].amount = Row(t).amount /\ base[i].desc = Row(t).desc
     /\ i \notin sess[t].used
     /\ Gap(base[i].date, Row(t).date) <= Window(base[i])}
Expectations(t) ==
  LET base == sess[t].base IN
  {i \in DOMAIN base :
     /\ base[i].batch = None /\ base[i].balance = None
     /\ base[i].amount = Row(t).amount
     /\ i \notin sess[t].used
     /\ Gap(base[i].date, Row(t).date) <= Window(base[i])}
Closest(t, i) ==
  LET base == sess[t].base
      G(j) == Gap(base[j].date, Row(t).date) IN
  /\ i \in Expectations(t)
  /\ \A j \in Expectations(t) : G(i) < G(j) \/ (G(i) = G(j) /\ i <= j)

\* Ledger rows without a running balance that repeat this file row, by
\* exact key and by day and amount; each list is popped from the front.
KeyTwins(t) ==
  LET base == sess[t].base IN
  {i \in DOMAIN base : /\ base[i].balance = None
                       /\ Key(base[i]) = Key(Row(t))
                       /\ i \notin sess[t].keyPopped}
DayTwins(t) ==
  LET base == sess[t].base IN
  {i \in DOMAIN base : /\ base[i].balance = None
                       /\ SameDayAmount(base[i], Row(t))
                       /\ i \notin sess[t].dayPopped}

\* Mistake: the balance is carried onto a row that has one.
MayCarryAlways(i) == i \in DOMAIN txns
\* _carry_balance: nothing if the row is gone or meanwhile has a balance.
MayCarry(i) == i \in DOMAIN txns /\ txns[i].balance = None
CarryInto(txn, r, h, b) ==
  [txn EXCEPT !.balance = r.balance,
              !.raw = IF @ = "none" THEN "bank" ELSE @,
              !.hash = IF @ = NoHash THEN h ELSE @,
              !.batch = IF @ = None THEN b ELSE @]

----------------------------------------------------------------------------
Init ==
  /\ txns = <<>> /\ tombs = <<>> /\ splits = {}
  /\ lock = NoThread
  /\ batches = 0
  /\ rollback = [txns |-> <<>>, batches |-> 0]
  /\ pc = [t \in Threads |-> "idle"]
  /\ sess = [t \in Threads |-> Idle]
  /\ settled = {}
  /\ household \in Households

\* Mistake: nothing is written before the rows are read, so nobody waits.
LockNotTaken == TRUE
WriteLockFree == lock = NoThread

\* import_transactions up to db.flush(): the batch row is the request's first
\* DML, so the write lock is held before anything is read.
StartImport(t, f) ==
  /\ pc[t] = "idle" /\ WriteLockFree
  /\ batches < MaxImports
  /\ lock' = t
  /\ rollback' = [txns |-> txns, batches |-> batches]
  /\ batches' = batches + 1
  /\ pc' = [pc EXCEPT ![t] = "load"]
  /\ sess' = [sess EXCEPT ![t].file = f]
  /\ UNCHANGED <<txns, tombs, splits, settled>>

\* The rows, fingerprints and tombstones already there.
LoadExisting(t) ==
  /\ pc[t] = "load"
  /\ pc' = [pc EXCEPT ![t] = "rows"]
  /\ sess' = [sess EXCEPT ![t].base = txns,
                         ![t].gone = {tombs[k] : k \in DOMAIN tombs},
                         ![t].hashes = {txns[i].hash : i \in DOMAIN txns},
                         ![t].pos = 1]
  /\ UNCHANGED <<txns, tombs, splits, lock, rollback, batches, settled>>

AtRow(t) == pc[t] = "rows" /\ sess[t].pos <= Len(Content[sess[t].file])

\* `continue': on to the next row; every readable row that gets past the
\* exact layer has left its fingerprint behind.
NextRow(t, s) == sess' = [sess EXCEPT ![t] = [s EXCEPT !.pos = @ + 1]]
Seen(t) == [sess[t] EXCEPT !.hashes = @ \cup {RowHash(t)}]

\* A row whose date, amount or description is missing is skipped.
RowUnreadable(t) ==
  /\ AtRow(t) /\ ~ Row(t).valid
  /\ NextRow(t, sess[t])
  /\ UNCHANGED <<txns, tombs, splits, lock, rollback, batches, pc, settled>>

\* Layer 1: this literal line was imported before.
RowImportedBefore(t) ==
  /\ AtRow(t) /\ Row(t).valid /\ HashKnown(t)
  /\ NextRow(t, sess[t])
  /\ UNCHANGED <<txns, tombs, splits, lock, rollback, batches, pc, settled>>

Fresh(t) == AtRow(t) /\ Row(t).valid /\ ~ HashKnown(t)

Carry(t, i) ==
  txns' = IF MayCarry(i)
          THEN [txns EXCEPT ![i] = CarryInto(@, Row(t), RowHash(t), batches)]
          ELSE txns
CarriedNow(i) == IF MayCarry(i) THEN {i} ELSE {}

\* Layer 2: the same date, description and amount is on the ledger.
RowSameKey(t) ==
  /\ Fresh(t) /\ KeyKnown(t)
  /\ \/ KeyTwins(t) = {} /\ NextRow(t, Seen(t)) /\ UNCHANGED txns
     \/ \E i \in Ids :
          /\ IsFirst(i, KeyTwins(t))
          /\ Carry(t, i)
          /\ NextRow(t, [Seen(t) EXCEPT !.keyPopped = @ \cup {i},
                                       !.carried = @ \cup CarriedNow(i)])
  /\ UNCHANGED <<tombs, splits, lock, rollback, batches, pc, settled>>

\* Layer 3: nearly the same wording on the same day for the same amount.
RowSameWording(t) ==
  /\ Fresh(t) /\ ~ KeyKnown(t) /\ WordingKnown(t)
  /\ \/ DayTwins(t) = {} /\ NextRow(t, Seen(t)) /\ UNCHANGED txns
     \/ \E i \in Ids :
          /\ IsFirst(i, DayTwins(t))
          /\ Carry(t, i)
          /\ NextRow(t, [Seen(t) EXCEPT !.dayPopped = @ \cup {i},
                                       !.carried = @ \cup CarriedNow(i)])
  /\ UNCHANGED <<tombs, splits, lock, rollback, batches, pc, settled>>

Unknown(t) == Fresh(t) /\ ~ KeyKnown(t) /\ ~ WordingKnown(t)

\* Layer 4: what the user removed stays removed.
RowRemoved(t) ==
  /\ Unknown(t) /\ Removed(t)
  /\ NextRow(t, Seen(t))
  /\ UNCHANGED <<txns, tombs, splits, lock, rollback, batches, pc, settled>>

\* Layer 5: the closest unused expectation becomes the bank's row.
RowExpected(t) ==
  /\ Unknown(t) /\ ~ Removed(t)
  /\ \E i \in Expectations(t) :
       /\ Closest(t, i)
       /\ txns' = [txns EXCEPT ![i] =
                    [@ EXCEPT !.date = Row(t).date, !.balance = Row(t).balance,
                              !.raw = "bank", !.hash = RowHash(t),
                              !.batch = batches]]
       /\ NextRow(t, [Seen(t) EXCEPT !.used = @ \cup {i},
                                    !.rekeyed = @ \cup {Key(Row(t))}])
  /\ UNCHANGED <<tombs, splits, lock, rollback, batches, pc, settled>>

\* Layer 6: a new transaction.
RowNew(t) ==
  /\ Unknown(t) /\ ~ Removed(t) /\ Expectations(t) = {}
  /\ \E i \in Ids :
       /\ IsNextId(txns, i)
       /\ txns' = Insert(txns, i,
                   [date |-> Row(t).date, desc |-> Row(t).desc,
                    amount |-> Row(t).amount, balance |-> Row(t).balance,
                    batch |-> batches, raw |-> "bank", hash |-> RowHash(t)])
       /\ NextRow(t, [Seen(t) EXCEPT !.created = @ \cup {i}])
  /\ UNCHANGED <<tombs, splits, lock, rollback, batches, pc, settled>>

CommitImport(t) ==
  /\ pc[t] = "rows" /\ sess[t].pos > Len(Content[sess[t].file])
  /\ lock' = NoThread
  /\ settled' = settled \cup {sess[t].file}
  /\ pc' = [pc EXCEPT ![t] = "classify"]
  /\ sess' = [sess EXCEPT ![t] = [Idle EXCEPT !.created = sess[t].created]]
  /\ UNCHANGED <<txns, tombs, splits, rollback, batches>>

\* classify_batch and ensure_splits_after_import, in transactions of their
\* own after the commit.  create_default_split raises for a row that is gone
\* by then, the exception is logged, and the whole batch stays unsplit.
AfterImport(t) ==
  /\ pc[t] = "classify" /\ WriteLockFree
  /\ splits' = IF sess[t].created \subseteq DOMAIN txns
               THEN splits \cup sess[t].created ELSE splits
  /\ pc' = [pc EXCEPT ![t] = "idle"]
  /\ sess' = [sess EXCEPT ![t] = Idle]
  /\ UNCHANGED <<txns, tombs, lock, rollback, batches, settled>>

\* An exception inside the import: get_db closes the session, nothing of the
\* request's transaction remains.
AbortImport(t) ==
  /\ pc[t] \in {"load", "rows"}
  /\ txns' = rollback.txns /\ batches' = rollback.batches
  /\ lock' = NoThread
  /\ pc' = [pc EXCEPT ![t] = "idle"]
  /\ sess' = [sess EXCEPT ![t] = Idle]
  /\ UNCHANGED <<tombs, splits, rollback, settled>>

----------------------------------------------------------------------------
(* The user's own changes.                                                  *)

\* transaction_create and confirm_occurrence: a row ahead of the bank.
Enter(e) ==
  /\ WriteLockFree
  /\ \E i \in Ids :
       /\ IsNextId(txns, i)
       /\ txns' = Insert(txns, i,
                   [date |-> e.date, desc |-> e.desc, amount |-> e.amount,
                    balance |-> None, batch |-> None, raw |-> e.raw,
                    hash |-> NoHash])
  /\ UNCHANGED <<tombs, splits, lock, rollback, batches, pc, sess, settled>>

\* transaction_update: the description is the user's; the fingerprint stays.
Reword(i, d) ==
  /\ WriteLockFree
  /\ i \in DOMAIN txns
  /\ txns' = [txns EXCEPT ![i].desc = d]
  /\ UNCHANGED <<tombs, splits, lock, rollback, batches, pc, sess, settled>>

\* transaction_delete and bulk_delete read the row without the lock ...
ReadForDelete(t, i) ==
  /\ pc[t] = "idle"
  /\ i \in DOMAIN Committed
  /\ pc' = [pc EXCEPT ![t] = "delete"]
  /\ sess' = [sess EXCEPT ![t].target = i, ![t].copy = {Committed[i]}]
  /\ UNCHANGED <<txns, tombs, splits, lock, rollback, batches, settled>>

\* ... and then log the copy they read and delete whatever has that id.
Delete(t) ==
  /\ pc[t] = "delete" /\ WriteLockFree
  /\ \E k \in 1 .. MaxTombs, c \in sess[t].copy :
       /\ IsNextId(tombs, k)
       /\ tombs' = Insert(tombs, k,
                    [original_id |-> sess[t].target, date |-> c.date,
                     desc |-> c.desc, amount |-> c.amount,
                     balance |-> c.balance, batch |-> c.batch,
                     lost |-> c.hash])
  /\ txns' = Without(txns, sess[t].target)
  /\ splits' = splits \ {sess[t].target}
  /\ pc' = [pc EXCEPT ![t] = "idle"]
  /\ sess' = [sess EXCEPT ![t] = Idle]
  /\ UNCHANGED <<lock, rollback, batches, settled>>

\* recover_transactions reads the log and skips a row whose original id is
\* in use; its first write is the flush of the commit.
ReadForRecover(t, k) ==
  /\ pc[t] = "idle"
  /\ k \in DOMAIN tombs
  /\ tombs[k].original_id \notin DOMAIN Committed
  /\ pc' = [pc EXCEPT ![t] = "recover"]
  /\ sess' = [sess EXCEPT ![t].target = k, ![t].copy = {tombs[k]}]
  /\ UNCHANGED <<txns, tombs, splits, lock, rollback, batches, settled>>

Recover(t) ==
  /\ pc[t] = "recover" /\ WriteLockFree
  /\ \E i \in Ids, c \in sess[t].copy :
       /\ IsNextId(txns, i)
       /\ txns' = Insert(txns, i,
                   [date |-> c.date, desc |-> c.desc, amount |-> c.amount,
                    balance |-> c.balance, batch |-> c.batch,
                    raw |-> "none", hash |-> NoHash])
  /\ tombs' = Without(tombs, sess[t].target)
  /\ pc' = [pc EXCEPT ![t] = "idle"]
  /\ sess' = [sess EXCEPT ![t] = Idle]
  /\ UNCHANGED <<splits, lock, rollback, batches, settled>>

----------------------------------------------------------------------------
ProcessRow(t) ==
  \/ RowUnreadable(t) \/ RowImportedBefore(t) \/ RowSameKey(t)
  \/ RowSameWording(t) \/ RowRemoved(t) \/ RowExpected(t) \/ RowNew(t)

Import(t) ==
  \/ \E f \in Files : f \in household.files /\ StartImport(t, f)
  \/ LoadExisting(t) \/ ProcessRow(t) \/ CommitImport(t)
  \/ AfterImport(t) \/ AbortImport(t)

UserChange(t) ==
  \/ \E i \in Ids : ReadForDelete(t, i)
  \/ Delete(t)
  \/ \E k \in 1 .. MaxTombs : ReadForRecover(t, k)
  \/ Recover(t)

\* The server stops and starts again: open transactions are rolled back and
\* what a request had left to do is forgotten.
Restart ==
  /\ \E t \in Threads : pc[t] # "idle"
  /\ IF lock = NoThread THEN UNCHANGED <<txns, batches>>
     ELSE txns' = rollback.txns /\ batches' = rollback.batches
  /\ lock' = NoThread
  /\ pc' = [t \in Threads |-> "idle"]
  /\ sess' = [t \in Threads |-> Idle]
  /\ UNCHANGED <<tombs, splits, rollback, settled>>

UserStep ==
  \/ \E t \in Editors : household.edits /\ UserChange(t)
  \/ \E e \in Entries : household.ahead /\ Enter(e)
  \/ \E i \in Ids, d \in Rewordings : household.ahead /\ Reword(i, d)

Next ==
  /\ Restart \/ (\E t \in Importers : Import(t)) \/ UserStep
  /\ UNCHANGED household

Spec == Init /\ [][Next]_vars

----------------------------------------------------------------------------
(* Properties.                                                              *)

IsSession(s) ==
  /\ DOMAIN s = DOMAIN Idle
  /\ s.file \in Files \cup {NoFile} /\ s.pos \in Nat
  /\ IsTable(s.base, Txn, Ids)
  /\ s.gone \subseteq Tomb /\ s.hashes \subseteq Hashes
  /\ s.rekeyed \subseteq Nat \X STRING \X Int
  /\ \A ids \in {s.keyPopped, s.dayPopped, s.used, s.carried, s.created} :
       ids \subseteq Ids
  /\ s.target \in Nat /\ s.copy \subseteq Txn \cup Tomb

\* The type invariant of the ledger and of the requests that work on it.
TypeOK ==
  /\ IsTable(txns, Txn, Ids)
  /\ IsTable(tombs, Tomb, 1 .. MaxTombs)
  /\ splits \subseteq Ids
  /\ lock \in Threads \cup {NoThread}
  /\ DOMAIN rollback = {"txns", "batches"}
  /\ IsTable(rollback.txns, Txn, Ids) /\ rollback.batches \in Nat
  /\ batches \in Nat
  /\ pc \in [Threads -> {"idle", "load", "rows", "classify", "delete", "recover"}]
  /\ DOMAIN sess = Threads /\ \A t \in Threads : IsSession(sess[t])
  /\ settled \subseteq Files

\* No source line is on the ledger twice, whatever files are imported, by how
\* many requests at once, with deletions, recoveries and restarts in between
\* (import_transactions, the exact layer and the early flush of the batch).
SourceHashUnique ==
  \A i, j \in DOMAIN txns :
    txns[i].hash # NoHash /\ txns[i].hash = txns[j].hash => i = j

\* What makes SourceHashUnique inductive: one import at a time is between its
\* first write and its commit, it knows every fingerprint on the ledger, and
\* the image it may be rolled back to is free of repeats as well.
UniqueHashes(table) ==
  \A i, j \in DOMAIN table :
    table[i].hash # NoHash /\ table[i].hash = table[j].hash => i = j
OneWriter == \A t \in Threads : pc[t] \in {"load", "rows"} <=> lock = t
AtWork ==
  \A t \in Threads :
    /\ pc[t] \in {"load", "rows"} => sess[t].file \in Files
    /\ pc[t] = "rows" => sess[t].pos > 0
    /\ pc[t] = "delete" => sess[t].copy \subseteq Txn /\ sess[t].target \in Ids
    /\ pc[t] = "recover" => sess[t].copy \subseteq Tomb
AllSeen ==
  \A t \in Threads : pc[t] = "rows" =>
    \A i \in DOMAIN txns : txns[i].hash \in sess[t].hashes
HashInv == OneWriter /\ AllSeen /\ UniqueHashes(txns) /\ UniqueHashes(rollback.txns)
IInv == TypeOK /\ AtWork /\ HashInv

\* Importing a file again never creates a row, whatever was deleted,
\* recovered or imported since the first time, as long as nothing is entered
\* or reworded by hand (layers 1 to 4 together).
ReimportAddsNothing ==
  [][\A t \in Threads :
       ~ household.ahead /\ lock = t /\ sess[t].file \in settled
         => DOMAIN txns' \subseteq DOMAIN txns]_vars

\* How often a file states an amount on a day.
DayAmount(r) == <<r.date, r.amount>>
Stated ==
  [f \in Files |->
     LET lines == {n \in 1 .. Len(Content[f]) : Content[f][n].valid} IN
     [k \in {DayAmount(Content[f][n]) : n \in lines} |->
        Cardinality({n \in lines : DayAmount(Content[f][n]) = k})]]

\* How often the ledger, or the log of deleted rows, has it.
Times(table, q) == Cardinality({i \in DOMAIN table : DayAmount(table[i]) = q})

(* What exports of one account have in common, and the theorems of           *)
(* ImportLedgerProofs suppose of the household they speak of.                *)

\* Equal cells are read as the same amount of the same day.
SameCells(files) ==
  \A f, g \in files :
    \A n \in 1 .. Len(Content[f]), m \in 1 .. Len(Content[g]) :
      /\ Content[f][n].valid /\ Content[g][m].valid
      /\ Content[f][n].bytes = Content[g][m].bytes
      => DayAmount(Content[f][n]) = DayAmount(Content[g][m])
\* Two files that state an amount of a day state it equally often.
WholeDays(files) ==
  \A f, g \in files : \A k \in DOMAIN Stated[f] \cap DOMAIN Stated[g] :
    Stated[f][k] = Stated[g][k]
\* No file has two lines of one day, amount and, unless `day', wording.
Mark(day, r) == IF day THEN DayAmount(r) ELSE Key(r)
StatedOnce(day, files) ==
  \A f \in files : \A n, m \in 1 .. Len(Content[f]) :
    /\ Content[f][n].valid /\ Content[f][m].valid
    /\ Mark(day, Content[f][n]) = Mark(day, Content[f][m])
    => n = m
\* Lines of one day and amount are worded alike, in whatever file they are.
OneWording(files) ==
  \A f, g \in files :
    \A n \in 1 .. Len(Content[f]), m \in 1 .. Len(Content[g]) :
      /\ Content[f][n].valid /\ Content[g][m].valid
      /\ DayAmount(Content[f][n]) = DayAmount(Content[g][m])
      => \/ Content[f][n].desc = Content[g][m].desc
         \/ <<Content[f][n].desc, Content[g][m].desc>> \in Similar

\* Exports that list whole days lose nothing: however often an imported file
\* states an amount on a day, the ledger and the log of deleted rows hold it at
\* least that often (import_transactions, the `continue's of the row loop).
NoRowLost ==
  \A f \in settled : \A k \in DOMAIN Stated[f] :
    Stated[f][k] <= Times(Committed, k) + Times(tombs, k)

\* Layers, locks and fingerprints left out, this is a DayLedger: an import enters
\* what it states and nobody knows of, as often as it states it, in one step, and
\* nothing else; a deletion and a recovery move one row.  However requests
\* interleave, fail and are rolled back.
StatedAmounts == UNION {DOMAIN Stated[f] : f \in Files}
DL == INSTANCE DayLedger WITH
        Exports <- Files, Counts <- Stated, recorded <- settled,
        kept <- [q \in StatedAmounts |-> Times(Committed, q)],
        removed <- [q \in StatedAmounts |-> Times(tombs, q)]
LedgerOfDays == DL!Spec

\* An import never replaces a running balance the bank already gave a row:
\* a twin found by two layers takes the balance once (_carry_balance).
BalanceNeverOverwritten ==
  [][\A t \in Threads : pc[t] = "rows" /\ pc'[t] = "rows" =>
       \A i \in DOMAIN txns :
         txns[i].balance # None => txns'[i].balance = txns[i].balance]_vars

\* "A row already on the ledger without the bank's running balance [...] takes
\* it from the file row that repeats it" (import_service.py): a dropped row
\* whose day and amount still has such a row leaves its balance behind.
BalanceTaken ==
  [][\A t \in Threads :
       /\ RowSameKey(t) \/ RowSameWording(t)
       /\ Row(t).balance # None
       /\ \E i \in DOMAIN sess[t].base : /\ SameDayAmount(txns[i], Row(t))
                                        /\ txns[i].balance = None
       => \E i \in DOMAIN txns' : txns'[i].balance = Row(t).balance]_vars

\* A line whose ledger row the user deleted, and did not recover, does not
\* come back ("What the user removed stays removed", import_service.py).
RemovedStaysRemoved ==
  \A i \in DOMAIN txns, k \in DOMAIN tombs :
    txns[i].hash # NoHash => txns[i].hash # tombs[k].lost

\* An import leaves no open expectation beside a new row for the same amount
\* within its window (the placeholder layer).
NoExpectationStranded ==
  \A t \in Threads : pc[t] = "rows" =>
    \A i \in sess[t].created, p \in DOMAIN txns :
      txns[p].batch = None /\ txns[p].balance = None =>
        \/ txns[p].amount # txns[i].amount
        \/ Gap(txns[p].date, txns[i].date) > Window(txns[p])

\* A row leaves the committed ledger only into the log, under its own day,
\* amount and wording
\* (_log_deleted: "Copy a transaction to deleted_transactions before
\* hard-deleting it").
LogFaithful ==
  [][\A i \in DOMAIN Committed \ DOMAIN Committed' :
       \E k \in DOMAIN tombs' \ DOMAIN tombs :
         /\ SameDayAmount(tombs'[k], Committed[i])
         /\ tombs'[k].desc = Committed[i].desc]_vars

\* With files that state each transaction once and nothing entered or reworded
\* by hand, no transaction is on the
\* ledger twice: not by overlapping imports, not by deleting and recovering
\* (recover_transactions: "Don't re-insert if already exists").
NoSecondCopy ==
  ~ household.ahead => \A i, j \in DOMAIN txns : Key(txns[i]) = Key(txns[j]) => i = j

\* "Each expectation is used once" (import_service.py): a row that took the
\* balance of one bank row is not used up by another one.
ExpectationUsedOnce ==
  \A t \in Threads : sess[t].carried \cap sess[t].used = {}

\* The exact-key layer is "deliberately not applied within this file"
\* (import_service.py): it only ever drops a row for one that was there
\* before the import.
FuzzyLayerSparesThisFile ==
  \A t \in Threads : Fresh(t) /\ KeyKnown(t) =>
    \E i \in DOMAIN sess[t].base : Key(sess[t].base[i]) = Key(Row(t))

\* "Called after import + classification - one pass-through split per txn"
\* (split_auto.py): a request that gets to the end leaves every row it
\* created, if it is still there, with a split.
ImportedRowsSplit ==
  [][\A t \in Threads : AfterImport(t) =>
       sess[t].created \cap DOMAIN txns' \subseteq splits']_vars

=============================================================================
