------------------------- MODULE ImportLedgerProofs -------------------------
(* What ImportLedger keeps for all files, requests, entries and bounds:     *)
(* its types, no source line on the ledger twice, nothing left waiting      *)
(* beside the row it should have become; and, where nothing is entered or   *)
(* reworded by hand and one request at a time edits, that nothing is        *)
(* imported twice, lost, brought back or given another balance.             *)
EXTENDS ImportLedger, FiniteSetTheorems, TLAPS

\* A fingerprint is a pair of cells and a count, for every line of a file.
LEMMA FingerprintType ==
  ASSUME NEW f \in Files, NEW n \in Nat \ {0}, n <= Len(Content[f])
  PROVE  /\ Content[f][n] \in FileRow
         /\ Fingerprint(f, n) \in Hashes
<1>1. Content[f] \in Seq(FileRow)
  BY ContentAssumption
<1>2. Content[f][n] \in FileRow
  BY <1>1
<1>3. DEFINE S == {j \in 1 .. n - 1 : /\ Content[f][j].valid
                                      /\ Content[f][j].bytes = Content[f][n].bytes}
<1>4. IsFiniteSet(S)
  <2>1. IsFiniteSet(1 .. n - 1)
    BY FS_Interval
  <2>2. S \subseteq 1 .. n - 1
    OBVIOUS
  <2>3. QED
    BY <2>1, <2>2, FS_Subset
<1>5. Cardinality(S) \in Nat
  BY <1>4, FS_CardinalityType
<1>6. Content[f][n].bytes \in STRING
  BY <1>2 DEF FileRow
<1>7. Fingerprint(f, n) = <<Content[f][n].bytes, Cardinality(S)>>
  BY DEF Fingerprint
<1>8. <<Content[f][n].bytes, Cardinality(S)>> \in STRING \X Nat
  BY <1>5, <1>6
<1>9. QED
  BY <1>2, <1>7, <1>8 DEF Hashes

\* Adding, dropping and rewriting a row keep a table a table.
LEMMA InsertTable ==
  ASSUME NEW table, NEW range, NEW ids, NEW i \in ids, NEW row \in range,
         IsTable(table, range, ids)
  PROVE  IsTable(Insert(table, i, row), range, ids)
BY DEF IsTable, Insert

LEMMA WithoutTable ==
  ASSUME NEW table, NEW range, NEW ids, NEW i, IsTable(table, range, ids)
  PROVE  IsTable(Without(table, i), range, ids)
BY DEF IsTable, Without

LEMMA RewriteTable ==
  ASSUME NEW table, NEW range, NEW ids, NEW i, NEW row,
         i \in DOMAIN table => row \in range,
         IsTable(table, range, ids)
  PROVE  IsTable([table EXCEPT ![i] = row], range, ids)
BY DEF IsTable

LEMMA IdleSession == IsSession(Idle)
BY DEF IsSession, Idle, IsTable, None

\* The request at a row: the row, its fingerprint and its session are typed.
LEMMA AtRowType ==
  ASSUME NEW t \in Threads, TypeOK, AtWork, AtRow(t)
  PROVE  /\ Row(t) \in FileRow
         /\ RowHash(t) \in Hashes
         /\ IsSession(sess[t]) /\ IsSession(Seen(t))
<1>1. sess[t].file \in Files /\ sess[t].pos \in Nat \ {0}
  BY DEF AtWork, AtRow, TypeOK, IsSession
<1>2. Row(t) \in FileRow /\ RowHash(t) \in Hashes
  BY <1>1, FingerprintType DEF Row, RowHash, AtRow
<1>3. IsSession(sess[t])
  BY DEF TypeOK
<1>4. IsSession(Seen(t))
  BY <1>2, <1>3 DEF Seen, IsSession
<1>5. QED
  BY <1>2, <1>3, <1>4

\* Going on to the next row keeps every session a session.
LEMMA NextRowType ==
  ASSUME NEW t \in Threads, TypeOK, NEW s, IsSession(s), NextRow(t, s)
  PROVE  /\ DOMAIN sess' = Threads
         /\ \A u \in Threads : IsSession(sess'[u])
<1>1. IsSession([s EXCEPT !.pos = @ + 1])
  BY DEF IsSession, Idle
<1>2. QED
  BY <1>1 DEF NextRow, TypeOK

\* Carrying a balance keeps the table a table.
LEMMA CarryType ==
  ASSUME NEW t \in Threads, TypeOK, AtWork, AtRow(t), NEW i \in Ids, Carry(t, i)
  PROVE  IsTable(txns', Txn, Ids) /\ CarriedNow(i) \subseteq Ids
<1>1. Row(t) \in FileRow /\ RowHash(t) \in Hashes /\ batches \in Nat
  BY AtRowType DEF TypeOK
<1>2. ASSUME NEW txn \in Txn
      PROVE  CarryInto(txn, Row(t), RowHash(t), batches) \in Txn
  BY <1>1 DEF CarryInto, Txn, FileRow
<1>3. IsTable(txns, Txn, Ids)
  BY DEF TypeOK
<1>4. CASE MayCarry(i)
  <2>1. i \in DOMAIN txns /\ txns[i] \in Txn
    BY <1>3, <1>4 DEF MayCarry, IsTable
  <2>2. txns' = [txns EXCEPT ![i] = CarryInto(txns[i], Row(t), RowHash(t), batches)]
    BY <1>4 DEF Carry
  <2>3. IsTable(txns', Txn, Ids)
    BY <1>2, <1>3, <2>1, <2>2, RewriteTable
  <2>4. QED
    BY <2>3 DEF CarriedNow
<1>5. CASE ~ MayCarry(i)
  BY <1>3, <1>5 DEF Carry, CarriedNow
<1>6. QED
  BY <1>4, <1>5

LEMMA RowTypes ==
  ASSUME NEW t \in Threads, TypeOK, AtWork, ProcessRow(t)
  PROVE  TypeOK'
<1>1. CASE RowUnreadable(t)
  BY <1>1, AtRowType, NextRowType DEF RowUnreadable, TypeOK
<1>2. CASE RowImportedBefore(t)
  BY <1>2, AtRowType, NextRowType DEF RowImportedBefore, TypeOK
<1>3. CASE RowSameKey(t)
  <2>1. AtRow(t) /\ IsSession(Seen(t))
    BY <1>3, AtRowType DEF RowSameKey, Fresh
  <2>2. CASE KeyTwins(t) = {} /\ NextRow(t, Seen(t)) /\ UNCHANGED txns
    BY <1>3, <2>1, <2>2, NextRowType DEF RowSameKey, TypeOK
  <2>3. ASSUME NEW i \in Ids, Carry(t, i),
               NextRow(t, [Seen(t) EXCEPT !.keyPopped = @ \cup {i},
                                          !.carried = @ \cup CarriedNow(i)])
        PROVE  TypeOK'
    <3>1. IsTable(txns', Txn, Ids) /\ CarriedNow(i) \subseteq Ids
      BY <2>1, <2>3, CarryType
    <3>2. IsSession([Seen(t) EXCEPT !.keyPopped = @ \cup {i},
                                    !.carried = @ \cup CarriedNow(i)])
      BY <2>1, <3>1 DEF IsSession, Idle
    <3>3. QED
      BY <1>3, <2>3, <3>1, <3>2, NextRowType DEF RowSameKey, TypeOK
  <2>4. QED
    BY <1>3, <2>2, <2>3 DEF RowSameKey
<1>4. CASE RowSameWording(t)
  <2>1. AtRow(t) /\ IsSession(Seen(t))
    BY <1>4, AtRowType DEF RowSameWording, Fresh
  <2>2. CASE DayTwins(t) = {} /\ NextRow(t, Seen(t)) /\ UNCHANGED txns
    BY <1>4, <2>1, <2>2, NextRowType DEF RowSameWording, TypeOK
  <2>3. ASSUME NEW i \in Ids, Carry(t, i),
               NextRow(t, [Seen(t) EXCEPT !.dayPopped = @ \cup {i},
                                          !.carried = @ \cup CarriedNow(i)])
        PROVE  TypeOK'
    <3>1. IsTable(txns', Txn, Ids) /\ CarriedNow(i) \subseteq Ids
      BY <2>1, <2>3, CarryType
    <3>2. IsSession([Seen(t) EXCEPT !.dayPopped = @ \cup {i},
                                    !.carried = @ \cup CarriedNow(i)])
      BY <2>1, <3>1 DEF IsSession, Idle
    <3>3. QED
      BY <1>4, <2>3, <3>1, <3>2, NextRowType DEF RowSameWording, TypeOK
  <2>4. QED
    BY <1>4, <2>2, <2>3 DEF RowSameWording
<1>5. CASE RowRemoved(t)
  <2>1. AtRow(t)
    BY <1>5 DEF RowRemoved, Unknown, Fresh
  <2>2. QED
    BY <1>5, <2>1, AtRowType, NextRowType DEF RowRemoved, TypeOK
<1>6. CASE RowExpected(t)
  <2>1. AtRow(t) /\ IsSession(Seen(t)) /\ Row(t) \in FileRow /\ RowHash(t) \in Hashes
    BY <1>6, AtRowType DEF RowExpected, Unknown, Fresh
  <2>2. PICK i \in Expectations(t) :
          /\ txns' = [txns EXCEPT ![i] =
                       [@ EXCEPT !.date = Row(t).date, !.balance = Row(t).balance,
                                 !.raw = "bank", !.hash = RowHash(t),
                                 !.batch = batches]]
          /\ NextRow(t, [Seen(t) EXCEPT !.used = @ \cup {i},
                                       !.rekeyed = @ \cup {Key(Row(t))}])
    BY <1>6 DEF RowExpected
  <2>3. i \in Ids
    BY <2>1, AtRowType DEF Expectations, TypeOK, IsSession, IsTable
  <2>4. IsTable(txns', Txn, Ids)
    <3> DEFINE new == [txns[i] EXCEPT !.date = Row(t).date, !.balance = Row(t).balance,
                                      !.raw = "bank", !.hash = RowHash(t),
                                      !.batch = batches]
    <3>1. IsTable(txns, Txn, Ids) /\ batches \in Nat
      BY DEF TypeOK
    <3>2. i \in DOMAIN txns => new \in Txn
      BY <2>1, <3>1 DEF IsTable, Txn, FileRow
    <3>3. txns' = [txns EXCEPT ![i] = new]
      BY <2>2
    <3> HIDE DEF new
    <3>4. QED
      BY <3>1, <3>2, <3>3, RewriteTable
  <2>5. IsSession([Seen(t) EXCEPT !.used = @ \cup {i},
                                  !.rekeyed = @ \cup {Key(Row(t))}])
    <3>1. Key(Row(t)) \in Nat \X STRING \X Int
      BY <2>1 DEF Key, FileRow
    <3>2. QED
      BY <2>1, <2>3, <3>1 DEF IsSession, Idle
  <2>6. QED
    BY <1>6, <2>2, <2>4, <2>5, NextRowType DEF RowExpected, TypeOK
<1>7. CASE RowNew(t)
  <2>1. AtRow(t) /\ IsSession(Seen(t)) /\ Row(t) \in FileRow /\ RowHash(t) \in Hashes
    BY <1>7, AtRowType DEF RowNew, Unknown, Fresh
  <2> DEFINE row == [date |-> Row(t).date, desc |-> Row(t).desc,
                     amount |-> Row(t).amount, balance |-> Row(t).balance,
                     batch |-> batches, raw |-> "bank", hash |-> RowHash(t)]
  <2>2. PICK i \in Ids : /\ txns' = Insert(txns, i, row)
                         /\ NextRow(t, [Seen(t) EXCEPT !.created = @ \cup {i}])
    BY <1>7 DEF RowNew
  <2>3. row \in Txn
    BY <2>1 DEF Txn, FileRow, TypeOK
  <2>4. IsTable(txns', Txn, Ids)
    BY <2>2, <2>3, InsertTable DEF TypeOK
  <2>5. IsSession([Seen(t) EXCEPT !.created = @ \cup {i}])
    BY <2>1 DEF IsSession, Idle
  <2>6. QED
    BY <1>7, <2>2, <2>4, <2>5, NextRowType DEF RowNew, TypeOK
<1>8. QED
  BY <1>1, <1>2, <1>3, <1>4, <1>5, <1>6, <1>7 DEF ProcessRow

\* What every row step does to the fingerprints: at most one row takes one,
\* that of the line at hand, which no row of the ledger had.
OneHashTaken(t) ==
  \E k :
    /\ \A i \in DOMAIN txns' \ {k} :
         i \in DOMAIN txns /\ txns'[i].hash = txns[i].hash
    /\ k \in DOMAIN txns' =>
         \/ k \in DOMAIN txns /\ txns'[k].hash = txns[k].hash
         \/ /\ txns'[k].hash \notin sess[t].hashes
            /\ txns'[k].hash \in sess'[t].hashes

\* What every row step does to the request: the next row of the same file,
\* with no fingerprint forgotten, under the same lock.
OnToNextRow(t) ==
  /\ pc[t] = "rows" /\ UNCHANGED <<lock, rollback, pc>>
  /\ \A u \in Threads \ {t} : sess'[u] = sess[u]
  /\ sess'[t].file = sess[t].file /\ sess'[t].pos = sess[t].pos + 1
  /\ sess[t].hashes \subseteq sess'[t].hashes

LEMMA NextRowEffect ==
  ASSUME NEW t \in Threads, TypeOK, NEW s, NextRow(t, s), IsSession(s),
         s.file = sess[t].file, s.pos = sess[t].pos,
         sess[t].hashes \subseteq s.hashes
  PROVE  /\ \A u \in Threads \ {t} : sess'[u] = sess[u]
         /\ sess'[t].file = sess[t].file /\ sess'[t].pos = sess[t].pos + 1
         /\ sess[t].hashes \subseteq sess'[t].hashes
         /\ sess'[t].hashes = s.hashes
BY DEF NextRow, TypeOK, IsSession, Idle

LEMMA CarryEffect ==
  ASSUME NEW t \in Threads, TypeOK, AtWork, Fresh(t), NEW i \in Ids, Carry(t, i),
         RowHash(t) \in sess'[t].hashes
  PROVE  OneHashTaken(t)
<1>1. RowHash(t) \notin sess[t].hashes
  BY DEF Fresh, HashKnown
<1>2. IsTable(txns, Txn, Ids)
  BY DEF TypeOK
<1>3. CASE MayCarry(i)
  <2>1. i \in DOMAIN txns /\ txns[i] \in Txn
    BY <1>2, <1>3 DEF MayCarry, IsTable
  <2>2. txns' = [txns EXCEPT ![i] = CarryInto(txns[i], Row(t), RowHash(t), batches)]
    BY <1>3 DEF Carry
  <2>3. CarryInto(txns[i], Row(t), RowHash(t), batches).hash \in {txns[i].hash, RowHash(t)}
    BY <2>1 DEF CarryInto, Txn
  <2>4. QED
    BY <1>1, <2>1, <2>2, <2>3 DEF OneHashTaken
<1>4. CASE ~ MayCarry(i)
  BY <1>4 DEF Carry, OneHashTaken
<1>5. QED
  BY <1>3, <1>4

LEMMA RowEffect ==
  ASSUME NEW t \in Threads, TypeOK, AtWork, ProcessRow(t)
  PROVE  OnToNextRow(t) /\ OneHashTaken(t)
<1>0. ASSUME AtRow(t)
      PROVE  /\ IsSession(Seen(t)) /\ RowHash(t) \in Seen(t).hashes
             /\ sess[t].hashes \subseteq Seen(t).hashes
             /\ Seen(t).file = sess[t].file /\ Seen(t).pos = sess[t].pos
             /\ DOMAIN Seen(t) = DOMAIN Idle /\ pc[t] = "rows"
  BY <1>0, AtRowType DEF Seen, IsSession, Idle, AtRow
<1>1. CASE RowUnreadable(t)
  BY <1>1, AtRowType, NextRowEffect DEF RowUnreadable, OnToNextRow, OneHashTaken, AtRow
<1>2. CASE RowImportedBefore(t)
  BY <1>2, AtRowType, NextRowEffect
  DEF RowImportedBefore, OnToNextRow, OneHashTaken, AtRow
<1>3. CASE RowSameKey(t)
  <2>1. Fresh(t) /\ AtRow(t) /\ UNCHANGED <<lock, rollback, pc>>
    BY <1>3 DEF RowSameKey, Fresh
  <2>2. CASE NextRow(t, Seen(t)) /\ UNCHANGED txns
    BY <1>0, <2>1, <2>2, NextRowEffect DEF OnToNextRow, OneHashTaken
  <2>3. ASSUME NEW i \in Ids, Carry(t, i),
               NextRow(t, [Seen(t) EXCEPT !.keyPopped = @ \cup {i},
                                          !.carried = @ \cup CarriedNow(i)])
        PROVE  OnToNextRow(t) /\ OneHashTaken(t)
    <3> DEFINE s == [Seen(t) EXCEPT !.keyPopped = @ \cup {i},
                                    !.carried = @ \cup CarriedNow(i)]
    <3>1. CarriedNow(i) \subseteq Ids
      BY <2>1, <2>3, CarryType
    <3>2. IsSession(s) /\ s.file = sess[t].file /\ s.pos = sess[t].pos
          /\ s.hashes = Seen(t).hashes
      BY <1>0, <2>1, <3>1 DEF IsSession, Idle
    <3>3. NextRow(t, s)
      BY <2>3
    <3> HIDE DEF s
    <3>4. OnToNextRow(t) /\ RowHash(t) \in sess'[t].hashes
      BY <1>0, <2>1, <3>2, <3>3, NextRowEffect DEF OnToNextRow
    <3>5. QED
      BY <2>1, <2>3, <3>4, CarryEffect
  <2>4. QED
    BY <1>3, <2>2, <2>3 DEF RowSameKey
<1>4. CASE RowSameWording(t)
  <2>1. Fresh(t) /\ AtRow(t) /\ UNCHANGED <<lock, rollback, pc>>
    BY <1>4 DEF RowSameWording, Fresh
  <2>2. CASE NextRow(t, Seen(t)) /\ UNCHANGED txns
    BY <1>0, <2>1, <2>2, NextRowEffect DEF OnToNextRow, OneHashTaken
  <2>3. ASSUME NEW i \in Ids, Carry(t, i),
               NextRow(t, [Seen(t) EXCEPT !.dayPopped = @ \cup {i},
                                          !.carried = @ \cup CarriedNow(i)])
        PROVE  OnToNextRow(t) /\ OneHashTaken(t)
    <3> DEFINE s == [Seen(t) EXCEPT !.dayPopped = @ \cup {i},
                                    !.carried = @ \cup CarriedNow(i)]
    <3>1. CarriedNow(i) \subseteq Ids
      BY <2>1, <2>3, CarryType
    <3>2. IsSession(s) /\ s.file = sess[t].file /\ s.pos = sess[t].pos
          /\ s.hashes = Seen(t).hashes
      BY <1>0, <2>1, <3>1 DEF IsSession, Idle
    <3>3. NextRow(t, s)
      BY <2>3
    <3> HIDE DEF s
    <3>4. OnToNextRow(t) /\ RowHash(t) \in sess'[t].hashes
      BY <1>0, <2>1, <3>2, <3>3, NextRowEffect DEF OnToNextRow
    <3>5. QED
      BY <2>1, <2>3, <3>4, CarryEffect
  <2>4. QED
    BY <1>4, <2>2, <2>3 DEF RowSameWording
<1>5. CASE RowRemoved(t)
  <2>1. AtRow(t)
    BY <1>5 DEF RowRemoved, Unknown, Fresh
  <2>2. QED
    BY <1>0, <1>5, <2>1, NextRowEffect DEF RowRemoved, OnToNextRow, OneHashTaken
<1>6. CASE RowExpected(t)
  <2>1. AtRow(t) /\ RowHash(t) \notin sess[t].hashes /\ Row(t) \in FileRow
    BY <1>6, AtRowType DEF RowExpected, Unknown, Fresh, HashKnown
  <2>2. PICK i \in Expectations(t) :
          /\ txns' = [txns EXCEPT ![i] =
                       [@ EXCEPT !.date = Row(t).date, !.balance = Row(t).balance,
                                 !.raw = "bank", !.hash = RowHash(t),
                                 !.batch = batches]]
          /\ NextRow(t, [Seen(t) EXCEPT !.used = @ \cup {i},
                                       !.rekeyed = @ \cup {Key(Row(t))}])
    BY <1>6 DEF RowExpected
  <2> DEFINE s == [Seen(t) EXCEPT !.used = @ \cup {i},
                                  !.rekeyed = @ \cup {Key(Row(t))}]
  <2>3. IsSession(s) /\ s.file = sess[t].file /\ s.pos = sess[t].pos
        /\ s.hashes = Seen(t).hashes
    <3>1. Key(Row(t)) \in Nat \X STRING \X Int
      BY <2>1 DEF Key, FileRow
    <3>2. i \in Ids
      BY <2>1, AtRowType DEF Expectations, TypeOK, IsSession, IsTable
    <3>3. QED
      BY <1>0, <2>1, <3>1, <3>2 DEF IsSession, Idle
  <2>4. NextRow(t, s)
    BY <2>2
  <2> HIDE DEF s
  <2>5. OnToNextRow(t) /\ RowHash(t) \in sess'[t].hashes
    BY <1>0, <1>6, <2>1, <2>3, <2>4, NextRowEffect DEF OnToNextRow, RowExpected
  <2>6. i \in DOMAIN txns => txns[i] \in Txn
    BY DEF TypeOK, IsTable
  <2>7. i \in DOMAIN txns => txns'[i].hash = RowHash(t)
    BY <2>2, <2>6 DEF Txn
  <2>8. QED
    BY <2>1, <2>2, <2>5, <2>7 DEF OneHashTaken
<1>7. CASE RowNew(t)
  <2>1. AtRow(t) /\ RowHash(t) \notin sess[t].hashes
    BY <1>7 DEF RowNew, Unknown, Fresh, HashKnown
  <2>2. PICK i \in Ids :
          /\ txns' = Insert(txns, i,
                       [date |-> Row(t).date, desc |-> Row(t).desc,
                        amount |-> Row(t).amount, balance |-> Row(t).balance,
                        batch |-> batches, raw |-> "bank", hash |-> RowHash(t)])
          /\ NextRow(t, [Seen(t) EXCEPT !.created = @ \cup {i}])
    BY <1>7 DEF RowNew
  <2> DEFINE s == [Seen(t) EXCEPT !.created = @ \cup {i}]
  <2>3. IsSession(s) /\ s.file = sess[t].file /\ s.pos = sess[t].pos
        /\ s.hashes = Seen(t).hashes
    BY <1>0, <2>1 DEF IsSession, Idle
  <2>4. NextRow(t, s)
    BY <2>2
  <2> HIDE DEF s
  <2>5. OnToNextRow(t) /\ RowHash(t) \in sess'[t].hashes
    BY <1>0, <1>7, <2>1, <2>3, <2>4, NextRowEffect DEF OnToNextRow, RowNew
  <2>6. txns'[i].hash = RowHash(t)
    BY <2>2 DEF Insert
  <2>7. \A j \in DOMAIN txns' \ {i} : j \in DOMAIN txns /\ txns'[j] = txns[j]
    BY <2>2 DEF Insert
  <2>8. QED
    BY <2>1, <2>5, <2>6, <2>7 DEF OneHashTaken
<1>8. QED
  BY <1>1, <1>2, <1>3, <1>4, <1>5, <1>6, <1>7 DEF ProcessRow

\* A row step keeps the invariant.
LEMMA RowInductive ==
  ASSUME NEW t \in Threads, IInv, ProcessRow(t)
  PROVE  IInv'
<1>1. TypeOK /\ AtWork /\ OneWriter /\ AllSeen
  BY DEF IInv, HashInv
<1>2. TypeOK'
  BY <1>1, RowTypes
<1>3. OnToNextRow(t) /\ OneHashTaken(t)
  BY <1>1, RowEffect
<1>4. \A u \in Threads \ {t} : pc[u] \notin {"load", "rows"}
  BY <1>1, <1>3, ThreadAssumption DEF OneWriter, OnToNextRow
<1>5. AtWork'
  BY <1>1, <1>3 DEF AtWork, OnToNextRow, TypeOK, IsSession
<1>6. OneWriter'
  BY <1>1, <1>3 DEF OneWriter, OnToNextRow
<1>7. AllSeen'
  BY <1>1, <1>3, <1>4 DEF AllSeen, OnToNextRow, OneHashTaken
<1>8. UniqueHashes(txns)'
  BY <1>1, <1>3 DEF IInv, HashInv, UniqueHashes, AllSeen, OnToNextRow, OneHashTaken
<1>9. UniqueHashes(rollback.txns)'
  BY <1>3 DEF IInv, HashInv, UniqueHashes, OnToNextRow
<1>10. QED
  BY <1>2, <1>5, <1>6, <1>7, <1>8, <1>9 DEF IInv, HashInv

\* The other steps of an import keep the invariant.
LEMMA ImportInductive ==
  ASSUME NEW t \in Threads, IInv, Import(t)
  PROVE  IInv'
<1>1. TypeOK /\ AtWork /\ OneWriter /\ AllSeen /\ UniqueHashes(txns)
      /\ UniqueHashes(rollback.txns)
  BY DEF IInv, HashInv
<1>2. ASSUME NEW f \in Files, StartImport(t, f)
      PROVE  IInv'
  <2>1. TypeOK'
    BY <1>1, <1>2 DEF StartImport, TypeOK, IsSession, Idle
  <2>2. AtWork'
    BY <1>1, <1>2 DEF StartImport, AtWork, TypeOK, IsSession, Idle
  <2>3. OneWriter'
    BY <1>1, <1>2, ThreadAssumption DEF StartImport, OneWriter, WriteLockFree, TypeOK
  <2>4. AllSeen' /\ UniqueHashes(txns)' /\ UniqueHashes(rollback.txns)'
    BY <1>1, <1>2, ThreadAssumption
    DEF StartImport, AllSeen, UniqueHashes, OneWriter, WriteLockFree, TypeOK
  <2>5. QED
    BY <2>1, <2>2, <2>3, <2>4 DEF IInv, HashInv
<1>3. CASE LoadExisting(t)
  <2> DEFINE s == [sess[t] EXCEPT !.base = txns,
                                  !.gone = {tombs[k] : k \in DOMAIN tombs},
                                  !.hashes = {txns[i].hash : i \in DOMAIN txns},
                                  !.pos = 1]
  <2>1. sess' = [sess EXCEPT ![t] = s]
    BY <1>1, <1>3 DEF LoadExisting, TypeOK
  <2>2. IsSession(s)
    <3>1. {tombs[k] : k \in DOMAIN tombs} \subseteq Tomb
      BY <1>1 DEF TypeOK, IsTable
    <3>2. {txns[i].hash : i \in DOMAIN txns} \subseteq Hashes
      BY <1>1 DEF TypeOK, IsTable, Txn
    <3>3. IsSession(sess[t]) /\ IsTable(txns, Txn, Ids)
      BY <1>1 DEF TypeOK
    <3>4. QED
      BY <3>1, <3>2, <3>3 DEF IsSession, Idle
  <2>3. /\ s.file = sess[t].file /\ s.pos = 1 /\ s.copy = sess[t].copy
        /\ s.hashes = {txns[i].hash : i \in DOMAIN txns}
    BY <1>1 DEF TypeOK, IsSession, Idle
  <2> HIDE DEF s
  <2>4. TypeOK'
    BY <1>1, <1>3, <2>1, <2>2 DEF LoadExisting, TypeOK
  <2> DEFINE Moved == /\ pc[t] = "load" /\ pc'[t] = "rows" /\ sess'[t] = s
                      /\ \A u \in Threads \ {t} : pc'[u] = pc[u] /\ sess'[u] = sess[u]
                      /\ txns' = txns
  <2>m. Moved
    BY <1>1, <1>3, <2>1 DEF LoadExisting, TypeOK
  <2>5. AtWork'
    <3>1. sess'[t].file \in Files /\ sess'[t].pos > 0
      BY <1>1, <2>3, <2>m DEF AtWork
    <3>2. QED
      BY <1>1, <2>m, <3>1 DEF AtWork
  <2>6. OneWriter'
    BY <1>1, <1>3 DEF LoadExisting, OneWriter, TypeOK
  <2>7. AllSeen'
    <3>1. \A i \in DOMAIN txns' : txns'[i].hash \in sess'[t].hashes
      BY <2>3, <2>m
    <3>2. QED
      BY <1>1, <2>m, <3>1 DEF AllSeen
  <2>8. UniqueHashes(txns)' /\ UniqueHashes(rollback.txns)'
    BY <1>1, <1>3 DEF LoadExisting, UniqueHashes
  <2>9. QED
    BY <2>4, <2>5, <2>6, <2>7, <2>8 DEF IInv, HashInv
<1>4. CASE CommitImport(t)
  <2> DEFINE s == [Idle EXCEPT !.created = sess[t].created]
  <2>1. IsSession(s)
    BY <1>1, IdleSession DEF TypeOK, IsSession, Idle
  <2>2. TypeOK'
    <3>1. sess[t].file \in Files
      BY <1>1, <1>4 DEF CommitImport, AtWork
    <3>2. QED
      BY <1>1, <1>4, <2>1, <3>1 DEF CommitImport, TypeOK
  <2>3. AtWork'
    BY <1>1, <1>4 DEF CommitImport, AtWork, TypeOK
  <2>4. OneWriter'
    BY <1>1, <1>4, ThreadAssumption DEF CommitImport, OneWriter, TypeOK
  <2>5. AllSeen' /\ UniqueHashes(txns)' /\ UniqueHashes(rollback.txns)'
    BY <1>1, <1>4 DEF CommitImport, AllSeen, UniqueHashes, TypeOK
  <2>6. QED
    BY <2>2, <2>3, <2>4, <2>5 DEF IInv, HashInv
<1>5. CASE AfterImport(t)
  <2>1. TypeOK'
    BY <1>1, <1>5, IdleSession DEF AfterImport, TypeOK, IsSession
  <2>2. AtWork'
    BY <1>1, <1>5 DEF AfterImport, AtWork, TypeOK
  <2>3. OneWriter'
    BY <1>1, <1>5, ThreadAssumption DEF AfterImport, OneWriter, TypeOK
  <2>4. AllSeen' /\ UniqueHashes(txns)' /\ UniqueHashes(rollback.txns)'
    BY <1>1, <1>5 DEF AfterImport, AllSeen, UniqueHashes, TypeOK
  <2>5. QED
    BY <2>1, <2>2, <2>3, <2>4 DEF IInv, HashInv
<1>6. CASE AbortImport(t)
  <2>1. TypeOK'
    BY <1>1, <1>6, IdleSession DEF AbortImport, TypeOK
  <2>2. AtWork'
    BY <1>1, <1>6 DEF AbortImport, AtWork, TypeOK
  <2>3. OneWriter'
    BY <1>1, <1>6, ThreadAssumption DEF AbortImport, OneWriter, TypeOK
  <2>4. AllSeen'
    BY <1>1, <1>6, <2>3, ThreadAssumption DEF AbortImport, AllSeen, OneWriter, TypeOK
  <2>5. UniqueHashes(txns)' /\ UniqueHashes(rollback.txns)'
    BY <1>1, <1>6 DEF AbortImport, UniqueHashes
  <2>6. QED
    BY <2>1, <2>2, <2>3, <2>4, <2>5 DEF IInv, HashInv
<1>7. QED
  BY <1>2, <1>3, <1>4, <1>5, <1>6, RowInductive DEF Import

\* Entering and rewording a row happen while no import holds the lock.
LEMMA UserInductive ==
  ASSUME IInv,
         \/ \E e \in Entries : Enter(e)
         \/ \E i \in Ids, d \in Rewordings : Reword(i, d)
  PROVE  IInv'
<1>1. /\ TypeOK /\ AtWork /\ OneWriter /\ AllSeen /\ UniqueHashes(txns)
      /\ UniqueHashes(rollback.txns)
  BY DEF IInv, HashInv
<1>2. ASSUME UNCHANGED <<lock, rollback, pc, sess>>, WriteLockFree,
             TypeOK', UniqueHashes(txns)'
      PROVE  IInv'
  <2>1. OneWriter' /\ AtWork'
    BY <1>1, <1>2 DEF OneWriter, AtWork
  <2>2. AllSeen'
    BY <1>1, <1>2, ThreadAssumption DEF AllSeen, OneWriter, WriteLockFree
  <2>3. UniqueHashes(rollback.txns)'
    BY <1>1, <1>2 DEF UniqueHashes
  <2>4. QED
    BY <1>2, <2>1, <2>2, <2>3 DEF IInv, HashInv
<1>3. ASSUME NEW e \in Entries, Enter(e)
      PROVE  IInv'
  <2> DEFINE row == [date |-> e.date, desc |-> e.desc, amount |-> e.amount,
                     balance |-> None, batch |-> None, raw |-> e.raw,
                     hash |-> NoHash]
  <2>1. row \in Txn
    <3>1. e \in [date : Nat, desc : STRING, amount : Int, raw : {"none", "scheduled"}]
      BY WordAssumption
    <3>2. QED
      BY <3>1 DEF Txn, None, Hashes
  <2>2. PICK i \in Ids : IsNextId(txns, i) /\ txns' = Insert(txns, i, row)
    BY <1>3 DEF Enter
  <2>3. TypeOK'
    BY <1>1, <1>3, <2>1, <2>2, InsertTable DEF Enter, TypeOK
  <2>4. UniqueHashes(txns)'
    BY <1>1, <2>2 DEF UniqueHashes, Insert
  <2>5. QED
    BY <1>2, <1>3, <2>3, <2>4 DEF Enter
<1>4. ASSUME NEW i \in Ids, NEW d \in Rewordings, Reword(i, d)
      PROVE  IInv'
  <2>1. i \in DOMAIN txns /\ txns[i] \in Txn /\ d \in STRING
    BY <1>1, <1>4, WordAssumption DEF Reword, TypeOK, IsTable
  <2> DEFINE row == [txns[i] EXCEPT !.desc = d]
  <2>2. row \in Txn /\ row.hash = txns[i].hash
    BY <2>1 DEF Txn
  <2>3. txns' = [txns EXCEPT ![i] = row]
    BY <1>4 DEF Reword
  <2> HIDE DEF row
  <2>4. TypeOK'
    <3>1. IsTable(txns, Txn, Ids)
      BY <1>1 DEF TypeOK
    <3>2. IsTable(txns', Txn, Ids)
      BY <2>2, <2>3, <3>1, RewriteTable
    <3>3. QED
      BY <1>1, <1>4, <3>2 DEF Reword, TypeOK
  <2>5. UniqueHashes(txns)'
    BY <1>1, <2>2, <2>3 DEF UniqueHashes
  <2>6. QED
    BY <1>2, <1>4, <2>4, <2>5 DEF Reword
<1>5. QED
  BY <1>3, <1>4

\* Deleting and recovering a row keep the invariant, whatever happened
\* between the reading and the writing half.
LEMMA EditorInductive ==
  ASSUME NEW t \in Threads, IInv, UserChange(t)
  PROVE  IInv'
<1>1. /\ TypeOK /\ AtWork /\ OneWriter /\ AllSeen /\ UniqueHashes(txns)
      /\ UniqueHashes(rollback.txns)
  BY DEF IInv, HashInv
<1>2. IsTable(Committed, Txn, Ids)
  BY <1>1 DEF TypeOK, Committed
<1>3. ASSUME NEW s, NEW p \in {"idle", "delete", "recover"}, IsSession(s),
             p = "delete" => s.copy \subseteq Txn /\ s.target \in Ids,
             p = "recover" => s.copy \subseteq Tomb,
             pc[t] \notin {"load", "rows"},
             pc' = [pc EXCEPT ![t] = p], sess' = [sess EXCEPT ![t] = s],
             UNCHANGED <<lock, rollback, batches, settled>>,
             txns' = txns \/ WriteLockFree,
             IsTable(txns', Txn, Ids), IsTable(tombs', Tomb, 1 .. MaxTombs),
             splits' \subseteq Ids, UniqueHashes(txns)'
      PROVE  IInv'
  <2>1. TypeOK'
    BY <1>1, <1>3 DEF TypeOK
  <2>2. AtWork'
    <3>1. /\ pc'[t] = p /\ sess'[t] = s /\ p \notin {"load", "rows"}
          /\ \A u \in Threads \ {t} : pc'[u] = pc[u] /\ sess'[u] = sess[u]
      BY <1>1, <1>3 DEF TypeOK
    <3>2. QED
      BY <1>1, <1>3, <3>1 DEF AtWork
  <2>3. OneWriter'
    BY <1>1, <1>3 DEF OneWriter, TypeOK
  <2>4. AllSeen'
    BY <1>1, <1>3, ThreadAssumption DEF AllSeen, OneWriter, WriteLockFree, TypeOK
  <2>5. UniqueHashes(rollback.txns)'
    BY <1>1, <1>3 DEF UniqueHashes
  <2>6. QED
    BY <1>3, <2>1, <2>2, <2>3, <2>4, <2>5 DEF IInv, HashInv
<1>4. IsSession(sess[t])
  BY <1>1 DEF TypeOK
<1>5. ASSUME NEW i \in Ids, ReadForDelete(t, i)
      PROVE  IInv'
  <2> DEFINE s == [sess[t] EXCEPT !.target = i, !.copy = {Committed[i]}]
  <2>1. IsSession(s) /\ s.copy \subseteq Txn /\ s.target \in Ids
    <3>1. Committed[i] \in Txn /\ i \in Nat
      BY <1>2, <1>5, BoundAssumption DEF ReadForDelete, IsTable, Ids
    <3>2. QED
      BY <1>4, <3>1 DEF IsSession, Idle
  <2>2. sess' = [sess EXCEPT ![t] = s]
    BY <1>1, <1>5 DEF ReadForDelete, TypeOK
  <2> HIDE DEF s
  <2>3. QED
    BY <1>1, <1>3, <1>5, <2>1, <2>2 DEF ReadForDelete, TypeOK, UniqueHashes
<1>6. ASSUME NEW k \in 1 .. MaxTombs, ReadForRecover(t, k)
      PROVE  IInv'
  <2> DEFINE s == [sess[t] EXCEPT !.target = k, !.copy = {tombs[k]}]
  <2>1. IsSession(s) /\ s.copy \subseteq Tomb
    <3>1. tombs[k] \in Tomb /\ k \in Nat
      BY <1>1, <1>6, BoundAssumption DEF ReadForRecover, IsTable, TypeOK
    <3>2. QED
      BY <1>4, <3>1 DEF IsSession, Idle
  <2>2. sess' = [sess EXCEPT ![t] = s]
    BY <1>1, <1>6 DEF ReadForRecover, TypeOK
  <2> HIDE DEF s
  <2>3. QED
    BY <1>1, <1>3, <1>6, <2>1, <2>2 DEF ReadForRecover, TypeOK, UniqueHashes
<1>7. CASE Delete(t)
  <2>1. PICK k \in 1 .. MaxTombs, c \in sess[t].copy :
          tombs' = Insert(tombs, k,
                    [original_id |-> sess[t].target, date |-> c.date,
                     desc |-> c.desc, amount |-> c.amount,
                     balance |-> c.balance, batch |-> c.batch,
                     lost |-> c.hash])
    BY <1>7 DEF Delete
  <2>2. c \in Txn /\ sess[t].target \in Ids
    BY <1>1, <1>7, <2>1 DEF Delete, AtWork
  <2>3. IsTable(tombs', Tomb, 1 .. MaxTombs)
    <3>1. [original_id |-> sess[t].target, date |-> c.date, desc |-> c.desc,
           amount |-> c.amount, balance |-> c.balance, batch |-> c.batch,
           lost |-> c.hash] \in Tomb
      BY <2>2 DEF Txn, Tomb
    <3>2. QED
      BY <1>1, <2>1, <3>1, InsertTable DEF TypeOK
  <2>4. IsTable(txns', Txn, Ids) /\ splits' \subseteq Ids
    BY <1>1, <1>7, WithoutTable DEF Delete, TypeOK
  <2>5. UniqueHashes(txns)'
    BY <1>1, <1>7 DEF Delete, Without, UniqueHashes
  <2>6. QED
    BY <1>3, <1>7, <2>3, <2>4, <2>5, IdleSession DEF Delete
<1>8. CASE Recover(t)
  <2>1. PICK i \in Ids, c \in sess[t].copy :
          txns' = Insert(txns, i,
                   [date |-> c.date, desc |-> c.desc, amount |-> c.amount,
                    balance |-> c.balance, batch |-> c.batch,
                    raw |-> "none", hash |-> NoHash])
    BY <1>8 DEF Recover
  <2>2. c \in Tomb
    BY <1>1, <1>8, <2>1 DEF Recover, AtWork
  <2>3. IsTable(txns', Txn, Ids)
    <3>1. [date |-> c.date, desc |-> c.desc, amount |-> c.amount,
           balance |-> c.balance, batch |-> c.batch,
           raw |-> "none", hash |-> NoHash] \in Txn
      BY <2>2 DEF Txn, Tomb, Hashes
    <3>2. QED
      BY <1>1, <2>1, <3>1, InsertTable DEF TypeOK
  <2>4. IsTable(tombs', Tomb, 1 .. MaxTombs) /\ splits' \subseteq Ids
    BY <1>1, <1>8, WithoutTable DEF Recover, TypeOK
  <2>5. UniqueHashes(txns)'
    BY <1>1, <2>1 DEF Insert, UniqueHashes
  <2>6. QED
    BY <1>3, <1>8, <2>3, <2>4, <2>5, IdleSession DEF Recover
<1>9. QED
  BY <1>5, <1>6, <1>7, <1>8 DEF UserChange

\* A restart goes back to an image that was sound when it was taken.
LEMMA RestartInductive ==
  ASSUME IInv, Restart
  PROVE  IInv'
<1>1. /\ TypeOK /\ AtWork /\ OneWriter /\ UniqueHashes(txns)
      /\ UniqueHashes(rollback.txns)
  BY DEF IInv, HashInv
<1>2. TypeOK'
  BY <1>1, IdleSession DEF Restart, TypeOK
<1>3. OneWriter' /\ AtWork' /\ AllSeen'
  BY <1>1, ThreadAssumption DEF Restart, OneWriter, AtWork, AllSeen
<1>4. UniqueHashes(txns)' /\ UniqueHashes(rollback.txns)'
  BY <1>1 DEF Restart, UniqueHashes
<1>5. QED
  BY <1>2, <1>3, <1>4 DEF IInv, HashInv

LEMMA Inductive == IInv /\ [Next]_vars => IInv'
<1> SUFFICES ASSUME IInv, [Next]_vars PROVE IInv'
  OBVIOUS
<1>1. CASE UNCHANGED vars
  BY <1>1 DEF vars, IInv, TypeOK, AtWork, HashInv, OneWriter, AllSeen, UniqueHashes
<1>2. ASSUME NEW t \in Importers, Import(t) PROVE IInv'
  BY <1>2, ImportInductive DEF Threads
<1>3. ASSUME NEW t \in Editors, UserChange(t) PROVE IInv'
  BY <1>3, EditorInductive DEF Threads
<1>4. ASSUME UserStep PROVE IInv'
  BY <1>3, <1>4, UserInductive DEF UserStep
<1>5. QED
  BY <1>1, <1>2, <1>4, RestartInductive DEF Next

LEMMA Initially == Init => IInv
<1> SUFFICES ASSUME Init PROVE IInv
  OBVIOUS
<1>1. TypeOK
  BY IdleSession DEF Init, TypeOK, IsTable
<1>2. AtWork /\ HashInv
  BY ThreadAssumption DEF Init, AtWork, HashInv, OneWriter, AllSeen, UniqueHashes
<1>3. QED
  BY <1>1, <1>2 DEF IInv

\* Every reachable state of the import ledger is well typed.
THEOREM ImportLedgerTyped == Spec => []TypeOK
<1>1. IInv => TypeOK
  BY DEF IInv
<1>2. QED
  BY Initially, Inductive, <1>1, PTL DEF Spec

\* No source line is ever on the ledger twice, for any files, any number of
\* concurrent imports, deletions, recoveries, aborts and restarts.
THEOREM NoSourceLineTwice == Spec => []SourceHashUnique
<1>1. IInv => SourceHashUnique
  BY DEF IInv, HashInv, UniqueHashes, SourceHashUnique
<1>2. QED
  BY Initially, Inductive, <1>1, PTL DEF Spec

----------------------------------------------------------------------------
(* What a row of a file comes to.  A row step ends in one of four ways; the *)
(* proofs below ask only which.                                             *)

\* The request went on to the next row; the rows and tombstones it loaded are
\* what they were, and a readable row may have left its fingerprint.
Turned(t) ==
  /\ AtRow(t) /\ pc[t] = "rows"
  /\ UNCHANGED <<tombs, splits, lock, rollback, batches, pc, settled>>
  /\ \A u \in Threads \ {t} : sess'[u] = sess[u]
  /\ sess'[t].file = sess[t].file /\ sess'[t].pos = sess[t].pos + 1
  /\ sess'[t].base = sess[t].base /\ sess'[t].gone = sess[t].gone
  /\ \/ sess'[t].hashes = sess[t].hashes
     \/ Row(t).valid /\ sess'[t].hashes = sess[t].hashes \cup {RowHash(t)}
KeepsNotes(t) ==
  /\ sess'[t].used = sess[t].used /\ sess'[t].created = sess[t].created
  /\ sess'[t].rekeyed = sess[t].rekeyed
\* Nothing happened on the ledger ...
Dropped(t) ==
  /\ KeepsNotes(t) /\ UNCHANGED txns
  /\ \/ ~ Row(t).valid \/ HashKnown(t) \/ KeyKnown(t) \/ WordingKnown(t) \/ Removed(t)
\* ... or a row that was there before took the balance ...
Repeated(t) ==
  /\ KeepsNotes(t) /\ Fresh(t)
  /\ \E i \in Ids : /\ i \in DOMAIN sess[t].base /\ SameDayAmount(sess[t].base[i], Row(t))
                    /\ Carry(t, i)
\* ... or an expectation was met ...
Reconciled(t, i) ==
  /\ i \in Expectations(t)
  /\ txns' = [txns EXCEPT ![i] =
               [@ EXCEPT !.date = Row(t).date, !.balance = Row(t).balance,
                         !.raw = "bank", !.hash = RowHash(t), !.batch = batches]]
  /\ sess'[t].used = sess[t].used \cup {i} /\ sess'[t].created = sess[t].created
\* ... or there is a new row.
Added(t, i) ==
  /\ Unknown(t) /\ ~ Removed(t) /\ Expectations(t) = {}
  /\ IsNextId(txns, i)
  /\ txns' = Insert(txns, i,
              [date |-> Row(t).date, desc |-> Row(t).desc,
               amount |-> Row(t).amount, balance |-> Row(t).balance,
               batch |-> batches, raw |-> "bank", hash |-> RowHash(t)])
  /\ sess'[t].used = sess[t].used /\ sess'[t].rekeyed = sess[t].rekeyed
  /\ sess'[t].created = sess[t].created \cup {i}

LEMMA NextRowFields ==
  ASSUME NEW t \in Threads, TypeOK, NEW s, IsSession(s), NextRow(t, s)
  PROVE  /\ \A u \in Threads \ {t} : sess'[u] = sess[u]
         /\ sess'[t].file = s.file /\ sess'[t].pos = s.pos + 1
         /\ sess'[t].base = s.base /\ sess'[t].gone = s.gone
         /\ sess'[t].hashes = s.hashes /\ sess'[t].rekeyed = s.rekeyed
         /\ sess'[t].used = s.used /\ sess'[t].created = s.created
BY DEF NextRow, TypeOK, IsSession, Idle

LEMMA SeenFields ==
  ASSUME NEW t \in Threads, TypeOK, AtWork, AtRow(t)
  PROVE  LET s == Seen(t) IN
         /\ IsSession(s) /\ DOMAIN s = DOMAIN Idle
         /\ s.file = sess[t].file /\ s.pos = sess[t].pos
         /\ s.base = sess[t].base /\ s.gone = sess[t].gone
         /\ s.hashes = sess[t].hashes \cup {RowHash(t)} /\ s.rekeyed = sess[t].rekeyed
         /\ s.used = sess[t].used /\ s.created = sess[t].created
<1>1. IsSession(Seen(t)) /\ IsSession(sess[t])
  BY AtRowType
<1>2. QED
  BY <1>1 DEF Seen, IsSession, Idle

LEMMA RowOutcome ==
  ASSUME NEW t \in Threads, TypeOK, AtWork, ProcessRow(t)
  PROVE  /\ Turned(t)
         /\ \/ Dropped(t) \/ Repeated(t)
            \/ \E i \in Ids : Reconciled(t, i)
            \/ \E i \in Ids : Added(t, i)
<1> DEFINE F == /\ Turned(t)
                /\ \/ Dropped(t) \/ Repeated(t)
                   \/ \E i \in Ids : Reconciled(t, i)
                   \/ \E i \in Ids : Added(t, i)
<1>0. IsSession(sess[t])
  BY DEF TypeOK
<1>1. CASE RowUnreadable(t)
  BY <1>0, <1>1, NextRowFields DEF RowUnreadable, Turned, Dropped, KeepsNotes, AtRow
<1>2. CASE RowImportedBefore(t)
  BY <1>0, <1>2, NextRowFields DEF RowImportedBefore, Turned, Dropped, KeepsNotes, AtRow
<1>3. ASSUME Fresh(t), KeyKnown(t) \/ WordingKnown(t) \/ Removed(t), NextRow(t, Seen(t)),
             UNCHANGED <<txns, tombs, splits, lock, rollback, batches, pc, settled>>
      PROVE  F
  <2>1. AtRow(t) /\ Row(t).valid
    BY <1>3 DEF Fresh
  <2>2. QED
    BY <1>3, <2>1, SeenFields, NextRowFields DEF Turned, Dropped, KeepsNotes, AtRow
<1>4. ASSUME Fresh(t), UNCHANGED <<tombs, splits, lock, rollback, batches, pc, settled>>,
             NEW i \in Ids, Carry(t, i),
             i \in DOMAIN sess[t].base, SameDayAmount(sess[t].base[i], Row(t)),
             NEW s, IsSession(s), NextRow(t, s),
             s.file = Seen(t).file, s.pos = Seen(t).pos, s.base = Seen(t).base,
             s.gone = Seen(t).gone, s.hashes = Seen(t).hashes,
             s.rekeyed = Seen(t).rekeyed, s.used = Seen(t).used,
             s.created = Seen(t).created
      PROVE  F
  <2>1. AtRow(t) /\ Row(t).valid
    BY <1>4 DEF Fresh
  <2>2. QED
    BY <1>4, <2>1, SeenFields, NextRowFields DEF Turned, Repeated, KeepsNotes, AtRow
<1>5. CASE RowSameKey(t)
  <2>1. Fresh(t) /\ AtRow(t) /\ KeyKnown(t)
        /\ UNCHANGED <<tombs, splits, lock, rollback, batches, pc, settled>>
    BY <1>5 DEF RowSameKey, Fresh
  <2>2. CASE NextRow(t, Seen(t)) /\ UNCHANGED txns
    BY <1>3, <2>1, <2>2
  <2>3. ASSUME NEW i \in Ids, IsFirst(i, KeyTwins(t)), Carry(t, i),
               NextRow(t, [Seen(t) EXCEPT !.keyPopped = @ \cup {i},
                                          !.carried = @ \cup CarriedNow(i)])
        PROVE  F
    <3> DEFINE s == [Seen(t) EXCEPT !.keyPopped = @ \cup {i},
                                    !.carried = @ \cup CarriedNow(i)]
    <3>1. IsSession(Seen(t)) /\ DOMAIN Seen(t) = DOMAIN Idle /\ CarriedNow(i) \subseteq Ids
      BY <2>1, <2>3, SeenFields, CarryType
    <3>2. /\ IsSession(s) /\ s.file = Seen(t).file /\ s.pos = Seen(t).pos
          /\ s.base = Seen(t).base /\ s.gone = Seen(t).gone /\ s.hashes = Seen(t).hashes
          /\ s.rekeyed = Seen(t).rekeyed /\ s.used = Seen(t).used
          /\ s.created = Seen(t).created
      BY <3>1 DEF IsSession, Idle
    <3>3. NextRow(t, s)
      BY <2>3
    <3> HIDE DEF s
    <3>4. i \in DOMAIN sess[t].base /\ SameDayAmount(sess[t].base[i], Row(t))
      BY <2>3 DEF IsFirst, KeyTwins, Key, SameDayAmount
    <3>5. QED
      BY <1>4, <2>1, <2>3, <3>2, <3>3, <3>4
  <2>4. QED
    BY <1>5, <2>2, <2>3 DEF RowSameKey
<1>6. CASE RowSameWording(t)
  <2>1. Fresh(t) /\ AtRow(t) /\ WordingKnown(t)
        /\ UNCHANGED <<tombs, splits, lock, rollback, batches, pc, settled>>
    BY <1>6 DEF RowSameWording, Fresh
  <2>2. CASE NextRow(t, Seen(t)) /\ UNCHANGED txns
    BY <1>3, <2>1, <2>2
  <2>3. ASSUME NEW i \in Ids, IsFirst(i, DayTwins(t)), Carry(t, i),
               NextRow(t, [Seen(t) EXCEPT !.dayPopped = @ \cup {i},
                                          !.carried = @ \cup CarriedNow(i)])
        PROVE  F
    <3> DEFINE s == [Seen(t) EXCEPT !.dayPopped = @ \cup {i},
                                    !.carried = @ \cup CarriedNow(i)]
    <3>1. IsSession(Seen(t)) /\ DOMAIN Seen(t) = DOMAIN Idle /\ CarriedNow(i) \subseteq Ids
      BY <2>1, <2>3, SeenFields, CarryType
    <3>2. /\ IsSession(s) /\ s.file = Seen(t).file /\ s.pos = Seen(t).pos
          /\ s.base = Seen(t).base /\ s.gone = Seen(t).gone /\ s.hashes = Seen(t).hashes
          /\ s.rekeyed = Seen(t).rekeyed /\ s.used = Seen(t).used
          /\ s.created = Seen(t).created
      BY <3>1 DEF IsSession, Idle
    <3>3. NextRow(t, s)
      BY <2>3
    <3> HIDE DEF s
    <3>4. i \in DOMAIN sess[t].base /\ SameDayAmount(sess[t].base[i], Row(t))
      BY <2>3 DEF IsFirst, DayTwins
    <3>5. QED
      BY <1>4, <2>1, <2>3, <3>2, <3>3, <3>4
  <2>4. QED
    BY <1>6, <2>2, <2>3 DEF RowSameWording
<1>7. CASE RowRemoved(t)
  BY <1>3, <1>7 DEF RowRemoved, Unknown
<1>8. CASE RowExpected(t)
  <2>1. AtRow(t) /\ Row(t).valid /\ Row(t) \in FileRow
    BY <1>8, AtRowType DEF RowExpected, Unknown, Fresh
  <2>2. PICK i \in Expectations(t) :
          /\ txns' = [txns EXCEPT ![i] =
                       [@ EXCEPT !.date = Row(t).date, !.balance = Row(t).balance,
                                 !.raw = "bank", !.hash = RowHash(t),
                                 !.batch = batches]]
          /\ NextRow(t, [Seen(t) EXCEPT !.used = @ \cup {i},
                                       !.rekeyed = @ \cup {Key(Row(t))}])
    BY <1>8 DEF RowExpected
  <2> DEFINE s == [Seen(t) EXCEPT !.used = @ \cup {i},
                                  !.rekeyed = @ \cup {Key(Row(t))}]
  <2>3. i \in Ids
    BY <1>0 DEF Expectations, IsSession, IsTable
  <2>4. Key(Row(t)) \in Nat \X STRING \X Int
    BY <2>1 DEF Key, FileRow
  <2>5. IsSession(Seen(t)) /\ DOMAIN Seen(t) = DOMAIN Idle
    BY <2>1, SeenFields
  <2>6. /\ IsSession(s) /\ s.file = Seen(t).file /\ s.pos = Seen(t).pos
        /\ s.base = Seen(t).base /\ s.gone = Seen(t).gone /\ s.hashes = Seen(t).hashes
        /\ s.used = Seen(t).used \cup {i} /\ s.created = Seen(t).created
    BY <2>3, <2>4, <2>5 DEF IsSession, Idle
  <2>7. NextRow(t, s)
    BY <2>2
  <2> HIDE DEF s
  <2>8. Turned(t)
    BY <1>8, <2>1, <2>6, <2>7, SeenFields, NextRowFields DEF RowExpected, Turned, AtRow
  <2>9. Reconciled(t, i)
    BY <2>1, <2>2, <2>6, <2>7, SeenFields, NextRowFields DEF Reconciled
  <2>10. QED
    BY <2>3, <2>8, <2>9
<1>9. CASE RowNew(t)
  <2>1. AtRow(t) /\ Row(t).valid
    BY <1>9 DEF RowNew, Unknown, Fresh
  <2>2. PICK i \in Ids :
          /\ IsNextId(txns, i)
          /\ txns' = Insert(txns, i,
                      [date |-> Row(t).date, desc |-> Row(t).desc,
                       amount |-> Row(t).amount, balance |-> Row(t).balance,
                       batch |-> batches, raw |-> "bank", hash |-> RowHash(t)])
          /\ NextRow(t, [Seen(t) EXCEPT !.created = @ \cup {i}])
    BY <1>9 DEF RowNew
  <2> DEFINE s == [Seen(t) EXCEPT !.created = @ \cup {i}]
  <2>3. IsSession(Seen(t)) /\ DOMAIN Seen(t) = DOMAIN Idle
    BY <2>1, SeenFields
  <2>4. /\ IsSession(s) /\ s.file = Seen(t).file /\ s.pos = Seen(t).pos
        /\ s.base = Seen(t).base /\ s.gone = Seen(t).gone /\ s.hashes = Seen(t).hashes
        /\ s.used = Seen(t).used /\ s.created = Seen(t).created \cup {i}
        /\ s.rekeyed = Seen(t).rekeyed
    BY <2>3 DEF IsSession, Idle
  <2>5. NextRow(t, s)
    BY <2>2
  <2> HIDE DEF s
  <2>6. Turned(t)
    BY <1>9, <2>1, <2>4, <2>5, SeenFields, NextRowFields DEF RowNew, Turned, AtRow
  <2>7. Added(t, i)
    BY <1>9, <2>1, <2>2, <2>4, <2>5, SeenFields, NextRowFields DEF RowNew, Added
  <2>8. QED
    BY <2>6, <2>7
<1>10. QED
  BY <1>1, <1>2, <1>5, <1>6, <1>7, <1>8, <1>9 DEF ProcessRow

----------------------------------------------------------------------------
(* No expectation is stranded.                                              *)

\* Every open expectation on the ledger was there when the import began, has
\* not been used, and still looks as it did then.
Open(r) == r.batch = None /\ r.balance = None
Waiting(t) ==
  \A p \in DOMAIN txns : Open(txns[p]) =>
    LET base == sess[t].base IN
    /\ p \in DOMAIN base /\ Open(base[p])
    /\ p \notin sess[t].used /\ p \notin sess[t].created
    /\ base[p].amount = txns[p].amount /\ base[p].date = txns[p].date
    /\ base[p].raw = txns[p].raw
ByThisImport(t) ==
  LET s == sess[t] IN
  /\ s.created \subseteq DOMAIN txns /\ s.created \cap DOMAIN s.base = {}
  /\ DOMAIN s.base \subseteq DOMAIN txns
NoneStranded(t) ==
  \A i \in sess[t].created, p \in DOMAIN txns : Open(txns[p]) =>
    \/ txns[p].amount # txns[i].amount
    \/ Gap(txns[p].date, txns[i].date) > Window(txns[p])
Expecting(t) == Waiting(t) /\ ByThisImport(t) /\ NoneStranded(t)
ExpInv ==
  \A t \in Threads :
    /\ pc[t] \in {"idle", "load"} => sess[t].created = {} /\ sess[t].used = {}
    /\ pc[t] \in {"load", "rows"} => batches > 0
    /\ pc[t] = "rows" => Expecting(t)

\* A step that opens no expectation and moves no row in time keeps it.
LEMMA ExpectingKept ==
  ASSUME NEW t \in Threads, Expecting(t),
         sess'[t].base = sess[t].base, sess'[t].used = sess[t].used,
         sess'[t].created = sess[t].created,
         DOMAIN txns' = DOMAIN txns,
         \A i \in DOMAIN txns :
           /\ txns'[i].date = txns[i].date /\ txns'[i].amount = txns[i].amount
           /\ Open(txns'[i]) => Open(txns[i]) /\ txns'[i].raw = txns[i].raw
  PROVE  Expecting(t)'
<1>1. Waiting(t)'
  BY DEF Expecting, Waiting
<1>2. ByThisImport(t)'
  BY DEF Expecting, ByThisImport
<1>3. NoneStranded(t)'
  <2> SUFFICES ASSUME NEW i \in sess[t].created, NEW p \in DOMAIN txns, Open(txns'[p])
               PROVE  \/ txns'[p].amount # txns'[i].amount
                      \/ Gap(txns'[p].date, txns'[i].date) > Window(txns'[p])
    BY DEF NoneStranded
  <2>1. i \in DOMAIN txns
    BY DEF Expecting, ByThisImport
  <2>2. Window(txns'[p]) = Window(txns[p])
    BY DEF Window
  <2>3. \/ txns[p].amount # txns[i].amount
        \/ Gap(txns[p].date, txns[i].date) > Window(txns[p])
    BY DEF Expecting, NoneStranded
  <2>4. QED
    BY <2>1, <2>2, <2>3
<1>4. QED
  BY <1>1, <1>2, <1>3 DEF Expecting

LEMMA RowExpecting ==
  ASSUME NEW t \in Threads, TypeOK, AtWork, ExpInv, ProcessRow(t)
  PROVE  Expecting(t)'
<1>1. Turned(t) /\ Expecting(t) /\ batches > 0 /\ batches \in Nat
  BY RowOutcome DEF Turned, ExpInv, TypeOK
<1>2. IsTable(txns, Txn, Ids) /\ IsTable(sess[t].base, Txn, Ids)
  BY DEF TypeOK, IsSession
<1>3. CASE Dropped(t)
  BY <1>1, <1>3, ExpectingKept DEF Dropped, KeepsNotes, Turned
<1>4. CASE Repeated(t)
  <2>1. PICK i \in Ids : Carry(t, i)
    BY <1>4 DEF Repeated
  <2>2. CASE MayCarry(i)
    <3> DEFINE row == CarryInto(txns[i], Row(t), RowHash(t), batches)
    <3>1. i \in DOMAIN txns /\ txns[i] \in Txn /\ txns' = [txns EXCEPT ![i] = row]
      BY <1>2, <2>1, <2>2 DEF Carry, MayCarry, IsTable
    <3>2. row.date = txns[i].date /\ row.amount = txns[i].amount /\ row.batch # None
      BY <1>1, <3>1 DEF CarryInto, Txn, None
    <3> HIDE DEF row
    <3>3. QED
      BY <1>1, <1>4, <3>1, <3>2, ExpectingKept DEF Repeated, KeepsNotes, Turned, Open
  <2>3. CASE ~ MayCarry(i)
    BY <1>1, <1>4, <2>1, <2>3, ExpectingKept DEF Repeated, KeepsNotes, Turned, Carry
  <2>4. QED
    BY <2>2, <2>3
<1>5. ASSUME NEW i \in Ids, Reconciled(t, i) PROVE Expecting(t)'
  <2>1. i \in DOMAIN sess[t].base /\ i \in DOMAIN txns
    BY <1>1, <1>5 DEF Reconciled, Expectations, Expecting, ByThisImport
  <2> DEFINE row == [txns[i] EXCEPT !.date = Row(t).date, !.balance = Row(t).balance,
                                    !.raw = "bank", !.hash = RowHash(t), !.batch = batches]
  <2>2. txns' = [txns EXCEPT ![i] = row]
    BY <1>5 DEF Reconciled
  <2>3. row.batch # None
    BY <1>1, <1>2, <2>1 DEF IsTable, Txn, None
  <2> HIDE DEF row
  <2>4. \A p \in DOMAIN txns' : Open(txns'[p]) => p # i
    BY <2>1, <2>2, <2>3 DEF Open
  <2>5. /\ DOMAIN txns' = DOMAIN txns
        /\ \A p \in DOMAIN txns \ {i} : txns'[p] = txns[p]
    BY <2>2
  <2>6. /\ sess'[t].used = sess[t].used \cup {i} /\ sess'[t].created = sess[t].created
        /\ sess'[t].base = sess[t].base /\ i \notin sess[t].created
    BY <1>1, <1>5, <2>1 DEF Reconciled, Turned, Expecting, ByThisImport
  <2>7. Waiting(t)'
    BY <1>1, <2>4, <2>5, <2>6 DEF Expecting, Waiting
  <2>8. ByThisImport(t)'
    BY <1>1, <2>5, <2>6 DEF Expecting, ByThisImport
  <2>9. NoneStranded(t)'
    BY <1>1, <2>4, <2>5, <2>6 DEF Expecting, NoneStranded, ByThisImport
  <2>10. QED
    BY <2>7, <2>8, <2>9 DEF Expecting
<1>6. ASSUME NEW i \in Ids, Added(t, i) PROVE Expecting(t)'
  <2>1. /\ i \notin DOMAIN txns /\ DOMAIN txns' = DOMAIN txns \cup {i}
        /\ \A p \in DOMAIN txns : txns'[p] = txns[p]
        /\ txns'[i].batch = batches /\ txns'[i].date = Row(t).date
        /\ txns'[i].amount = Row(t).amount
    BY <1>2, <1>6 DEF Added, Insert, IsNextId, IsTable, Ids
  <2>2. /\ sess'[t].used = sess[t].used /\ sess'[t].created = sess[t].created \cup {i}
        /\ sess'[t].base = sess[t].base
    BY <1>1, <1>6 DEF Added, Turned
  <2>3. \A p \in DOMAIN txns' : Open(txns'[p]) => p \in DOMAIN txns
    BY <1>1, <2>1 DEF Open, None
  <2>4. Waiting(t)'
    <3> SUFFICES ASSUME NEW p \in DOMAIN txns', Open(txns'[p])
                 PROVE  LET base == sess'[t].base IN
                        /\ p \in DOMAIN base /\ Open(base[p])
                        /\ p \notin sess'[t].used /\ p \notin sess'[t].created
                        /\ base[p].amount = txns'[p].amount
                        /\ base[p].date = txns'[p].date
                        /\ base[p].raw = txns'[p].raw
      BY DEF Waiting
    <3>1. p \in DOMAIN txns /\ Open(txns[p]) /\ p # i
      BY <2>1, <2>3
    <3>2. QED
      BY <1>1, <2>1, <2>2, <3>1 DEF Expecting, Waiting
  <2>5. ByThisImport(t)'
    BY <1>1, <2>1, <2>2 DEF Expecting, ByThisImport
  <2>6. NoneStranded(t)'
    <3> SUFFICES ASSUME NEW j \in sess'[t].created, NEW p \in DOMAIN txns',
                        Open(txns'[p])
                 PROVE  \/ txns'[p].amount # txns'[j].amount
                        \/ Gap(txns'[p].date, txns'[j].date) > Window(txns'[p])
      BY DEF NoneStranded
    <3>1. p \in DOMAIN txns /\ Open(txns[p]) /\ txns'[p] = txns[p] /\ p # i
      BY <2>1, <2>3
    <3>2. CASE j \in sess[t].created
      <4>1. j \in DOMAIN txns /\ txns'[j] = txns[j]
        BY <1>1, <2>1, <3>2 DEF Expecting, ByThisImport
      <4>2. QED
        BY <1>1, <3>1, <3>2, <4>1 DEF Expecting, NoneStranded
    <3>3. CASE j = i
      <4>1. LET base == sess[t].base IN
            /\ p \in DOMAIN base /\ Open(base[p]) /\ p \notin sess[t].used
            /\ base[p].amount = txns[p].amount /\ base[p].date = txns[p].date
            /\ base[p].raw = txns[p].raw
        BY <1>1, <3>1 DEF Expecting, Waiting
      <4>2. \/ sess[t].base[p].amount # Row(t).amount
            \/ ~ (Gap(sess[t].base[p].date, Row(t).date) <= Window(sess[t].base[p]))
        BY <1>6, <4>1 DEF Added, Expectations, Open
      <4>3. Window(sess[t].base[p]) = Window(txns[p]) /\ Window(txns[p]) \in Int
        BY <4>1 DEF Window
      <4>4. Gap(txns[p].date, Row(t).date) \in Int
        <5>1. txns[p].date \in Nat /\ Row(t).date \in Nat
          BY <1>1, <1>2, <3>1, AtRowType DEF Turned, IsTable, Txn, FileRow
        <5>2. QED
          BY <5>1 DEF Gap
      <4>5. QED
        BY <2>1, <3>1, <3>3, <4>1, <4>2, <4>3, <4>4
    <3>4. QED
      BY <2>2, <3>2, <3>3
  <2>7. QED
    BY <2>4, <2>5, <2>6 DEF Expecting
<1>7. QED
  BY <1>3, <1>4, <1>5, <1>6, RowOutcome

LEMMA ExpInductive ==
  ASSUME IInv, ExpInv, [Next]_vars
  PROVE  ExpInv'
<1>1. /\ TypeOK /\ AtWork /\ OneWriter /\ DOMAIN pc = Threads /\ DOMAIN sess = Threads
      /\ batches \in Nat /\ rollback.batches \in Nat
      /\ \A t \in Threads : DOMAIN sess[t] = DOMAIN Idle
  BY DEF IInv, HashInv, TypeOK, IsSession
<1> DEFINE Goal(u) == /\ pc'[u] \in {"idle", "load"} =>
                            sess'[u].created = {} /\ sess'[u].used = {}
                      /\ pc'[u] \in {"load", "rows"} => batches' > 0
                      /\ pc'[u] = "rows" => Expecting(u)'
           Old(u) == pc'[u] = pc[u] /\ sess'[u] = sess[u]
<1> SUFFICES \A u \in Threads : Goal(u)
  BY DEF ExpInv
<1>2. ASSUME NEW u \in Threads, Old(u), pc[u] \notin {"load", "rows"}
      PROVE  Goal(u)
  BY <1>2 DEF ExpInv
<1>3. ASSUME NEW u \in Threads, Old(u), txns' = txns, batches' = batches
      PROVE  Goal(u)
  BY <1>3 DEF ExpInv, Expecting, Waiting, ByThisImport, NoneStranded
<1>4. ASSUME NEW u \in Threads, pc'[u] = "idle", sess'[u] = Idle
      PROVE  Goal(u)
  BY <1>4 DEF Idle
<1>5. WriteLockFree => \A u \in Threads : pc[u] \notin {"load", "rows"}
  BY <1>1, ThreadAssumption DEF WriteLockFree, OneWriter
<1>6. ASSUME NEW t \in Threads, pc[t] \in {"load", "rows"}
      PROVE  \A u \in Threads \ {t} : pc[u] \notin {"load", "rows"}
  BY <1>1, <1>6 DEF OneWriter
<1>7. CASE UNCHANGED vars
  BY <1>3, <1>7 DEF vars
<1>8. CASE Restart
  BY <1>1, <1>4, <1>8 DEF Restart
<1>9. ASSUME NEW t \in Threads, NEW f \in Files, StartImport(t, f)
      PROVE  \A u \in Threads : Goal(u)
  <2>1. \A u \in Threads \ {t} : Old(u)
    BY <1>1, <1>9 DEF StartImport
  <2>2. Goal(t)
    BY <1>1, <1>9 DEF StartImport, ExpInv, Idle
  <2>3. QED
    BY <1>2, <1>5, <1>9, <2>1, <2>2 DEF StartImport
<1>10. ASSUME NEW t \in Threads, LoadExisting(t)
       PROVE  \A u \in Threads : Goal(u)
  <2>1. \A u \in Threads \ {t} : Old(u)
    BY <1>1, <1>10 DEF LoadExisting
  <2>2. /\ pc[t] = "load" /\ pc'[t] = "rows" /\ batches' = batches /\ txns' = txns
        /\ sess'[t].base = txns /\ sess'[t].created = sess[t].created
        /\ sess'[t].used = sess[t].used
    BY <1>1, <1>10 DEF LoadExisting, Idle
  <2>3. batches > 0 /\ sess[t].created = {} /\ sess[t].used = {}
    BY <2>2 DEF ExpInv
  <2>4. Expecting(t)'
    BY <2>2, <2>3 DEF Expecting, Waiting, ByThisImport, NoneStranded
  <2>5. QED
    BY <1>2, <1>6, <2>1, <2>2, <2>3, <2>4
<1>11. ASSUME NEW t \in Threads, ProcessRow(t)
       PROVE  \A u \in Threads : Goal(u)
  <2>1. Turned(t)
    BY <1>1, <1>11, RowOutcome
  <2>2. Expecting(t)'
    BY <1>1, <1>11, RowExpecting
  <2>3. batches' > 0
    BY <2>1 DEF Turned, ExpInv
  <2>4. QED
    BY <1>2, <1>6, <2>1, <2>2, <2>3 DEF Turned
<1>12. ASSUME NEW t \in Threads, CommitImport(t)
       PROVE  \A u \in Threads : Goal(u)
  <2>1. pc[t] = "rows" /\ pc'[t] = "classify" /\ \A u \in Threads \ {t} : Old(u)
    BY <1>1, <1>12 DEF CommitImport
  <2>2. QED
    BY <1>2, <1>6, <2>1
<1>13. ASSUME NEW t \in Threads, AfterImport(t) \/ AbortImport(t)
       PROVE  \A u \in Threads : Goal(u)
  <2>1. /\ pc'[t] = "idle" /\ sess'[t] = Idle /\ \A u \in Threads \ {t} : Old(u)
        /\ WriteLockFree \/ pc[t] \in {"load", "rows"}
    BY <1>1, <1>13 DEF AfterImport, AbortImport
  <2>2. QED
    BY <1>2, <1>4, <1>5, <1>6, <2>1
<1>14. ASSUME NEW t \in Threads, UserChange(t)
       PROVE  \A u \in Threads : Goal(u)
  <2>1. ASSUME NEW i, ReadForDelete(t, i) \/ ReadForRecover(t, i)
        PROVE  \A u \in Threads : Goal(u)
    <3>1. /\ pc'[t] \in {"delete", "recover"} /\ \A u \in Threads \ {t} : Old(u)
          /\ txns' = txns /\ batches' = batches
      BY <1>1, <2>1 DEF ReadForDelete, ReadForRecover
    <3>2. QED
      BY <1>3, <3>1
  <2>2. CASE Delete(t) \/ Recover(t)
    <3>1. /\ pc'[t] = "idle" /\ sess'[t] = Idle /\ \A u \in Threads \ {t} : Old(u)
          /\ WriteLockFree
      BY <1>1, <2>2 DEF Delete, Recover
    <3>2. QED
      BY <1>2, <1>4, <1>5, <3>1
  <2>3. QED
    BY <1>14, <2>1, <2>2 DEF UserChange
<1>15. ASSUME NEW e, NEW i, Enter(e) \/ Reword(i, e)
       PROVE  \A u \in Threads : Goal(u)
  BY <1>2, <1>5, <1>15 DEF Enter, Reword
<1> HIDE DEF Goal, Old
<1>16. QED
  BY <1>7, <1>8, <1>9, <1>10, <1>11, <1>12, <1>13, <1>14, <1>15
  DEF Next, Import, UserStep, Threads

\* An import leaves no open expectation beside a new row for the same amount
\* within its window, whatever was entered, confirmed and reworded before.
THEOREM NobodyLeftWaiting == Spec => []NoExpectationStranded
<1>1. Init => ExpInv
  BY DEF Init, ExpInv, Idle
<1>2. IInv /\ ExpInv /\ [Next]_vars => ExpInv'
  BY ExpInductive
<1>3. ExpInv => NoExpectationStranded
  BY DEF ExpInv, Expecting, NoneStranded, Open, NoExpectationStranded
<1>4. QED
  BY Initially, Inductive, <1>1, <1>2, <1>3, PTL DEF Spec

----------------------------------------------------------------------------
(* Nothing but the bank's rows: what holds of a household that enters and   *)
(* rewords nothing by hand.                                                 *)

\* Every row, deleted or not, came with a batch, repeats the day, wording and
\* amount of a line of some export, and has the fingerprint, if any, of a line
\* with its day and amount.
FromLine(files, r) ==
  \E f \in files : \E n \in 1 .. Len(Content[f]) :
    Content[f][n].valid /\ Key(Content[f][n]) = Key(r)
HashFrom(files, r, h) ==
  h # NoHash =>
    \E f \in files : \E n \in 1 .. Len(Content[f]) :
      /\ Content[f][n].valid /\ h = Fingerprint(f, n)
      /\ DayAmount(Content[f][n]) = DayAmount(r)
Banked(files, r, h) == r.batch # None /\ FromLine(files, r) /\ HashFrom(files, r, h)
BankTable(files, table) ==
  \A i \in DOMAIN table : Banked(files, table[i], table[i].hash)
BankLog(files, log) == \A k \in DOMAIN log : Banked(files, log[k], log[k].lost)

\* No row is lost or changes its day, wording or amount from a to b.
Holds(a, b) == \A i \in DOMAIN a : i \in DOMAIN b /\ Key(b[i]) = Key(a[i])
\* A fingerprint an import knows is one of a row it loaded or of a line it read.
Knows(s, h) ==
  \/ \E i \in DOMAIN s.base : s.base[i].hash = h
  \/ \E n \in 1 .. s.pos - 1 : /\ n <= Len(Content[s.file]) /\ Content[s.file][n].valid
                               /\ h = Fingerprint(s.file, n)
BankSession(files, t) ==
  LET s == sess[t] IN
  /\ pc[t] \in {"idle", "load", "rows"} => s.rekeyed = {}
  /\ pc[t] = "delete" => \A c \in s.copy : Banked(files, c, c.hash)
  /\ pc[t] = "recover" => \A c \in s.copy : Banked(files, c, c.lost)
  /\ pc[t] \in {"load", "rows"} =>
       batches > 0 /\ s.file \in files /\ Holds(rollback.txns, txns)
  /\ pc[t] = "load" => txns = rollback.txns
  /\ pc[t] = "rows" => /\ s.base = rollback.txns
                       /\ s.gone = {tombs[k] : k \in DOMAIN tombs}
                       /\ \A h \in s.hashes \ {NoHash} : Knows(s, h)
BankInv ==
  /\ ~ household.ahead /\ household.files \subseteq Files
  /\ settled \subseteq household.files
  /\ BankTable(household.files, txns) /\ BankTable(household.files, rollback.txns)
  /\ BankLog(household.files, tombs)
  /\ \A t \in Threads : BankSession(household.files, t)

\* A row the import leaves alone, but for a balance it did not have.
Stays(a, b) ==
  /\ DOMAIN b = DOMAIN a
  /\ \A i \in DOMAIN a :
       /\ Key(b[i]) = Key(a[i])
       /\ a[i].balance # None => b[i].balance = a[i].balance

\* Without expectations a row of the bank is passed over or is a new row.
LEMMA BankRow ==
  ASSUME NEW t \in Threads, TypeOK, AtWork, BankInv, ProcessRow(t)
  PROVE  /\ Turned(t) /\ BankTable(household.files, txns')
         /\ \/ Stays(txns, txns') /\ (Dropped(t) \/ Repeated(t))
            \/ \E i \in Ids : i \notin DOMAIN txns /\ Added(t, i)
<1> DEFINE files == household.files
<1>1. /\ Turned(t) /\ sess[t].base = rollback.txns /\ Holds(rollback.txns, txns)
      /\ batches > 0 /\ batches \in Nat /\ sess[t].file \in files
      /\ sess[t].pos \in 1 .. Len(Content[sess[t].file])
      /\ BankTable(files, txns) /\ BankTable(files, rollback.txns)
      /\ AtRow(t) /\ Row(t) \in FileRow
  <2>1. Turned(t)
    BY RowOutcome
  <2>2. sess[t].pos \in 1 .. Len(Content[sess[t].file])
    <3>1. /\ sess[t].file \in Files /\ sess[t].pos \in Nat \ {0}
          /\ sess[t].pos <= Len(Content[sess[t].file])
      BY <2>1 DEF Turned, AtRow, AtWork, TypeOK, IsSession
    <3>2. Content[sess[t].file] \in Seq(FileRow)
      BY <3>1, ContentAssumption
    <3>3. QED
      BY <3>1, <3>2
  <2>3. QED
    BY <2>1, <2>2, AtRowType DEF Turned, BankInv, BankSession, TypeOK
<1>2. IsTable(txns, Txn, Ids) /\ IsTable(sess[t].base, Txn, Ids)
  BY DEF TypeOK, IsSession
<1>3. Expectations(t) = {}
  BY <1>1 DEF Expectations, BankTable, Banked
<1>4. CASE Dropped(t)
  BY <1>1, <1>4 DEF Dropped, Stays
<1>5. CASE Repeated(t)
  <2>1. PICK i \in Ids : /\ i \in DOMAIN sess[t].base
                         /\ SameDayAmount(sess[t].base[i], Row(t)) /\ Carry(t, i)
    BY <1>5 DEF Repeated
  <2>2. CASE MayCarry(i)
    <3> DEFINE row == CarryInto(txns[i], Row(t), RowHash(t), batches)
    <3>1. /\ i \in DOMAIN txns /\ txns[i] \in Txn /\ txns[i].balance = None
          /\ txns' = [txns EXCEPT ![i] = row]
      BY <1>2, <2>1, <2>2 DEF Carry, MayCarry, IsTable
    <3>2. /\ Key(row) = Key(txns[i]) /\ row.batch # None
          /\ row.hash = txns[i].hash \/ row.hash = RowHash(t)
      BY <1>1, <3>1 DEF CarryInto, Txn, None, Key
    <3>3. DayAmount(txns[i]) = DayAmount(Row(t)) /\ DayAmount(row) = DayAmount(txns[i])
      BY <1>1, <2>1, <3>2 DEF Holds, SameDayAmount, Key, DayAmount
    <3>4. Row(t).valid
      BY <1>5 DEF Repeated, Fresh
    <3>5. HashFrom(files, row, row.hash)
      <4>1. CASE row.hash = txns[i].hash
        BY <1>1, <3>1, <3>3, <4>1 DEF BankTable, Banked, HashFrom
      <4>2. CASE row.hash = RowHash(t)
        BY <1>1, <3>3, <3>4, <4>2 DEF HashFrom, RowHash, Row
      <4>3. QED
        BY <3>2, <4>1, <4>2
    <3>6. Banked(files, row, row.hash)
      <4>1. FromLine(files, txns[i])
        BY <1>1, <3>1 DEF BankTable, Banked
      <4>2. FromLine(files, row)
        BY <3>2, <4>1 DEF FromLine
      <4>3. QED
        BY <3>2, <3>5, <4>2 DEF Banked
    <3> HIDE DEF row
    <3>7. BankTable(files, txns')
      BY <1>1, <3>1, <3>6 DEF BankTable
    <3>8. Stays(txns, txns')
      BY <3>1, <3>2 DEF Stays
    <3>9. QED
      BY <1>1, <1>5, <3>7, <3>8
  <2>3. CASE ~ MayCarry(i)
    BY <1>1, <1>5, <2>1, <2>3 DEF Carry, Stays
  <2>4. QED
    BY <2>2, <2>3
<1>6. ASSUME NEW i \in Ids, Added(t, i)
      PROVE  i \notin DOMAIN txns /\ BankTable(files, txns')
  <2> DEFINE row == [date |-> Row(t).date, desc |-> Row(t).desc,
                     amount |-> Row(t).amount, balance |-> Row(t).balance,
                     batch |-> batches, raw |-> "bank", hash |-> RowHash(t)]
  <2>1. i \notin DOMAIN txns
    BY <1>2, <1>6 DEF Added, IsNextId, IsTable, Ids
  <2>2. Row(t).valid
    BY <1>6 DEF Added, Unknown, Fresh
  <2>3. Key(row) = Key(Row(t)) /\ DayAmount(row) = DayAmount(Row(t))
        /\ row.batch = batches /\ row.hash = RowHash(t)
    BY DEF Key, DayAmount
  <2>4. txns' = Insert(txns, i, row)
    BY <1>6 DEF Added
  <2> HIDE DEF row
  <2>5. Banked(files, row, row.hash)
    BY <1>1, <2>2, <2>3 DEF Banked, FromLine, HashFrom, RowHash, Row, None
  <2>6. BankTable(files, txns')
    BY <1>1, <2>4, <2>5 DEF BankTable, Insert
  <2>7. QED
    BY <2>1, <2>6
<1>7. ~ \E i \in Ids : Reconciled(t, i)
  BY <1>3 DEF Reconciled
<1>8. QED
  BY <1>1, <1>4, <1>5, <1>6, <1>7, RowOutcome

\* A row step keeps what the import knows in step with what it read.
LEMMA BankRowSession ==
  ASSUME NEW t \in Threads, TypeOK, AtWork, BankInv, ProcessRow(t), UNCHANGED household
  PROVE  BankSession(household.files, t)'
<1>1. /\ Turned(t)
      /\ \/ Stays(txns, txns') /\ (Dropped(t) \/ Repeated(t))
         \/ \E i \in Ids : i \notin DOMAIN txns /\ Added(t, i)
  BY BankRow
<1>2. BankSession(household.files, t) /\ pc[t] = "rows" /\ pc'[t] = "rows"
  BY <1>1 DEF BankInv, Turned
<1>3. sess'[t].rekeyed = {}
  BY <1>1, <1>2 DEF BankSession, Dropped, Repeated, Added, KeepsNotes
<1>4. Holds(rollback.txns, txns')
  <2>1. CASE Stays(txns, txns')
    BY <1>2, <2>1 DEF BankSession, Holds, Stays
  <2>2. ASSUME NEW i \in Ids, i \notin DOMAIN txns, Added(t, i)
        PROVE  Holds(rollback.txns, txns')
    <3>1. \A j \in DOMAIN txns : j \in DOMAIN txns' /\ txns'[j] = txns[j]
      BY <2>2 DEF Added, Insert
    <3>2. QED
      BY <1>2, <3>1 DEF BankSession, Holds
  <2>3. QED
    BY <1>1, <2>1, <2>2
<1>5. ASSUME NEW h \in sess'[t].hashes \ {NoHash}
      PROVE  Knows(sess'[t], h)
  <2>1. sess[t].pos \in Nat \ {0} /\ sess[t].pos <= Len(Content[sess[t].file])
    BY <1>1 DEF Turned, AtRow, AtWork, TypeOK, IsSession
  <2>2. sess'[t].file = sess[t].file /\ sess'[t].pos = sess[t].pos + 1
        /\ sess'[t].base = sess[t].base
    BY <1>1 DEF Turned
  <2>3. CASE h \in sess[t].hashes
    <3>1. Knows(sess[t], h)
      BY <1>2, <1>5, <2>3 DEF BankSession
    <3>2. QED
      BY <2>1, <2>2, <3>1 DEF Knows
  <2>4. CASE Row(t).valid /\ h = RowHash(t)
    <3>1. sess[t].pos \in 1 .. sess'[t].pos - 1
      BY <2>1, <2>2
    <3>2. QED
      BY <2>1, <2>2, <2>4, <3>1 DEF Knows, Row, RowHash
  <2>5. QED
    BY <1>1, <1>5, <2>3, <2>4 DEF Turned
<1>6. QED
  BY <1>1, <1>2, <1>3, <1>4, <1>5 DEF BankSession, Turned

\* A copy of a row of the bank is one, with or without its fingerprint.
LEMMA BankedCopy ==
  ASSUME NEW files, NEW r, NEW h, NEW q, Banked(files, r, h),
         q.date = r.date, q.desc = r.desc, q.amount = r.amount, q.batch = r.batch
  PROVE  Banked(files, q, h) /\ Banked(files, q, NoHash)
<1>1. Key(q) = Key(r) /\ DayAmount(q) = DayAmount(r)
  BY DEF Key, DayAmount
<1>2. FromLine(files, q)
  BY <1>1 DEF Banked, FromLine
<1>3. HashFrom(files, q, h) /\ HashFrom(files, q, NoHash)
  BY <1>1 DEF Banked, HashFrom
<1>4. QED
  BY <1>2, <1>3 DEF Banked

LEMMA HoldsItself == \A a : Holds(a, a)
BY DEF Holds

LEMMA BankInductive ==
  ASSUME IInv, BankInv, [Next]_vars
  PROVE  BankInv'
<1> DEFINE files == household.files
<1>1. /\ TypeOK /\ AtWork /\ OneWriter /\ DOMAIN pc = Threads /\ DOMAIN sess = Threads
      /\ batches \in Nat /\ rollback.batches \in Nat
      /\ \A t \in Threads : DOMAIN sess[t] = DOMAIN Idle
  BY DEF IInv, HashInv, TypeOK, IsSession
<1>2. /\ ~ household.ahead /\ files \subseteq Files /\ settled \subseteq files
      /\ BankTable(files, txns) /\ BankTable(files, rollback.txns)
      /\ BankLog(files, tombs) /\ \A t \in Threads : BankSession(files, t)
  BY DEF BankInv
<1>3. UNCHANGED household
  BY DEF Next, vars
<1> DEFINE Tables == /\ settled' \subseteq files /\ BankTable(files, txns')
                     /\ BankTable(files, rollback'.txns) /\ BankLog(files, tombs')
           Goal(u) == BankSession(files, u)'
           Old(u) == pc'[u] = pc[u] /\ sess'[u] = sess[u]
<1>4. SUFFICES Tables /\ \A u \in Threads : Goal(u)
  BY <1>2, <1>3 DEF BankInv
<1>5. ASSUME NEW u \in Threads, Old(u), pc[u] \notin {"load", "rows"}
      PROVE  Goal(u)
  BY <1>2, <1>3, <1>5 DEF BankSession
<1>6. ASSUME NEW u \in Threads, Old(u), UNCHANGED <<txns, tombs, rollback, batches>>
      PROVE  Goal(u)
  BY <1>2, <1>3, <1>6 DEF BankSession
<1>7. ASSUME NEW u \in Threads, pc'[u] = "idle", sess'[u] = Idle
      PROVE  Goal(u)
  BY <1>7 DEF BankSession, Idle
<1>8. WriteLockFree => \A u \in Threads : pc[u] \notin {"load", "rows"}
  BY <1>1, ThreadAssumption DEF WriteLockFree, OneWriter
<1>9. ASSUME NEW t \in Threads, pc[t] \in {"load", "rows"}
      PROVE  \A u \in Threads \ {t} : pc[u] \notin {"load", "rows"}
  BY <1>1, <1>9 DEF OneWriter
<1>10. CASE UNCHANGED vars
  BY <1>2, <1>6, <1>10 DEF vars
<1>11. CASE Restart
  <2>1. Tables
    BY <1>2, <1>11 DEF Restart
  <2>2. QED
    BY <1>1, <1>7, <1>11, <2>1 DEF Restart
<1>12. ASSUME NEW t \in Threads, NEW f \in files, StartImport(t, f)
       PROVE  Tables /\ \A u \in Threads : Goal(u)
  <2>1. Tables
    BY <1>2, <1>12 DEF StartImport
  <2>2. \A u \in Threads \ {t} : Old(u)
    BY <1>1, <1>12 DEF StartImport
  <2>3. /\ pc'[t] = "load" /\ sess'[t].file = f /\ sess'[t].rekeyed = sess[t].rekeyed
        /\ rollback'.txns = txns /\ txns' = txns /\ batches' = batches + 1
        /\ pc[t] = "idle"
    BY <1>1, <1>12 DEF StartImport, Idle
  <2>4. Goal(t)
    <3>1. sess'[t].rekeyed = {} /\ batches' > 0
      BY <1>1, <1>2, <2>3 DEF BankSession
    <3>2. Holds(rollback'.txns, txns')
      BY <2>3, HoldsItself
    <3>3. QED
      BY <1>3, <1>12, <2>3, <3>1, <3>2 DEF BankSession
  <2>5. QED
    BY <1>5, <1>8, <1>12, <2>1, <2>2, <2>4 DEF StartImport
<1>13. ASSUME NEW t \in Threads, LoadExisting(t)
       PROVE  Tables /\ \A u \in Threads : Goal(u)
  <2>1. Tables
    BY <1>2, <1>13 DEF LoadExisting
  <2>2. \A u \in Threads \ {t} : Old(u)
    BY <1>1, <1>13 DEF LoadExisting
  <2>3. /\ pc[t] = "load" /\ pc'[t] = "rows" /\ UNCHANGED <<txns, tombs, rollback, batches>>
        /\ sess'[t].base = txns /\ sess'[t].gone = {tombs[k] : k \in DOMAIN tombs}
        /\ sess'[t].hashes = {txns[i].hash : i \in DOMAIN txns}
        /\ sess'[t].file = sess[t].file /\ sess'[t].rekeyed = sess[t].rekeyed
    BY <1>1, <1>13 DEF LoadExisting, Idle
  <2>4. \A h \in sess'[t].hashes : Knows(sess'[t], h)
    BY <2>3 DEF Knows
  <2>5. Goal(t)
    <3>1. /\ sess[t].rekeyed = {} /\ batches > 0 /\ sess[t].file \in files
          /\ txns = rollback.txns
      BY <1>2, <2>3 DEF BankSession
    <3>2. Holds(rollback'.txns, txns') /\ sess'[t].base = rollback'.txns
      BY <2>3, <3>1, HoldsItself
    <3>3. QED
      BY <1>3, <2>3, <2>4, <3>1, <3>2 DEF BankSession
  <2>6. QED
    BY <1>5, <1>9, <2>1, <2>2, <2>3, <2>5
<1>14. ASSUME NEW t \in Threads, ProcessRow(t)
       PROVE  Tables /\ \A u \in Threads : Goal(u)
  <2>1. Turned(t) /\ BankTable(files, txns')
    BY <1>1, <1>14, BankRow
  <2>2. Goal(t)
    BY <1>1, <1>3, <1>14, BankRowSession
  <2>3. Tables
    BY <1>2, <2>1 DEF Turned
  <2>4. QED
    BY <1>5, <1>9, <2>1, <2>2, <2>3 DEF Turned
<1>15. ASSUME NEW t \in Threads, CommitImport(t)
       PROVE  Tables /\ \A u \in Threads : Goal(u)
  <2>1. pc[t] = "rows" /\ pc'[t] = "classify" /\ \A u \in Threads \ {t} : Old(u)
    BY <1>1, <1>15 DEF CommitImport
  <2>2. Tables
    BY <1>2, <1>15, <2>1 DEF CommitImport, BankSession
  <2>3. Goal(t)
    BY <2>1 DEF BankSession
  <2>4. QED
    BY <1>5, <1>9, <2>1, <2>2, <2>3
<1>16. ASSUME NEW t \in Threads, AfterImport(t) \/ AbortImport(t)
       PROVE  Tables /\ \A u \in Threads : Goal(u)
  <2>1. /\ pc'[t] = "idle" /\ sess'[t] = Idle /\ \A u \in Threads \ {t} : Old(u)
        /\ WriteLockFree \/ pc[t] \in {"load", "rows"}
    BY <1>1, <1>16 DEF AfterImport, AbortImport
  <2>2. Tables
    BY <1>2, <1>16 DEF AfterImport, AbortImport
  <2>3. QED
    BY <1>5, <1>7, <1>8, <1>9, <2>1, <2>2
<1>17. ASSUME NEW t \in Threads, NEW i \in Ids, ReadForDelete(t, i)
       PROVE  Tables /\ \A u \in Threads : Goal(u)
  <2>1. /\ pc'[t] = "delete" /\ sess'[t].copy = {Committed[i]}
        /\ \A u \in Threads \ {t} : Old(u)
        /\ UNCHANGED <<txns, tombs, rollback, batches, settled>>
    BY <1>1, <1>17 DEF ReadForDelete, Idle
  <2>2. BankTable(files, Committed) /\ i \in DOMAIN Committed
    BY <1>2, <1>17 DEF Committed, ReadForDelete
  <2>3. Banked(files, Committed[i], Committed[i].hash)
    BY <2>2 DEF BankTable
  <2>4. Goal(t)
    BY <1>3, <2>1, <2>3 DEF BankSession
  <2>5. QED
    BY <1>2, <1>6, <2>1, <2>4
<1>18. ASSUME NEW t \in Threads, NEW k, ReadForRecover(t, k)
       PROVE  Tables /\ \A u \in Threads : Goal(u)
  <2>1. /\ pc'[t] = "recover" /\ sess'[t].copy = {tombs[k]} /\ k \in DOMAIN tombs
        /\ \A u \in Threads \ {t} : Old(u)
        /\ UNCHANGED <<txns, tombs, rollback, batches, settled>>
    BY <1>1, <1>18 DEF ReadForRecover, Idle
  <2>2. Goal(t)
    BY <1>2, <1>3, <2>1 DEF BankSession, BankLog
  <2>3. QED
    BY <1>2, <1>6, <2>1, <2>2
<1>19. ASSUME NEW t \in Threads, Delete(t)
       PROVE  Tables /\ \A u \in Threads : Goal(u)
  <2>1. PICK k \in 1 .. MaxTombs, c \in sess[t].copy :
          tombs' = Insert(tombs, k,
                    [original_id |-> sess[t].target, date |-> c.date,
                     desc |-> c.desc, amount |-> c.amount,
                     balance |-> c.balance, batch |-> c.batch,
                     lost |-> c.hash])
    BY <1>19 DEF Delete
  <2> DEFINE row == [original_id |-> sess[t].target, date |-> c.date,
                     desc |-> c.desc, amount |-> c.amount,
                     balance |-> c.balance, batch |-> c.batch, lost |-> c.hash]
  <2>2. Banked(files, c, c.hash)
    BY <1>2, <1>19 DEF Delete, BankSession
  <2>3. Banked(files, row, row.lost)
    BY <2>2, BankedCopy
  <2>4. tombs' = Insert(tombs, k, row)
    BY <2>1
  <2> HIDE DEF row
  <2>5. BankLog(files, tombs')
    BY <1>2, <2>3, <2>4 DEF BankLog, Insert
  <2>6. Tables
    BY <1>2, <1>19, <2>5 DEF Delete, BankTable, Without
  <2>7. /\ pc'[t] = "idle" /\ sess'[t] = Idle /\ \A u \in Threads \ {t} : Old(u)
        /\ WriteLockFree
    BY <1>1, <1>19 DEF Delete
  <2>8. QED
    BY <1>5, <1>7, <1>8, <2>6, <2>7
<1>20. ASSUME NEW t \in Threads, Recover(t)
       PROVE  Tables /\ \A u \in Threads : Goal(u)
  <2>1. PICK i \in Ids, c \in sess[t].copy :
          txns' = Insert(txns, i,
                   [date |-> c.date, desc |-> c.desc, amount |-> c.amount,
                    balance |-> c.balance, batch |-> c.batch,
                    raw |-> "none", hash |-> NoHash])
    BY <1>20 DEF Recover
  <2> DEFINE row == [date |-> c.date, desc |-> c.desc, amount |-> c.amount,
                     balance |-> c.balance, batch |-> c.batch,
                     raw |-> "none", hash |-> NoHash]
  <2>2. Banked(files, c, c.lost)
    BY <1>2, <1>20 DEF Recover, BankSession
  <2>3. Banked(files, row, row.hash)
    BY <2>2, BankedCopy
  <2>4. txns' = Insert(txns, i, row)
    BY <2>1
  <2> HIDE DEF row
  <2>5. BankTable(files, txns')
    BY <1>2, <2>3, <2>4 DEF BankTable, Insert
  <2>6. Tables
    BY <1>2, <1>20, <2>5 DEF Recover, BankLog, Without
  <2>7. /\ pc'[t] = "idle" /\ sess'[t] = Idle /\ \A u \in Threads \ {t} : Old(u)
        /\ WriteLockFree
    BY <1>1, <1>20 DEF Recover
  <2>8. QED
    BY <1>5, <1>7, <1>8, <2>6, <2>7
<1> HIDE DEF Tables, Goal, Old
<1>21. QED
  BY <1>2, <1>10, <1>11, <1>12, <1>13, <1>14, <1>15, <1>16, <1>17, <1>18, <1>19, <1>20
  DEF Next, Import, UserChange, UserStep, Threads

LEMMA BankInitially == Init /\ ~ household.ahead => BankInv
<1> SUFFICES ASSUME Init, ~ household.ahead PROVE BankInv
  OBVIOUS
<1>1. household.files \subseteq Files
  BY HouseholdAssumption DEF Init
<1>2. \A t \in Threads : BankSession(household.files, t)
  BY DEF Init, BankSession, Idle
<1>3. QED
  BY <1>1, <1>2 DEF Init, BankInv, BankTable, BankLog

\* An import never replaces a running balance the bank already gave a row, as
\* long as nothing is entered or reworded by hand, for any number of imports,
\* deletions and recoveries at once.
THEOREM GivenBalanceStays == Spec /\ ~ household.ahead => BalanceNeverOverwritten
<1> DEFINE Step == \A t \in Threads : pc[t] = "rows" /\ pc'[t] = "rows" =>
                     \A i \in DOMAIN txns :
                       txns[i].balance # None => txns'[i].balance = txns[i].balance
<1>1. ASSUME IInv, BankInv, [Next]_vars PROVE Step
  <2>1. /\ TypeOK /\ AtWork /\ OneWriter /\ DOMAIN pc = Threads
    BY <1>1 DEF IInv, HashInv, TypeOK
  <2>2. ~ household.ahead
    BY <1>1 DEF BankInv
  <2> SUFFICES ASSUME NEW t \in Threads, pc[t] = "rows", pc'[t] = "rows", txns' # txns
               PROVE  \A i \in DOMAIN txns :
                        txns[i].balance # None => txns'[i].balance = txns[i].balance
    OBVIOUS
  <2>3. lock = t /\ ~ WriteLockFree
    BY <2>1, ThreadAssumption DEF OneWriter, WriteLockFree
  <2>4. PICK u \in Threads : ProcessRow(u) \/ AbortImport(u)
    BY <1>1, <2>1, <2>2, <2>3
    DEF vars, Next, Restart, Import, StartImport, LoadExisting, CommitImport, AfterImport,
        UserStep, UserChange, ReadForDelete, Delete, ReadForRecover, Recover, Threads
  <2>5. CASE AbortImport(u)
    BY <2>1, <2>3, <2>5 DEF AbortImport, OneWriter
  <2>6. CASE ProcessRow(u)
    <3>1. \/ Stays(txns, txns')
          \/ \E i \in Ids : i \notin DOMAIN txns /\ Added(u, i)
      BY <1>1, <2>1, <2>6, BankRow
    <3>2. CASE Stays(txns, txns')
      BY <3>2 DEF Stays
    <3>3. ASSUME NEW i \in Ids, i \notin DOMAIN txns, Added(u, i)
          PROVE  \A j \in DOMAIN txns : txns'[j] = txns[j]
      BY <3>3 DEF Added, Insert
    <3>4. QED
      BY <3>1, <3>2, <3>3
  <2>7. QED
    BY <2>4, <2>5, <2>6
<1>2. IInv /\ BankInv /\ [Next]_vars => BankInv'
  BY BankInductive
<1>3. IInv /\ BankInv /\ [Next]_vars => [Step]_vars
  BY <1>1
<1>4. QED
  BY Initially, Inductive, BankInitially, <1>2, <1>3, PTL DEF Spec, BalanceNeverOverwritten

----------------------------------------------------------------------------
(* One request at a time edits the ledger.  Two that do may delete a row    *)
(* under the wrong name or restore one twice.                               *)

OneEditor == \A a, b \in Editors : a = b

\* What an editor read is still so when it writes.
SteadyAt(t) ==
  LET s == sess[t] IN
  /\ pc[t] \in {"delete", "recover"} => t \in Editors
  /\ pc[t] = "delete" => /\ s.target \in DOMAIN Committed
                         /\ \A c \in s.copy : Key(c) = Key(Committed[s.target])
  /\ pc[t] = "recover" => s.target \in DOMAIN tombs /\ s.copy = {tombs[s.target]}
\* A row that is not committed yet is one of a line the import has read.
ReadBy(s, n) == n \in 1 .. s.pos - 1 /\ n <= Len(Content[s.file]) /\ Content[s.file][n].valid
Sourced(t) ==
  \A i \in DOMAIN txns \ DOMAIN Committed :
    \E n \in Nat : ReadBy(sess[t], n) /\ Key(Content[sess[t].file][n]) = Key(txns[i])
SteadyInv == \A t \in Threads : SteadyAt(t) /\ (pc[t] = "rows" => Sourced(t))

\* Every step is one of five to the rows and the log of deleted rows: nothing
\* is added or removed ...
Still ==
  /\ UNCHANGED <<tombs, settled>> /\ Committed' = Committed
  /\ txns' \in {txns, Committed}
  /\ \A u \in Threads : pc'[u] = "rows" =>
       \/ pc[u] = "rows" /\ sess'[u] = sess[u] /\ txns' = txns
       \/ sess'[u].pos = 1 /\ txns' = Committed
\* ... or an import reads a row, or commits ...
Committing(t) ==
  /\ pc[t] = "rows" /\ sess[t].pos > Len(Content[sess[t].file])
  /\ UNCHANGED <<txns, tombs>> /\ Committed' = txns
  /\ settled' = settled \cup {sess[t].file}
  /\ \A u \in Threads : pc'[u] # "rows"
\* ... or a row moves into the log, or out of it.
Logged(i, k, row) ==
  /\ WriteLockFree /\ Committed = txns /\ Committed' = txns'
  /\ i \in DOMAIN txns /\ k \notin DOMAIN tombs /\ Key(row) = Key(txns[i])
  /\ txns' = Without(txns, i) /\ tombs' = Insert(tombs, k, row)
  /\ UNCHANGED settled /\ \A u \in Threads : pc'[u] # "rows"
Restored(i, k, row) ==
  /\ WriteLockFree /\ Committed = txns /\ Committed' = txns'
  /\ i \notin DOMAIN txns /\ k \in DOMAIN tombs /\ Key(row) = Key(tombs[k])
  /\ txns' = Insert(txns, i, row) /\ tombs' = Without(tombs, k)
  /\ UNCHANGED settled /\ \A u \in Threads : pc'[u] # "rows"

LEMMA StepKinds ==
  ASSUME IInv, BankInv, SteadyInv, [Next]_vars
  PROVE  \/ Still
         \/ \E t \in Threads : ProcessRow(t) /\ Committed' = Committed
                               /\ \A u \in Threads \ {t} : pc'[u] # "rows"
         \/ \E t \in Threads : Committing(t)
         \/ \E i, k, row : Logged(i, k, row) \/ Restored(i, k, row)
<1>1. /\ TypeOK /\ AtWork /\ OneWriter /\ DOMAIN pc = Threads /\ DOMAIN sess = Threads
      /\ \A t \in Threads : DOMAIN sess[t] = DOMAIN Idle
  BY DEF IInv, HashInv, TypeOK, IsSession
<1>2. ~ household.ahead /\ \A t \in Threads : BankSession(household.files, t)
  BY DEF BankInv
<1>3. IsTable(txns, Txn, Ids) /\ IsTable(tombs, Tomb, 1 .. MaxTombs)
  BY DEF IInv, TypeOK
<1>4. WriteLockFree => Committed = txns /\ \A u \in Threads : pc[u] \notin {"load", "rows"}
  BY <1>1, ThreadAssumption DEF WriteLockFree, OneWriter, Committed
<1>5. ASSUME NEW t \in Threads, pc[t] \in {"load", "rows"}
      PROVE  /\ lock = t /\ lock # NoThread /\ Committed = rollback.txns
             /\ \A u \in Threads \ {t} : pc[u] \notin {"load", "rows"}
  BY <1>1, <1>5, ThreadAssumption DEF OneWriter, Committed
<1> DEFINE Old(u) == pc'[u] = pc[u] /\ sess'[u] = sess[u]
<1>6. ASSUME UNCHANGED <<txns, tombs, settled, lock, rollback>>,
             \A u \in Threads : Old(u) \/ pc'[u] # "rows"
      PROVE  Still
  BY <1>6 DEF Still, Committed
<1>7. CASE UNCHANGED vars
  BY <1>6, <1>7 DEF vars
<1>8. CASE Restart
  <2>1. \A u \in Threads : pc'[u] # "rows"
    BY <1>1, <1>8 DEF Restart
  <2>2. txns' = Committed /\ Committed' = Committed
    BY <1>8 DEF Restart, Committed
  <2>3. QED
    BY <1>8, <2>1, <2>2 DEF Restart, Still
<1>9. ASSUME NEW t \in Threads, NEW f, StartImport(t, f)
      PROVE  Still
  <2>1. \A u \in Threads : pc'[u] # "rows"
    BY <1>1, <1>4, <1>9 DEF StartImport
  <2>2. txns' = txns /\ Committed' = Committed
    BY <1>4, <1>9, ThreadAssumption DEF StartImport, Committed
  <2>3. QED
    BY <1>9, <2>1, <2>2 DEF StartImport, Still
<1>10. ASSUME NEW t \in Threads, LoadExisting(t)
       PROVE  Still
  <2>1. /\ pc[t] = "load" /\ sess'[t].pos = 1
        /\ UNCHANGED <<txns, tombs, settled, lock, rollback>>
        /\ \A u \in Threads \ {t} : Old(u)
    BY <1>1, <1>10 DEF LoadExisting, Idle
  <2>2. Committed' = Committed /\ txns' = Committed
    BY <1>2, <1>5, <2>1 DEF BankSession, Committed
  <2>3. QED
    BY <1>5, <2>1, <2>2 DEF Still
<1>11. ASSUME NEW t \in Threads, ProcessRow(t)
       PROVE  /\ Committed' = Committed
              /\ \A u \in Threads \ {t} : pc'[u] # "rows"
  <2>1. Turned(t)
    BY <1>1, <1>11, RowOutcome
  <2>2. QED
    BY <1>5, <2>1 DEF Turned, Committed
<1>12. ASSUME NEW t \in Threads, CommitImport(t)
       PROVE  Committing(t)
  <2>1. pc[t] = "rows" /\ pc'[t] = "classify" /\ \A u \in Threads \ {t} : Old(u)
    BY <1>1, <1>12 DEF CommitImport
  <2>2. Committed' = txns
    BY <1>12 DEF CommitImport, Committed
  <2>3. QED
    BY <1>5, <1>12, <2>1, <2>2 DEF CommitImport, Committing
<1>13. ASSUME NEW t \in Threads, AfterImport(t)
       PROVE  Still
  <2>1. \A u \in Threads : Old(u) \/ pc'[u] # "rows"
    BY <1>1, <1>13 DEF AfterImport
  <2>2. QED
    BY <1>6, <1>13, <2>1 DEF AfterImport
<1>14. ASSUME NEW t \in Threads, AbortImport(t)
       PROVE  Still
  <2>1. \A u \in Threads : pc'[u] # "rows"
    BY <1>1, <1>5, <1>14 DEF AbortImport
  <2>2. txns' = Committed /\ Committed' = Committed
    BY <1>5, <1>14 DEF AbortImport, Committed
  <2>3. QED
    BY <1>14, <2>1, <2>2 DEF AbortImport, Still
<1>15. ASSUME NEW t \in Threads, NEW i, ReadForDelete(t, i) \/ ReadForRecover(t, i)
       PROVE  Still
  <2>1. \A u \in Threads : Old(u) \/ pc'[u] # "rows"
    BY <1>1, <1>15 DEF ReadForDelete, ReadForRecover
  <2>2. QED
    BY <1>6, <1>15, <2>1 DEF ReadForDelete, ReadForRecover
<1>16. ASSUME NEW t \in Threads, Delete(t)
       PROVE  \E i, k, row : Logged(i, k, row)
  <2>1. PICK k \in 1 .. MaxTombs, c \in sess[t].copy :
          /\ IsNextId(tombs, k)
          /\ tombs' = Insert(tombs, k,
                       [original_id |-> sess[t].target, date |-> c.date,
                        desc |-> c.desc, amount |-> c.amount,
                        balance |-> c.balance, batch |-> c.batch,
                        lost |-> c.hash])
    BY <1>16 DEF Delete
  <2> DEFINE row == [original_id |-> sess[t].target, date |-> c.date,
                     desc |-> c.desc, amount |-> c.amount,
                     balance |-> c.balance, batch |-> c.batch, lost |-> c.hash]
             i == sess[t].target
  <2>2. WriteLockFree /\ txns' = Without(txns, i) /\ UNCHANGED <<lock, rollback, settled>>
    BY <1>16 DEF Delete
  <2>3. Committed = txns /\ Committed' = txns'
    BY <1>4, <2>2 DEF WriteLockFree, Committed
  <2>4. i \in DOMAIN txns /\ Key(c) = Key(txns[i])
    BY <1>16, <2>1, <2>3 DEF Delete, SteadyInv, SteadyAt
  <2>5. Key(row) = Key(c) /\ k \notin DOMAIN tombs
    BY <1>3, <2>1 DEF Key, IsNextId, IsTable
  <2>6. \A u \in Threads : pc'[u] # "rows"
    BY <1>1, <1>4, <1>16 DEF Delete
  <2>7. tombs' = Insert(tombs, k, row)
    BY <2>1
  <2> HIDE DEF row, i
  <2>8. QED
    BY <2>2, <2>3, <2>4, <2>5, <2>6, <2>7 DEF Logged
<1>17. ASSUME NEW t \in Threads, Recover(t)
       PROVE  \E i, k, row : Restored(i, k, row)
  <2>1. PICK i \in Ids, c \in sess[t].copy :
          /\ IsNextId(txns, i)
          /\ txns' = Insert(txns, i,
                      [date |-> c.date, desc |-> c.desc, amount |-> c.amount,
                       balance |-> c.balance, batch |-> c.batch,
                       raw |-> "none", hash |-> NoHash])
    BY <1>17 DEF Recover
  <2> DEFINE row == [date |-> c.date, desc |-> c.desc, amount |-> c.amount,
                     balance |-> c.balance, batch |-> c.batch,
                     raw |-> "none", hash |-> NoHash]
             k == sess[t].target
  <2>2. WriteLockFree /\ tombs' = Without(tombs, k) /\ UNCHANGED <<lock, rollback, settled>>
    BY <1>17 DEF Recover
  <2>3. Committed = txns /\ Committed' = txns'
    BY <1>4, <2>2 DEF WriteLockFree, Committed
  <2>4. k \in DOMAIN tombs /\ c = tombs[k]
    BY <1>17, <2>1 DEF Recover, SteadyInv, SteadyAt
  <2>5. Key(row) = Key(c) /\ i \notin DOMAIN txns
    BY <1>3, <2>1 DEF Key, IsNextId, IsTable, Ids
  <2>6. \A u \in Threads : pc'[u] # "rows"
    BY <1>1, <1>4, <1>17 DEF Recover
  <2>7. txns' = Insert(txns, i, row)
    BY <2>1
  <2> HIDE DEF row, k
  <2>8. QED
    BY <2>2, <2>3, <2>4, <2>5, <2>6, <2>7 DEF Restored
<1> HIDE DEF Old
<1>18. QED
  BY <1>2, <1>7, <1>8, <1>9, <1>10, <1>11, <1>12, <1>13, <1>14, <1>15, <1>16, <1>17
  DEF Next, Import, UserChange, UserStep, Threads

\* What was read of a file stays read; a readable row that is passed is read.
LEMMA ReadOn ==
  ASSUME NEW t \in Threads, TypeOK, AtWork, Turned(t)
  PROVE  /\ \A n \in Nat : ReadBy(sess[t], n) => ReadBy(sess'[t], n)
         /\ \A n \in Nat : ReadBy(sess'[t], n) => ReadBy(sess[t], n) \/ n = sess[t].pos
         /\ Row(t).valid => ReadBy(sess'[t], sess[t].pos)
         /\ sess[t].pos \in Nat \ {0} /\ sess'[t].file = sess[t].file
         /\ sess[t].pos \in 1 .. Len(Content[sess[t].file])
<1>1. /\ sess[t].file \in Files /\ sess[t].pos \in Nat \ {0}
      /\ sess[t].pos <= Len(Content[sess[t].file])
      /\ sess'[t].file = sess[t].file /\ sess'[t].pos = sess[t].pos + 1
  BY DEF Turned, AtRow, AtWork, TypeOK, IsSession
<1>2. Len(Content[sess[t].file]) \in Nat
  BY <1>1, ContentAssumption
<1>3. QED
  BY <1>1, <1>2 DEF ReadBy, Row

LEMMA SteadyInductive ==
  ASSUME OneEditor, IInv, BankInv, SteadyInv, [Next]_vars
  PROVE  SteadyInv'
<1>1. /\ TypeOK /\ AtWork /\ OneWriter /\ DOMAIN pc = Threads /\ DOMAIN sess = Threads
      /\ \A t \in Threads : DOMAIN sess[t] = DOMAIN Idle
  BY DEF IInv, HashInv, TypeOK, IsSession
<1>2. ~ household.ahead /\ \A t \in Threads : BankSession(household.files, t)
  BY DEF BankInv
<1> DEFINE Old(u) == pc'[u] = pc[u] /\ sess'[u] = sess[u]
           Kind == \/ Still
                   \/ \E t \in Threads : ProcessRow(t) /\ Committed' = Committed
                                         /\ \A u \in Threads \ {t} : pc'[u] # "rows"
                   \/ \E t \in Threads : Committing(t)
                   \/ \E i, k, row : Logged(i, k, row) \/ Restored(i, k, row)
<1>3. Kind
  BY StepKinds
<1>4. ASSUME NEW u \in Threads, pc'[u] = "rows"
      PROVE  Sourced(u)'
  <2>1. CASE Still
    <3>1. CASE pc[u] = "rows" /\ sess'[u] = sess[u] /\ txns' = txns
      BY <2>1, <3>1 DEF Still, SteadyInv, Sourced
    <3>2. CASE txns' = Committed
      BY <2>1, <3>2 DEF Still, Sourced
    <3>3. QED
      BY <1>4, <2>1, <3>1, <3>2 DEF Still
  <2>2. ASSUME NEW t \in Threads, ProcessRow(t), Committed' = Committed,
               \A v \in Threads \ {t} : pc'[v] # "rows"
        PROVE  Sourced(u)'
    <3>1. u = t
      BY <1>4, <2>2
    <3>2. /\ Turned(t)
          /\ Stays(txns, txns') \/ \E i \in Ids : i \notin DOMAIN txns /\ Added(t, i)
      BY <1>1, <2>2, BankRow
    <3>3. /\ \A n \in Nat : ReadBy(sess[t], n) => ReadBy(sess'[t], n)
          /\ Row(t).valid => ReadBy(sess'[t], sess[t].pos)
          /\ sess[t].pos \in Nat /\ sess'[t].file = sess[t].file
      BY <1>1, <3>2, ReadOn
    <3>4. Sourced(t)
      BY <3>2 DEF Turned, SteadyInv
    <3>5. CASE Stays(txns, txns')
      BY <2>2, <3>1, <3>3, <3>4, <3>5 DEF Sourced, Stays
    <3>6. ASSUME NEW i \in Ids, i \notin DOMAIN txns, Added(t, i)
          PROVE  Sourced(t)'
      <4>1. /\ DOMAIN txns' = DOMAIN txns \cup {i}
            /\ \A j \in DOMAIN txns : txns'[j] = txns[j]
            /\ Key(txns'[i]) = Key(Row(t)) /\ Row(t).valid
        BY <3>6 DEF Added, Insert, Key, Unknown, Fresh
      <4>2. Key(Content[sess'[t].file][sess[t].pos]) = Key(txns'[i])
        BY <3>3, <4>1 DEF Row
      <4>3. QED
        BY <2>2, <3>3, <3>4, <4>1, <4>2 DEF Sourced
    <3>7. QED
      BY <3>1, <3>2, <3>5, <3>6
  <2>3. QED
    BY <1>3, <1>4, <2>1, <2>2 DEF Committing, Logged, Restored
<1>5. ASSUME tombs' = tombs, NEW u \in Threads,
             Old(u) \/ pc'[u] \notin {"delete", "recover"}
      PROVE  SteadyAt(u)'
  <2>1. ~ \E i, k, row : Logged(i, k, row) \/ Restored(i, k, row)
    <3>1. ASSUME NEW i, NEW k, NEW row, Logged(i, k, row) PROVE FALSE
      <4>1. k \in DOMAIN tombs' /\ k \notin DOMAIN tombs
        BY <3>1 DEF Logged, Insert
      <4>2. QED
        BY <1>5, <4>1
    <3>2. ASSUME NEW i, NEW k, NEW row, Restored(i, k, row) PROVE FALSE
      <4>1. k \notin DOMAIN tombs' /\ k \in DOMAIN tombs
        BY <3>2 DEF Restored, Without
      <4>2. QED
        BY <1>5, <4>1
    <3>3. QED
      BY <3>1, <3>2
  <2>2. Holds(Committed, Committed')
    <3>1. ASSUME NEW t \in Threads, Committing(t) PROVE Holds(Committed, Committed')
      <4>1. Committed = rollback.txns
        BY <1>1, <3>1, ThreadAssumption DEF Committing, OneWriter, Committed
      <4>2. QED
        BY <1>2, <3>1, <4>1 DEF Committing, BankSession
    <3>2. QED
      BY <1>3, <2>1, <3>1, HoldsItself DEF Still
  <2>3. QED
    BY <1>5, <2>2 DEF SteadyInv, SteadyAt, Holds
<1>6. ASSUME tombs' = tombs, \A u \in Threads : Old(u) \/ pc'[u] \notin {"delete", "recover"}
      PROVE  SteadyInv'
  BY <1>4, <1>5, <1>6 DEF SteadyInv
<1>7. CASE UNCHANGED vars
  BY <1>6, <1>7 DEF vars
<1>8. CASE Restart
  BY <1>1, <1>6, <1>8 DEF Restart
<1>9. ASSUME NEW t \in Threads, Import(t)
      PROVE  SteadyInv'
  <2>1. /\ tombs' = tombs /\ \A u \in Threads \ {t} : Old(u)
        /\ pc'[t] \notin {"delete", "recover"}
    <3>1. CASE ProcessRow(t)
      BY <1>1, <3>1, RowOutcome DEF Turned
    <3>2. CASE ~ ProcessRow(t)
      BY <1>1, <1>9, <3>2
      DEF Import, StartImport, LoadExisting, CommitImport, AfterImport, AbortImport
    <3>3. QED
      BY <3>1, <3>2
  <2>2. QED
    BY <1>6, <2>1
<1>10. ASSUME NEW t \in Editors, UserChange(t)
       PROVE  SteadyInv'
  <2>0. t \in Threads
    BY DEF Threads
  <2>1. ASSUME NEW i, ReadForDelete(t, i) \/ ReadForRecover(t, i)
        PROVE  SteadyInv'
    <3>1. /\ UNCHANGED <<txns, tombs, lock, rollback>> /\ \A u \in Threads \ {t} : Old(u)
      BY <1>1, <2>0, <2>1 DEF ReadForDelete, ReadForRecover
    <3>2. Committed' = Committed
      BY <3>1 DEF Committed
    <3>3. SteadyAt(t)'
      BY <1>1, <2>0, <2>1, <3>2 DEF ReadForDelete, ReadForRecover, SteadyAt, Idle
    <3>4. QED
      BY <1>4, <1>5, <3>1, <3>3 DEF SteadyInv
  <2>2. CASE Delete(t) \/ Recover(t)
    <3>1. /\ pc'[t] = "idle" /\ \A u \in Threads \ {t} : Old(u)
      BY <1>1, <2>0, <2>2 DEF Delete, Recover
    <3>2. \A u \in Threads \ {t} : pc[u] \notin {"delete", "recover"}
      BY DEF OneEditor, SteadyInv, SteadyAt
    <3>3. \A u \in Threads : SteadyAt(u)'
      BY <3>1, <3>2 DEF SteadyAt
    <3>4. QED
      BY <1>4, <3>3 DEF SteadyInv
  <2>3. QED
    BY <1>10, <2>1, <2>2 DEF UserChange
<1> HIDE DEF Old, Kind
<1>11. QED
  BY <1>2, <1>7, <1>8, <1>9, <1>10 DEF Next, UserStep, Threads

LEMMA SteadyInitially == Init => SteadyInv
BY DEF Init, SteadyInv, SteadyAt

----------------------------------------------------------------------------
(* No transaction is on the ledger twice, and none the user removed comes   *)
(* back.                                                                    *)

\* Rows and deleted rows all differ in their mark.
Apart(day, table, log) ==
  /\ \A i, j \in DOMAIN table : Mark(day, table[i]) = Mark(day, table[j]) => i = j
  /\ \A k, l \in DOMAIN log : Mark(day, log[k]) = Mark(day, log[l]) => k = l
  /\ \A i \in DOMAIN table, k \in DOMAIN log : Mark(day, table[i]) # Mark(day, log[k])
OnceInv(day) == Apart(day, Committed, tombs) /\ Apart(day, txns, tombs)

\* Lines with one fingerprint have the same cells.
LEMMA SameFingerprint ==
  ASSUME NEW f, NEW n, NEW g, NEW m, Fingerprint(f, n) = Fingerprint(g, m)
  PROVE  Content[f][n].bytes = Content[g][m].bytes
<1>1. \A h, i : Fingerprint(h, i)[1] = Content[h][i].bytes
  BY DEF Fingerprint
<1>2. QED
  BY <1>1

LEMMA SameMark ==
  ASSUME NEW day \in BOOLEAN, NEW r, NEW q, Key(r) = Key(q)
  PROVE  Mark(day, r) = Mark(day, q)
BY DEF Mark, Key, DayAmount

\* A new row is of a day and amount that neither the rows the import loaded
\* nor the deleted ones have, if wordings agree; and never one of theirs.
LEMMA NewMark ==
  ASSUME NEW t \in Threads, NEW day \in BOOLEAN, TypeOK, AtWork, BankInv,
         pc[t] = "rows", Unknown(t), ~ Removed(t), sess[t].pos \in 1 .. Len(Content[sess[t].file]),
         day => OneWording(household.files)
  PROVE  /\ \A i \in DOMAIN rollback.txns : Mark(day, rollback.txns[i]) # Mark(day, Row(t))
         /\ \A k \in DOMAIN tombs : Mark(day, tombs[k]) # Mark(day, Row(t))
<1> DEFINE files == household.files
<1>1. /\ sess[t].base = rollback.txns /\ sess[t].gone = {tombs[k] : k \in DOMAIN tombs}
      /\ sess[t].file \in files /\ BankTable(files, rollback.txns) /\ BankLog(files, tombs)
  BY DEF BankInv, BankSession
<1>2. ~ KeyKnown(t) /\ ~ WordingKnown(t) /\ Row(t).valid
  BY DEF Unknown, Fresh
<1>3. ASSUME NEW r, FromLine(files, r), Mark(day, r) = Mark(day, Row(t))
      PROVE  SameDayAmount(r, Row(t))
             /\ (r.desc = Row(t).desc \/ <<Row(t).desc, r.desc>> \in Similar)
  <2>1. CASE day
    <3>1. DayAmount(r) = DayAmount(Row(t))
      BY <1>3, <2>1 DEF Mark
    <3>2. PICK f \in files : \E n \in 1 .. Len(Content[f]) :
            Content[f][n].valid /\ Key(Content[f][n]) = Key(r)
      BY <1>3 DEF FromLine
    <3>2a. PICK n \in 1 .. Len(Content[f]) :
            Content[f][n].valid /\ Key(Content[f][n]) = Key(r)
      BY <3>2
    <3>3. Content[f][n].desc = r.desc /\ DayAmount(Content[f][n]) = DayAmount(r)
      BY <3>2a DEF Key, DayAmount
    <3>4. \/ Row(t).desc = Content[f][n].desc
          \/ <<Row(t).desc, Content[f][n].desc>> \in Similar
      BY <1>1, <1>2, <2>1, <3>1, <3>2a, <3>3 DEF OneWording, Row
    <3>5. QED
      BY <3>1, <3>3, <3>4 DEF DayAmount, SameDayAmount
  <2>2. CASE ~ day
    BY <1>3, <2>2 DEF Mark, Key, SameDayAmount
  <2>3. QED
    BY <2>1, <2>2
<1>4. ASSUME NEW i \in DOMAIN rollback.txns, Mark(day, rollback.txns[i]) = Mark(day, Row(t))
      PROVE  FALSE
  <2> DEFINE r == rollback.txns[i]
  <2>1. FromLine(files, r)
    BY <1>1 DEF BankTable, Banked
  <2>2. SameDayAmount(r, Row(t)) /\ (r.desc = Row(t).desc \/ <<Row(t).desc, r.desc>> \in Similar)
    BY <1>3, <1>4, <2>1
  <2>3. QED
    BY <1>1, <1>2, <2>2 DEF KeyKnown, WordingKnown, SameDayAmount, Key
<1>5. ASSUME NEW k \in DOMAIN tombs, Mark(day, tombs[k]) = Mark(day, Row(t))
      PROVE  FALSE
  <2> DEFINE r == tombs[k]
  <2>1. FromLine(files, r)
    BY <1>1 DEF BankLog, Banked
  <2>2. SameDayAmount(r, Row(t)) /\ (r.desc = Row(t).desc \/ <<Row(t).desc, r.desc>> \in Similar)
    BY <1>3, <1>5, <2>1
  <2>3. r \in sess[t].gone
    BY <1>1
  <2>4. QED
    BY <2>2, <2>3 DEF Removed
<1>6. QED
  BY <1>4, <1>5

LEMMA OnceInductive ==
  ASSUME NEW day \in BOOLEAN, IInv, BankInv, SteadyInv, OnceInv(day), [Next]_vars,
         StatedOnce(day, household.files), day => OneWording(household.files)
  PROVE  OnceInv(day)'
<1>1. /\ TypeOK /\ AtWork /\ OneWriter
  BY DEF IInv, HashInv
<1>2. CASE Still
  BY <1>2 DEF Still, OnceInv
<1>3. ASSUME NEW t \in Threads, ProcessRow(t), Committed' = Committed
      PROVE  OnceInv(day)'
  <2>1. /\ Turned(t)
        /\ Stays(txns, txns') \/ \E i \in Ids : i \notin DOMAIN txns /\ Added(t, i)
    BY <1>1, <1>3, BankRow
  <2>2. Committed = rollback.txns /\ pc[t] = "rows" /\ tombs' = tombs
    BY <1>1, <2>1, ThreadAssumption DEF Turned, OneWriter, Committed
  <2>3. Holds(rollback.txns, txns) /\ Sourced(t) /\ sess[t].file \in household.files
    BY <2>2 DEF BankInv, BankSession, SteadyInv
  <2>4. Apart(day, txns, tombs)
    BY DEF OnceInv
  <2>5. CASE Stays(txns, txns')
    <3>1. DOMAIN txns' = DOMAIN txns
          /\ \A i \in DOMAIN txns : Mark(day, txns'[i]) = Mark(day, txns[i])
      BY <2>5, SameMark DEF Stays
    <3>2. Apart(day, txns', tombs)
      BY <2>4, <3>1 DEF Apart
    <3>3. QED
      BY <1>3, <2>2, <3>2 DEF OnceInv
  <2>6. ASSUME NEW i \in Ids, i \notin DOMAIN txns, Added(t, i)
        PROVE  OnceInv(day)'
    <3>1. /\ DOMAIN txns' = DOMAIN txns \cup {i}
          /\ \A j \in DOMAIN txns : txns'[j] = txns[j]
          /\ Key(txns'[i]) = Key(Row(t)) /\ Row(t).valid
      BY <2>6 DEF Added, Insert, Key, Unknown, Fresh
    <3>2. Mark(day, txns'[i]) = Mark(day, Row(t))
      BY <3>1, SameMark
    <3>3. sess[t].pos \in 1 .. Len(Content[sess[t].file])
      BY <1>1, <2>1, ReadOn
    <3>4. /\ \A j \in DOMAIN rollback.txns : Mark(day, rollback.txns[j]) # Mark(day, Row(t))
          /\ \A k \in DOMAIN tombs : Mark(day, tombs[k]) # Mark(day, Row(t))
      BY <1>1, <2>2, <2>6, <3>3, NewMark DEF Added
    <3>5. ASSUME NEW j \in DOMAIN txns PROVE Mark(day, txns[j]) # Mark(day, Row(t))
      <4>1. CASE j \in DOMAIN rollback.txns
        <5>1. Mark(day, txns[j]) = Mark(day, rollback.txns[j])
          BY <2>3, <4>1, SameMark DEF Holds
        <5>2. QED
          BY <3>4, <4>1, <5>1
      <4>2. CASE j \notin DOMAIN rollback.txns
        <5>1. PICK n \in Nat : /\ ReadBy(sess[t], n)
                               /\ Key(Content[sess[t].file][n]) = Key(txns[j])
          BY <2>2, <2>3, <4>2 DEF Sourced
        <5>2. /\ n \in 1 .. Len(Content[sess[t].file]) /\ n # sess[t].pos
              /\ Content[sess[t].file][n].valid
          BY <3>3, <5>1 DEF ReadBy
        <5>3. Mark(day, Content[sess[t].file][n]) # Mark(day, Row(t))
          BY <2>3, <3>1, <3>3, <5>2 DEF StatedOnce, Row
        <5>4. QED
          BY <5>1, <5>3, SameMark
      <4>3. QED
        BY <4>1, <4>2
    <3>6. \A j \in DOMAIN txns : Mark(day, txns'[j]) = Mark(day, txns[j])
      BY <3>1
    <3>7. Apart(day, txns', tombs)
      BY <2>4, <3>1, <3>2, <3>4, <3>5, <3>6 DEF Apart
    <3>8. QED
      BY <1>3, <2>2, <3>7 DEF OnceInv
  <2>7. QED
    BY <2>1, <2>5, <2>6
<1>4. ASSUME NEW t \in Threads, Committing(t)
      PROVE  OnceInv(day)'
  BY <1>4 DEF Committing, OnceInv
<1>5. ASSUME NEW i, NEW k, NEW row, Logged(i, k, row)
      PROVE  OnceInv(day)'
  <2>1. /\ DOMAIN txns' = DOMAIN txns \ {i} /\ DOMAIN tombs' = DOMAIN tombs \cup {k}
        /\ \A j \in DOMAIN txns' : txns'[j] = txns[j]
        /\ \A l \in DOMAIN tombs : tombs'[l] = tombs[l]
        /\ i \in DOMAIN txns /\ k \notin DOMAIN tombs /\ tombs'[k] = row
        /\ Committed' = txns'
    BY <1>5 DEF Logged, Without, Insert
  <2>2. Mark(day, row) = Mark(day, txns[i])
    BY <1>5, SameMark DEF Logged
  <2>3. Apart(day, txns', tombs')
    BY <2>1, <2>2 DEF OnceInv, Apart
  <2>4. QED
    BY <2>1, <2>3 DEF OnceInv
<1>6. ASSUME NEW i, NEW k, NEW row, Restored(i, k, row)
      PROVE  OnceInv(day)'
  <2>1. /\ DOMAIN txns' = DOMAIN txns \cup {i} /\ DOMAIN tombs' = DOMAIN tombs \ {k}
        /\ \A j \in DOMAIN txns : txns'[j] = txns[j]
        /\ \A l \in DOMAIN tombs' : tombs'[l] = tombs[l]
        /\ i \notin DOMAIN txns /\ k \in DOMAIN tombs /\ txns'[i] = row
        /\ Committed' = txns'
    BY <1>6 DEF Restored, Without, Insert
  <2>2. Mark(day, row) = Mark(day, tombs[k])
    BY <1>6, SameMark DEF Restored
  <2>3. Apart(day, txns', tombs')
    BY <2>1, <2>2 DEF OnceInv, Apart
  <2>4. QED
    BY <2>1, <2>3 DEF OnceInv
<1>7. QED
  BY <1>2, <1>3, <1>4, <1>5, <1>6, StepKinds

LEMMA OnceInitially == \A day \in BOOLEAN : Init => OnceInv(day)
BY DEF Init, OnceInv, Apart, Committed

\* With exports that state each transaction once and nothing entered or
\* reworded by hand, no transaction is on the ledger twice: not by overlapping
\* imports, not by deleting and recovering, one row at a time, at any moment.
THEOREM OneCopyEach ==
  ASSUME OneEditor
  PROVE  Spec /\ ~ household.ahead /\ StatedOnce(FALSE, household.files)
           => []NoSecondCopy
<1> DEFINE Once == StatedOnce(FALSE, household.files)
<1>1. IInv /\ BankInv /\ SteadyInv /\ OnceInv(FALSE) /\ Once /\ [Next]_vars
        => OnceInv(FALSE)' /\ Once'
  <2>1. [Next]_vars /\ Once => Once'
    BY DEF Next, vars, StatedOnce
  <2>2. QED
    BY <2>1, OnceInductive
<1>2. IInv /\ BankInv /\ SteadyInv /\ [Next]_vars => SteadyInv'
  BY SteadyInductive
<1>3. IInv /\ BankInv /\ [Next]_vars => BankInv'
  BY BankInductive
<1>4. Init => OnceInv(FALSE)
  BY OnceInitially
<1>5. OnceInv(FALSE) => NoSecondCopy
  BY DEF OnceInv, Apart, Mark, NoSecondCopy
<1> HIDE DEF Once
<1>6. Spec /\ ~ household.ahead /\ Once => []NoSecondCopy
  BY Initially, Inductive, BankInitially, SteadyInitially, <1>1, <1>2, <1>3, <1>4, <1>5,
     PTL DEF Spec
<1>7. QED
  BY <1>6 DEF Once

\* A line whose ledger row the user deleted, and did not recover, does not come
\* back, with exports that state an amount of a day once and word it alike.
THEOREM RemovedForGood ==
  ASSUME OneEditor
  PROVE  Spec /\ ~ household.ahead /\ SameCells(household.files)
           /\ StatedOnce(TRUE, household.files) /\ OneWording(household.files)
           => []RemovedStaysRemoved
<1> DEFINE Alike == /\ SameCells(household.files) /\ StatedOnce(TRUE, household.files)
                    /\ OneWording(household.files)
<1>1. IInv /\ BankInv /\ SteadyInv /\ OnceInv(TRUE) /\ Alike /\ [Next]_vars
        => OnceInv(TRUE)' /\ Alike'
  <2>1. [Next]_vars /\ Alike => Alike'
    BY DEF Next, vars, StatedOnce, SameCells, OneWording
  <2>2. QED
    BY <2>1, OnceInductive
<1>2. IInv /\ BankInv /\ SteadyInv /\ [Next]_vars => SteadyInv'
  BY SteadyInductive
<1>3. IInv /\ BankInv /\ [Next]_vars => BankInv'
  BY BankInductive
<1>4. Init => OnceInv(TRUE)
  BY OnceInitially
<1>5. ASSUME BankInv, OnceInv(TRUE), Alike PROVE RemovedStaysRemoved
  <2> DEFINE files == household.files
  <2> SUFFICES ASSUME NEW i \in DOMAIN txns, NEW k \in DOMAIN tombs,
                      txns[i].hash # NoHash, txns[i].hash = tombs[k].lost
               PROVE  FALSE
    BY DEF RemovedStaysRemoved
  <2>1. HashFrom(files, txns[i], txns[i].hash) /\ HashFrom(files, tombs[k], tombs[k].lost)
    BY <1>5 DEF BankInv, BankTable, BankLog, Banked
  <2>2. PICK f \in files : \E n \in 1 .. Len(Content[f]) :
          /\ Content[f][n].valid /\ txns[i].hash = Fingerprint(f, n)
          /\ DayAmount(Content[f][n]) = DayAmount(txns[i])
    BY <2>1 DEF HashFrom
  <2>3. PICK g \in files : \E m \in 1 .. Len(Content[g]) :
          /\ Content[g][m].valid /\ tombs[k].lost = Fingerprint(g, m)
          /\ DayAmount(Content[g][m]) = DayAmount(tombs[k])
    BY <2>1 DEF HashFrom
  <2>4. PICK n \in 1 .. Len(Content[f]) :
          /\ Content[f][n].valid /\ txns[i].hash = Fingerprint(f, n)
          /\ DayAmount(Content[f][n]) = DayAmount(txns[i])
    BY <2>2
  <2>5. PICK m \in 1 .. Len(Content[g]) :
          /\ Content[g][m].valid /\ tombs[k].lost = Fingerprint(g, m)
          /\ DayAmount(Content[g][m]) = DayAmount(tombs[k])
    BY <2>3
  <2>6. Content[f][n].bytes = Content[g][m].bytes
    <3>1. Fingerprint(f, n) = Fingerprint(g, m)
      BY <2>4, <2>5
    <3>2. QED
      BY ONLY <3>1, SameFingerprint
  <2>7. DayAmount(txns[i]) = DayAmount(tombs[k])
    <3>1. SameCells(files) /\ f \in files /\ g \in files
      BY <1>5
    <3>2. DayAmount(Content[f][n]) = DayAmount(Content[g][m])
      BY <2>4, <2>5, <2>6, <3>1 DEF SameCells
    <3>3. QED
      BY <2>4, <2>5, <3>2
  <2>8. QED
    <3>1. Mark(TRUE, txns[i]) = Mark(TRUE, tombs[k])
      BY <2>7 DEF Mark
    <3>2. QED
      BY <1>5, <3>1 DEF OnceInv, Apart
<1> HIDE DEF Alike
<1>6. Spec /\ ~ household.ahead /\ Alike => []RemovedStaysRemoved
  BY Initially, Inductive, BankInitially, SteadyInitially, <1>1, <1>2, <1>3, <1>4, <1>5,
     PTL DEF Spec
<1>7. QED
  BY <1>6 DEF Alike

----------------------------------------------------------------------------
(* What was imported is there, or in the log of deleted rows.               *)

\* A row or a deleted row has the day and amount of r.
Stands(table, log, r) ==
  \/ \E i \in DOMAIN table : DayAmount(table[i]) = DayAmount(r)
  \/ \E k \in DOMAIN log : DayAmount(log[k]) = DayAmount(r)
PresentInv ==
  /\ \A f \in settled : \A n \in 1 .. Len(Content[f]) :
       Content[f][n].valid => Stands(Committed, tombs, Content[f][n])
  /\ \A t \in Threads : pc[t] = "rows" =>
       \A n \in Nat : ReadBy(sess[t], n) => Stands(txns, tombs, Content[sess[t].file][n])

LEMMA StandsOn ==
  ASSUME NEW a, NEW b, NEW log, NEW r, Stands(a, log, r), Holds(a, b)
  PROVE  Stands(b, log, r)
BY DEF Stands, Holds, Key, DayAmount

\* A line whose fingerprint the import knows has the day and amount of a row
\* it loaded or of a line it has read, and, in the second case, is that line.
LEMMA KnownHash ==
  ASSUME NEW t \in Threads, TypeOK, AtWork, BankInv, Turned(t), Row(t).valid, HashKnown(t),
         SameCells(household.files)
  PROVE  \/ \E i \in DOMAIN rollback.txns : DayAmount(rollback.txns[i]) = DayAmount(Row(t))
         \/ \E n \in Nat : /\ ReadBy(sess[t], n)
                           /\ Fingerprint(sess[t].file, n) = RowHash(t)
                           /\ DayAmount(Content[sess[t].file][n]) = DayAmount(Row(t))
<1> DEFINE files == household.files
           file == sess[t].file
<1>1. /\ pc[t] = "rows" /\ sess[t].base = rollback.txns /\ file \in files
      /\ \A h \in sess[t].hashes \ {NoHash} : Knows(sess[t], h)
      /\ BankTable(files, rollback.txns) /\ SameCells(files)
  BY DEF Turned, BankInv, BankSession
<1>2. sess[t].pos \in Nat \ {0} /\ sess[t].pos \in 1 .. Len(Content[file])
  BY ReadOn
<1>3. RowHash(t) # NoHash
  BY DEF RowHash, Fingerprint, NoHash
<1>4. Knows(sess[t], RowHash(t))
  BY <1>1, <1>3 DEF HashKnown
<1>5. ASSUME NEW i \in DOMAIN rollback.txns, rollback.txns[i].hash = RowHash(t)
      PROVE  DayAmount(rollback.txns[i]) = DayAmount(Row(t))
  <2>1. HashFrom(files, rollback.txns[i], RowHash(t))
    BY <1>1, <1>5 DEF BankTable, Banked
  <2>2. PICK g \in files : \E m \in 1 .. Len(Content[g]) :
          /\ Content[g][m].valid /\ RowHash(t) = Fingerprint(g, m)
          /\ DayAmount(Content[g][m]) = DayAmount(rollback.txns[i])
    BY <1>3, <2>1 DEF HashFrom
  <2>3. PICK m \in 1 .. Len(Content[g]) :
          /\ Content[g][m].valid /\ RowHash(t) = Fingerprint(g, m)
          /\ DayAmount(Content[g][m]) = DayAmount(rollback.txns[i])
    BY <2>2
  <2>4. Fingerprint(file, sess[t].pos) = Fingerprint(g, m)
    BY <2>3 DEF RowHash
  <2>5. Content[file][sess[t].pos].bytes = Content[g][m].bytes
    BY ONLY <2>4, SameFingerprint
  <2>6. DayAmount(Content[file][sess[t].pos]) = DayAmount(Content[g][m])
    BY <1>1, <1>2, <2>3, <2>5 DEF SameCells, Row
  <2>7. QED
    BY <2>3, <2>6 DEF Row
<1>6. ASSUME NEW n \in 1 .. sess[t].pos - 1, n <= Len(Content[file]), Content[file][n].valid,
             RowHash(t) = Fingerprint(file, n)
      PROVE  ReadBy(sess[t], n) /\ DayAmount(Content[file][n]) = DayAmount(Row(t))
  <2>1. Fingerprint(file, sess[t].pos) = Fingerprint(file, n)
    BY <1>6 DEF RowHash
  <2>2. Content[file][sess[t].pos].bytes = Content[file][n].bytes
    BY ONLY <2>1, SameFingerprint
  <2>3. n \in 1 .. Len(Content[file])
    BY <1>2, <1>6
  <2>4. DayAmount(Content[file][sess[t].pos]) = DayAmount(Content[file][n])
    BY <1>1, <1>2, <1>6, <2>2, <2>3 DEF SameCells, Row
  <2>5. QED
    BY <1>6, <2>4 DEF ReadBy, Row
<1>7. CASE \E i \in DOMAIN rollback.txns : rollback.txns[i].hash = RowHash(t)
  BY <1>5, <1>7
<1>8. CASE \E n \in 1 .. sess[t].pos - 1 : /\ n <= Len(Content[file]) /\ Content[file][n].valid
                                         /\ RowHash(t) = Fingerprint(file, n)
  <2>1. PICK n \in 1 .. sess[t].pos - 1 : /\ n <= Len(Content[file]) /\ Content[file][n].valid
                                         /\ RowHash(t) = Fingerprint(file, n)
    BY <1>8
  <2>2. n \in Nat /\ ReadBy(sess[t], n) /\ DayAmount(Content[file][n]) = DayAmount(Row(t))
    BY <1>2, <1>6, <2>1
  <2>3. QED
    BY <2>1, <2>2
<1>9. QED
  BY <1>1, <1>4, <1>7, <1>8 DEF Knows

\* A readable row that the import passes over stands already.
LEMMA PassedStands ==
  ASSUME NEW t \in Threads, TypeOK, AtWork, BankInv, PresentInv, Turned(t), Row(t).valid,
         Dropped(t) \/ Repeated(t), SameCells(household.files)
  PROVE  Stands(txns, tombs, Row(t))
<1>1. /\ pc[t] = "rows" /\ sess[t].base = rollback.txns /\ Holds(rollback.txns, txns)
      /\ sess[t].gone = {tombs[k] : k \in DOMAIN tombs} /\ sess[t].rekeyed = {}
  BY DEF Turned, BankInv, BankSession
<1>2. ASSUME NEW i \in DOMAIN rollback.txns, DayAmount(rollback.txns[i]) = DayAmount(Row(t))
      PROVE  Stands(txns, tombs, Row(t))
  BY <1>1, <1>2 DEF Holds, Key, DayAmount, Stands
<1>3. CASE HashKnown(t)
  <2>1. ASSUME NEW n \in Nat, ReadBy(sess[t], n),
               DayAmount(Content[sess[t].file][n]) = DayAmount(Row(t))
        PROVE  Stands(txns, tombs, Row(t))
    <3>1. Stands(txns, tombs, Content[sess[t].file][n])
      BY <1>1, <2>1 DEF PresentInv
    <3>2. QED
      BY <2>1, <3>1 DEF Stands
  <2>2. QED
    BY <1>2, <1>3, <2>1, KnownHash
<1>4. CASE KeyKnown(t) \/ WordingKnown(t) \/ Repeated(t)
  <2>1. \E i \in DOMAIN rollback.txns : DayAmount(rollback.txns[i]) = DayAmount(Row(t))
    BY <1>1, <1>4 DEF KeyKnown, WordingKnown, Repeated, SameDayAmount, Key, DayAmount
  <2>2. QED
    BY <1>2, <2>1
<1>5. CASE Removed(t)
  BY <1>1, <1>5 DEF Removed, SameDayAmount, DayAmount, Stands
<1>6. QED
  BY <1>3, <1>4, <1>5 DEF Dropped

LEMMA PresentInductive ==
  ASSUME IInv, BankInv, SteadyInv, PresentInv, [Next]_vars, SameCells(household.files)
  PROVE  PresentInv'
<1>1. TypeOK /\ AtWork /\ OneWriter
  BY DEF IInv, HashInv
<1> DEFINE Before == \A f \in settled' : \A n \in 1 .. Len(Content[f]) :
                       Content[f][n].valid => Stands(Committed', tombs', Content[f][n])
           Now(t) == \A n \in Nat : ReadBy(sess'[t], n) =>
                       Stands(txns', tombs', Content[sess'[t].file][n])
<1>2. SUFFICES Before /\ \A t \in Threads : pc'[t] = "rows" => Now(t)
  BY DEF PresentInv
<1>3. CASE Still
  <2>1. Before
    BY <1>3 DEF Still, PresentInv
  <2>2. ASSUME NEW t \in Threads, pc'[t] = "rows" PROVE Now(t)
    <3>1. CASE pc[t] = "rows" /\ sess'[t] = sess[t] /\ txns' = txns
      BY <1>3, <3>1 DEF Still, PresentInv
    <3>2. CASE sess'[t].pos = 1
      BY <3>2 DEF ReadBy
    <3>3. QED
      BY <1>3, <2>2, <3>1, <3>2 DEF Still
  <2>3. QED
    BY <2>1, <2>2
<1>4. ASSUME NEW t \in Threads, ProcessRow(t), Committed' = Committed,
             \A u \in Threads \ {t} : pc'[u] # "rows"
      PROVE  Before /\ \A u \in Threads : pc'[u] = "rows" => Now(u)
  <2>1. /\ Turned(t)
        /\ \/ Stays(txns, txns') /\ (Dropped(t) \/ Repeated(t))
           \/ \E i \in Ids : i \notin DOMAIN txns /\ Added(t, i)
    BY <1>1, <1>4, BankRow
  <2>2. Before
    BY <1>4, <2>1 DEF Turned, PresentInv
  <2>3. Holds(txns, txns')
    <3>1. ASSUME NEW i \in Ids, i \notin DOMAIN txns, Added(t, i) PROVE Holds(txns, txns')
      BY <3>1 DEF Added, Insert, Holds
    <3>2. QED
      BY <2>1, <3>1 DEF Stays, Holds
  <2>4. Row(t).valid => Stands(txns', tombs', Row(t))
    <3>1. CASE Dropped(t) \/ Repeated(t)
      BY <1>1, <2>1, <2>3, <3>1, PassedStands, StandsOn DEF Turned
    <3>2. ASSUME NEW i \in Ids, i \notin DOMAIN txns, Added(t, i)
          PROVE  Stands(txns', tombs', Row(t))
      <4>1. i \in DOMAIN txns' /\ DayAmount(txns'[i]) = DayAmount(Row(t))
        BY <3>2 DEF Added, Insert, DayAmount
      <4>2. QED
        BY <4>1 DEF Stands
    <3>3. QED
      BY <2>1, <3>1, <3>2
  <2>5. Now(t)
    <3>1. ASSUME NEW n \in Nat, ReadBy(sess'[t], n)
          PROVE  Stands(txns', tombs', Content[sess'[t].file][n])
      <4>1. /\ sess'[t].file = sess[t].file
            /\ ReadBy(sess[t], n) \/ n = sess[t].pos
        BY <1>1, <2>1, <3>1, ReadOn
      <4>2. CASE ReadBy(sess[t], n)
        BY <2>1, <2>3, <4>1, <4>2, StandsOn DEF PresentInv, Turned
      <4>3. CASE n = sess[t].pos
        BY <2>4, <3>1, <4>1, <4>3 DEF ReadBy, Row
      <4>4. QED
        BY <4>1, <4>2, <4>3
    <3>2. QED
      BY <3>1
  <2>6. QED
    BY <1>4, <2>2, <2>5
<1>5. ASSUME NEW t \in Threads, Committing(t)
      PROVE  Before /\ \A u \in Threads : pc'[u] = "rows" => Now(u)
  <2>1. /\ Committed = rollback.txns /\ Holds(rollback.txns, txns)
        /\ sess[t].file \in Files
    BY <1>1, <1>5, ThreadAssumption
    DEF Committing, OneWriter, Committed, BankInv, BankSession, AtWork
  <2>2. ASSUME NEW n \in 1 .. Len(Content[sess[t].file]), Content[sess[t].file][n].valid
        PROVE  Stands(txns, tombs, Content[sess[t].file][n])
    <3>1. sess[t].pos \in Nat /\ Len(Content[sess[t].file]) \in Nat
      BY <1>1, <2>1, ContentAssumption DEF TypeOK, IsSession
    <3>2. n \in Nat /\ ReadBy(sess[t], n)
      BY <1>5, <2>2, <3>1 DEF Committing, ReadBy
    <3>3. QED
      BY <1>5, <3>2 DEF Committing, PresentInv
  <2>3. Before
    BY <1>5, <2>1, <2>2, StandsOn DEF Committing, PresentInv
  <2>4. QED
    BY <1>5, <2>3 DEF Committing
<1>6. ASSUME NEW i, NEW k, NEW row, Logged(i, k, row)
      PROVE  Before /\ \A u \in Threads : pc'[u] = "rows" => Now(u)
  <2>1. ASSUME NEW r, Stands(txns, tombs, r) PROVE Stands(txns', tombs', r)
    <3>1. /\ DOMAIN txns' = DOMAIN txns \ {i} /\ DOMAIN tombs' = DOMAIN tombs \cup {k}
          /\ \A j \in DOMAIN txns' : txns'[j] = txns[j]
          /\ \A l \in DOMAIN tombs : tombs'[l] = tombs[l]
          /\ i \in DOMAIN txns /\ k \notin DOMAIN tombs /\ tombs'[k] = row
          /\ DayAmount(row) = DayAmount(txns[i])
      BY <1>6 DEF Logged, Without, Insert, Key, DayAmount
    <3>2. QED
      BY <2>1, <3>1 DEF Stands
  <2>2. QED
    BY <1>6, <2>1 DEF Logged, PresentInv
<1>7. ASSUME NEW i, NEW k, NEW row, Restored(i, k, row)
      PROVE  Before /\ \A u \in Threads : pc'[u] = "rows" => Now(u)
  <2>1. ASSUME NEW r, Stands(txns, tombs, r) PROVE Stands(txns', tombs', r)
    <3>1. /\ DOMAIN txns' = DOMAIN txns \cup {i} /\ DOMAIN tombs' = DOMAIN tombs \ {k}
          /\ \A j \in DOMAIN txns : txns'[j] = txns[j]
          /\ \A l \in DOMAIN tombs' : tombs'[l] = tombs[l]
          /\ i \notin DOMAIN txns /\ k \in DOMAIN tombs /\ txns'[i] = row
          /\ DayAmount(row) = DayAmount(tombs[k])
      BY <1>7 DEF Restored, Without, Insert, Key, DayAmount
    <3>2. QED
      BY <2>1, <3>1 DEF Stands
  <2>2. QED
    BY <1>7, <2>1 DEF Restored, PresentInv
<1> HIDE DEF Before, Now
<1>8. QED
  BY <1>3, <1>4, <1>5, <1>6, <1>7, StepKinds

\* Importing a file again never creates a row, whatever was imported, deleted
\* and recovered since, with nothing entered or reworded by hand and lines of
\* one day and amount worded alike.
THEOREM AgainIsNothing ==
  ASSUME OneEditor
  PROVE  Spec /\ ~ household.ahead /\ SameCells(household.files)
           /\ OneWording(household.files)
           => ReimportAddsNothing
<1> DEFINE Alike == SameCells(household.files) /\ OneWording(household.files)
           Step == \A t \in Threads :
                     ~ household.ahead /\ lock = t /\ sess[t].file \in settled
                       => DOMAIN txns' \subseteq DOMAIN txns
<1>1. IInv /\ BankInv /\ SteadyInv /\ PresentInv /\ Alike /\ [Next]_vars
        => PresentInv' /\ Alike'
  <2>1. [Next]_vars /\ Alike => Alike'
    BY DEF Next, vars, SameCells, OneWording
  <2>2. QED
    BY <2>1, PresentInductive
<1>2. IInv /\ BankInv /\ SteadyInv /\ [Next]_vars => SteadyInv'
  BY SteadyInductive
<1>3. IInv /\ BankInv /\ [Next]_vars => BankInv'
  BY BankInductive
<1>4. Init => PresentInv
  BY DEF Init, PresentInv
<1>5. ASSUME IInv, BankInv, SteadyInv, PresentInv, Alike, [Next]_vars PROVE Step
  <2>1. TypeOK /\ AtWork /\ OneWriter
    BY <1>5 DEF IInv, HashInv
  <2> SUFFICES ASSUME NEW t \in Threads, lock = t, sess[t].file \in settled
               PROVE  DOMAIN txns' \subseteq DOMAIN txns
    OBVIOUS
  <2>2. lock # NoThread /\ Committed = rollback.txns /\ pc[t] \in {"load", "rows"}
    BY <2>1, ThreadAssumption DEF OneWriter, Committed
  <2>3. Holds(rollback.txns, txns)
    BY <1>5, <2>2 DEF BankInv, BankSession
  <2>4. CASE Still \/ \E u \in Threads : Committing(u)
    BY <2>2, <2>3, <2>4 DEF Still, Committing, Holds
  <2>5. ASSUME NEW u \in Threads, ProcessRow(u)
        PROVE  DOMAIN txns' \subseteq DOMAIN txns
    <3>1. /\ Turned(u)
          /\ Stays(txns, txns') \/ \E i \in Ids : i \notin DOMAIN txns /\ Added(u, i)
      BY <1>5, <2>1, <2>5, BankRow
    <3>2. u = t /\ pc[t] = "rows"
      BY <2>1, <3>1 DEF Turned, OneWriter
    <3>3. CASE Stays(txns, txns')
      BY <3>3 DEF Stays
    <3>4. ASSUME NEW i \in Ids, Added(t, i) PROVE FALSE
      <4>1. sess[t].pos \in 1 .. Len(Content[sess[t].file])
        BY <2>1, <3>1, <3>2, ReadOn
      <4>2. /\ \A j \in DOMAIN rollback.txns :
                 Mark(TRUE, rollback.txns[j]) # Mark(TRUE, Row(t))
            /\ \A k \in DOMAIN tombs : Mark(TRUE, tombs[k]) # Mark(TRUE, Row(t))
        BY <1>5, <2>1, <3>2, <3>4, <4>1, NewMark DEF Added
      <4>3. Row(t).valid
        BY <3>4 DEF Added, Unknown, Fresh
      <4>4. Stands(rollback.txns, tombs, Row(t))
        BY <1>5, <2>2, <4>1, <4>3 DEF PresentInv, Row
      <4>5. QED
        BY <4>2, <4>4 DEF Stands, Mark
    <3>5. QED
      BY <3>1, <3>2, <3>3, <3>4
  <2>6. ~ \E i, k, row : Logged(i, k, row) \/ Restored(i, k, row)
    BY <2>2 DEF Logged, Restored, WriteLockFree
  <2>7. QED
    BY <1>5, <2>4, <2>5, <2>6, StepKinds
<1>6. IInv /\ BankInv /\ SteadyInv /\ PresentInv /\ Alike /\ [Next]_vars => [Step]_vars
  BY <1>5
<1> HIDE DEF Alike
<1>7. Spec /\ ~ household.ahead /\ Alike => [][Step]_vars
  BY Initially, Inductive, BankInitially, SteadyInitially, <1>1, <1>2, <1>3, <1>4, <1>6,
     PTL DEF Spec
<1>8. QED
  BY <1>7 DEF Alike, ReimportAddsNothing

----------------------------------------------------------------------------
(* No row of an imported file is lost.                                      *)

\* The rows of a table of one day and amount, the lines of that day and
\* amount an import has read, and how often the ledger and the log have it.
With(table, q) == {i \in DOMAIN table : DayAmount(table[i]) = q}
LinesOf(f, q) ==
  {n \in 1 .. Len(Content[f]) : Content[f][n].valid /\ DayAmount(Content[f][n]) = q}
ReadOf(s, q) == {n \in LinesOf(s.file, q) : n < s.pos}
Total(table, log, q) == Cardinality(With(table, q)) + Cardinality(With(log, q))

\* A day and amount the ledger knows at all it knows often enough for every
\* file; one it did not know when an import began is entered as it is read.
FullInv ==
  /\ \A f \in household.files : \A q \in DOMAIN Stated[f] :
       Total(Committed, tombs, q) = 0 \/ Stated[f][q] <= Total(Committed, tombs, q)
  /\ \A f \in settled : \A q \in DOMAIN Stated[f] :
       Stated[f][q] <= Total(Committed, tombs, q)
  /\ \A t \in Threads : pc[t] = "rows" => \A q \in DOMAIN Stated[sess[t].file] :
       Total(Committed, tombs, q) = 0 =>
         Cardinality(ReadOf(sess[t], q)) <= Cardinality(With(txns, q))

LEMMA WithFinite ==
  ASSUME NEW table, NEW range, NEW N \in Nat, IsTable(table, range, 1 .. N), NEW q
  PROVE  /\ IsFiniteSet(With(table, q)) /\ Cardinality(With(table, q)) \in Nat
         /\ Cardinality(With(table, q)) = 0 <=> With(table, q) = {}
<1>1. With(table, q) \subseteq 1 .. N /\ IsFiniteSet(1 .. N)
  BY FS_Interval DEF With, IsTable
<1>2. IsFiniteSet(With(table, q))
  BY <1>1, FS_Subset
<1>3. QED
  BY <1>2, FS_CardinalityType, FS_EmptySet

LEMMA LinesFinite ==
  ASSUME NEW f \in Files, NEW q
  PROVE  IsFiniteSet(LinesOf(f, q)) /\ Cardinality(LinesOf(f, q)) \in Nat
<1>1. Len(Content[f]) \in Nat
  BY ContentAssumption
<1>2. LinesOf(f, q) \subseteq 1 .. Len(Content[f]) /\ IsFiniteSet(1 .. Len(Content[f]))
  BY <1>1, FS_Interval DEF LinesOf
<1>3. QED
  BY <1>2, FS_Subset, FS_CardinalityType

\* What Stated counts.
LEMMA StatedIs ==
  ASSUME NEW f \in Files
  PROVE  /\ \A n \in 1 .. Len(Content[f]) :
              Content[f][n].valid => DayAmount(Content[f][n]) \in DOMAIN Stated[f]
         /\ \A q \in DOMAIN Stated[f] : Stated[f][q] = Cardinality(LinesOf(f, q))
<1> DEFINE lines == {n \in 1 .. Len(Content[f]) : Content[f][n].valid}
<1>1. Stated[f] = [q \in {DayAmount(Content[f][n]) : n \in lines} |->
                     Cardinality({n \in lines : DayAmount(Content[f][n]) = q})]
  BY DEF Stated
<1>2. DOMAIN Stated[f] = {DayAmount(Content[f][n]) : n \in lines}
  BY <1>1
<1>3. \A q : {n \in lines : DayAmount(Content[f][n]) = q} = LinesOf(f, q)
  BY DEF LinesOf
<1>4. \A q \in DOMAIN Stated[f] : Stated[f][q] = Cardinality(LinesOf(f, q))
  BY <1>1, <1>2, <1>3
<1>5. QED
  BY <1>2, <1>3, <1>4

\* A line's fingerprint is not that of an earlier line of its file.
LEMMA FingerprintsDiffer ==
  ASSUME NEW f \in Files, NEW n \in 1 .. Len(Content[f]), NEW m \in 1 .. n - 1,
         Content[f][m].valid
  PROVE  Fingerprint(f, m) # Fingerprint(f, n)
<1> DEFINE Same(i) == {j \in 1 .. i - 1 : /\ Content[f][j].valid
                                          /\ Content[f][j].bytes = Content[f][i].bytes}
<1>1. n \in Nat /\ m \in Nat /\ m < n
  BY ContentAssumption
<1>2. SUFFICES ASSUME Content[f][m].bytes = Content[f][n].bytes
               PROVE  Cardinality(Same(m)) # Cardinality(Same(n))
  <2>1. \A i : Fingerprint(f, i) = <<Content[f][i].bytes, Cardinality(Same(i))>>
    BY DEF Fingerprint
  <2> HIDE DEF Same
  <2>2. QED
    BY <1>2, <2>1
<1>3. IsFiniteSet(Same(n)) /\ IsFiniteSet(Same(m))
  <2>1. IsFiniteSet(1 .. n - 1) /\ IsFiniteSet(1 .. m - 1)
    <3>1. \A i \in Nat : IsFiniteSet(1 .. i - 1)
      BY FS_Interval
    <3>2. QED
      BY <1>1, <3>1
  <2>2. Same(n) \subseteq 1 .. n - 1 /\ Same(m) \subseteq 1 .. m - 1
    OBVIOUS
  <2> HIDE DEF Same
  <2>3. QED
    BY <2>1, <2>2, FS_Subset
<1>4. Same(m) \cup {m} \subseteq Same(n) /\ m \notin Same(m)
  BY <1>1, <1>2
<1> HIDE DEF Same
<1>5. Cardinality(Same(m) \cup {m}) = Cardinality(Same(m)) + 1
  BY <1>3, <1>4, FS_AddElement
<1>6. Cardinality(Same(m) \cup {m}) <= Cardinality(Same(n))
  BY <1>3, <1>4, FS_Subset
<1>7. Cardinality(Same(m)) \in Nat /\ Cardinality(Same(n)) \in Nat
  BY <1>3, FS_CardinalityType
<1>8. QED
  BY <1>5, <1>6, <1>7

\* Moving a row from one table to the other leaves the totals alone.
LEMMA MoveKeepsTotal ==
  ASSUME NEW a, NEW b, NEW R, NEW S, NEW M \in Nat, NEW N \in Nat,
         IsTable(a, R, 1 .. M), IsTable(b, S, 1 .. N), NEW q,
         NEW i \in DOMAIN a, NEW k, k \notin DOMAIN b, NEW row, Key(row) = Key(a[i])
  PROVE  Total(Without(a, i), Insert(b, k, row), q) = Total(a, b, q)
<1>1. DayAmount(row) = DayAmount(a[i])
  BY DEF Key, DayAmount
<1>2. /\ IsFiniteSet(With(a, q)) /\ IsFiniteSet(With(b, q))
      /\ Cardinality(With(a, q)) \in Nat /\ Cardinality(With(b, q)) \in Nat
  BY WithFinite
<1>3. CASE DayAmount(row) = q
  <2>1. With(Without(a, i), q) = With(a, q) \ {i} /\ i \in With(a, q)
    BY <1>1, <1>3 DEF With, Without
  <2>2. With(Insert(b, k, row), q) = With(b, q) \cup {k} /\ k \notin With(b, q)
    BY <1>3 DEF With, Insert
  <2>3. Cardinality(With(a, q) \ {i}) = Cardinality(With(a, q)) - 1
    BY <1>2, <2>1, FS_RemoveElement
  <2>4. Cardinality(With(b, q) \cup {k}) = Cardinality(With(b, q)) + 1
    BY <1>2, <2>2, FS_AddElement
  <2>5. QED
    BY <1>2, <2>1, <2>2, <2>3, <2>4 DEF Total
<1>4. CASE DayAmount(row) # q
  <2>1. With(Without(a, i), q) = With(a, q)
    BY <1>1, <1>4 DEF With, Without
  <2>2. With(Insert(b, k, row), q) = With(b, q)
    BY <1>4 DEF With, Insert
  <2>3. QED
    BY <2>1, <2>2 DEF Total
<1>5. QED
  BY <1>3, <1>4

\* A readable row the import passes over repeats a row or a deleted row that
\* was there when it began.
LEMMA PassedFor ==
  ASSUME NEW t \in Threads, TypeOK, AtWork, BankInv, Turned(t), Row(t).valid,
         Dropped(t) \/ Repeated(t), SameCells(household.files)
  PROVE  With(rollback.txns, DayAmount(Row(t))) # {} \/ With(tombs, DayAmount(Row(t))) # {}
<1>1. /\ pc[t] = "rows" /\ sess[t].base = rollback.txns
      /\ sess[t].gone = {tombs[k] : k \in DOMAIN tombs} /\ sess[t].rekeyed = {}
      /\ sess[t].file \in Files
  BY DEF Turned, BankInv, BankSession
<1>2. CASE HashKnown(t)
  <2>1. ASSUME NEW n \in Nat, ReadBy(sess[t], n), Fingerprint(sess[t].file, n) = RowHash(t)
        PROVE  FALSE
    <3>1. /\ sess[t].pos \in 1 .. Len(Content[sess[t].file])
          /\ n \in 1 .. sess[t].pos - 1 /\ Content[sess[t].file][n].valid
      BY <2>1, ReadOn DEF ReadBy
    <3>2. QED
      BY <1>1, <2>1, <3>1, FingerprintsDiffer DEF RowHash
  <2>2. QED
    BY <1>2, <2>1, KnownHash DEF With
<1>3. CASE KeyKnown(t) \/ WordingKnown(t) \/ Repeated(t)
  BY <1>1, <1>3 DEF KeyKnown, WordingKnown, Repeated, SameDayAmount, Key, DayAmount, With
<1>4. CASE Removed(t)
  BY <1>1, <1>4 DEF Removed, SameDayAmount, DayAmount, With
<1>5. QED
  BY <1>2, <1>3, <1>4 DEF Dropped

\* As many rows of a day and amount nobody knew of are entered as are read.
LEMMA RowCounts ==
  ASSUME NEW t \in Threads, IInv, BankInv, ProcessRow(t), SameCells(household.files),
         NEW q, With(rollback.txns, q) = {}, With(tombs, q) = {}
  PROVE  /\ \A s \in {ReadOf(sess[t], q), ReadOf(sess'[t], q), With(txns, q), With(txns', q)} :
              Cardinality(s) \in Nat
         /\ Cardinality(ReadOf(sess'[t], q)) - Cardinality(ReadOf(sess[t], q))
              = Cardinality(With(txns', q)) - Cardinality(With(txns, q))
<1> DEFINE file == sess[t].file
           pos == sess[t].pos
<1>1. TypeOK /\ AtWork
  BY DEF IInv
<1>2. /\ Turned(t)
      /\ \/ Stays(txns, txns') /\ (Dropped(t) \/ Repeated(t))
         \/ \E i \in Ids : i \notin DOMAIN txns /\ Added(t, i)
  BY <1>1, BankRow
<1>3. /\ pos \in 1 .. Len(Content[file]) /\ file \in Files
      /\ sess'[t].file = file /\ sess'[t].pos = pos + 1
  BY <1>1, <1>2, ReadOn DEF Turned, AtRow, AtWork
<1>4. IsFiniteSet(With(txns, q)) /\ Cardinality(With(txns, q)) \in Nat
  BY <1>1, BoundAssumption, WithFinite DEF TypeOK, Ids
<1>5. IsFiniteSet(ReadOf(sess[t], q)) /\ Cardinality(ReadOf(sess[t], q)) \in Nat
  <2>1. ReadOf(sess[t], q) \subseteq LinesOf(file, q)
    BY DEF ReadOf
  <2>2. QED
    BY <1>3, <2>1, LinesFinite, FS_Subset, FS_CardinalityType
<1>6. CASE pos \notin LinesOf(file, q)
  <2>1. ReadOf(sess'[t], q) = ReadOf(sess[t], q)
    BY <1>3, <1>6 DEF ReadOf, LinesOf
  <2>2. CASE Stays(txns, txns')
    <3>1. With(txns', q) = With(txns, q)
      BY <2>2 DEF Stays, With, Key, DayAmount
    <3>2. QED
      BY <1>4, <1>5, <2>1, <3>1
  <2>3. ASSUME NEW i \in Ids, i \notin DOMAIN txns, Added(t, i)
        PROVE  With(txns', q) = With(txns, q)
    <3>1. /\ DOMAIN txns' = DOMAIN txns \cup {i} /\ DayAmount(txns'[i]) = DayAmount(Row(t))
          /\ \A j \in DOMAIN txns : txns'[j] = txns[j]
          /\ Row(t).valid
      BY <2>3 DEF Added, Insert, DayAmount, Unknown, Fresh
    <3>2. DayAmount(Row(t)) # q
      BY <1>3, <1>6, <3>1 DEF LinesOf, Row
    <3>3. QED
      BY <2>3, <3>1, <3>2 DEF With
  <2>4. QED
    BY <1>2, <1>4, <1>5, <2>1, <2>2, <2>3
<1>7. CASE pos \in LinesOf(file, q)
  <2>1. Row(t).valid /\ DayAmount(Row(t)) = q
    BY <1>7 DEF LinesOf, Row
  <2>2. ~ (Dropped(t) \/ Repeated(t))
    BY <1>1, <1>2, <2>1, PassedFor
  <2>3. PICK i \in Ids : i \notin DOMAIN txns /\ Added(t, i)
    BY <1>2, <2>2
  <2>4. With(txns', q) = With(txns, q) \cup {i} /\ i \notin With(txns, q)
    <3>1. /\ DOMAIN txns' = DOMAIN txns \cup {i} /\ DayAmount(txns'[i]) = DayAmount(Row(t))
          /\ \A j \in DOMAIN txns : txns'[j] = txns[j]
      BY <2>3 DEF Added, Insert, DayAmount
    <3>2. QED
      BY <2>1, <2>3, <3>1 DEF With
  <2>5. Cardinality(With(txns', q)) = Cardinality(With(txns, q)) + 1
    BY <1>4, <2>4, FS_AddElement
  <2>6. ReadOf(sess'[t], q) = ReadOf(sess[t], q) \cup {pos} /\ pos \notin ReadOf(sess[t], q)
    BY <1>3, <1>7 DEF ReadOf, LinesOf
  <2>7. Cardinality(ReadOf(sess'[t], q)) = Cardinality(ReadOf(sess[t], q)) + 1
    BY <1>5, <2>6, FS_AddElement
  <2>8. QED
    BY <1>4, <1>5, <2>5, <2>7
<1>8. QED
  BY <1>6, <1>7

LEMMA FullInductive ==
  ASSUME IInv, BankInv, SteadyInv, FullInv, [Next]_vars,
         SameCells(household.files), WholeDays(household.files)
  PROVE  FullInv'
<1> DEFINE files == household.files
<1>1. /\ TypeOK /\ AtWork /\ OneWriter /\ files \subseteq Files /\ settled \subseteq files
      /\ UNCHANGED household
  BY DEF IInv, HashInv, BankInv, Next, vars
<1>2. /\ IsTable(txns, Txn, 1 .. MaxId) /\ IsTable(tombs, Tomb, 1 .. MaxTombs)
      /\ IsTable(Committed, Txn, 1 .. MaxId) /\ MaxId \in Nat /\ MaxTombs \in Nat
  BY <1>1, BoundAssumption DEF TypeOK, Ids, Committed
<1>3. ASSUME NEW q
      PROVE  /\ Total(Committed, tombs, q) \in Nat
             /\ IsFiniteSet(With(txns, q)) /\ Cardinality(With(txns, q)) \in Nat
             /\ Total(Committed, tombs, q) = 0 =>
                  With(Committed, q) = {} /\ With(tombs, q) = {}
             /\ Cardinality(With(tombs, q)) \in Nat /\ Cardinality(With(Committed, q)) \in Nat
  <2>1. /\ IsFiniteSet(With(Committed, q)) /\ Cardinality(With(Committed, q)) \in Nat
        /\ Cardinality(With(Committed, q)) = 0 <=> With(Committed, q) = {}
    BY <1>2, WithFinite
  <2>2. /\ IsFiniteSet(With(tombs, q)) /\ Cardinality(With(tombs, q)) \in Nat
        /\ Cardinality(With(tombs, q)) = 0 <=> With(tombs, q) = {}
    BY <1>2, WithFinite
  <2>3. IsFiniteSet(With(txns, q)) /\ Cardinality(With(txns, q)) \in Nat
    BY <1>2, WithFinite
  <2>4. QED
    BY <2>1, <2>2, <2>3 DEF Total
<1>4. ASSUME NEW f \in files, NEW q \in DOMAIN Stated[f]
      PROVE  Stated[f][q] = Cardinality(LinesOf(f, q)) /\ Stated[f][q] \in Nat
  BY <1>1, <1>4, StatedIs, LinesFinite
<1> DEFINE Old(q) == Total(Committed, tombs, q)
           New(q) == Total(Committed', tombs', q)
           Enough == \A f \in files : \A q \in DOMAIN Stated[f] :
                       New(q) = 0 \/ Stated[f][q] <= New(q)
           Safe == \A f \in settled' : \A q \in DOMAIN Stated[f] : Stated[f][q] <= New(q)
           Going(t) == \A q \in DOMAIN Stated[sess'[t].file] : New(q) = 0 =>
                         Cardinality(ReadOf(sess'[t], q)) <= Cardinality(With(txns', q))
<1>5. SUFFICES Enough /\ Safe /\ \A t \in Threads : pc'[t] = "rows" => Going(t)
  BY <1>1 DEF FullInv
<1>6. ASSUME \A q : New(q) = Old(q), UNCHANGED settled
      PROVE  Enough /\ Safe
  BY <1>6 DEF FullInv
<1>7. CASE Still
  <2>1. (\A q : New(q) = Old(q)) /\ UNCHANGED settled
    BY <1>7 DEF Still
  <2>2. ASSUME NEW t \in Threads, pc'[t] = "rows" PROVE Going(t)
    <3>1. CASE pc[t] = "rows" /\ sess'[t] = sess[t] /\ txns' = txns
      BY <2>1, <3>1 DEF FullInv
    <3>2. CASE sess'[t].pos = 1 /\ txns' = Committed
      <4>1. \A q : ReadOf(sess'[t], q) = {}
        BY <3>2 DEF ReadOf, LinesOf
      <4>2. \A q : Cardinality(ReadOf(sess'[t], q)) = 0
        BY <4>1, FS_EmptySet
      <4>3. \A q : Cardinality(With(txns', q)) \in Nat
        BY <1>3, <3>2
      <4>4. QED
        BY <4>2, <4>3
    <3>3. QED
      BY <1>7, <2>2, <3>1, <3>2 DEF Still
  <2>3. QED
    BY <1>6, <2>1, <2>2
<1>8. ASSUME NEW t \in Threads, ProcessRow(t), Committed' = Committed,
             \A u \in Threads \ {t} : pc'[u] # "rows"
      PROVE  Enough /\ Safe /\ \A u \in Threads : pc'[u] = "rows" => Going(u)
  <2>1. Turned(t)
    BY <1>1, <1>8, RowOutcome
  <2>2. (\A q : New(q) = Old(q)) /\ UNCHANGED settled
    BY <1>8, <2>1 DEF Turned
  <2>3. Committed = rollback.txns
    BY <1>1, <2>1, ThreadAssumption DEF Turned, OneWriter, Committed
  <2>4. Going(t)
    <3>1. ASSUME NEW q \in DOMAIN Stated[sess[t].file], Old(q) = 0
          PROVE  Cardinality(ReadOf(sess'[t], q)) <= Cardinality(With(txns', q))
      <4>1. Cardinality(ReadOf(sess[t], q)) <= Cardinality(With(txns, q))
        BY <2>1, <3>1 DEF Turned, FullInv
      <4>2. With(rollback.txns, q) = {} /\ With(tombs, q) = {}
        BY <1>3, <2>3, <3>1
      <4>3. QED
        BY ONLY <1>8, <4>1, <4>2, RowCounts, IInv, BankInv, SameCells(household.files)
    <3>2. sess'[t].file = sess[t].file
      BY <2>1 DEF Turned
    <3>3. QED
      BY <2>2, <3>1, <3>2
  <2>5. QED
    BY <1>6, <1>8, <2>2, <2>4
<1>9. ASSUME NEW t \in Threads, Committing(t)
      PROVE  Enough /\ Safe /\ \A u \in Threads : pc'[u] = "rows" => Going(u)
  <2> DEFINE file == sess[t].file
  <2>1. /\ Committed = rollback.txns /\ Holds(Committed, txns) /\ file \in files
        /\ Sourced(t) /\ pc[t] = "rows" /\ file \in Files
    BY <1>1, <1>9, ThreadAssumption
    DEF Committing, OneWriter, Committed, BankInv, BankSession, SteadyInv
  <2>2. Committed' = txns /\ tombs' = tombs /\ settled' = settled \cup {file}
    BY <1>9 DEF Committing
  <2>3. ASSUME NEW q PROVE New(q) \in Nat /\ Old(q) <= New(q)
                           /\ New(q) = Cardinality(With(txns, q)) + Cardinality(With(tombs, q))
    <3>1. With(Committed, q) \subseteq With(txns, q)
      BY <2>1 DEF With, Holds, Key, DayAmount
    <3>2. Cardinality(With(Committed, q)) <= Cardinality(With(txns, q))
      BY <1>3, <3>1, FS_Subset
    <3>3. QED
      BY <1>3, <2>2, <3>2 DEF Total
  <2>4. ASSUME NEW q \in DOMAIN Stated[file], Old(q) = 0
        PROVE  Stated[file][q] <= New(q)
    <3>1. ReadOf(sess[t], q) = LinesOf(file, q)
      <4>1. sess[t].pos \in Nat /\ Len(Content[file]) \in Nat
        BY <1>1, <2>1, ContentAssumption DEF TypeOK, IsSession
      <4>2. QED
        BY <1>9, <4>1 DEF Committing, ReadOf, LinesOf
    <3>2. Cardinality(ReadOf(sess[t], q)) <= Cardinality(With(txns, q))
      BY <2>1, <2>4 DEF FullInv
    <3>3. Stated[file][q] = Cardinality(LinesOf(file, q)) /\ Stated[file][q] \in Nat
      BY <1>4, <2>1, <2>4
    <3>4. QED
      BY <1>3, <2>3, <3>1, <3>2, <3>3
  <2>5. Enough
    <3>1. ASSUME NEW f \in files, NEW q \in DOMAIN Stated[f], New(q) # 0
          PROVE  Stated[f][q] <= New(q)
      <4>1. CASE Old(q) # 0
        <5>1. Stated[f][q] <= Old(q)
          BY <3>1, <4>1 DEF FullInv
        <5>2. QED
          BY <1>3, <1>4, <2>3, <5>1
      <4>2. CASE Old(q) = 0
        <5>1. With(Committed, q) = {} /\ With(tombs, q) = {}
          BY <1>3, <4>2
        <5>2. PICK i \in With(txns, q) : i \notin DOMAIN Committed
          <6>1. With(txns, q) # {}
            BY <2>3, <3>1, <5>1, FS_EmptySet
          <6>2. \A i \in With(txns, q) : i \notin DOMAIN Committed
            BY <2>1, <5>1 DEF With, Holds, Key, DayAmount
          <6>3. QED
            BY <6>1, <6>2
        <5>3. PICK n \in Nat : /\ ReadBy(sess[t], n)
                               /\ Key(Content[file][n]) = Key(txns[i])
          BY <2>1, <5>2 DEF Sourced, With
        <5>4. n \in 1 .. Len(Content[file]) /\ Content[file][n].valid
              /\ DayAmount(Content[file][n]) = q
          <6>1. Len(Content[file]) \in Nat
            BY <2>1, ContentAssumption
          <6>2. QED
            BY <5>2, <5>3, <6>1 DEF ReadBy, With, Key, DayAmount
        <5>5. q \in DOMAIN Stated[file]
          BY <2>1, <5>4, StatedIs
        <5>6. Stated[f][q] = Stated[file][q]
          BY <2>1, <3>1, <5>5 DEF WholeDays
        <5>7. QED
          BY <2>4, <4>2, <5>5, <5>6
      <4>3. QED
        BY <4>1, <4>2
    <3>2. QED
      BY <3>1
  <2>6. Safe
    <3>1. ASSUME NEW f \in settled, NEW q \in DOMAIN Stated[f]
          PROVE  Stated[f][q] <= New(q)
      <4>1. Stated[f][q] <= Old(q) /\ f \in files
        BY <1>1, <3>1 DEF FullInv
      <4>2. QED
        BY <1>3, <1>4, <2>3, <4>1
    <3>2. ASSUME NEW q \in DOMAIN Stated[file]
          PROVE  Stated[file][q] <= New(q)
      <4>1. CASE Old(q) = 0
        BY <2>4, <4>1
      <4>2. CASE Old(q) # 0
        <5>1. Stated[file][q] <= Old(q)
          BY <2>1, <4>2 DEF FullInv
        <5>2. QED
          BY <1>3, <1>4, <2>1, <2>3, <5>1
      <4>3. QED
        BY <4>1, <4>2
    <3>3. QED
      BY <2>2, <3>1, <3>2
  <2>7. QED
    BY <1>9, <2>5, <2>6 DEF Committing
<1>10. ASSUME NEW i, NEW k, NEW row, Logged(i, k, row)
       PROVE  Enough /\ Safe /\ \A u \in Threads : pc'[u] = "rows" => Going(u)
  <2>1. ASSUME NEW q PROVE New(q) = Old(q)
    BY <1>2, <1>10, MoveKeepsTotal DEF Logged
  <2>2. QED
    BY <1>6, <1>10, <2>1 DEF Logged
<1>11. ASSUME NEW i, NEW k, NEW row, Restored(i, k, row)
       PROVE  Enough /\ Safe /\ \A u \in Threads : pc'[u] = "rows" => Going(u)
  <2>1. ASSUME NEW q PROVE New(q) = Old(q)
    <3>1. Total(Without(tombs, k), Insert(txns, i, row), q) = Total(tombs, txns, q)
      BY <1>2, <1>11, MoveKeepsTotal DEF Restored
    <3>2. /\ Cardinality(With(txns, q)) \in Nat /\ Cardinality(With(tombs, q)) \in Nat
          /\ Cardinality(With(txns', q)) \in Nat /\ Cardinality(With(tombs', q)) \in Nat
      <4>1. IsTable(txns', Txn, 1 .. MaxId) /\ IsTable(tombs', Tomb, 1 .. MaxTombs)
        BY Inductive DEF IInv, TypeOK, Ids
      <4>2. QED
        BY <1>2, <1>3, <4>1, WithFinite
    <3>3. QED
      BY <1>11, <3>1, <3>2 DEF Restored, Total
  <2>2. QED
    BY <1>6, <1>11, <2>1 DEF Restored
<1> HIDE DEF Enough, Safe, Going
<1>12. QED
  BY <1>7, <1>8, <1>9, <1>10, <1>11, StepKinds

\* Exports that list whole days lose nothing: however often an imported file
\* states an amount on a day, the ledger and the log of deleted rows hold it at
\* least that often, for any files, any number of imports at once, and one row
\* at a time deleted and recovered.
THEOREM NothingLost ==
  ASSUME OneEditor
  PROVE  Spec /\ ~ household.ahead /\ SameCells(household.files)
           /\ WholeDays(household.files)
           => []NoRowLost
<1> DEFINE Alike == SameCells(household.files) /\ WholeDays(household.files)
<1>1. IInv /\ BankInv /\ SteadyInv /\ FullInv /\ Alike /\ [Next]_vars
        => FullInv' /\ Alike'
  <2>1. [Next]_vars /\ Alike => Alike'
    BY DEF Next, vars, SameCells, WholeDays
  <2>2. QED
    BY <2>1, FullInductive
<1>2. IInv /\ BankInv /\ SteadyInv /\ [Next]_vars => SteadyInv'
  BY SteadyInductive
<1>3. IInv /\ BankInv /\ [Next]_vars => BankInv'
  BY BankInductive
<1>4. Init => FullInv
  <2> SUFFICES ASSUME Init PROVE FullInv
    OBVIOUS
  <2>1. \A q : With(Committed, q) = {} /\ With(tombs, q) = {}
    BY DEF Init, Committed, With
  <2>2. \A q : Total(Committed, tombs, q) = 0
    BY <2>1, FS_EmptySet DEF Total
  <2>3. QED
    BY <2>2 DEF Init, FullInv
<1>5. FullInv => NoRowLost
  BY DEF FullInv, Total, With, Times, NoRowLost
<1> HIDE DEF Alike
<1>6. Spec /\ ~ household.ahead /\ Alike => []NoRowLost
  BY Initially, Inductive, BankInitially, SteadyInitially, <1>1, <1>2, <1>3, <1>4, <1>5,
     PTL DEF Spec
<1>7. QED
  BY <1>6 DEF Alike

----------------------------------------------------------------------------
(* The ledger as the amounts of days on it: ImportLedger implements         *)
(* DayLedger.                                                               *)

\* An amount of a day nobody knew of when the import began is entered as often
\* as it is read, and of what was known nothing is entered.
ExactAt(t) ==
  \A q : IF Total(Committed, tombs, q) = 0
         THEN Cardinality(With(txns, q)) = Cardinality(ReadOf(sess[t], q))
         ELSE With(txns, q) = With(Committed, q)
ExactInv == \A t \in Threads : pc[t] = "rows" => ExactAt(t)

\* What the tables are, for counting.
LEMMA TablesCounted ==
  ASSUME TypeOK, NEW q
  PROVE  /\ \A table \in {txns, Committed, tombs} :
              IsFiniteSet(With(table, q)) /\ Cardinality(With(table, q)) \in Nat
         /\ Total(Committed, tombs, q) = 0 <=> With(Committed, q) = {} /\ With(tombs, q) = {}
         /\ Total(Committed, tombs, q) \in Nat
<1>1. /\ IsTable(txns, Txn, 1 .. MaxId) /\ IsTable(tombs, Tomb, 1 .. MaxTombs)
      /\ IsTable(Committed, Txn, 1 .. MaxId) /\ MaxId \in Nat /\ MaxTombs \in Nat
  BY BoundAssumption DEF TypeOK, Ids, Committed
<1>2. /\ IsFiniteSet(With(Committed, q)) /\ Cardinality(With(Committed, q)) \in Nat
      /\ Cardinality(With(Committed, q)) = 0 <=> With(Committed, q) = {}
  BY <1>1, WithFinite
<1>3. /\ IsFiniteSet(With(tombs, q)) /\ Cardinality(With(tombs, q)) \in Nat
      /\ Cardinality(With(tombs, q)) = 0 <=> With(tombs, q) = {}
  BY <1>1, WithFinite
<1>4. IsFiniteSet(With(txns, q)) /\ Cardinality(With(txns, q)) \in Nat
  BY <1>1, WithFinite
<1>5. QED
  BY <1>2, <1>3, <1>4 DEF Total

\* A row removed from a table, or added to one, counts for its own day and amount.
LEMMA OneLess ==
  ASSUME NEW a, NEW R, NEW N \in Nat, IsTable(a, R, 1 .. N), NEW i \in DOMAIN a, NEW q
  PROVE  Cardinality(With(Without(a, i), q)) =
           IF q = DayAmount(a[i]) THEN Cardinality(With(a, q)) - 1 ELSE Cardinality(With(a, q))
<1>1. IsFiniteSet(With(a, q)) /\ Cardinality(With(a, q)) \in Nat
  BY WithFinite
<1>2. CASE q = DayAmount(a[i])
  <2>1. With(Without(a, i), q) = With(a, q) \ {i} /\ i \in With(a, q)
    BY <1>2 DEF With, Without
  <2>2. QED
    BY <1>1, <1>2, <2>1, FS_RemoveElement
<1>3. CASE q # DayAmount(a[i])
  <2>1. With(Without(a, i), q) = With(a, q)
    BY <1>3 DEF With, Without
  <2>2. QED
    BY <1>3, <2>1
<1>4. QED
  BY <1>2, <1>3

LEMMA OneMore ==
  ASSUME NEW a, NEW R, NEW N \in Nat, IsTable(a, R, 1 .. N), NEW i, i \notin DOMAIN a,
         NEW row, NEW q
  PROVE  Cardinality(With(Insert(a, i, row), q)) =
           IF q = DayAmount(row) THEN Cardinality(With(a, q)) + 1 ELSE Cardinality(With(a, q))
<1>1. IsFiniteSet(With(a, q)) /\ Cardinality(With(a, q)) \in Nat
  BY WithFinite
<1>2. CASE q = DayAmount(row)
  <2>1. With(Insert(a, i, row), q) = With(a, q) \cup {i} /\ i \notin With(a, q)
    BY <1>2 DEF With, Insert
  <2>2. QED
    BY <1>1, <1>2, <2>1, FS_AddElement
<1>3. CASE q # DayAmount(row)
  <2>1. With(Insert(a, i, row), q) = With(a, q)
    BY <1>3 DEF With, Insert
  <2>2. QED
    BY <1>3, <2>1
<1>4. QED
  BY <1>2, <1>3

LEMMA ExactInductive ==
  ASSUME IInv, BankInv, SteadyInv, ExactInv, [Next]_vars,
         SameCells(household.files), OneWording(household.files)
  PROVE  ExactInv'
<1>1. TypeOK /\ AtWork /\ OneWriter
  BY DEF IInv, HashInv
<1>2. CASE Still
  <2>1. SUFFICES ASSUME NEW t \in Threads, pc'[t] = "rows" PROVE ExactAt(t)'
    BY DEF ExactInv
  <2>2. CASE pc[t] = "rows" /\ sess'[t] = sess[t] /\ txns' = txns
    BY <1>2, <2>2 DEF Still, ExactInv, ExactAt
  <2>3. CASE sess'[t].pos = 1 /\ txns' = Committed
    <3>1. \A q : ReadOf(sess'[t], q) = {}
      BY <2>3 DEF ReadOf, LinesOf
    <3>2. Committed' = Committed /\ tombs' = tombs
      BY <1>2 DEF Still
    <3>3. \A q : Total(Committed, tombs, q) = 0 => With(Committed, q) = {}
      BY <1>1, TablesCounted
    <3>4. QED
      BY <2>3, <3>1, <3>2, <3>3 DEF ExactAt
  <2>4. QED
    BY <1>2, <2>1, <2>2, <2>3 DEF Still
<1>3. ASSUME NEW t \in Threads, ProcessRow(t), Committed' = Committed,
             \A u \in Threads \ {t} : pc'[u] # "rows"
      PROVE  ExactInv'
  <2>1. /\ Turned(t)
        /\ \/ Stays(txns, txns')
           \/ \E i \in Ids : i \notin DOMAIN txns /\ Added(t, i)
    BY <1>1, <1>3, BankRow
  <2>2. Committed = rollback.txns /\ pc[t] = "rows" /\ tombs' = tombs
    BY <1>1, <2>1, ThreadAssumption DEF Turned, OneWriter, Committed
  <2>3. ExactAt(t)
    BY <2>2 DEF ExactInv
  <2>4. ASSUME NEW q, Total(Committed, tombs, q) = 0
        PROVE  Cardinality(With(txns', q)) = Cardinality(ReadOf(sess'[t], q))
    <3>1. With(rollback.txns, q) = {} /\ With(tombs, q) = {}
      BY <1>1, <2>2, <2>4, TablesCounted
    <3>2. /\ \A s \in {ReadOf(sess[t], q), ReadOf(sess'[t], q), With(txns, q), With(txns', q)} :
               Cardinality(s) \in Nat
          /\ Cardinality(ReadOf(sess'[t], q)) - Cardinality(ReadOf(sess[t], q))
               = Cardinality(With(txns', q)) - Cardinality(With(txns, q))
      BY <1>3, <3>1, RowCounts
    <3>3. Cardinality(With(txns, q)) = Cardinality(ReadOf(sess[t], q))
      BY <2>3, <2>4 DEF ExactAt
    <3>4. QED
      BY <3>2, <3>3
  <2>5. ASSUME NEW q, Total(Committed, tombs, q) # 0
        PROVE  With(txns', q) = With(Committed, q)
    <3>1. With(txns, q) = With(Committed, q)
      BY <2>3, <2>5 DEF ExactAt
    <3>2. CASE Stays(txns, txns')
      BY <3>1, <3>2 DEF Stays, With, Key, DayAmount
    <3>3. ASSUME NEW i \in Ids, i \notin DOMAIN txns, Added(t, i)
          PROVE  With(txns', q) = With(txns, q)
      <4>1. /\ DOMAIN txns' = DOMAIN txns \cup {i} /\ DayAmount(txns'[i]) = DayAmount(Row(t))
            /\ \A j \in DOMAIN txns : txns'[j] = txns[j]
        BY <3>3 DEF Added, Insert, DayAmount
      <4>2. sess[t].pos \in 1 .. Len(Content[sess[t].file])
        BY <1>1, <2>1, ReadOn
      <4>3. /\ \A j \in DOMAIN rollback.txns : Mark(TRUE, rollback.txns[j]) # Mark(TRUE, Row(t))
            /\ \A k \in DOMAIN tombs : Mark(TRUE, tombs[k]) # Mark(TRUE, Row(t))
        BY <1>1, <2>2, <3>3, <4>2, NewMark DEF Added
      <4>4. With(Committed, DayAmount(Row(t))) = {} /\ With(tombs, DayAmount(Row(t))) = {}
        BY <2>2, <4>3 DEF With, Mark
      <4>5. DayAmount(Row(t)) # q
        BY <1>1, <2>5, <4>4, TablesCounted
      <4>6. QED
        BY <3>3, <4>1, <4>5 DEF With
    <3>4. QED
      BY <2>1, <3>1, <3>2, <3>3
  <2>6. ExactAt(t)'
    BY <1>3, <2>2, <2>4, <2>5 DEF ExactAt
  <2>7. QED
    BY <1>3, <2>6 DEF ExactInv
<1>4. ASSUME \A u \in Threads : pc'[u] # "rows" PROVE ExactInv'
  BY <1>4 DEF ExactInv
<1>5. QED
  BY <1>2, <1>3, <1>4, StepKinds DEF Committing, Logged, Restored

\* The mapping, and that it is defined for every row there is.
OnLedger == [q \in StatedAmounts |-> Times(Committed, q)]
InLog == [q \in StatedAmounts |-> Times(tombs, q)]

LEMMA RowsAreStated ==
  ASSUME BankInv, NEW r, FromLine(household.files, r)
  PROVE  DayAmount(r) \in StatedAmounts
<1>1. PICK f \in household.files : \E n \in 1 .. Len(Content[f]) :
        Content[f][n].valid /\ Key(Content[f][n]) = Key(r)
  BY DEF FromLine
<1>2. PICK n \in 1 .. Len(Content[f]) : Content[f][n].valid /\ Key(Content[f][n]) = Key(r)
  BY <1>1
<1>3. f \in Files /\ DayAmount(Content[f][n]) = DayAmount(r)
  BY <1>2 DEF BankInv, Key, DayAmount
<1>4. DayAmount(r) \in DOMAIN Stated[f]
  BY <1>2, <1>3, StatedIs
<1>5. QED
  BY <1>3, <1>4 DEF StatedAmounts

\* A commit is the recording of its file.
LEMMA CommitRecords ==
  ASSUME IInv, BankInv, ExactInv, NEW t \in Threads, Committing(t)
  PROVE  \E f \in Files : DL!Record(f)
<1> DEFINE file == sess[t].file
<1>1. /\ TypeOK /\ AtWork /\ file \in Files /\ ExactAt(t) /\ tombs' = tombs
      /\ Committed' = txns /\ settled' = settled \cup {file}
  BY DEF IInv, Committing, AtWork, ExactInv
<1>2. \A q : ReadOf(sess[t], q) = LinesOf(file, q)
  <2>1. sess[t].pos \in Nat /\ Len(Content[file]) \in Nat
    BY <1>1, ContentAssumption DEF TypeOK, IsSession
  <2>2. QED
    BY <2>1 DEF Committing, ReadOf, LinesOf
<1>3. ASSUME NEW q \in StatedAmounts
      PROVE  Times(txns, q) = IF q \in DOMAIN Stated[file] /\ ~ (OnLedger[q] + InLog[q] > 0)
                              THEN Stated[file][q] ELSE OnLedger[q]
  <2>1. /\ OnLedger[q] = Cardinality(With(Committed, q)) /\ InLog[q] = Cardinality(With(tombs, q))
        /\ Times(txns, q) = Cardinality(With(txns, q))
    BY DEF OnLedger, InLog, Times, With
  <2>2. OnLedger[q] + InLog[q] > 0 <=> Total(Committed, tombs, q) # 0
    BY <1>1, <2>1, TablesCounted DEF Total
  <2>3. CASE Total(Committed, tombs, q) # 0
    BY <1>1, <2>1, <2>2, <2>3 DEF ExactAt
  <2>4. CASE Total(Committed, tombs, q) = 0
    <3>1. Times(txns, q) = Cardinality(LinesOf(file, q))
      BY <1>1, <1>2, <2>1, <2>4 DEF ExactAt
    <3>2. CASE q \in DOMAIN Stated[file]
      BY <1>1, <2>2, <2>4, <3>1, <3>2, StatedIs
    <3>3. CASE q \notin DOMAIN Stated[file]
      <4>1. LinesOf(file, q) = {}
        BY <1>1, <3>3, StatedIs DEF LinesOf
      <4>2. With(Committed, q) = {}
        BY <1>1, <2>4, TablesCounted
      <4>3. QED
        BY <2>1, <3>1, <3>3, <4>1, <4>2
    <3>4. QED
      BY <3>2, <3>3
  <2>5. QED
    BY <2>3, <2>4
<1>4. DL!Record(file)
  <2>1. OnLedger' = [q \in StatedAmounts |-> Times(txns, q)] /\ InLog' = InLog
    BY <1>1 DEF OnLedger, InLog
  <2>2. OnLedger' = [q \in StatedAmounts |->
                       IF q \in DOMAIN Stated[file] /\ ~ (OnLedger[q] + InLog[q] > 0)
                       THEN Stated[file][q] ELSE OnLedger[q]]
    BY <1>3, <2>1
  <2>3. QED
    BY <1>1, <2>1, <2>2 DEF DL!Record, DL!Known, DL!Amounts, OnLedger, InLog, StatedAmounts
<1>5. QED
  BY <1>1, <1>4

\* A deletion and a recovery move one row.
LEMMA MoveMoves ==
  ASSUME IInv, BankInv, NEW i, NEW k, NEW row, Logged(i, k, row) \/ Restored(i, k, row)
  PROVE  \E q \in StatedAmounts : DL!Remove(q) \/ DL!Restore(q)
<1>1. /\ IsTable(txns, Txn, 1 .. MaxId) /\ IsTable(tombs, Tomb, 1 .. MaxTombs)
      /\ MaxId \in Nat /\ MaxTombs \in Nat
      /\ BankTable(household.files, txns) /\ BankLog(household.files, tombs)
  BY BoundAssumption DEF IInv, TypeOK, Ids, BankInv
<1>2. Committed = txns /\ Committed' = txns' /\ UNCHANGED settled
  BY DEF Logged, Restored
<1>3. /\ \A q \in StatedAmounts : /\ OnLedger[q] = Cardinality(With(txns, q))
                                  /\ InLog[q] = Cardinality(With(tombs, q))
      /\ OnLedger' = [q \in StatedAmounts |-> Cardinality(With(txns', q))]
      /\ InLog' = [q \in StatedAmounts |-> Cardinality(With(tombs', q))]
      /\ DOMAIN OnLedger = StatedAmounts /\ DOMAIN InLog = StatedAmounts
  BY <1>2 DEF OnLedger, InLog, Times, With
<1>4. CASE Logged(i, k, row)
  <2> DEFINE q == DayAmount(txns[i])
  <2>1. /\ i \in DOMAIN txns /\ k \notin DOMAIN tombs /\ DayAmount(row) = q
        /\ txns' = Without(txns, i) /\ tombs' = Insert(tombs, k, row)
    BY <1>4 DEF Logged, Key, DayAmount
  <2>2. q \in StatedAmounts
    BY <1>1, <2>1, RowsAreStated DEF BankTable, Banked
  <2>3. \A p \in StatedAmounts :
          /\ OnLedger'[p] = IF p = q THEN OnLedger[p] - 1 ELSE OnLedger[p]
          /\ InLog'[p] = IF p = q THEN InLog[p] + 1 ELSE InLog[p]
    BY <1>1, <1>3, <2>1, OneLess, OneMore
  <2>4. OnLedger[q] > 0
    <3>1. i \in With(txns, q)
      BY <2>1 DEF With
    <3>2. Cardinality(With(txns, q)) \in Nat /\ Cardinality(With(txns, q)) # 0
      BY <1>1, <3>1, WithFinite
    <3>3. QED
      BY <1>3, <2>2, <3>2
  <2> HIDE DEF q
  <2>5. /\ OnLedger' = [OnLedger EXCEPT ![q] = @ - 1]
        /\ InLog' = [InLog EXCEPT ![q] = @ + 1]
    BY <1>3, <2>2, <2>3
  <2>6. DL!Remove(q)
    BY <1>2, <2>4, <2>5 DEF DL!Remove, OnLedger, InLog
  <2>7. QED
    BY <2>2, <2>6
<1>5. CASE Restored(i, k, row)
  <2> DEFINE q == DayAmount(tombs[k])
  <2>1. /\ k \in DOMAIN tombs /\ i \notin DOMAIN txns /\ DayAmount(row) = q
        /\ txns' = Insert(txns, i, row) /\ tombs' = Without(tombs, k)
    BY <1>5 DEF Restored, Key, DayAmount
  <2>2. q \in StatedAmounts
    BY <1>1, <2>1, RowsAreStated DEF BankLog, Banked
  <2>3. \A p \in StatedAmounts :
          /\ OnLedger'[p] = IF p = q THEN OnLedger[p] + 1 ELSE OnLedger[p]
          /\ InLog'[p] = IF p = q THEN InLog[p] - 1 ELSE InLog[p]
    BY <1>1, <1>3, <2>1, OneLess, OneMore
  <2>4. InLog[q] > 0
    <3>1. k \in With(tombs, q)
      BY <2>1 DEF With
    <3>2. Cardinality(With(tombs, q)) \in Nat /\ Cardinality(With(tombs, q)) # 0
      BY <1>1, <3>1, WithFinite
    <3>3. QED
      BY <1>3, <2>2, <3>2
  <2> HIDE DEF q
  <2>5. /\ OnLedger' = [OnLedger EXCEPT ![q] = @ + 1]
        /\ InLog' = [InLog EXCEPT ![q] = @ - 1]
    BY <1>3, <2>2, <2>3
  <2>6. DL!Restore(q)
    BY <1>2, <2>4, <2>5 DEF DL!Restore, OnLedger, InLog
  <2>7. QED
    BY <2>2, <2>6
<1>6. QED
  BY <1>4, <1>5

LEMMA DayLedgerStep ==
  ASSUME IInv, BankInv, SteadyInv, ExactInv, [Next]_vars
  PROVE  [DL!Next]_DL!vars
<1>1. ASSUME Committed' = Committed, tombs' = tombs, settled' = settled
      PROVE  UNCHANGED DL!vars
  BY <1>1 DEF DL!vars
<1>2. CASE Still
  BY <1>1, <1>2 DEF Still
<1>3. ASSUME NEW t \in Threads, ProcessRow(t), Committed' = Committed
      PROVE  UNCHANGED DL!vars
  <2>1. Turned(t)
    BY <1>3, RowOutcome DEF IInv
  <2>2. QED
    BY <1>1, <1>3, <2>1 DEF Turned
<1>4. ASSUME NEW t \in Threads, Committing(t) PROVE DL!Next
  BY <1>4, CommitRecords DEF DL!Next
<1>5. ASSUME NEW i, NEW k, NEW row, Logged(i, k, row) \/ Restored(i, k, row)
      PROVE  DL!Next
  BY <1>5, MoveMoves DEF DL!Next, DL!Amounts, StatedAmounts
<1>6. QED
  BY <1>2, <1>3, <1>4, <1>5, StepKinds

LEMMA DayLedgerInit == Init => DL!Init
<1> SUFFICES ASSUME Init PROVE DL!Init
  OBVIOUS
<1>1. \A q : Times(Committed, q) = 0 /\ Times(tombs, q) = 0
  <2>1. \A q : With(Committed, q) = {} /\ With(tombs, q) = {}
    BY DEF Init, Committed, With
  <2>2. QED
    BY <2>1, FS_EmptySet DEF Times, With
<1>2. QED
  BY <1>1 DEF Init, DL!Init, DL!Amounts, StatedAmounts

\* The import with its six layers, its lock and its fingerprints, with requests
\* that interleave, fail and are rolled back, and with rows deleted and recovered
\* one at a time, is one step per file: what the file states of a day and amount
\* that is neither on the ledger nor deleted is entered as often as it states it,
\* and nothing else is. For any files whose lines of one day and amount are
\* worded alike, and nothing entered or reworded by hand.
THEOREM ImportImplementsDayLedger ==
  ASSUME OneEditor
  PROVE  Spec /\ ~ household.ahead /\ SameCells(household.files)
           /\ OneWording(household.files)
           => LedgerOfDays
<1> DEFINE Alike == SameCells(household.files) /\ OneWording(household.files)
<1>1. IInv /\ BankInv /\ SteadyInv /\ ExactInv /\ Alike /\ [Next]_vars
        => ExactInv' /\ Alike'
  <2>1. [Next]_vars /\ Alike => Alike'
    BY DEF Next, vars, SameCells, OneWording
  <2>2. QED
    BY <2>1, ExactInductive
<1>2. IInv /\ BankInv /\ SteadyInv /\ [Next]_vars => SteadyInv'
  BY SteadyInductive
<1>3. IInv /\ BankInv /\ [Next]_vars => BankInv'
  BY BankInductive
<1>4. Init => ExactInv
  BY DEF Init, ExactInv
<1>5. IInv /\ BankInv /\ SteadyInv /\ ExactInv /\ [Next]_vars => [DL!Next]_DL!vars
  BY DayLedgerStep
<1> HIDE DEF Alike
<1>6. Spec /\ ~ household.ahead /\ Alike => DL!Spec
  BY Initially, Inductive, BankInitially, SteadyInitially, DayLedgerInit,
     <1>1, <1>2, <1>3, <1>4, <1>5, PTL DEF Spec, DL!Spec
<1>7. QED
  BY <1>6 DEF Alike, LedgerOfDays
=============================================================================
