----------------------------- MODULE SetupClaim -----------------------------
(***************************************************************************)
(* The first run: the start seeds the categories, and /setup makes the     *)
(* administrator, who takes over every row there is, after a backup and    *)
(* under an integrity check (services/setup_claim.py, routers/setup.py,    *)
(* _seed_categories in main.py).                                           *)
(*                                                                         *)
(* The database is one file and its write-ahead log: a commit goes to the  *)
(* log and reaches the file at a checkpoint.  The backup copies the file.  *)
(***************************************************************************)
EXTENDS Integers, FiniteSets

CONSTANTS
  Setups,     \* requests to /setup; each would make an administrator
  Username,   \* Username[s]: the name it asks for
  Tables,     \* the owned tables
  Seeds,      \* the rows _seed_categories inserts
  Legacy,     \* rows from before there were users
  TableOf,    \* TableOf[r]: the table of row r
  Profile,    \* Profile[s]: the profile row setup s may add
  Clears      \* whether the owner may delete all categories

NoOne == "none"    \* user_id IS NULL, or nobody holds the write lock
Rows == Seeds \cup Legacy \cup { Profile[s] : s \in Setups }

ASSUME SetupAssumption ==
  /\ NoOne \notin Setups
  /\ Username \in [Setups -> STRING] /\ Profile \in [Setups -> STRING]
  /\ \A r \in Rows : TableOf[r] \in Tables
  /\ Legacy \cap Seeds = {} /\ Clears \in BOOLEAN

VARIABLES
  users,     \* the administrators
  owner,     \* owner[r] for the rows that are committed
  file,      \* the rows that have reached the database file
  backups,   \* the copies taken: [rows, fresh]
  writer,    \* the setup that has the write lock
  work,      \* the owners as the setup that writes sees them
  step,      \* where each setup is
  counted    \* the rows per table a setup counted before the claim

claimVars == <<users, owner, file, backups, writer, work, step, counted>>

Present == DOMAIN owner
RowsOf(own, t) == { r \in DOMAIN own : TableOf[r] = t }
Counts(own) == [t \in Tables |-> Cardinality(RowsOf(own, t))]
Goes(s, where) == step' = [step EXCEPT ![s] = where]

\* setup_claim: a setup begins while there is no user.
BeginSetup(s) ==
  /\ step[s] = "idle"
  /\ Goes(s, IF users = {} THEN "begun" ELSE "refused")
  /\ UNCHANGED <<users, owner, file, backups, writer, work, counted>>

\* backup_sqlite_db: a copy of the file; without one the setup stops.
BackUp(s) ==
  /\ step[s] = "begun"
  /\ \/ /\ backups' = backups \cup {[rows |-> file, fresh |-> users = {}]}
        /\ Goes(s, "saved")
     \/ Goes(s, "refused") /\ UNCHANGED backups
  /\ UNCHANGED <<users, owner, file, writer, work, counted>>

\* snapshot_row_counts
CountRows(s) ==
  /\ step[s] = "saved"
  /\ counted' = [counted EXCEPT ![s] = Counts(owner)]
  /\ Goes(s, "counted")
  /\ UNCHANGED <<users, owner, file, backups, writer, work>>

\* The insertion of the administrator takes the write lock; a name that is
\* taken is refused.
AddAdmin(s) ==
  /\ step[s] = "counted"
  /\ writer = NoOne
  /\ IF \E u \in users : Username[u] = Username[s]
     THEN Goes(s, "refused") /\ UNCHANGED <<writer, work>>
     ELSE Goes(s, "admin") /\ writer' = s /\ UNCHANGED work
  /\ UNCHANGED <<users, owner, file, backups, counted>>

\* claim_all_rows: an update that fails is logged and passed over.
ClaimRows(s) ==
  /\ step[s] = "admin"
  /\ \E failed \in SUBSET Tables :
       work' = [r \in DOMAIN work |->
                  IF work[r] = NoOne /\ TableOf[r] \notin failed THEN s ELSE work[r]]
  /\ Goes(s, "claimed")
  /\ UNCHANGED <<users, owner, file, backups, writer, counted>>

\* Mistake: only the numbers of rows are compared.
VerifiedByCount(s) == Counts(work) = counted[s]

\* verify_claim_integrity
Verified(s) ==
  /\ Counts(work) = counted[s]
  /\ \A r \in DOMAIN work : work[r] # NoOne

\* The profile of an administrator who has claimed none is added, and
\* written with the commit, after the check.
WithProfile(s) ==
  IF \E r \in DOMAIN work : TableOf[r] = TableOf[Profile[s]] /\ work[r] = s THEN work
  ELSE [r \in DOMAIN work \cup {Profile[s]} |-> IF r = Profile[s] THEN s ELSE work[r]]

FinishSetup(s) ==
  /\ step[s] = "claimed"
  /\ IF Verified(s)
     THEN /\ users' = users \cup {s}
          /\ owner' = WithProfile(s)
          /\ Goes(s, "signin")
     ELSE Goes(s, "refused") /\ UNCHANGED <<users, owner>>
  /\ writer' = NoOne
  /\ work' = owner'
  /\ UNCHANGED <<file, backups, counted>>

\* _assign_orphans_to_sole_user, at every start: with one user, and only then,
\* what has no owner becomes theirs.
Adopted(own) ==
  IF Cardinality(users) = 1
  THEN [r \in DOMAIN own |-> IF own[r] = NoOne THEN CHOOSE u \in users : TRUE ELSE own[r]]
  ELSE own

\* _seed_categories, at every start: where there is no category at all.
Seeded(own) ==
  IF \E r \in DOMAIN own : r \in Seeds THEN own
  ELSE [r \in DOMAIN own \cup Seeds |-> IF r \in Seeds THEN NoOne ELSE own[r]]

\* The process is stopped and started; what was not committed is gone, and
\* the last connection to close leaves nothing in the log.
RestartSetups ==
  /\ owner' = Seeded(Adopted(owner))
  /\ file' = Present
  /\ writer' = NoOne
  /\ step' = [s \in Setups |-> IF step[s] \in {"refused", "done"} THEN step[s]
                               ELSE IF s \in users THEN "done" ELSE "idle"]
  /\ work' = owner'
  /\ UNCHANGED <<users, backups, counted>>

\* SQLite moves the log into the file when it has grown.
Checkpoint ==
  /\ file # Present
  /\ file' = Present
  /\ UNCHANGED <<users, owner, backups, writer, work, step, counted>>

\* routers/categories.py: the owner deletes what was seeded.
ClearCategories ==
  /\ Clears /\ users # {} /\ writer = NoOne
  /\ \E r \in Seeds \cap Present : owner[r] # NoOne
  /\ owner' = [r \in Present \ Seeds |-> owner[r]]
  /\ work' = owner'
  /\ UNCHANGED <<users, file, backups, writer, step, counted>>

ClaimInit ==
  /\ users = {} /\ file = Legacy /\ backups = {} /\ writer = NoOne
  /\ owner = [r \in Legacy \cup Seeds |-> NoOne]
  /\ work = owner
  /\ step = [s \in Setups |-> "idle"]
  /\ counted = [s \in Setups |-> [t \in Tables |-> 0]]

\* The state the first run leaves: s has claimed what there was.
ClaimedInit(s) ==
  /\ users = {s} /\ backups = {[rows |-> Legacy \cup Seeds, fresh |-> TRUE]} /\ writer = NoOne
  /\ owner = [r \in Legacy \cup Seeds \cup {Profile[s]} |-> s] /\ work = owner
  /\ file = Legacy \cup Seeds \cup {Profile[s]}
  /\ step = [q \in Setups |-> IF q = s THEN "done" ELSE "refused"]
  /\ counted = [q \in Setups |-> [t \in Tables |-> 0]]

SetupStep(s) == BeginSetup(s) \/ BackUp(s) \/ CountRows(s) \/ AddAdmin(s) \/ ClaimRows(s) \/ FinishSetup(s)

----------------------------------------------------------------------------
(* The shapes of the claim's state.                                         *)
ClaimTypeOK ==
  /\ users \subseteq Setups /\ writer \in Setups \cup {NoOne}
  /\ Present \subseteq Rows /\ \A r \in Present : owner[r] \in Setups \cup {NoOne}
  /\ file \subseteq Rows
  /\ step \in [Setups -> {"idle", "begun", "saved", "counted", "admin", "claimed", "signin",
                          "done", "refused"}]

(* As soon as there is a user every row of an owned table has an owner, and *)
(* one who exists, and there is a copy of the database from before the      *)
(* first: whatever updates failed, however two setups overlap and wherever  *)
(* the process was stopped.  setup_claim.py:8-11.                           *)
ClaimIsWhole ==
  users # {} => (\A r \in Present : owner[r] \in users) /\ \E b \in backups : b.fresh

(* The copy from before the claim has every row the claim found.            *)
BackupComplete ==
  \A s \in Setups : step[s] = "saved" /\ users = {} =>
    \E b \in backups : Present \subseteq b.rows

(* There is one administrator.  routers/setup.py:67.                        *)
OneAdmin == Cardinality(users) <= 1
=============================================================================
