----------------------------- MODULE Migration -----------------------------
(***************************************************************************)
(* init_db: how a process that opens the database brings it to the present *)
(* schema, and how the columns, the indexes and the full-text index of the *)
(* search come to be there.                                                *)
(*                                                                         *)
(* Every DDL statement commits by itself, so the procedure can stop after  *)
(* any of them, and another process (the server, app.maintenance) may run  *)
(* the same procedure at the same time or already serve requests.  A       *)
(* process that fails or dies begins again at its next start.              *)
(***************************************************************************)
EXTENDS Naturals

CONSTANTS
  Processes,   \* server and maintenance runs
  Files,       \* ids of rows of files
  Content,     \* what each file holds: equal for twins
  Columns,     \* columns later releases added
  NTables,     \* the tables they belong to, in the order of migrate_schema
  TableOf,
  Releases,    \* the sets of columns that earlier releases left
  MaxCrashes   \* bound on processes that die or fail for lack of a lock

ASSUME MigrationAssumption ==
  /\ NTables \in Nat
  /\ TableOf \in [Columns -> 1..NTables]
  /\ Releases \subseteq SUBSET Columns
  /\ MaxCrashes \in Nat

VARIABLES
  has,       \* columns that exist
  version,   \* PRAGMA user_version: "old" or "current"
  sha,       \* idx_files_course_sha256: "none", "old" or "new"
  fts,       \* files_fts: "none", "plain" or "trigram"
  triggers,  \* are the triggers that feed it there?
  indexed,   \* rows the full-text index knows
  rows,      \* live rows of files
  admin,     \* is there a user?
  at,        \* where each process is in init_db
  turn,      \* the table it migrates
  todo,      \* the columns it found missing there
  crashes,
  slipped,   \* history: a rebuild of the full-text index was skipped
  reverted   \* history: an index already rebuilt was dropped again

db == <<has, version, sha, fts, triggers, indexed, rows, admin>>
mem == <<at, turn, todo>>
aux == <<crashes, slipped, reverted>>
vars == <<db, mem, aux>>

Migrating == {"version", "table", "alter", "stamp"}
Rebuilding == {"triggers", "rebuild"}
Steps == Migrating \cup Rebuilding \cup
         {"down", "sha", "drop", "build", "fts", "wipe", "virtual", "admin",
          "insert", "serving"}

TypeOK ==
  /\ has \subseteq Columns
  /\ version \in {"old", "current"}
  /\ sha \in {"none", "old", "new"}
  /\ fts \in {"none", "plain", "trigram"}
  /\ triggers \in BOOLEAN /\ admin \in BOOLEAN
  /\ indexed \subseteq Files /\ rows \subseteq Files
  /\ at \in [Processes -> Steps]
  /\ turn \in [Processes -> 1..(NTables + 1)]
  /\ todo \in [Processes -> SUBSET Columns]
  /\ crashes \in 0..MaxCrashes
  /\ slipped \in BOOLEAN /\ reverted \in BOOLEAN

Twins == \E f, g \in rows : f # g /\ Content[f] = Content[g]

\* A new database whose tables were just created, or one of an earlier release.
Init ==
  /\ has \in Releases
  /\ version \in {"old", "current"} /\ (version = "current" => has = Columns)
  /\ sha \in {"none", "old", "new"}
  /\ fts \in {"none", "plain", "trigram"} /\ triggers = (fts # "none")
  /\ rows \in SUBSET Files /\ ~Twins
  /\ indexed = IF fts = "none" THEN {} ELSE rows
  /\ admin \in BOOLEAN /\ (rows # {} => admin)
  /\ at = [p \in Processes |-> "down"]
  /\ turn = [p \in Processes |-> 1]
  /\ todo = [p \in Processes |-> {}]
  /\ crashes = 0 /\ slipped = FALSE /\ reverted = FALSE

-----------------------------------------------------------------------------
Go(p, from, to) == at[p] = from /\ at' = [at EXCEPT ![p] = to]

Start(p) == Go(p, "down", "version") /\ UNCHANGED <<db, turn, todo, aux>>

\* migrate_schema returns at once if user_version says so.
ReadVersion(p) ==
  /\ Go(p, "version", IF version = "current" THEN "sha" ELSE "table")
  /\ turn' = [turn EXCEPT ![p] = 1]
  /\ UNCHANGED <<db, todo, aux>>

\* Mutant: the bound of the tables is off by one.
ReadTableTooFar(p) ==
  /\ turn[p] <= NTables + 1
  /\ Go(p, "table", "alter")
  /\ todo' = [todo EXCEPT ![p] = {c \in Columns \ has : TableOf[c] = turn[p]}]
  /\ UNCHANGED <<db, turn, aux>>

\* Mutant: columns are added without a look at those that exist.
ReadTableBlind(p) ==
  /\ turn[p] <= NTables
  /\ Go(p, "table", "alter")
  /\ todo' = [todo EXCEPT ![p] = {c \in Columns : TableOf[c] = turn[p]}]
  /\ UNCHANGED <<db, turn, aux>>

\* PRAGMA table_info of the table whose turn it is.
ReadTable(p) ==
  /\ turn[p] <= NTables
  /\ Go(p, "table", "alter")
  /\ todo' = [todo EXCEPT ![p] = {c \in Columns \ has : TableOf[c] = turn[p]}]
  /\ UNCHANGED <<db, turn, aux>>

\* ALTER TABLE ... ADD COLUMN for a column found missing.
AddColumn(p) ==
  /\ at[p] = "alter"
  /\ \E c \in todo[p] :
       /\ c \notin has
       /\ has' = has \cup {c}
       /\ todo' = [todo EXCEPT ![p] = @ \ {c}]
  /\ UNCHANGED <<version, sha, fts, triggers, indexed, rows, admin, at, turn, aux>>

\* Mutant: the failing migration is skipped, and with it the number of the version.
ColumnTakenIgnored(p) ==
  /\ todo[p] \cap has # {}
  /\ Go(p, "alter", "sha")
  /\ todo' = [todo EXCEPT ![p] = {}]
  /\ UNCHANGED <<db, turn, aux>>

\* Another process has added the column meanwhile: "duplicate column name" ends init_db.
ColumnTaken(p) ==
  /\ todo[p] \cap has # {}
  /\ Go(p, "alter", "down")
  /\ todo' = [todo EXCEPT ![p] = {}]
  /\ UNCHANGED <<db, turn, aux>>

TableDone(p) ==
  /\ todo[p] = {}
  /\ Go(p, "alter", "table")
  /\ turn' = [turn EXCEPT ![p] = @ + 1]
  /\ UNCHANGED <<db, todo, aux>>

\* Mutant: the version is written before the last table is migrated.
LastTableEarly(p) ==
  /\ turn[p] >= NTables
  /\ Go(p, "table", "stamp")
  /\ UNCHANGED <<db, turn, todo, aux>>

LastTable(p) ==
  /\ turn[p] > NTables
  /\ Go(p, "table", "stamp")
  /\ UNCHANGED <<db, turn, todo, aux>>

\* PRAGMA user_version = SCHEMA_VERSION
Stamp(p) ==
  /\ Go(p, "stamp", "sha")
  /\ version' = "current"
  /\ UNCHANGED <<has, sha, fts, triggers, indexed, rows, admin, turn, todo, aux>>

-----------------------------------------------------------------------------
\* ensure_files_sha256_index reads which index there is ...
ReadSha(p) ==
  /\ Go(p, "sha", IF sha = "none" THEN "build" ELSE IF sha = "old" THEN "drop" ELSE "fts")
  /\ UNCHANGED <<db, turn, todo, aux>>

\* Mutant: the function returns after the drop.
DropShaOnly(p) ==
  /\ Go(p, "drop", IF sha = "none" THEN "down" ELSE "fts")
  /\ sha' = "none"
  /\ reverted' = (reverted \/ sha = "new")
  /\ UNCHANGED <<has, version, fts, triggers, indexed, rows, admin, turn, todo,
                 crashes, slipped>>

\* ... drops the old one, or what another process has put in its place since ...
DropSha(p) ==
  /\ Go(p, "drop", IF sha = "none" THEN "down" ELSE "build")
  /\ sha' = "none"
  /\ reverted' = (reverted \/ sha = "new")
  /\ UNCHANGED <<has, version, fts, triggers, indexed, rows, admin, turn, todo,
                 crashes, slipped>>

\* ... and creates the new one, which twins make fail.
BuildSha(p) ==
  /\ Go(p, "build", IF sha = "none" /\ Twins THEN "down" ELSE "fts")
  /\ sha' = IF sha = "none" /\ ~Twins THEN "new" ELSE sha
  /\ UNCHANGED <<has, version, fts, triggers, indexed, rows, admin, turn, todo, aux>>

-----------------------------------------------------------------------------
\* ensure_fts.  An OperationalError inside it is swallowed: init_db goes on.
ReadFts(p) ==
  /\ Go(p, "fts", IF fts = "none" THEN "virtual" ELSE IF fts = "plain" THEN "wipe" ELSE "admin")
  /\ triggers' = (triggers \/ fts = "trigram")
  /\ UNCHANGED <<has, version, sha, fts, indexed, rows, admin, turn, todo, aux>>

\* DROP TRIGGER and DROP TABLE of the index with the old tokenizer.
WipeFts(p) ==
  /\ Go(p, "wipe", IF fts = "none" THEN "admin" ELSE "virtual")
  /\ triggers' = FALSE /\ fts' = "none" /\ indexed' = {}
  /\ UNCHANGED <<has, version, sha, rows, admin, turn, todo, aux>>

\* CREATE VIRTUAL TABLE, which fails if another process has made it.
CreateFts(p) ==
  /\ Go(p, "virtual", IF fts = "none" THEN "triggers" ELSE "admin")
  /\ fts' = IF fts = "none" THEN "trigram" ELSE fts
  /\ UNCHANGED <<has, version, sha, triggers, indexed, rows, admin, turn, todo, aux>>

\* Mutant: the rows that were there before are not indexed.
AddTriggersOnly(p) ==
  /\ Go(p, "triggers", "admin")
  /\ triggers' = TRUE
  /\ UNCHANGED <<has, version, sha, fts, indexed, rows, admin, turn, todo, aux>>

AddTriggers(p) ==
  /\ Go(p, "triggers", "rebuild")
  /\ triggers' = TRUE
  /\ UNCHANGED <<has, version, sha, fts, indexed, rows, admin, turn, todo, aux>>

\* INSERT ... 'rebuild' opens the transaction in which the first administrator is
\* inserted, too; without its table the statement fails.
Rebuild(p) ==
  /\ fts # "none"
  /\ Go(p, "rebuild", "serving")
  /\ indexed' = rows /\ admin' = TRUE
  /\ UNCHANGED <<has, version, sha, fts, triggers, rows, turn, todo, aux>>

RebuildFails(p) ==
  /\ fts = "none"
  /\ Go(p, "rebuild", "admin")
  /\ UNCHANGED <<db, turn, todo, aux>>

\* A statement of ensure_fts finds the database locked: search is left as it is.
FtsLocked(p) ==
  /\ crashes < MaxCrashes /\ crashes' = crashes + 1
  /\ at[p] \in {"wipe", "virtual"} \cup Rebuilding
  /\ at' = [at EXCEPT ![p] = "admin"]
  /\ slipped' = (slipped \/ at[p] \in Rebuilding)
  /\ UNCHANGED <<db, turn, todo, reverted>>

\* ensure_bootstrap_admin: a user is looked for and, if none is found, inserted.
FindUser(p) ==
  /\ Go(p, "admin", IF admin THEN "serving" ELSE "insert")
  /\ UNCHANGED <<db, turn, todo, aux>>

InsertAdmin(p) ==
  /\ Go(p, "insert", IF admin THEN "down" ELSE "serving")
  /\ admin' = TRUE
  /\ UNCHANGED <<has, version, sha, fts, triggers, indexed, rows, turn, todo, aux>>

-----------------------------------------------------------------------------
\* A process that serves stores a file: the unique index refuses a twin, the
\* triggers index the row and fail if their table is missing.
StoreRow(p, f) ==
  /\ at[p] = "serving" /\ f \notin rows
  /\ sha = "none" \/ \A g \in rows : Content[g] # Content[f]
  /\ triggers => fts # "none"
  /\ rows' = rows \cup {f}
  /\ indexed' = IF triggers THEN indexed \cup {f} ELSE indexed
  /\ UNCHANGED <<has, version, sha, fts, triggers, admin, mem, aux>>

\* The process dies, or a statement outside ensure_fts raises.
Die(p) ==
  /\ crashes < MaxCrashes /\ crashes' = crashes + 1
  /\ at[p] # "down"
  /\ at' = [at EXCEPT ![p] = "down"]
  /\ todo' = [todo EXCEPT ![p] = {}]
  /\ slipped' = (slipped \/ at[p] \in Rebuilding)
  /\ UNCHANGED <<db, turn, reverted>>

Step(p) ==
  \/ Start(p) \/ ReadVersion(p) \/ ReadTable(p) \/ AddColumn(p) \/ ColumnTaken(p)
  \/ TableDone(p) \/ LastTable(p) \/ Stamp(p)
  \/ ReadSha(p) \/ DropSha(p) \/ BuildSha(p)
  \/ ReadFts(p) \/ WipeFts(p) \/ CreateFts(p) \/ AddTriggers(p)
  \/ Rebuild(p) \/ RebuildFails(p) \/ FindUser(p) \/ InsertAdmin(p)

Next == \E p \in Processes :
          \/ Step(p) \/ FtsLocked(p) \/ Die(p) \/ \E f \in Files : StoreRow(p, f)

Spec == Init /\ [][Next]_vars

\* Every process runs, and is started again after it ended: the container restarts the
\* server, the scheduler the maintenance.
FairSpec == Spec /\ \A p \in Processes : WF_vars(Step(p))

-----------------------------------------------------------------------------
\* A database that says it is at the present version has every column of it, however
\* many processes migrated it and wherever they stopped.
VersionIsTrue == version = "current" => has = Columns

\* Nobody serves on a database without the columns and an account to log in with.
ServingIsReady == \A p \in Processes :
  at[p] = "serving" => version = "current" /\ has = Columns /\ admin

\* The search finds every file: a row the index misses is about to be indexed by a
\* process that rebuilds it, unless such a process died or found the database locked.
SearchFindsAll ==
  fts = "trigram" /\ ~(rows \subseteq indexed)
    => slipped \/ \E p \in Processes : at[p] \in Rebuilding

\* While the index is upgraded no course gets the same content twice, unless a second
\* process drops the index the first has already upgraded.
NoTwins == Twins => reverted

\* A start that stopped half way is completed by a later one: all processes come to
\* serve, unless the index can no longer be built.
StartsComplete == <>[](\A p \in Processes : at[p] = "serving") \/ <>reverted
=============================================================================
