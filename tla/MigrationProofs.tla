-------------------------- MODULE MigrationProofs --------------------------
(***************************************************************************)
(* Proofs about Migration: for any number of processes, tables, columns    *)
(* and failures a database that carries the number of the present version  *)
(* has all its columns, and only such a database is served; the upgrades   *)
(* of the index of the contents and of the search lose nothing.            *)
(***************************************************************************)
EXTENDS Migration, TLAPS

Before == {"down", "version", "table", "alter", "stamp"}

\* What a process that migrates knows of the columns.
Knows(p) ==
  /\ at[p] \in {"table", "alter"} =>
       \A c \in Columns : TableOf[c] < turn[p] => c \in has
  /\ at[p] = "alter" =>
       \A c \in Columns : TableOf[c] = turn[p] => c \in has \cup todo[p]
  /\ at[p] = "stamp" => has = Columns
  /\ at[p] \notin Before => version = "current"
  /\ at[p] = "serving" => admin

\* TypeOK, and that only tables there are get migrated.
Typed == TypeOK /\ \A p \in Processes : at[p] = "alter" => turn[p] \in 1..NTables

Inv == TypeOK /\ VersionIsTrue /\ \A p \in Processes : Knows(p)

-----------------------------------------------------------------------------
LEMMA InitTyped == Init => Typed
<1> SUFFICES ASSUME Init PROVE Typed
  OBVIOUS
<1> USE MigrationAssumption DEF Init
<1>1. has \subseteq Columns /\ version \in {"old", "current"} /\ admin \in BOOLEAN
  OBVIOUS
<1>2. fts \in {"none", "plain", "trigram"} /\ triggers \in BOOLEAN
  OBVIOUS
<1>3. sha \in {"none", "old", "new"} /\ rows \subseteq Files /\ indexed \subseteq Files
  OBVIOUS
<1>4. at \in [Processes -> Steps] /\ todo \in [Processes -> SUBSET Columns]
  BY DEF Steps
<1>5. turn \in [Processes -> 1..(NTables + 1)]
  OBVIOUS
<1>6. slipped \in BOOLEAN /\ reverted \in BOOLEAN
  BY Zenon
<1>7. crashes \in 0..MaxCrashes
  OBVIOUS
<1>8. \A p \in Processes : at[p] # "alter"
  OBVIOUS
<1>9. QED
  BY <1>1, <1>2, <1>3, <1>4, <1>5, <1>6, <1>7, <1>8 DEF Typed, TypeOK

\* Type correctness (init_db), for every instance.
THEOREM MigrationTyped == Spec => []TypeOK
<1>1. Init => Typed
  BY InitTyped
<1>2. Typed /\ [Next]_vars => Typed'
  <2> SUFFICES ASSUME Typed, [Next]_vars PROVE Typed'
    OBVIOUS
  <2> USE MigrationAssumption DEF Typed, TypeOK, Steps, Migrating, Rebuilding, Go, db, aux, mem
  <2>1. CASE UNCHANGED vars
    BY <2>1 DEF vars
  <2>2. ASSUME NEW p \in Processes, Start(p) PROVE Typed'
    BY <2>2 DEF Start
  <2>3. ASSUME NEW p \in Processes, ReadVersion(p) PROVE Typed'
    BY <2>3 DEF ReadVersion
  <2>4. ASSUME NEW p \in Processes, ReadTable(p) PROVE Typed'
    BY <2>4 DEF ReadTable
  <2>5. ASSUME NEW p \in Processes, AddColumn(p) PROVE Typed'
    BY <2>5 DEF AddColumn
  <2>6. ASSUME NEW p \in Processes, ColumnTaken(p) PROVE Typed'
    BY <2>6 DEF ColumnTaken
  <2>7. ASSUME NEW p \in Processes, TableDone(p) PROVE Typed'
    BY <2>7 DEF TableDone
  <2>8. ASSUME NEW p \in Processes, LastTable(p) PROVE Typed'
    BY <2>8 DEF LastTable
  <2>9. ASSUME NEW p \in Processes, Stamp(p) PROVE Typed'
    BY <2>9 DEF Stamp
  <2>10. ASSUME NEW p \in Processes, ReadSha(p) PROVE Typed'
    BY <2>10 DEF ReadSha
  <2>11. ASSUME NEW p \in Processes, DropSha(p) PROVE Typed'
    BY <2>11 DEF DropSha
  <2>12. ASSUME NEW p \in Processes, BuildSha(p) PROVE Typed'
    BY <2>12 DEF BuildSha
  <2>13. ASSUME NEW p \in Processes, ReadFts(p) PROVE Typed'
    BY <2>13 DEF ReadFts
  <2>14. ASSUME NEW p \in Processes, WipeFts(p) PROVE Typed'
    BY <2>14 DEF WipeFts
  <2>15. ASSUME NEW p \in Processes, CreateFts(p) PROVE Typed'
    BY <2>15 DEF CreateFts
  <2>16. ASSUME NEW p \in Processes, AddTriggers(p) PROVE Typed'
    BY <2>16 DEF AddTriggers
  <2>17. ASSUME NEW p \in Processes, Rebuild(p) \/ RebuildFails(p) PROVE Typed'
    BY <2>17 DEF Rebuild, RebuildFails
  <2>18. ASSUME NEW p \in Processes, FindUser(p) \/ InsertAdmin(p) PROVE Typed'
    BY <2>18 DEF FindUser, InsertAdmin
  <2>19. ASSUME NEW p \in Processes, FtsLocked(p) PROVE Typed'
    BY <2>19 DEF FtsLocked
  <2>20. ASSUME NEW p \in Processes, Die(p) PROVE Typed'
    BY <2>20 DEF Die
  <2>21. ASSUME NEW p \in Processes, NEW f \in Files, StoreRow(p, f) PROVE Typed'
    BY <2>21 DEF StoreRow
  <2>22. QED
    BY <2>1, <2>2, <2>3, <2>4, <2>5, <2>6, <2>7, <2>8, <2>9, <2>10, <2>11, <2>12,
       <2>13, <2>14, <2>15, <2>16, <2>17, <2>18, <2>19, <2>20, <2>21 DEF Next, Step
<1>3. Typed => TypeOK
  BY DEF Typed
<1>4. QED
  BY <1>1, <1>2, <1>3, PTL DEF Spec

-----------------------------------------------------------------------------
\* A step of a process from a place at or after the stamp to another such place
\* that leaves columns and version alone.
LEMMA Onward ==
  ASSUME Inv, TypeOK', NEW p \in Processes,
         UNCHANGED <<has, version, turn, todo>>,
         at' = [at EXCEPT ![p] = at'[p]],
         at'[p] \notin Before \ {"down", "version"},
         at'[p] \notin Before => version = "current",
         at'[p] = "serving" => admin',
         admin => admin'
  PROVE  Inv'
<1>1. VersionIsTrue'
  BY DEF Inv, VersionIsTrue
<1>2. ASSUME NEW q \in Processes PROVE Knows(q)'
  <2>1. Knows(q)
    BY DEF Inv
  <2>2. CASE q = p
    BY <2>2, <2>1 DEF Knows, Inv, TypeOK, Before
  <2>3. CASE q # p
    <3>1. at'[q] = at[q]
      BY <2>3 DEF Inv, TypeOK
    <3>2. QED
      BY <3>1, <2>1 DEF Knows, Before
  <2>4. QED
    BY <2>2, <2>3
<1>3. QED
  BY <1>1, <1>2 DEF Inv

\* What no process but p learns or loses while columns are only added.
LEMMA Others ==
  ASSUME Inv, NEW p \in Processes, NEW q \in Processes, q # p,
         at'[q] = at[q], turn'[q] = turn[q], todo'[q] = todo[q],
         has \subseteq has', has' \subseteq Columns,
         version' = version \/ version' = "current",
         admin => admin'
  PROVE  Knows(q)'
  BY DEF Inv, Knows, TypeOK, Before

\* Every step keeps the invariant.
LEMMA InvStep == Inv /\ TypeOK' /\ [Next]_vars => Inv'
<1> SUFFICES ASSUME Inv, TypeOK', [Next]_vars PROVE Inv'
  OBVIOUS
<1> USE MigrationAssumption
<1>1. CASE UNCHANGED vars
  BY <1>1 DEF vars, db, mem, aux, Inv, VersionIsTrue, Knows, Before
<1>2. ASSUME NEW p \in Processes, Start(p) PROVE Inv'
  BY <1>2, Onward DEF Start, Go, db, aux, Inv, TypeOK, Before
<1>3. ASSUME NEW p \in Processes, ReadVersion(p) PROVE Inv'
  <2>1. VersionIsTrue'
    BY <1>3 DEF ReadVersion, db, Inv, VersionIsTrue
  <2>2. Knows(p)'
    BY <1>3 DEF ReadVersion, Go, db, Inv, TypeOK, Knows, Before
  <2>3. ASSUME NEW q \in Processes, q # p PROVE Knows(q)'
    BY <1>3, <2>3, Others DEF ReadVersion, Go, db, Inv, TypeOK
  <2>4. QED
    BY <2>1, <2>2, <2>3 DEF Inv
<1>4. ASSUME NEW p \in Processes, ReadTable(p) PROVE Inv'
  <2>1. VersionIsTrue'
    BY <1>4 DEF ReadTable, db, Inv, VersionIsTrue
  <2>2. Knows(p)'
    BY <1>4 DEF ReadTable, Go, db, Inv, TypeOK, Knows, Before
  <2>3. ASSUME NEW q \in Processes, q # p PROVE Knows(q)'
    BY <1>4, <2>3, Others DEF ReadTable, Go, db, Inv, TypeOK
  <2>4. QED
    BY <2>1, <2>2, <2>3 DEF Inv
<1>5. ASSUME NEW p \in Processes, AddColumn(p) PROVE Inv'
  <2>1. VersionIsTrue'
    BY <1>5 DEF AddColumn, aux, Inv, TypeOK, VersionIsTrue
  <2>2. Knows(p)'
    BY <1>5 DEF AddColumn, aux, Inv, TypeOK, Knows, Before
  <2>3. ASSUME NEW q \in Processes, q # p PROVE Knows(q)'
    BY <1>5, <2>3, Others DEF AddColumn, aux, Inv, TypeOK
  <2>4. QED
    BY <2>1, <2>2, <2>3 DEF Inv
<1>6. ASSUME NEW p \in Processes, ColumnTaken(p) PROVE Inv'
  <2>1. VersionIsTrue'
    BY <1>6 DEF ColumnTaken, db, Inv, VersionIsTrue
  <2>2. Knows(p)'
    BY <1>6 DEF ColumnTaken, Go, db, Inv, TypeOK, Knows, Before
  <2>3. ASSUME NEW q \in Processes, q # p PROVE Knows(q)'
    BY <1>6, <2>3, Others DEF ColumnTaken, Go, db, Inv, TypeOK
  <2>4. QED
    BY <2>1, <2>2, <2>3 DEF Inv
<1>7. ASSUME NEW p \in Processes, TableDone(p) PROVE Inv'
  <2>1. VersionIsTrue'
    BY <1>7 DEF TableDone, db, Inv, VersionIsTrue
  <2>2. Knows(p)'
    BY <1>7 DEF TableDone, Go, db, Inv, TypeOK, Knows, Before
  <2>3. ASSUME NEW q \in Processes, q # p PROVE Knows(q)'
    BY <1>7, <2>3, Others DEF TableDone, Go, db, Inv, TypeOK
  <2>4. QED
    BY <2>1, <2>2, <2>3 DEF Inv
<1>8. ASSUME NEW p \in Processes, LastTable(p) PROVE Inv'
  <2>1. VersionIsTrue'
    BY <1>8 DEF LastTable, db, Inv, VersionIsTrue
  <2>2. Knows(p)'
    BY <1>8 DEF LastTable, Go, db, Inv, TypeOK, Knows, Before
  <2>3. ASSUME NEW q \in Processes, q # p PROVE Knows(q)'
    BY <1>8, <2>3, Others DEF LastTable, Go, db, Inv, TypeOK
  <2>4. QED
    BY <2>1, <2>2, <2>3 DEF Inv
<1>9. ASSUME NEW p \in Processes, Stamp(p) PROVE Inv'
  <2>1. has = Columns
    BY <1>9 DEF Stamp, Go, Inv, Knows
  <2>2. VersionIsTrue'
    BY <1>9, <2>1 DEF Stamp, VersionIsTrue
  <2>3. Knows(p)'
    BY <1>9 DEF Stamp, Go, aux, Inv, TypeOK, Knows, Before
  <2>4. ASSUME NEW q \in Processes, q # p PROVE Knows(q)'
    BY <1>9, <2>4, Others DEF Stamp, Go, aux, Inv, TypeOK
  <2>5. QED
    BY <2>2, <2>3, <2>4 DEF Inv
<1>10. ASSUME NEW p \in Processes, ReadSha(p) \/ DropSha(p) \/ BuildSha(p) PROVE Inv'
  BY <1>10, Onward DEF ReadSha, DropSha, BuildSha, Go, db, aux, Inv, TypeOK, Knows, Before
<1>11. ASSUME NEW p \in Processes, ReadFts(p) \/ WipeFts(p) \/ CreateFts(p) \/ AddTriggers(p)
       PROVE Inv'
  BY <1>11, Onward DEF ReadFts, WipeFts, CreateFts, AddTriggers, Go, db, aux, Inv, TypeOK,
     Knows, Before
<1>12. ASSUME NEW p \in Processes, Rebuild(p) \/ RebuildFails(p) \/ FtsLocked(p) PROVE Inv'
  BY <1>12, Onward DEF Rebuild, RebuildFails, FtsLocked, Rebuilding, Go, db, aux, Inv,
     TypeOK, Knows, Before
<1>13. ASSUME NEW p \in Processes, FindUser(p) \/ InsertAdmin(p) PROVE Inv'
  BY <1>13, Onward DEF FindUser, InsertAdmin, Go, db, aux, Inv, TypeOK, Knows, Before
<1>14. ASSUME NEW p \in Processes, NEW f \in Files, StoreRow(p, f) PROVE Inv'
  BY <1>14 DEF StoreRow, mem, aux, Inv, VersionIsTrue, Knows, Before
<1>15. ASSUME NEW p \in Processes, Die(p) PROVE Inv'
  <2>1. VersionIsTrue'
    BY <1>15 DEF Die, db, Inv, VersionIsTrue
  <2>2. Knows(p)'
    BY <1>15 DEF Die, db, Inv, TypeOK, Knows, Before
  <2>3. ASSUME NEW q \in Processes, q # p PROVE Knows(q)'
    BY <1>15, <2>3, Others DEF Die, db, Inv, TypeOK
  <2>4. QED
    BY <2>1, <2>2, <2>3 DEF Inv
<1>16. QED
  BY <1>1, <1>2, <1>3, <1>4, <1>5, <1>6, <1>7, <1>8, <1>9, <1>10, <1>11, <1>12, <1>13,
     <1>14, <1>15 DEF Next, Step

LEMMA InvAlways == Spec => []Inv
<1>1. Init => Inv
  BY InitTyped DEF Init, Inv, Typed, VersionIsTrue, Knows, Before
<1>2. QED
  BY <1>1, InvStep, MigrationTyped, PTL DEF Spec

\* migrate_schema writes the number of the version last: whoever reads it finds the
\* columns, whichever processes migrated and wherever they stopped.
THEOREM VersionNeverLies == Spec => []VersionIsTrue
<1>1. Inv => VersionIsTrue
  BY DEF Inv
<1>2. QED
  BY <1>1, InvAlways, PTL

\* init_db ends for a process only on a database of the present version with a user.
THEOREM OnlyReadyIsServed == Spec => []ServingIsReady
<1>1. Inv => ServingIsReady
  BY DEF Inv, ServingIsReady, VersionIsTrue, Knows, Before
<1>2. QED
  BY <1>1, InvAlways, PTL
-----------------------------------------------------------------------------
\* Where a process stands once it has found or built the index of the contents.
Indexed == {"fts", "wipe", "virtual", "admin", "insert", "serving"} \cup Rebuilding

\* Before an upgraded index is dropped again, whoever is past its upgrade has it, and
\* nobody who found or left none finds an old one.
ContentsApart ==
  ~reverted =>
    /\ ~Twins
    /\ \A p \in Processes : /\ at[p] \in Indexed => sha = "new"
                            /\ at[p] = "build" => sha # "old"

LEMMA ContentsStep == TypeOK /\ ContentsApart /\ [Next]_vars => ContentsApart'
<1> SUFFICES ASSUME TypeOK, ContentsApart, [Next]_vars, ~reverted' PROVE ContentsApart'
  BY DEF ContentsApart
<1> USE DEF TypeOK, Indexed, Rebuilding, Go, db, aux, mem
<1>0. /\ ~reverted /\ ~Twins
      /\ \A p \in Processes : /\ at[p] \in Indexed => sha = "new"
                              /\ at[p] = "build" => sha # "old"
  <2>1. reverted => reverted'
    BY DEF Next, Step, vars, Start, ReadVersion, ReadTable, AddColumn, ColumnTaken, TableDone,
       LastTable, Stamp, ReadSha, DropSha, BuildSha, ReadFts, WipeFts, CreateFts, AddTriggers,
       Rebuild, RebuildFails, FindUser, InsertAdmin, FtsLocked, Die, StoreRow
  <2>2. QED
    BY <2>1 DEF ContentsApart
<1>1. CASE UNCHANGED vars
  BY <1>0, <1>1 DEF vars, ContentsApart, Twins
<1>2. ASSUME NEW p \in Processes, Start(p) \/ ReadVersion(p) \/ ReadTable(p) \/ AddColumn(p)
                                  \/ ColumnTaken(p) \/ TableDone(p) \/ LastTable(p) \/ Stamp(p)
      PROVE  ContentsApart'
  <2>1. UNCHANGED <<sha, rows, reverted>>
    BY <1>2 DEF Start, ReadVersion, ReadTable, AddColumn, ColumnTaken, TableDone, LastTable, Stamp
  <2>2. \A q \in Processes : at'[q] \in Indexed \cup {"build"} => at'[q] = at[q]
    BY <1>2 DEF Start, ReadVersion, ReadTable, AddColumn, ColumnTaken, TableDone, LastTable, Stamp
  <2>3. QED
    BY <1>0, <2>1, <2>2 DEF ContentsApart, Twins
<1>3. ASSUME NEW p \in Processes, ReadSha(p) PROVE ContentsApart'
  BY <1>0, <1>3 DEF ReadSha, ContentsApart, Twins
<1>4. ASSUME NEW p \in Processes, DropSha(p) PROVE ContentsApart'
  <2>1. sha # "new" /\ sha' = "none" /\ UNCHANGED rows
    BY <1>4 DEF DropSha
  <2>2. \A q \in Processes : at'[q] \notin Indexed
    BY <1>0, <1>4, <2>1 DEF DropSha
  <2>3. QED
    BY <1>0, <2>1, <2>2 DEF ContentsApart, Twins
<1>5. ASSUME NEW p \in Processes, BuildSha(p) PROVE ContentsApart'
  BY <1>0, <1>5 DEF BuildSha, ContentsApart, Twins
<1>6. ASSUME NEW p \in Processes, \/ ReadFts(p) \/ WipeFts(p) \/ CreateFts(p) \/ AddTriggers(p)
                                  \/ Rebuild(p) \/ RebuildFails(p) \/ FindUser(p)
                                  \/ InsertAdmin(p) \/ FtsLocked(p)
      PROVE  ContentsApart'
  <2>1. UNCHANGED <<sha, rows, reverted>>
    BY <1>6 DEF ReadFts, WipeFts, CreateFts, AddTriggers, Rebuild, RebuildFails, FindUser,
                InsertAdmin, FtsLocked
  <2>2. at[p] \in Indexed /\ at'[p] # "build" /\ \A q \in Processes \ {p} : at'[q] = at[q]
    BY <1>6 DEF ReadFts, WipeFts, CreateFts, AddTriggers, Rebuild, RebuildFails, FindUser,
                InsertAdmin, FtsLocked
  <2>3. QED
    BY <1>0, <2>1, <2>2 DEF ContentsApart, Twins
<1>7. ASSUME NEW p \in Processes, NEW f \in Files, StoreRow(p, f) PROVE ContentsApart'
  <2>1. sha = "new" /\ UNCHANGED <<sha, at, reverted>>
    BY <1>0, <1>7 DEF StoreRow
  <2>2. rows' = rows \cup {f} /\ \A g \in rows : Content[g] # Content[f]
    BY <1>7, <2>1 DEF StoreRow
  <2>3. QED
    BY <1>0, <2>1, <2>2 DEF ContentsApart, Twins
<1>8. ASSUME NEW p \in Processes, Die(p) PROVE ContentsApart'
  BY <1>0, <1>8 DEF Die, ContentsApart, Twins
<1>9. QED
  BY <1>1, <1>2, <1>3, <1>4, <1>5, <1>6, <1>7, <1>8 DEF Next, Step

\* ensure_files_sha256_index: as long as no process drops the index another has already
\* upgraded, no two rows get the same content, also of processes that serve meanwhile.
THEOREM ContentsStayApart == Spec => []NoTwins
<1>1. Init => ContentsApart
  BY DEF Init, ContentsApart, Indexed, Rebuilding
<1>2. ContentsApart => NoTwins
  BY DEF ContentsApart, NoTwins
<1>3. QED
  BY <1>1, <1>2, ContentsStep, MigrationTyped, PTL DEF Spec

-----------------------------------------------------------------------------
\* The new full-text index knows all rows and is fed, or one process has yet to create
\* the triggers, or they are there and one has yet to rebuild it.
IndexInv ==
  fts = "trigram" /\ ~slipped =>
    \/ triggers /\ rows \subseteq indexed
    \/ \E p \in Processes : at[p] = "triggers"
    \/ triggers /\ \E p \in Processes : at[p] = "rebuild"

LEMMA IndexStep == TypeOK /\ IndexInv /\ [Next]_vars => IndexInv'
<1> SUFFICES ASSUME TypeOK, IndexInv, [Next]_vars, fts' = "trigram", ~slipped' PROVE IndexInv'
  BY DEF IndexInv
<1> USE DEF TypeOK, Rebuilding, Go, db, aux, mem
<1>0. ~slipped
  BY DEF Next, Step, vars, Start, ReadVersion, ReadTable, AddColumn, ColumnTaken, TableDone,
     LastTable, Stamp, ReadSha, DropSha, BuildSha, ReadFts, WipeFts, CreateFts, AddTriggers,
     Rebuild, RebuildFails, FindUser, InsertAdmin, FtsLocked, Die, StoreRow
<1>1. CASE UNCHANGED vars
  BY <1>1 DEF vars, IndexInv
<1>2. ASSUME NEW p \in Processes, \/ Start(p) \/ ReadVersion(p) \/ ReadTable(p) \/ AddColumn(p)
                                  \/ ColumnTaken(p) \/ TableDone(p) \/ LastTable(p) \/ Stamp(p)
                                  \/ ReadSha(p) \/ DropSha(p) \/ BuildSha(p)
                                  \/ FindUser(p) \/ InsertAdmin(p) \/ Die(p) \/ FtsLocked(p)
      PROVE  IndexInv'
  <2>1. UNCHANGED <<fts, triggers, indexed, rows>>
    BY <1>2 DEF Start, ReadVersion, ReadTable, AddColumn, ColumnTaken, TableDone, LastTable, Stamp,
       ReadSha, DropSha, BuildSha, FindUser, InsertAdmin, Die, FtsLocked
  <2>2. \A q \in Processes : at[q] \in Rebuilding => at'[q] = at[q]
    BY <1>0, <1>2 DEF Start, ReadVersion, ReadTable, AddColumn, ColumnTaken, TableDone, LastTable,
       Stamp, ReadSha, DropSha, BuildSha, FindUser, InsertAdmin, Die, FtsLocked
  <2>3. QED
    BY <1>0, <2>1, <2>2 DEF IndexInv
<1>3. ASSUME NEW p \in Processes, ReadFts(p) PROVE IndexInv'
  BY <1>0, <1>3 DEF ReadFts, IndexInv
<1>4. ASSUME NEW p \in Processes, WipeFts(p) PROVE IndexInv'
  BY <1>4 DEF WipeFts
<1>5. ASSUME NEW p \in Processes, CreateFts(p) PROVE IndexInv'
  <2>1. CASE fts = "none"
    BY <1>5, <2>1 DEF CreateFts, IndexInv
  <2>2. CASE fts # "none"
    BY <1>0, <1>5, <2>2 DEF CreateFts, IndexInv
  <2>3. QED
    BY <2>1, <2>2
<1>6. ASSUME NEW p \in Processes, AddTriggers(p) PROVE IndexInv'
  BY <1>6 DEF AddTriggers, IndexInv
<1>7. ASSUME NEW p \in Processes, Rebuild(p) PROVE IndexInv'
  BY <1>0, <1>7 DEF Rebuild, IndexInv
<1>8. ASSUME NEW p \in Processes, RebuildFails(p) PROVE IndexInv'
  BY <1>8 DEF RebuildFails
<1>9. ASSUME NEW p \in Processes, NEW f \in Files, StoreRow(p, f) PROVE IndexInv'
  BY <1>0, <1>9 DEF StoreRow, IndexInv
<1>10. QED
  BY <1>1, <1>2, <1>3, <1>4, <1>5, <1>6, <1>7, <1>8, <1>9 DEF Next, Step

\* ensure_fts: every row is in the new full-text index or a process is about to rebuild
\* it, also for the rows stored between its creation and its triggers.
THEOREM SearchStaysWhole == Spec => []SearchFindsAll
<1>1. Init => IndexInv
  BY DEF Init, IndexInv
<1>2. IndexInv => SearchFindsAll
  BY DEF IndexInv, SearchFindsAll, Rebuilding
<1>3. QED
  BY <1>1, <1>2, IndexStep, MigrationTyped, PTL DEF Spec
=============================================================================
