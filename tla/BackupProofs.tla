---------------------------- MODULE BackupProofs ----------------------------
(***************************************************************************)
(* Proofs about Backup, for any number of files, runs and failures: what a *)
(* backup names is whole, an archive has the bytes its database speaks of, *)
(* and pruning never takes the last whole backup.                          *)
(***************************************************************************)
EXTENDS Backup, FiniteSetTheorems, TLAPS

\* The order of the server's steps: bytes before the row, staged before it goes.
Env == \A f \in Files :
  /\ row[f] = "row" => disk[f] \in {"whole", "staged"}
  /\ row[f] = "gone" => disk[f] \in {"none", "staged"}

\* The files of the copy no deletion has been at.
Due(r) == rows[r] \ touched[r]

RunOK(r) ==
  /\ at[r] \in {"new", "copy", "verify", "name", "list", "pack"} => zip[r] = "none"
  /\ \A f \in rows[r] : row[f] # "none"
  /\ at[r] \in {"verify", "name", "list"} =>
       \A f \in Due(r) : row[f] = "row" /\ disk[f] = "whole"
  /\ at[r] = "pack" =>
       \A f \in Due(r) : \/ f \in packed[r]
                         \/ f \in todo[r] /\ row[f] = "row" /\ disk[f] = "whole"
  /\ zip[r] = "named" => Due(r) \subseteq packed[r]

ArchiveInv == Env /\ \A r \in Runs : RunOK(r)

\* Where a run is when no other has been at work beside it.
Solo(r) ==
  /\ \A q \in Runs : at[r] \in Busy /\ at[q] \in Busy => q = r
  /\ \A q \in Runs : q < r /\ at[q] = "new" => at[r] = "new"
  /\ \A q \in Runs : r < q /\ at[r] \in Busy => at[q] = "new"
  /\ at[r] = "verify" => copy[r] \in {"torn", "whole"}
  /\ at[r] = "name" => copy[r] = "whole"
  /\ base[r] \in {"none", "whole"}
  /\ at[r] = "new" => zip[r] = "none"
  /\ at[r] \in {"list", "pack", "prune", "unlink"} => base[r] = "whole"
  /\ at[r] \in {"prune", "unlink"} => zip[r] # "none"
  /\ at[r] = "unlink" => r \notin stale[r]

SoloInv == overlapped \/ \A r \in Runs : Solo(r)

-----------------------------------------------------------------------------
\* Types, and that nothing has the name of a database before it was verified.
THEOREM BackupTyped == Spec => []TypeOK
<1>a. Init => TypeOK
  <2> SUFFICES ASSUME Init PROVE TypeOK
    OBVIOUS
  <2> USE BackupAssumption DEF Init
  <2>1. /\ row \in [Files -> {"none", "row", "gone"}]
        /\ disk \in [Files -> {"none", "part", "whole", "staged"}]
    OBVIOUS
  <2>2. at \in [Runs -> Busy \cup {"new", "failed", "done"}]
    BY DEF Busy
  <2>3. copy \in [Runs -> Images] /\ base \in [Runs -> Images]
    BY DEF Images
  <2>4. /\ rows \in [Runs -> SUBSET Files] /\ touched \in [Runs -> SUBSET Files]
        /\ todo \in [Runs -> SUBSET Files] /\ packed \in [Runs -> SUBSET Files]
        /\ stale \in [Runs -> SUBSET Runs]
    OBVIOUS
  <2>5. packing \in [Runs -> BOOLEAN] /\ zip \in [Runs -> {"none", "named", "needless"}]
    OBVIOUS
  <2>6. crashes \in 0..MaxCrashes
    OBVIOUS
  <2>7. overlapped \in BOOLEAN
    BY Zenon
  <2>8. \A r \in Runs : base[r] = "none"
    OBVIOUS
  <2>9. QED
    BY <2>1, <2>2, <2>3, <2>4, <2>5, <2>6, <2>7, <2>8 DEF TypeOK
<1>b. TypeOK /\ [Next]_vars => TypeOK'
  <2> SUFFICES ASSUME TypeOK, [Next]_vars PROVE TypeOK'
    OBVIOUS
  <2> USE BackupAssumption DEF TypeOK, Busy, Images, Runs, Go, files, out, mem
  <2>1. CASE UNCHANGED vars
    BY <2>1 DEF vars
  <2>2. ASSUME NEW f \in Files, UploadStart(f) PROVE TypeOK'
    BY <2>2 DEF UploadStart
  <2>3. ASSUME NEW f \in Files, UploadWritten(f) PROVE TypeOK'
    BY <2>3 DEF UploadWritten
  <2>4. ASSUME NEW f \in Files, UploadFails(f) PROVE TypeOK'
    BY <2>4 DEF UploadFails
  <2>5. ASSUME NEW f \in Files, UploadInsert(f) PROVE TypeOK'
    BY <2>5 DEF UploadInsert
  <2>6. ASSUME NEW f \in Files, Stage(f) PROVE TypeOK'
    BY <2>6 DEF Stage
  <2>7. ASSUME NEW f \in Files, PutBack(f) PROVE TypeOK'
    BY <2>7 DEF PutBack
  <2>8. ASSUME NEW f \in Files, DeleteRow(f) PROVE TypeOK'
    BY <2>8 DEF DeleteRow
  <2>9. ASSUME NEW f \in Files, Unlink(f) PROVE TypeOK'
    BY <2>9 DEF Unlink
  <2>10. ASSUME NEW r \in Runs, Start(r) PROVE TypeOK'
    BY <2>10 DEF Start
  <2>11. ASSUME NEW r \in Runs, Copy(r) PROVE TypeOK'
    BY <2>11 DEF Copy
  <2>12. ASSUME NEW r \in Runs, Verify(r) PROVE TypeOK'
    BY <2>12 DEF Verify
  <2>13. ASSUME NEW r \in Runs, VerifyFails(r) PROVE TypeOK'
    BY <2>13 DEF VerifyFails
  <2>14. ASSUME NEW r \in Runs, Name(r) PROVE TypeOK'
    BY <2>14 DEF Name
  <2>15. ASSUME NEW r \in Runs, NameFails(r) PROVE TypeOK'
    BY <2>15 DEF NameFails
  <2>16. ASSUME NEW r \in Runs, List(r) PROVE TypeOK'
    BY <2>16 DEF List
  <2>17. ASSUME NEW r \in Runs, ListNothing(r) PROVE TypeOK'
    BY <2>17 DEF ListNothing
  <2>18. ASSUME NEW r \in Runs, PackFails(r) PROVE TypeOK'
    BY <2>18 DEF PackFails
  <2>19. ASSUME NEW r \in Runs, Seal(r) PROVE TypeOK'
    BY <2>19 DEF Seal
  <2>20. ASSUME NEW r \in Runs, SealFails(r) PROVE TypeOK'
    BY <2>20 DEF SealFails
  <2>21. ASSUME NEW r \in Runs, Prune(r) PROVE TypeOK'
    BY <2>21 DEF Prune, Outdated, Groups
  <2>22. ASSUME NEW r \in Runs, Done(r) PROVE TypeOK'
    BY <2>22 DEF Done
  <2>23. ASSUME NEW r \in Runs, Die(r) PROVE TypeOK'
    BY <2>23 DEF Die
  <2>24. ASSUME NEW r \in Runs, NEW f \in Files, Pack(r, f) PROVE TypeOK'
    BY <2>24 DEF Pack
  <2>25. ASSUME NEW r \in Runs, NEW q \in Runs, PruneBase(r, q) PROVE TypeOK'
    BY <2>25 DEF PruneBase
  <2>26. ASSUME NEW r \in Runs, NEW q \in Runs, PruneZip(r, q) PROVE TypeOK'
    BY <2>26 DEF PruneZip
  <2>27. QED
    BY <2>1, <2>2, <2>3, <2>4, <2>5, <2>6, <2>7, <2>8, <2>9, <2>10, <2>11, <2>12, <2>13,
       <2>14, <2>15, <2>16, <2>17, <2>18, <2>19, <2>20, <2>21, <2>22, <2>23, <2>24, <2>25,
       <2>26 DEF Next, Server, Run
<1>c. QED
  BY <1>a, <1>b, PTL DEF Spec

-----------------------------------------------------------------------------
LEMMA ArchiveStep == TypeOK /\ TypeOK' /\ ArchiveInv /\ [Next]_vars => ArchiveInv'
<1> SUFFICES ASSUME TypeOK, TypeOK', ArchiveInv, [Next]_vars PROVE ArchiveInv'
  OBVIOUS
<1> USE BackupAssumption DEF ArchiveInv, Env, RunOK, Due, TypeOK, Busy, Images, Go, files, out, mem
<1>1. CASE UNCHANGED vars
  BY <1>1 DEF vars
<1>2. ASSUME NEW f \in Files, UploadStart(f) PROVE ArchiveInv'
  BY <1>2 DEF UploadStart
<1>3. ASSUME NEW f \in Files, UploadWritten(f) PROVE ArchiveInv'
  BY <1>3 DEF UploadWritten
<1>4. ASSUME NEW f \in Files, UploadFails(f) PROVE ArchiveInv'
  BY <1>4 DEF UploadFails
<1>5. ASSUME NEW f \in Files, UploadInsert(f) PROVE ArchiveInv'
  BY <1>5 DEF UploadInsert
<1>6. ASSUME NEW f \in Files, Stage(f) PROVE ArchiveInv'
  BY <1>6 DEF Stage
<1>7. ASSUME NEW f \in Files, PutBack(f) PROVE ArchiveInv'
  BY <1>7 DEF PutBack
<1>8. ASSUME NEW f \in Files, DeleteRow(f) PROVE ArchiveInv'
  BY <1>8 DEF DeleteRow
<1>9. ASSUME NEW f \in Files, Unlink(f) PROVE ArchiveInv'
  BY <1>9 DEF Unlink
<1>10. ASSUME NEW r \in Runs, Start(r) PROVE ArchiveInv'
  BY <1>10 DEF Start
<1>11. ASSUME NEW r \in Runs, Copy(r) PROVE ArchiveInv'
  BY <1>11 DEF Copy
<1>12. ASSUME NEW r \in Runs, Verify(r) PROVE ArchiveInv'
  BY <1>12 DEF Verify
<1>13. ASSUME NEW r \in Runs, VerifyFails(r) PROVE ArchiveInv'
  BY <1>13 DEF VerifyFails
<1>14. ASSUME NEW r \in Runs, Name(r) PROVE ArchiveInv'
  BY <1>14 DEF Name
<1>15. ASSUME NEW r \in Runs, NameFails(r) PROVE ArchiveInv'
  BY <1>15 DEF NameFails
<1>16. ASSUME NEW r \in Runs, List(r) PROVE ArchiveInv'
  BY <1>16 DEF List, Packable
<1>17. ASSUME NEW r \in Runs, ListNothing(r) PROVE ArchiveInv'
  BY <1>17 DEF ListNothing
<1>18. ASSUME NEW r \in Runs, PackFails(r) PROVE ArchiveInv'
  BY <1>18 DEF PackFails
<1>19. ASSUME NEW r \in Runs, Seal(r) PROVE ArchiveInv'
  BY <1>19 DEF Seal
<1>20. ASSUME NEW r \in Runs, SealFails(r) PROVE ArchiveInv'
  BY <1>20 DEF SealFails
<1>21. ASSUME NEW r \in Runs, Prune(r) PROVE ArchiveInv'
  BY <1>21 DEF Prune
<1>22. ASSUME NEW r \in Runs, Done(r) PROVE ArchiveInv'
  BY <1>22 DEF Done
<1>23. ASSUME NEW r \in Runs, Die(r) PROVE ArchiveInv'
  BY <1>23 DEF Die
<1>24. ASSUME NEW r \in Runs, NEW f \in Files, Pack(r, f) PROVE ArchiveInv'
  BY <1>24 DEF Pack
<1>25. ASSUME NEW r \in Runs, NEW q \in Runs, PruneBase(r, q) PROVE ArchiveInv'
  BY <1>25 DEF PruneBase
<1>26. ASSUME NEW r \in Runs, NEW q \in Runs, PruneZip(r, q) PROVE ArchiveInv'
  BY <1>26 DEF PruneZip
<1>27. QED
  BY <1>1, <1>2, <1>3, <1>4, <1>5, <1>6, <1>7, <1>8, <1>9, <1>10, <1>11, <1>12, <1>13,
     <1>14, <1>15, <1>16, <1>17, <1>18, <1>19, <1>20, <1>21, <1>22, <1>23, <1>24, <1>25,
     <1>26 DEF Next, Server, Run

\* archive_uploads after backup_database: every row of a copied database has its bytes in
\* the archive with the same stamp, or a deletion was at work on the file.
THEOREM ArchiveHasTheBytes == Spec => []RowsHaveBytes
<1>1. Init => ArchiveInv
  BY BackupAssumption DEF Init, ArchiveInv, Env, RunOK, Due
<1>2. ArchiveInv => RowsHaveBytes
  BY DEF ArchiveInv, RunOK, Due, RowsHaveBytes
<1>3. QED
  BY <1>1, <1>2, ArchiveStep, BackupTyped, PTL DEF Spec

-----------------------------------------------------------------------------
LEMMA SoloStep == TypeOK /\ TypeOK' /\ ArchiveInv /\ SoloInv /\ [Next]_vars => SoloInv'
<1> SUFFICES ASSUME TypeOK, TypeOK', ArchiveInv, SoloInv, [Next]_vars PROVE SoloInv'
  OBVIOUS
<1> USE BackupAssumption DEF SoloInv, Solo, TypeOK, Busy, Images, Runs, Others, Go, files, out, mem
<1>1. CASE UNCHANGED vars
  BY <1>1 DEF vars
<1>2. ASSUME NEW f \in Files, UploadStart(f) PROVE SoloInv'
  BY <1>2 DEF UploadStart
<1>3. ASSUME NEW f \in Files, UploadWritten(f) PROVE SoloInv'
  BY <1>3 DEF UploadWritten
<1>4. ASSUME NEW f \in Files, UploadFails(f) PROVE SoloInv'
  BY <1>4 DEF UploadFails
<1>5. ASSUME NEW f \in Files, UploadInsert(f) PROVE SoloInv'
  BY <1>5 DEF UploadInsert
<1>6. ASSUME NEW f \in Files, Stage(f) PROVE SoloInv'
  BY <1>6 DEF Stage
<1>7. ASSUME NEW f \in Files, PutBack(f) PROVE SoloInv'
  BY <1>7 DEF PutBack
<1>8. ASSUME NEW f \in Files, DeleteRow(f) PROVE SoloInv'
  BY <1>8 DEF DeleteRow
<1>9. ASSUME NEW f \in Files, Unlink(f) PROVE SoloInv'
  BY <1>9 DEF Unlink
<1>10. ASSUME NEW r \in Runs, Start(r) PROVE SoloInv'
  <2>1. CASE overlapped \/ Others(r)
    BY <1>10, <2>1 DEF Start
  <2>2. CASE ~overlapped /\ ~Others(r)
    <3>1. \A q \in Runs : q # r => at[q] \notin Busy /\ at'[q] = at[q]
      BY <1>10, <2>2 DEF Start
    <3>2. ASSUME NEW q \in Runs, r < q PROVE at[q] = "new"
      BY <1>10, <2>2, <3>2 DEF Start
    <3>3. ASSUME NEW q \in Runs, q # r PROVE Solo(q)'
      BY <1>10, <2>2, <3>1, <3>3 DEF Start
    <3>4. Solo(r)'
      BY <1>10, <2>2, <3>1, <3>2 DEF Start
    <3>5. QED
      BY <3>3, <3>4
  <2>3. QED
    BY <2>1, <2>2
<1>11. ASSUME NEW r \in Runs, Copy(r) PROVE SoloInv'
  BY <1>11 DEF Copy
<1>12. ASSUME NEW r \in Runs, Verify(r) PROVE SoloInv'
  BY <1>12 DEF Verify
<1>13. ASSUME NEW r \in Runs, VerifyFails(r) PROVE SoloInv'
  BY <1>13 DEF VerifyFails
<1>14. ASSUME NEW r \in Runs, Name(r) PROVE SoloInv'
  BY <1>14 DEF Name
<1>15. ASSUME NEW r \in Runs, NameFails(r) PROVE SoloInv'
  BY <1>15 DEF NameFails
<1>16. ASSUME NEW r \in Runs, List(r) PROVE SoloInv'
  BY <1>16 DEF List
<1>17. ASSUME NEW r \in Runs, ListNothing(r) PROVE SoloInv'
  BY <1>17 DEF ListNothing
<1>18. ASSUME NEW r \in Runs, PackFails(r) PROVE SoloInv'
  BY <1>18 DEF PackFails
<1>19. ASSUME NEW r \in Runs, Seal(r) PROVE SoloInv'
  BY <1>19 DEF Seal
<1>20. ASSUME NEW r \in Runs, SealFails(r) PROVE SoloInv'
  BY <1>20 DEF SealFails
<1>21. ASSUME NEW r \in Runs, Prune(r) PROVE SoloInv'
  <2>1. ASSUME ~overlapped PROVE r \notin Outdated
    <3>1. {s \in Groups : s > r} = {}
      BY <1>21, <2>1 DEF Prune, Groups, ArchiveInv, RunOK
    <3>2. Cardinality({s \in Groups : s > r}) = 0
      BY <3>1, FS_EmptySet
    <3>3. QED
      BY <3>2 DEF Outdated
  <2>2. QED
    BY <1>21, <2>1 DEF Prune
<1>22. ASSUME NEW r \in Runs, Done(r) PROVE SoloInv'
  BY <1>22 DEF Done
<1>23. ASSUME NEW r \in Runs, Die(r) PROVE SoloInv'
  BY <1>23 DEF Die
<1>24. ASSUME NEW r \in Runs, NEW f \in Files, Pack(r, f) PROVE SoloInv'
  BY <1>24 DEF Pack
<1>25. ASSUME NEW r \in Runs, NEW q \in Runs, PruneBase(r, q) PROVE SoloInv'
  BY <1>25 DEF PruneBase
<1>26. ASSUME NEW r \in Runs, NEW q \in Runs, PruneZip(r, q) PROVE SoloInv'
  BY <1>26 DEF PruneZip
<1>27. QED
  BY <1>1, <1>2, <1>3, <1>4, <1>5, <1>6, <1>7, <1>8, <1>9, <1>10, <1>11, <1>12, <1>13,
     <1>14, <1>15, <1>16, <1>17, <1>18, <1>19, <1>20, <1>21, <1>22, <1>23, <1>24, <1>25,
     <1>26 DEF Next, Server, Run

LEMMA SoloAlways == Spec => []SoloInv
<1>1. Init => SoloInv
  BY BackupAssumption DEF Init, SoloInv, Solo, Busy
<1>2. Init => ArchiveInv
  BY BackupAssumption DEF Init, ArchiveInv, Env, RunOK, Due
<1>3. QED
  BY <1>1, <1>2, ArchiveStep, SoloStep, BackupTyped, PTL DEF Spec

\* backup_database gives a name to whole copies only, unless two runs overlap.
THEOREM OnlyWholeIsNamed == Spec => []NamedIsWhole
<1>1. SoloInv => NamedIsWhole
  BY DEF SoloInv, Solo, NamedIsWhole
<1>2. QED
  BY <1>1, SoloAlways, PTL

\* A run that has pruned is whole itself, and no other prunes beside it.
LEMMA WholeStep ==
  TypeOK /\ SoloInv /\ AWholeRemains /\ [Next]_vars => AWholeRemains'
<1> SUFFICES ASSUME TypeOK, SoloInv, AWholeRemains, [Next]_vars, ~overlapped',
                    \E r \in Runs : at'[r] = "done"
             PROVE  \E w \in Runs : Whole(w)'
  BY DEF AWholeRemains
<1>1. CASE \E r \in Runs : at[r] = "unlink"
  <2>1. PICK r \in Runs : at[r] = "unlink"
    BY <1>1
  <2>2. ~overlapped
    BY DEF Next, Server, Run, vars, UploadStart, UploadWritten, UploadFails, UploadInsert,
       Stage, PutBack, DeleteRow, Unlink, Start, Copy, Verify, VerifyFails, Name, NameFails,
       List, ListNothing, PackFails, Seal, SealFails, Prune, Die, Pack, PruneBase, PruneZip,
       Done
  <2>3. base[r] = "whole" /\ zip[r] # "none" /\ r \notin stale[r]
    BY <2>1, <2>2 DEF SoloInv, Solo
  <2>4. ASSUME NEW q \in Runs, at[q] \in Busy PROVE q = r
    BY <2>1, <2>2, <2>4 DEF SoloInv, Solo, Busy
  <2>5. base'[r] = "whole" /\ zip'[r] # "none"
    <3> USE <2>1, <2>3 DEF out, files, mem, TypeOK
    <3>1. CASE UNCHANGED vars
      BY <3>1 DEF vars
    <3>2. CASE Server
      BY <3>2 DEF Server, UploadStart, UploadWritten, UploadFails, UploadInsert, Stage,
         PutBack, DeleteRow, Unlink
    <3>3. ASSUME NEW q \in Runs, Start(q) \/ Copy(q) \/ Verify(q) \/ VerifyFails(q)
                                 \/ NameFails(q) \/ List(q) \/ PackFails(q) \/ SealFails(q)
                                 \/ Prune(q) \/ Die(q) \/ Done(q)
                                 \/ \E f \in Files : Pack(q, f)
          PROVE base' = base /\ zip' = zip
      BY <3>3 DEF Start, Copy, Verify, VerifyFails, NameFails, List, PackFails, SealFails,
         Prune, Die, Done, Pack
    <3>4. ASSUME NEW q \in Runs, Name(q) \/ ListNothing(q) \/ Seal(q) PROVE FALSE
      BY <2>4, <3>4 DEF Name, ListNothing, Seal, Go, Busy
    <3>5. ASSUME NEW q \in Runs, NEW s \in Runs, PruneBase(q, s) \/ PruneZip(q, s)
          PROVE base'[r] = "whole" /\ zip'[r] # "none"
      <4>1. q = r
        BY <2>4, <3>5 DEF PruneBase, PruneZip, Busy
      <4>2. QED
        BY <4>1, <3>5 DEF PruneBase, PruneZip
    <3>6. QED
      BY <3>1, <3>2, <3>3, <3>4, <3>5 DEF Next, Run
  <2>6. QED
    BY <2>5 DEF Whole
<1>2. CASE \A r \in Runs : at[r] # "unlink"
  <2> USE <1>2 DEF out, files, mem, TypeOK, Go
  <2>1. \E r \in Runs : at[r] = "done"
    BY DEF Next, Server, Run, vars, UploadStart, UploadWritten, UploadFails, UploadInsert,
       Stage, PutBack, DeleteRow, Unlink, Start, Copy, Verify, VerifyFails, Name, NameFails,
       List, ListNothing, PackFails, Seal, SealFails, Prune, Die, Pack, PruneBase, PruneZip,
       Done
  <2>2. ~overlapped
    BY DEF Next, Server, Run, vars, UploadStart, UploadWritten, UploadFails, UploadInsert,
       Stage, PutBack, DeleteRow, Unlink, Start, Copy, Verify, VerifyFails, Name, NameFails,
       List, ListNothing, PackFails, Seal, SealFails, Prune, Die, Pack, PruneBase, PruneZip,
       Done
  <2>3. PICK w \in Runs : base[w] = "whole" /\ zip[w] # "none"
    BY <2>1, <2>2 DEF AWholeRemains, Whole
  <2>4. base'[w] = "whole" /\ zip'[w] # "none"
    <3> USE <2>3
    <3>1. CASE UNCHANGED vars
      BY <3>1 DEF vars
    <3>2. CASE Server
      BY <3>2 DEF Server, UploadStart, UploadWritten, UploadFails, UploadInsert, Stage,
         PutBack, DeleteRow, Unlink
    <3>3. ASSUME NEW q \in Runs, Start(q) \/ Copy(q) \/ Verify(q) \/ VerifyFails(q)
                                 \/ NameFails(q) \/ List(q) \/ PackFails(q) \/ SealFails(q)
                                 \/ Prune(q) \/ Die(q) \/ \E f \in Files : Pack(q, f)
          PROVE base' = base /\ zip' = zip
      BY <3>3 DEF Start, Copy, Verify, VerifyFails, NameFails, List, PackFails, SealFails,
         Prune, Die, Pack
    <3>4. ASSUME NEW q \in Runs, Name(q) \/ ListNothing(q) \/ Seal(q)
          PROVE base'[w] = "whole" /\ zip'[w] # "none"
      BY <3>4 DEF Name, ListNothing, Seal
    <3>5. ASSUME NEW q \in Runs, Done(q) \/ \E s \in Runs : PruneBase(q, s) \/ PruneZip(q, s)
          PROVE FALSE
      BY <3>5 DEF Done, PruneBase, PruneZip
    <3>6. QED
      BY <3>1, <3>2, <3>3, <3>4, <3>5 DEF Next, Run
  <2>5. QED
    BY <2>4 DEF Whole
<1>3. QED
  BY <1>1, <1>2

\* prune_backups keeps the newest stamps, databases without an archive among them: still
\* a whole backup is left from the first success on, unless two runs overlap.
THEOREM GoodBackupStays == Spec => []AWholeRemains
<1>1. Init => AWholeRemains
  BY DEF Init, AWholeRemains
<1>2. QED
  BY <1>1, WholeStep, SoloAlways, BackupTyped, PTL DEF Spec
=============================================================================
