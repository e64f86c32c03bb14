------------------------- MODULE FileStoreProofs -------------------------
(***************************************************************************)
(* Proofs about FileStore: type correctness, and that no row ever loses    *)
(* its bytes, for every number of files, courses, threads and maintenance  *)
(* runs, under every fault but two (see BytesNeverLost).                   *)
(*                                                                         *)
(* Each lemma below shows that one conjunct of the inductive invariant     *)
(* IInv survives every step, one named step per action.                    *)
(***************************************************************************)
EXTENDS FileStore, TLAPS

\* Boot is a process of its own.
LEMMA BootIsProc == Boot \in Procs /\ Boot \notin Requests \cup Cleaners
  BY FileStoreAssumption DEF Procs

\* The initial states are well typed.
LEMMA TypeInit == Init => TypeOK
  BY FileStoreAssumption DEF Init, TypeOK, Task, NoTask, Steps, Kinds, Present

\* Every step keeps the types.
LEMMA TypeStep == TypeOK /\ [Next]_vars => TypeOK'
<1> SUFFICES ASSUME TypeOK, [Next]_vars PROVE TypeOK'
  OBVIOUS
<1> USE FileStoreAssumption, BootIsProc
    DEF TypeOK, Present, Task, NoTask, Steps, Kinds, db, fs, env, mem, Procs
<1>1. ASSUME NEW c \in Courses, CreateCourse(c) PROVE TypeOK'
  BY <1>1 DEF CreateCourse
<1>2. ASSUME NEW f \in Files, TrashFile(f) PROVE TypeOK'
  BY <1>2 DEF TrashFile
<1>3. ASSUME NEW f \in Files, Expire(f) PROVE TypeOK'
  BY <1>3 DEF Expire
<1>4. ASSUME NEW p \in Requests, NEW f \in Files, UploadWrite(p, f) PROVE TypeOK'
  BY <1>4 DEF UploadWrite, Begin, CanServe, FreshFile
<1>5. ASSUME NEW p \in Procs, UploadInsert(p) PROVE TypeOK'
  BY <1>5 DEF UploadInsert, Finish, Reset
<1>6. ASSUME NEW p \in Procs, UploadRefused(p) PROVE TypeOK'
  BY <1>6 DEF UploadRefused, Goto
<1>7. ASSUME NEW p \in Procs, UploadRemove(p) PROVE TypeOK'
  BY <1>7 DEF UploadRemove, Finish, Reset
<1>8. ASSUME NEW p \in Requests, NEW f \in Files, UntrashSelect(p, f) PROVE TypeOK'
  BY <1>8 DEF UntrashSelect, Begin, CanServe
<1>9. ASSUME NEW p \in Procs, UntrashApply(p) PROVE TypeOK'
  BY <1>9 DEF UntrashApply, Finish, Reset
<1>10. ASSUME NEW p \in Procs, UntrashFails(p) PROVE TypeOK'
  BY <1>10 DEF UntrashFails, Finish, Reset
<1>11. ASSUME NEW p \in Requests, NEW f \in Files, PurgeSelect(p, f) PROVE TypeOK'
  BY <1>11 DEF PurgeSelect, Begin, CanServe
<1>12. ASSUME NEW p \in Cleaners, SweepSelect(p) PROVE TypeOK'
  BY <1>12 DEF SweepSelect, Begin, Expired
<1>13. ASSUME NEW p \in Requests, NEW c \in Courses, DropSelect(p, c) PROVE TypeOK'
  BY <1>13 DEF DropSelect, Begin, CanServe
<1>14. ASSUME NEW p \in Procs, StageJournal(p) PROVE TypeOK'
  BY <1>14 DEF StageJournal, Goto, FreeNames, NamesFor
<1>15. ASSUME NEW p \in Procs, StageRefused(p) PROVE TypeOK'
  BY <1>15 DEF StageRefused, Finish, Reset
<1>16. ASSUME NEW p \in Procs, NEW n \in Names, Move(p, n) PROVE TypeOK'
  BY <1>16 DEF Move, Goto
<1>17. ASSUME NEW p \in Procs, NEW n \in Names, MoveFails(p, n) PROVE TypeOK'
  BY <1>17 DEF MoveFails, Goto
<1>18. ASSUME NEW p \in Procs, NEW n \in Names, PutBack(p, n) PROVE TypeOK'
  BY <1>18 DEF PutBack
<1>19. ASSUME NEW p \in Procs, ClearUndone(p) PROVE TypeOK'
  BY <1>19 DEF ClearUndone, ClearJournal, Goto
<1>20. ASSUME NEW p \in Procs, ForgetPlan(p) PROVE TypeOK'
  BY <1>20 DEF ForgetPlan, ClearJournal, Finish, Reset
<1>21. ASSUME NEW p \in Procs, DeleteRows(p) PROVE TypeOK'
  BY <1>21 DEF DeleteRows, Goto, Doomed
<1>22. ASSUME NEW p \in Procs, DeleteFails(p) PROVE TypeOK'
  BY <1>22 DEF DeleteFails, Goto
<1>23. ASSUME NEW p \in Procs, ClearRestored(p) PROVE TypeOK'
  BY <1>23 DEF ClearRestored, ClearJournal, Finish, Reset
<1>24. ASSUME NEW p \in Procs, NEW n \in Names, Discard(p, n) PROVE TypeOK'
  BY <1>24 DEF Discard
<1>25. ASSUME NEW p \in Procs, ClearDiscarded(p) PROVE TypeOK'
  BY <1>25 DEF ClearDiscarded, ClearJournal, Finish, Reset
<1>26. ASSUME BootStart PROVE TypeOK'
  BY <1>26 DEF BootStart
<1>27. ASSUME NEW n \in Names, BootRecover(n) PROVE TypeOK'
  BY <1>27 DEF BootRecover
<1>28. ASSUME BootClear PROVE TypeOK'
  BY <1>28 DEF BootClear, ClearJournal, Goto
<1>29. ASSUME BootScan PROVE TypeOK'
  BY <1>29 DEF BootScan, Goto
<1>30. ASSUME BootGlob PROVE TypeOK'
  BY <1>30 DEF BootGlob, Goto
<1>31. ASSUME NEW n \in Names, BootReap(n) PROVE TypeOK'
  BY <1>31 DEF BootReap
<1>32. ASSUME BootSweep PROVE TypeOK'
  <2>1. CASE "sweep" \in Ops /\ Expired # {}
    <3>1. Begin(Boot, "sweep", "stage", NoCourse, Expired) /\ UNCHANGED <<db, fs, env>>
      BY <1>32, <2>1 DEF BootSweep
    <3>2. Expired \subseteq Files
      BY DEF Expired
    <3> QED BY <3>1, <3>2 DEF Begin
  <2>2. CASE ~("sweep" \in Ops /\ Expired # {})
    <3>1. Finish(Boot, TRUE) /\ UNCHANGED <<db, fs>>
      BY <1>32, <2>2 DEF BootSweep
    <3> QED BY <3>1 DEF Finish, Reset
  <2> QED BY <2>1, <2>2
<1>33. ASSUME Crash PROVE TypeOK'
  BY <1>33 DEF Crash, Reset
<1>34. ASSUME NEW p \in Cleaners, CleanerCrash(p) PROVE TypeOK'
  BY <1>34 DEF CleanerCrash, Reset
<1>35. CASE UNCHANGED vars
  BY <1>35 DEF vars
<1> QED
  BY <1>1, <1>2, <1>3, <1>4, <1>5, <1>6, <1>7, <1>8, <1>9, <1>10, <1>11,
     <1>12, <1>13, <1>14, <1>15, <1>16, <1>17, <1>18, <1>19, <1>20, <1>21,
     <1>22, <1>23, <1>24, <1>25, <1>26, <1>27, <1>28, <1>29, <1>30, <1>31,
     <1>32, <1>33, <1>34, <1>35, Zenon
  DEF Next, Continue, BootStep

\* The state of every execution is well typed.
THEOREM TypeCorrect == Spec => []TypeOK
  BY TypeInit, TypeStep, PTL DEF Spec

-----------------------------------------------------------------------------
\* Threads run only while the server is up, and nothing else while it starts.
LEMMA AloneStep ==
  ASSUME ~Overlap, TypeOK, Alone, [Next]_vars
  PROVE  Alone'
<1> USE FileStoreAssumption, BootIsProc
    DEF TypeOK, Alone, Idle, Procs, db, fs, env, mem
<1>1. ASSUME NEW c \in Courses, CreateCourse(c) PROVE Alone'
  BY <1>1 DEF CreateCourse
<1>2. ASSUME NEW f \in Files, TrashFile(f) PROVE Alone'
  BY <1>2 DEF TrashFile
<1>3. ASSUME NEW f \in Files, Expire(f) PROVE Alone'
  BY <1>3 DEF Expire
<1>4. ASSUME NEW p \in Requests, NEW f \in Files, UploadWrite(p, f) PROVE Alone'
  BY <1>4 DEF UploadWrite, Begin, CanServe, FreshFile
<1>5. ASSUME NEW p \in Procs, UploadInsert(p) PROVE Alone'
  BY <1>5 DEF UploadInsert, Finish, Reset
<1>6. ASSUME NEW p \in Procs, UploadRefused(p) PROVE Alone'
  BY <1>6 DEF UploadRefused, Goto
<1>7. ASSUME NEW p \in Procs, UploadRemove(p) PROVE Alone'
  BY <1>7 DEF UploadRemove, Finish, Reset
<1>8. ASSUME NEW p \in Requests, NEW f \in Files, UntrashSelect(p, f) PROVE Alone'
  BY <1>8 DEF UntrashSelect, Begin, CanServe
<1>9. ASSUME NEW p \in Procs, UntrashApply(p) PROVE Alone'
  BY <1>9 DEF UntrashApply, Finish, Reset
<1>10. ASSUME NEW p \in Procs, UntrashFails(p) PROVE Alone'
  BY <1>10 DEF UntrashFails, Finish, Reset
<1>11. ASSUME NEW p \in Requests, NEW f \in Files, PurgeSelect(p, f) PROVE Alone'
  BY <1>11 DEF PurgeSelect, Begin, CanServe
<1>12. ASSUME NEW p \in Cleaners, SweepSelect(p) PROVE Alone'
  BY <1>12 DEF SweepSelect, Begin, Expired
<1>13. ASSUME NEW p \in Requests, NEW c \in Courses, DropSelect(p, c) PROVE Alone'
  BY <1>13 DEF DropSelect, Begin, CanServe
<1>14. ASSUME NEW p \in Procs, StageJournal(p) PROVE Alone'
  BY <1>14 DEF StageJournal, Goto, FreeNames, NamesFor
<1>15. ASSUME NEW p \in Procs, StageRefused(p) PROVE Alone'
  BY <1>15 DEF StageRefused, Finish, Reset
<1>16. ASSUME NEW p \in Procs, NEW n \in Names, Move(p, n) PROVE Alone'
  BY <1>16 DEF Move, Goto
<1>17. ASSUME NEW p \in Procs, NEW n \in Names, MoveFails(p, n) PROVE Alone'
  BY <1>17 DEF MoveFails, Goto
<1>18. ASSUME NEW p \in Procs, NEW n \in Names, PutBack(p, n) PROVE Alone'
  BY <1>18 DEF PutBack
<1>19. ASSUME NEW p \in Procs, ClearUndone(p) PROVE Alone'
  BY <1>19 DEF ClearUndone, ClearJournal, Goto
<1>20. ASSUME NEW p \in Procs, ForgetPlan(p) PROVE Alone'
  BY <1>20 DEF ForgetPlan, ClearJournal, Finish, Reset
<1>21. ASSUME NEW p \in Procs, DeleteRows(p) PROVE Alone'
  BY <1>21 DEF DeleteRows, Goto, Doomed
<1>22. ASSUME NEW p \in Procs, DeleteFails(p) PROVE Alone'
  BY <1>22 DEF DeleteFails, Goto
<1>23. ASSUME NEW p \in Procs, ClearRestored(p) PROVE Alone'
  BY <1>23 DEF ClearRestored, ClearJournal, Finish, Reset
<1>24. ASSUME NEW p \in Procs, NEW n \in Names, Discard(p, n) PROVE Alone'
  BY <1>24 DEF Discard
<1>25. ASSUME NEW p \in Procs, ClearDiscarded(p) PROVE Alone'
  BY <1>25 DEF ClearDiscarded, ClearJournal, Finish, Reset
<1>26. ASSUME BootStart PROVE Alone'
  BY <1>26 DEF BootStart
<1>27. ASSUME NEW n \in Names, BootRecover(n) PROVE Alone'
  BY <1>27 DEF BootRecover
<1>28. ASSUME BootClear PROVE Alone'
  BY <1>28 DEF BootClear, ClearJournal, Goto
<1>29. ASSUME BootScan PROVE Alone'
  BY <1>29 DEF BootScan, Goto
<1>30. ASSUME BootGlob PROVE Alone'
  BY <1>30 DEF BootGlob, Goto
<1>31. ASSUME NEW n \in Names, BootReap(n) PROVE Alone'
  BY <1>31 DEF BootReap
<1>32. ASSUME BootSweep PROVE Alone'
  BY <1>32 DEF BootSweep, Begin, Finish, Reset, Expired
<1>33. ASSUME Crash PROVE Alone'
  BY <1>33 DEF Crash, Reset
<1>34. ASSUME NEW p \in Cleaners, CleanerCrash(p) PROVE Alone'
  BY <1>34 DEF CleanerCrash, Reset
<1>35. CASE UNCHANGED vars
  BY <1>35 DEF vars
<1> QED
  BY <1>1, <1>2, <1>3, <1>4, <1>5, <1>6, <1>7, <1>8, <1>9, <1>10, <1>11,
     <1>12, <1>13, <1>14, <1>15, <1>16, <1>17, <1>18, <1>19, <1>20, <1>21,
     <1>22, <1>23, <1>24, <1>25, <1>26, <1>27, <1>28, <1>29, <1>30, <1>31,
     <1>32, <1>33, <1>34, <1>35, Zenon
  DEF Next, Continue, BootStep

\* A name is in the journal before its file moves there, and leaves the journal
\* only when nothing is left under it, so a name outside it belongs to no row.
LEMMA StagedStep ==
  ASSUME ~Overlap, "undo" \notin Faults, IInv, [Next]_vars
  PROVE  UnjournaledIsGone'
<1> USE FileStoreAssumption, BootIsProc
    DEF IInv, TypeOK, UnjournaledIsGone, NamesOK, RowsOK, Apart, Own, May, Present,
        Uploading, Deleting, db, fs, env, mem
<1>1. ASSUME NEW c \in Courses, CreateCourse(c) PROVE UnjournaledIsGone'
  BY <1>1 DEF CreateCourse
<1>2. ASSUME NEW f \in Files, TrashFile(f) PROVE UnjournaledIsGone'
  BY <1>2 DEF TrashFile
<1>3. ASSUME NEW f \in Files, Expire(f) PROVE UnjournaledIsGone'
  BY <1>3 DEF Expire
<1>4. ASSUME NEW p \in Requests, NEW f \in Files, UploadWrite(p, f) PROVE UnjournaledIsGone'
  BY <1>4 DEF UploadWrite, Begin, CanServe, FreshFile
<1>5. ASSUME NEW p \in Procs, UploadInsert(p) PROVE UnjournaledIsGone'
  BY <1>5 DEF UploadInsert, Finish, Reset
<1>6. ASSUME NEW p \in Procs, UploadRefused(p) PROVE UnjournaledIsGone'
  BY <1>6 DEF UploadRefused, Goto
<1>7. ASSUME NEW p \in Procs, UploadRemove(p) PROVE UnjournaledIsGone'
  BY <1>7 DEF UploadRemove, Finish, Reset
<1>8. ASSUME NEW p \in Requests, NEW f \in Files, UntrashSelect(p, f) PROVE UnjournaledIsGone'
  BY <1>8 DEF UntrashSelect, Begin, CanServe
<1>9. ASSUME NEW p \in Procs, UntrashApply(p) PROVE UnjournaledIsGone'
  BY <1>9 DEF UntrashApply, Finish, Reset
<1>10. ASSUME NEW p \in Procs, UntrashFails(p) PROVE UnjournaledIsGone'
  BY <1>10 DEF UntrashFails, Finish, Reset
<1>11. ASSUME NEW p \in Requests, NEW f \in Files, PurgeSelect(p, f) PROVE UnjournaledIsGone'
  BY <1>11 DEF PurgeSelect, Begin, CanServe
<1>12. ASSUME NEW p \in Cleaners, SweepSelect(p) PROVE UnjournaledIsGone'
  BY <1>12 DEF SweepSelect, Begin, Expired
<1>13. ASSUME NEW p \in Requests, NEW c \in Courses, DropSelect(p, c) PROVE UnjournaledIsGone'
  BY <1>13 DEF DropSelect, Begin, CanServe
<1>14. ASSUME NEW p \in Procs, StageJournal(p) PROVE UnjournaledIsGone'
  BY <1>14 DEF StageJournal, Goto, FreeNames, NamesFor
<1>15. ASSUME NEW p \in Procs, StageRefused(p) PROVE UnjournaledIsGone'
  BY <1>15 DEF StageRefused, Finish, Reset
<1>16. ASSUME NEW p \in Procs, NEW n \in Names, Move(p, n) PROVE UnjournaledIsGone'
  BY <1>16 DEF Move, Goto
<1>17. ASSUME NEW p \in Procs, NEW n \in Names, MoveFails(p, n) PROVE UnjournaledIsGone'
  BY <1>17 DEF MoveFails, Goto
<1>18. ASSUME NEW p \in Procs, NEW n \in Names, PutBack(p, n) PROVE UnjournaledIsGone'
  BY <1>18 DEF PutBack
<1>19. ASSUME NEW p \in Procs, ClearUndone(p) PROVE UnjournaledIsGone'
  BY <1>19 DEF ClearUndone, ClearJournal, Goto
<1>20. ASSUME NEW p \in Procs, ForgetPlan(p) PROVE UnjournaledIsGone'
  BY <1>20 DEF ForgetPlan, ClearJournal, Finish, Reset
<1>21. ASSUME NEW p \in Procs, DeleteRows(p) PROVE UnjournaledIsGone'
  BY <1>21 DEF DeleteRows, Goto, Doomed
<1>22. ASSUME NEW p \in Procs, DeleteFails(p) PROVE UnjournaledIsGone'
  BY <1>22 DEF DeleteFails, Goto
<1>23. ASSUME NEW p \in Procs, ClearRestored(p) PROVE UnjournaledIsGone'
  BY <1>23 DEF ClearRestored, ClearJournal, Finish, Reset
<1>24. ASSUME NEW p \in Procs, NEW n \in Names, Discard(p, n) PROVE UnjournaledIsGone'
  BY <1>24 DEF Discard
<1>25. ASSUME NEW p \in Procs, ClearDiscarded(p) PROVE UnjournaledIsGone'
  BY <1>25 DEF ClearDiscarded, ClearJournal, Finish, Reset
<1>26. ASSUME BootStart PROVE UnjournaledIsGone'
  BY <1>26 DEF BootStart
<1>27. ASSUME NEW n \in Names, BootRecover(n) PROVE UnjournaledIsGone'
  BY <1>27 DEF BootRecover
<1>28. ASSUME BootClear PROVE UnjournaledIsGone'
  BY <1>28 DEF BootClear, ClearJournal, Goto
<1>29. ASSUME BootScan PROVE UnjournaledIsGone'
  BY <1>29 DEF BootScan, Goto
<1>30. ASSUME BootGlob PROVE UnjournaledIsGone'
  BY <1>30 DEF BootGlob, Goto
<1>31. ASSUME NEW n \in Names, BootReap(n) PROVE UnjournaledIsGone'
  BY <1>31 DEF BootReap
<1>32. ASSUME BootSweep PROVE UnjournaledIsGone'
  BY <1>32 DEF BootSweep, Begin, Finish, Reset, Expired
<1>33. ASSUME Crash PROVE UnjournaledIsGone'
  BY <1>33 DEF Crash, Reset
<1>34. ASSUME NEW p \in Cleaners, CleanerCrash(p) PROVE UnjournaledIsGone'
  BY <1>34 DEF CleanerCrash, Reset
<1>35. CASE UNCHANGED vars
  BY <1>35 DEF vars
<1> QED
  BY <1>1, <1>2, <1>3, <1>4, <1>5, <1>6, <1>7, <1>8, <1>9, <1>10, <1>11,
     <1>12, <1>13, <1>14, <1>15, <1>16, <1>17, <1>18, <1>19, <1>20, <1>21,
     <1>22, <1>23, <1>24, <1>25, <1>26, <1>27, <1>28, <1>29, <1>30, <1>31,
     <1>32, <1>33, <1>34, <1>35, Zenon
  DEF Next, Continue, BootStep

\* Bytes move between a stored name and a staged name, and are unlinked only
\* when their row is gone.
LEMMA KeptStep ==
  ASSUME ~Overlap, "undo" \notin Faults, IInv, [Next]_vars
  PROVE  Kept'
<1> USE FileStoreAssumption, BootIsProc
    DEF IInv, TypeOK, Kept, NamesOK, RowsOK, Deleting, Uploading, Present, Binned,
        Own, May, db, fs, env, mem
<1>1. ASSUME NEW c \in Courses, CreateCourse(c) PROVE Kept'
  BY <1>1 DEF CreateCourse
<1>2. ASSUME NEW f \in Files, TrashFile(f) PROVE Kept'
  BY <1>2 DEF TrashFile
<1>3. ASSUME NEW f \in Files, Expire(f) PROVE Kept'
  BY <1>3 DEF Expire
<1>4. ASSUME NEW p \in Requests, NEW f \in Files, UploadWrite(p, f) PROVE Kept'
  BY <1>4 DEF UploadWrite, Begin, CanServe, FreshFile
<1>5. ASSUME NEW p \in Procs, UploadInsert(p) PROVE Kept'
  BY <1>5 DEF UploadInsert, Finish, Reset
<1>6. ASSUME NEW p \in Procs, UploadRefused(p) PROVE Kept'
  BY <1>6 DEF UploadRefused, Goto
<1>7. ASSUME NEW p \in Procs, UploadRemove(p) PROVE Kept'
  BY <1>7 DEF UploadRemove, Finish, Reset
<1>8. ASSUME NEW p \in Requests, NEW f \in Files, UntrashSelect(p, f) PROVE Kept'
  BY <1>8 DEF UntrashSelect, Begin, CanServe
<1>9. ASSUME NEW p \in Procs, UntrashApply(p) PROVE Kept'
  BY <1>9 DEF UntrashApply, Finish, Reset
<1>10. ASSUME NEW p \in Procs, UntrashFails(p) PROVE Kept'
  BY <1>10 DEF UntrashFails, Finish, Reset
<1>11. ASSUME NEW p \in Requests, NEW f \in Files, PurgeSelect(p, f) PROVE Kept'
  BY <1>11 DEF PurgeSelect, Begin, CanServe
<1>12. ASSUME NEW p \in Cleaners, SweepSelect(p) PROVE Kept'
  BY <1>12 DEF SweepSelect, Begin, Expired
<1>13. ASSUME NEW p \in Requests, NEW c \in Courses, DropSelect(p, c) PROVE Kept'
  BY <1>13 DEF DropSelect, Begin, CanServe
<1>14. ASSUME NEW p \in Procs, StageJournal(p) PROVE Kept'
  BY <1>14 DEF StageJournal, Goto, FreeNames, NamesFor
<1>15. ASSUME NEW p \in Procs, StageRefused(p) PROVE Kept'
  BY <1>15 DEF StageRefused, Finish, Reset
<1>16. ASSUME NEW p \in Procs, NEW n \in Names, Move(p, n) PROVE Kept'
  BY <1>16 DEF Move, Goto
<1>17. ASSUME NEW p \in Procs, NEW n \in Names, MoveFails(p, n) PROVE Kept'
  BY <1>17 DEF MoveFails, Goto
<1>18. ASSUME NEW p \in Procs, NEW n \in Names, PutBack(p, n) PROVE Kept'
  BY <1>18 DEF PutBack
<1>19. ASSUME NEW p \in Procs, ClearUndone(p) PROVE Kept'
  BY <1>19 DEF ClearUndone, ClearJournal, Goto
<1>20. ASSUME NEW p \in Procs, ForgetPlan(p) PROVE Kept'
  BY <1>20 DEF ForgetPlan, ClearJournal, Finish, Reset
<1>21. ASSUME NEW p \in Procs, DeleteRows(p) PROVE Kept'
  BY <1>21 DEF DeleteRows, Goto, Doomed
<1>22. ASSUME NEW p \in Procs, DeleteFails(p) PROVE Kept'
  BY <1>22 DEF DeleteFails, Goto
<1>23. ASSUME NEW p \in Procs, ClearRestored(p) PROVE Kept'
  BY <1>23 DEF ClearRestored, ClearJournal, Finish, Reset
<1>24. ASSUME NEW p \in Procs, NEW n \in Names, Discard(p, n) PROVE Kept'
  BY <1>24 DEF Discard
<1>25. ASSUME NEW p \in Procs, ClearDiscarded(p) PROVE Kept'
  BY <1>25 DEF ClearDiscarded, ClearJournal, Finish, Reset
<1>26. ASSUME BootStart PROVE Kept'
  BY <1>26 DEF BootStart
<1>27. ASSUME NEW n \in Names, BootRecover(n) PROVE Kept'
  BY <1>27 DEF BootRecover
<1>28. ASSUME BootClear PROVE Kept'
  BY <1>28 DEF BootClear, ClearJournal, Goto
<1>29. ASSUME BootScan PROVE Kept'
  BY <1>29 DEF BootScan, Goto
<1>30. ASSUME BootGlob PROVE Kept'
  BY <1>30 DEF BootGlob, Goto
<1>31. ASSUME NEW n \in Names, BootReap(n) PROVE Kept'
  BY <1>31 DEF BootReap
<1>32. ASSUME BootSweep PROVE Kept'
  BY <1>32 DEF BootSweep, Begin, Finish, Reset, Expired
<1>33. ASSUME Crash PROVE Kept'
  BY <1>33 DEF Crash, Reset
<1>34. ASSUME NEW p \in Cleaners, CleanerCrash(p) PROVE Kept'
  BY <1>34 DEF CleanerCrash, Reset
<1>35. CASE UNCHANGED vars
  BY <1>35 DEF vars
<1> QED
  BY <1>1, <1>2, <1>3, <1>4, <1>5, <1>6, <1>7, <1>8, <1>9, <1>10, <1>11,
     <1>12, <1>13, <1>14, <1>15, <1>16, <1>17, <1>18, <1>19, <1>20, <1>21,
     <1>22, <1>23, <1>24, <1>25, <1>26, <1>27, <1>28, <1>29, <1>30, <1>31,
     <1>32, <1>33, <1>34, <1>35, Zenon
  DEF Next, Continue, BootStep

\* The rows a job works on stay what its SELECT or its INSERT made them.
LEMMA RowsStep ==
  ASSUME ~Overlap, "undo" \notin Faults, IInv, [Next]_vars
  PROVE  \A q \in Procs : RowsOK(q)'
<1> USE FileStoreAssumption, BootIsProc
    DEF IInv, TypeOK, Task, UnjournaledIsGone, NamesOK, RowsOK, Apart, Own, Deleting,
        Uploading, Recovering, Alone, Present, Binned, Idle, db, fs, env, mem, Procs
<1>1. ASSUME NEW c \in Courses, CreateCourse(c) PROVE \A q \in Procs : RowsOK(q)'
  BY <1>1 DEF CreateCourse
<1>2. ASSUME NEW f \in Files, TrashFile(f) PROVE \A q \in Procs : RowsOK(q)'
  BY <1>2 DEF TrashFile
<1>3. ASSUME NEW f \in Files, Expire(f) PROVE \A q \in Procs : RowsOK(q)'
  BY <1>3 DEF Expire
<1>4. ASSUME NEW p \in Requests, NEW f \in Files, UploadWrite(p, f) PROVE \A q \in Procs : RowsOK(q)'
  BY <1>4 DEF UploadWrite, Begin, CanServe, FreshFile
<1>5. ASSUME NEW p \in Procs, UploadInsert(p) PROVE \A q \in Procs : RowsOK(q)'
  BY <1>5 DEF UploadInsert, Finish, Reset
<1>6. ASSUME NEW p \in Procs, UploadRefused(p) PROVE \A q \in Procs : RowsOK(q)'
  BY <1>6 DEF UploadRefused, Goto
<1>7. ASSUME NEW p \in Procs, UploadRemove(p) PROVE \A q \in Procs : RowsOK(q)'
  BY <1>7 DEF UploadRemove, Finish, Reset
<1>8. ASSUME NEW p \in Requests, NEW f \in Files, UntrashSelect(p, f) PROVE \A q \in Procs : RowsOK(q)'
  BY <1>8 DEF UntrashSelect, Begin, CanServe
<1>9. ASSUME NEW p \in Procs, UntrashApply(p) PROVE \A q \in Procs : RowsOK(q)'
  BY <1>9 DEF UntrashApply, Finish, Reset
<1>10. ASSUME NEW p \in Procs, UntrashFails(p) PROVE \A q \in Procs : RowsOK(q)'
  BY <1>10 DEF UntrashFails, Finish, Reset
<1>11. ASSUME NEW p \in Requests, NEW f \in Files, PurgeSelect(p, f) PROVE \A q \in Procs : RowsOK(q)'
  <2> USE <1>11
  <2>1. RowsOK(p)'
    BY DEF PurgeSelect, Begin, CanServe, Idle
  <2>2. ASSUME NEW q \in Procs \ {p} PROVE RowsOK(q)'
    BY <2>2 DEF PurgeSelect, Begin, CanServe, Idle
  <2> QED BY <2>1, <2>2
<1>12. ASSUME NEW p \in Cleaners, SweepSelect(p) PROVE \A q \in Procs : RowsOK(q)'
  <2> USE <1>12
  <2>1. RowsOK(p)'
    BY DEF SweepSelect, Begin, Expired, Idle
  <2>2. ASSUME NEW q \in Procs \ {p} PROVE RowsOK(q)'
    BY <2>2 DEF SweepSelect, Begin, Expired, Idle
  <2> QED BY <2>1, <2>2
<1>13. ASSUME NEW p \in Requests, NEW c \in Courses, DropSelect(p, c) PROVE \A q \in Procs : RowsOK(q)'
  <2> USE <1>13
  <2>1. RowsOK(p)'
    BY DEF DropSelect, Begin, CanServe, Idle
  <2>2. ASSUME NEW q \in Procs \ {p} PROVE RowsOK(q)'
    BY <2>2 DEF DropSelect, Begin, CanServe, Idle
  <2> QED BY <2>1, <2>2
<1>14. ASSUME NEW p \in Procs, StageJournal(p) PROVE \A q \in Procs : RowsOK(q)'
  BY <1>14 DEF StageJournal, Goto, FreeNames, NamesFor
<1>15. ASSUME NEW p \in Procs, StageRefused(p) PROVE \A q \in Procs : RowsOK(q)'
  BY <1>15 DEF StageRefused, Finish, Reset
<1>16. ASSUME NEW p \in Procs, NEW n \in Names, Move(p, n) PROVE \A q \in Procs : RowsOK(q)'
  BY <1>16 DEF Move, Goto
<1>17. ASSUME NEW p \in Procs, NEW n \in Names, MoveFails(p, n) PROVE \A q \in Procs : RowsOK(q)'
  BY <1>17 DEF MoveFails, Goto
<1>18. ASSUME NEW p \in Procs, NEW n \in Names, PutBack(p, n) PROVE \A q \in Procs : RowsOK(q)'
  BY <1>18 DEF PutBack
<1>19. ASSUME NEW p \in Procs, ClearUndone(p) PROVE \A q \in Procs : RowsOK(q)'
  BY <1>19 DEF ClearUndone, ClearJournal, Goto
<1>20. ASSUME NEW p \in Procs, ForgetPlan(p) PROVE \A q \in Procs : RowsOK(q)'
  BY <1>20 DEF ForgetPlan, ClearJournal, Finish, Reset
<1>21. ASSUME NEW p \in Procs, DeleteRows(p) PROVE \A q \in Procs : RowsOK(q)'
  BY <1>21 DEF DeleteRows, Goto, Doomed
<1>22. ASSUME NEW p \in Procs, DeleteFails(p) PROVE \A q \in Procs : RowsOK(q)'
  BY <1>22 DEF DeleteFails, Goto
<1>23. ASSUME NEW p \in Procs, ClearRestored(p) PROVE \A q \in Procs : RowsOK(q)'
  BY <1>23 DEF ClearRestored, ClearJournal, Finish, Reset
<1>24. ASSUME NEW p \in Procs, NEW n \in Names, Discard(p, n) PROVE \A q \in Procs : RowsOK(q)'
  BY <1>24 DEF Discard
<1>25. ASSUME NEW p \in Procs, ClearDiscarded(p) PROVE \A q \in Procs : RowsOK(q)'
  BY <1>25 DEF ClearDiscarded, ClearJournal, Finish, Reset
<1>26. ASSUME BootStart PROVE \A q \in Procs : RowsOK(q)'
  BY <1>26 DEF BootStart
<1>27. ASSUME NEW n \in Names, BootRecover(n) PROVE \A q \in Procs : RowsOK(q)'
  BY <1>27 DEF BootRecover
<1>28. ASSUME BootClear PROVE \A q \in Procs : RowsOK(q)'
  BY <1>28 DEF BootClear, ClearJournal, Goto
<1>29. ASSUME BootScan PROVE \A q \in Procs : RowsOK(q)'
  BY <1>29 DEF BootScan, Goto
<1>30. ASSUME BootGlob PROVE \A q \in Procs : RowsOK(q)'
  BY <1>30 DEF BootGlob, Goto
<1>31. ASSUME NEW n \in Names, BootReap(n) PROVE \A q \in Procs : RowsOK(q)'
  BY <1>31 DEF BootReap
<1>32. ASSUME BootSweep PROVE \A q \in Procs : RowsOK(q)'
  BY <1>32 DEF BootSweep, Begin, Finish, Reset, Expired
<1>33. ASSUME Crash PROVE \A q \in Procs : RowsOK(q)'
  BY <1>33 DEF Crash, Reset
<1>34. ASSUME NEW p \in Cleaners, CleanerCrash(p) PROVE \A q \in Procs : RowsOK(q)'
  BY <1>34 DEF CleanerCrash, Reset
<1>35. CASE UNCHANGED vars
  BY <1>35 DEF vars
<1> QED
  BY <1>1, <1>2, <1>3, <1>4, <1>5, <1>6, <1>7, <1>8, <1>9, <1>10, <1>11,
     <1>12, <1>13, <1>14, <1>15, <1>16, <1>17, <1>18, <1>19, <1>20, <1>21,
     <1>22, <1>23, <1>24, <1>25, <1>26, <1>27, <1>28, <1>29, <1>30, <1>31,
     <1>32, <1>33, <1>34, <1>35, Zenon
  DEF Next, Continue, BootStep

\* What a job holds and what it will clear stays what its step says.
LEMMA NamesStep ==
  ASSUME ~Overlap, "undo" \notin Faults, IInv, [Next]_vars
  PROVE  \A q \in Procs : NamesOK(q)'
<1> USE FileStoreAssumption, BootIsProc
    DEF IInv, TypeOK, UnjournaledIsGone, NamesOK, Apart, Own, Alone, Idle,
        Recovering, Procs, May, db, fs, env, mem
<1>1. ASSUME NEW c \in Courses, CreateCourse(c) PROVE \A q \in Procs : NamesOK(q)'
  BY <1>1 DEF CreateCourse
<1>2. ASSUME NEW f \in Files, TrashFile(f) PROVE \A q \in Procs : NamesOK(q)'
  BY <1>2 DEF TrashFile
<1>3. ASSUME NEW f \in Files, Expire(f) PROVE \A q \in Procs : NamesOK(q)'
  BY <1>3 DEF Expire
<1>4. ASSUME NEW p \in Requests, NEW f \in Files, UploadWrite(p, f) PROVE \A q \in Procs : NamesOK(q)'
  BY <1>4 DEF UploadWrite, Begin, CanServe, FreshFile
<1>5. ASSUME NEW p \in Procs, UploadInsert(p) PROVE \A q \in Procs : NamesOK(q)'
  BY <1>5 DEF UploadInsert, Finish, Reset
<1>6. ASSUME NEW p \in Procs, UploadRefused(p) PROVE \A q \in Procs : NamesOK(q)'
  BY <1>6 DEF UploadRefused, Goto
<1>7. ASSUME NEW p \in Procs, UploadRemove(p) PROVE \A q \in Procs : NamesOK(q)'
  BY <1>7 DEF UploadRemove, Finish, Reset
<1>8. ASSUME NEW p \in Requests, NEW f \in Files, UntrashSelect(p, f) PROVE \A q \in Procs : NamesOK(q)'
  BY <1>8 DEF UntrashSelect, Begin, CanServe
<1>9. ASSUME NEW p \in Procs, UntrashApply(p) PROVE \A q \in Procs : NamesOK(q)'
  BY <1>9 DEF UntrashApply, Finish, Reset
<1>10. ASSUME NEW p \in Procs, UntrashFails(p) PROVE \A q \in Procs : NamesOK(q)'
  BY <1>10 DEF UntrashFails, Finish, Reset
<1>11. ASSUME NEW p \in Requests, NEW f \in Files, PurgeSelect(p, f) PROVE \A q \in Procs : NamesOK(q)'
  BY <1>11 DEF PurgeSelect, Begin, CanServe
<1>12. ASSUME NEW p \in Cleaners, SweepSelect(p) PROVE \A q \in Procs : NamesOK(q)'
  BY <1>12 DEF SweepSelect, Begin, Expired
<1>13. ASSUME NEW p \in Requests, NEW c \in Courses, DropSelect(p, c) PROVE \A q \in Procs : NamesOK(q)'
  BY <1>13 DEF DropSelect, Begin, CanServe
<1>14. ASSUME NEW p \in Procs, StageJournal(p) PROVE \A q \in Procs : NamesOK(q)'
  BY <1>14 DEF StageJournal, Goto, FreeNames, NamesFor
<1>15. ASSUME NEW p \in Procs, StageRefused(p) PROVE \A q \in Procs : NamesOK(q)'
  BY <1>15 DEF StageRefused, Finish, Reset
<1>16. ASSUME NEW p \in Procs, NEW n \in Names, Move(p, n) PROVE \A q \in Procs : NamesOK(q)'
  BY <1>16 DEF Move, Goto
<1>17. ASSUME NEW p \in Procs, NEW n \in Names, MoveFails(p, n) PROVE \A q \in Procs : NamesOK(q)'
  <2> USE <1>17 DEF MoveFails, Goto
  <2>1. NamesOK(p)'
    OBVIOUS
  <2>2. ASSUME NEW q \in Procs \ {p} PROVE NamesOK(q)'
    BY <2>2
  <2> QED BY <2>1, <2>2
<1>18. ASSUME NEW p \in Procs, NEW n \in Names, PutBack(p, n) PROVE \A q \in Procs : NamesOK(q)'
  BY <1>18 DEF PutBack
<1>19. ASSUME NEW p \in Procs, ClearUndone(p) PROVE \A q \in Procs : NamesOK(q)'
  BY <1>19 DEF ClearUndone, ClearJournal, Goto
<1>20. ASSUME NEW p \in Procs, ForgetPlan(p) PROVE \A q \in Procs : NamesOK(q)'
  BY <1>20 DEF ForgetPlan, ClearJournal, Finish, Reset
<1>21. ASSUME NEW p \in Procs, DeleteRows(p) PROVE \A q \in Procs : NamesOK(q)'
  BY <1>21 DEF DeleteRows, Goto, Doomed
<1>22. ASSUME NEW p \in Procs, DeleteFails(p) PROVE \A q \in Procs : NamesOK(q)'
  BY <1>22 DEF DeleteFails, Goto
<1>23. ASSUME NEW p \in Procs, ClearRestored(p) PROVE \A q \in Procs : NamesOK(q)'
  BY <1>23 DEF ClearRestored, ClearJournal, Finish, Reset
<1>24. ASSUME NEW p \in Procs, NEW n \in Names, Discard(p, n) PROVE \A q \in Procs : NamesOK(q)'
  BY <1>24 DEF Discard
<1>25. ASSUME NEW p \in Procs, ClearDiscarded(p) PROVE \A q \in Procs : NamesOK(q)'
  BY <1>25 DEF ClearDiscarded, ClearJournal, Finish, Reset
<1>26. ASSUME BootStart PROVE \A q \in Procs : NamesOK(q)'
  BY <1>26 DEF BootStart
<1>27. ASSUME NEW n \in Names, BootRecover(n) PROVE \A q \in Procs : NamesOK(q)'
  BY <1>27 DEF BootRecover
<1>28. ASSUME BootClear PROVE \A q \in Procs : NamesOK(q)'
  BY <1>28 DEF BootClear, ClearJournal, Goto
<1>29. ASSUME BootScan PROVE \A q \in Procs : NamesOK(q)'
  BY <1>29 DEF BootScan, Goto
<1>30. ASSUME BootGlob PROVE \A q \in Procs : NamesOK(q)'
  BY <1>30 DEF BootGlob, Goto
<1>31. ASSUME NEW n \in Names, BootReap(n) PROVE \A q \in Procs : NamesOK(q)'
  BY <1>31 DEF BootReap
<1>32. ASSUME BootSweep PROVE \A q \in Procs : NamesOK(q)'
  BY <1>32 DEF BootSweep, Begin, Finish, Reset, Expired
<1>33. ASSUME Crash PROVE \A q \in Procs : NamesOK(q)'
  BY <1>33 DEF Crash, Reset
<1>34. ASSUME NEW p \in Cleaners, CleanerCrash(p) PROVE \A q \in Procs : NamesOK(q)'
  BY <1>34 DEF CleanerCrash, Reset
<1>35. CASE UNCHANGED vars
  BY <1>35 DEF vars
<1> QED
  BY <1>1, <1>2, <1>3, <1>4, <1>5, <1>6, <1>7, <1>8, <1>9, <1>10, <1>11,
     <1>12, <1>13, <1>14, <1>15, <1>16, <1>17, <1>18, <1>19, <1>20, <1>21,
     <1>22, <1>23, <1>24, <1>25, <1>26, <1>27, <1>28, <1>29, <1>30, <1>31,
     <1>32, <1>33, <1>34, <1>35, Zenon
  DEF Next, Continue, BootStep

\* Forgetting what some processes knew keeps all of them apart.
LEMMA ResetApart ==
  ASSUME IInv, NEW S \in SUBSET Procs, Reset(S)
  PROVE  \A q, r \in Procs : q # r => Apart(q, r)'
<1> SUFFICES ASSUME NEW q \in Procs, NEW r \in Procs, q # r PROVE Apart(q, r)'
  OBVIOUS
<1>1. Apart(q, r)
  BY DEF IInv
<1>2. CASE q \in S
  BY <1>2 DEF Reset, Apart, Own, Uploading
<1>3. CASE q \notin S
  BY <1>1, <1>3 DEF Reset, Apart, Own, NoTask
<1> QED BY <1>2, <1>3

\* No two jobs hold the same name, and no two uploads the same file.
LEMMA ApartStep ==
  ASSUME ~Overlap, "undo" \notin Faults, IInv, [Next]_vars
  PROVE  \A q, r \in Procs : q # r => Apart(q, r)'
<1> USE FileStoreAssumption, BootIsProc
    DEF IInv, TypeOK, NamesOK, RowsOK, Apart, Own, Alone, Idle, Procs, Uploading,
        Deleting, Recovering, Present, Binned, db, fs, env, mem
<1>1. ASSUME NEW c \in Courses, CreateCourse(c) PROVE \A q, r \in Procs : q # r => Apart(q, r)'
  BY <1>1 DEF CreateCourse
<1>2. ASSUME NEW f \in Files, TrashFile(f) PROVE \A q, r \in Procs : q # r => Apart(q, r)'
  BY <1>2 DEF TrashFile
<1>3. ASSUME NEW f \in Files, Expire(f) PROVE \A q, r \in Procs : q # r => Apart(q, r)'
  BY <1>3 DEF Expire
<1>4. ASSUME NEW p \in Requests, NEW f \in Files, UploadWrite(p, f) PROVE \A q, r \in Procs : q # r => Apart(q, r)'
  BY <1>4 DEF UploadWrite, Begin, CanServe, FreshFile
<1>5. ASSUME NEW p \in Procs, UploadInsert(p) PROVE \A q, r \in Procs : q # r => Apart(q, r)'
  BY <1>5, ResetApart DEF UploadInsert, Finish
<1>6. ASSUME NEW p \in Procs, UploadRefused(p) PROVE \A q, r \in Procs : q # r => Apart(q, r)'
  BY <1>6 DEF UploadRefused, Goto
<1>7. ASSUME NEW p \in Procs, UploadRemove(p) PROVE \A q, r \in Procs : q # r => Apart(q, r)'
  BY <1>7, ResetApart DEF UploadRemove, Finish
<1>8. ASSUME NEW p \in Requests, NEW f \in Files, UntrashSelect(p, f) PROVE \A q, r \in Procs : q # r => Apart(q, r)'
  BY <1>8 DEF UntrashSelect, Begin, CanServe
<1>9. ASSUME NEW p \in Procs, UntrashApply(p) PROVE \A q, r \in Procs : q # r => Apart(q, r)'
  BY <1>9, ResetApart DEF UntrashApply, Finish
<1>10. ASSUME NEW p \in Procs, UntrashFails(p) PROVE \A q, r \in Procs : q # r => Apart(q, r)'
  BY <1>10, ResetApart DEF UntrashFails, Finish
<1>11. ASSUME NEW p \in Requests, NEW f \in Files, PurgeSelect(p, f) PROVE \A q, r \in Procs : q # r => Apart(q, r)'
  BY <1>11 DEF PurgeSelect, Begin, CanServe
<1>12. ASSUME NEW p \in Cleaners, SweepSelect(p) PROVE \A q, r \in Procs : q # r => Apart(q, r)'
  BY <1>12 DEF SweepSelect, Begin, Expired
<1>13. ASSUME NEW p \in Requests, NEW c \in Courses, DropSelect(p, c) PROVE \A q, r \in Procs : q # r => Apart(q, r)'
  BY <1>13 DEF DropSelect, Begin, CanServe
<1>14. ASSUME NEW p \in Procs, StageJournal(p) PROVE \A q, r \in Procs : q # r => Apart(q, r)'
  BY <1>14 DEF StageJournal, Goto, FreeNames, NamesFor
<1>15. ASSUME NEW p \in Procs, StageRefused(p) PROVE \A q, r \in Procs : q # r => Apart(q, r)'
  BY <1>15, ResetApart DEF StageRefused, Finish
<1>16. ASSUME NEW p \in Procs, NEW n \in Names, Move(p, n) PROVE \A q, r \in Procs : q # r => Apart(q, r)'
  BY <1>16 DEF Move, Goto
<1>17. ASSUME NEW p \in Procs, NEW n \in Names, MoveFails(p, n) PROVE \A q, r \in Procs : q # r => Apart(q, r)'
  BY <1>17 DEF MoveFails, Goto
<1>18. ASSUME NEW p \in Procs, NEW n \in Names, PutBack(p, n) PROVE \A q, r \in Procs : q # r => Apart(q, r)'
  BY <1>18 DEF PutBack
<1>19. ASSUME NEW p \in Procs, ClearUndone(p) PROVE \A q, r \in Procs : q # r => Apart(q, r)'
  BY <1>19 DEF ClearUndone, ClearJournal, Goto
<1>20. ASSUME NEW p \in Procs, ForgetPlan(p) PROVE \A q, r \in Procs : q # r => Apart(q, r)'
  BY <1>20, ResetApart DEF ForgetPlan, Finish
<1>21. ASSUME NEW p \in Procs, DeleteRows(p) PROVE \A q, r \in Procs : q # r => Apart(q, r)'
  BY <1>21 DEF DeleteRows, Goto, Doomed
<1>22. ASSUME NEW p \in Procs, DeleteFails(p) PROVE \A q, r \in Procs : q # r => Apart(q, r)'
  BY <1>22 DEF DeleteFails, Goto
<1>23. ASSUME NEW p \in Procs, ClearRestored(p) PROVE \A q, r \in Procs : q # r => Apart(q, r)'
  BY <1>23, ResetApart DEF ClearRestored, Finish
<1>24. ASSUME NEW p \in Procs, NEW n \in Names, Discard(p, n) PROVE \A q, r \in Procs : q # r => Apart(q, r)'
  BY <1>24 DEF Discard
<1>25. ASSUME NEW p \in Procs, ClearDiscarded(p) PROVE \A q, r \in Procs : q # r => Apart(q, r)'
  BY <1>25, ResetApart DEF ClearDiscarded, Finish
<1>26. ASSUME BootStart PROVE \A q, r \in Procs : q # r => Apart(q, r)'
  BY <1>26 DEF BootStart
<1>27. ASSUME NEW n \in Names, BootRecover(n) PROVE \A q, r \in Procs : q # r => Apart(q, r)'
  BY <1>27 DEF BootRecover
<1>28. ASSUME BootClear PROVE \A q, r \in Procs : q # r => Apart(q, r)'
  BY <1>28 DEF BootClear, ClearJournal, Goto
<1>29. ASSUME BootScan PROVE \A q, r \in Procs : q # r => Apart(q, r)'
  BY <1>29 DEF BootScan, Goto
<1>30. ASSUME BootGlob PROVE \A q, r \in Procs : q # r => Apart(q, r)'
  BY <1>30 DEF BootGlob, Goto
<1>31. ASSUME NEW n \in Names, BootReap(n) PROVE \A q, r \in Procs : q # r => Apart(q, r)'
  BY <1>31 DEF BootReap
<1>32. ASSUME BootSweep PROVE \A q, r \in Procs : q # r => Apart(q, r)'
  BY <1>32 DEF BootSweep, Begin, Finish, Reset, Expired
<1>33. ASSUME Crash PROVE \A q, r \in Procs : q # r => Apart(q, r)'
  BY <1>33, ResetApart DEF Crash
<1>34. ASSUME NEW p \in Cleaners, CleanerCrash(p) PROVE \A q, r \in Procs : q # r => Apart(q, r)'
  BY <1>34, ResetApart DEF CleanerCrash
<1>35. CASE UNCHANGED vars
  BY <1>35 DEF vars
<1> QED
  BY <1>1, <1>2, <1>3, <1>4, <1>5, <1>6, <1>7, <1>8, <1>9, <1>10, <1>11,
     <1>12, <1>13, <1>14, <1>15, <1>16, <1>17, <1>18, <1>19, <1>20, <1>21,
     <1>22, <1>23, <1>24, <1>25, <1>26, <1>27, <1>28, <1>29, <1>30, <1>31,
     <1>32, <1>33, <1>34, <1>35, Zenon
  DEF Next, Continue, BootStep

-----------------------------------------------------------------------------
\* The initial states satisfy the invariant.
LEMMA IInvInit == Init => IInv
<1> SUFFICES ASSUME Init PROVE IInv
  OBVIOUS
<1>1. TypeOK
  BY TypeInit
<1>2. UnjournaledIsGone /\ Kept
  BY FileStoreAssumption DEF Init, UnjournaledIsGone, Kept, Present
<1>3. Alone
  BY BootIsProc DEF Init, Alone, Idle, Procs
<1>4. \A p \in Procs : RowsOK(p) /\ NamesOK(p)
  BY DEF Init, RowsOK, NamesOK, Own, Uploading, Deleting, Recovering
<1>5. \A p, q \in Procs : p # q => Apart(p, q)
  BY DEF Init, Apart, Own, Uploading
<1> QED BY <1>1, <1>2, <1>3, <1>4, <1>5 DEF IInv

\* Every step keeps the invariant, when the startup maintenance runs alone and
\* the staging handler can put its files back.
LEMMA IInvStep ==
  ASSUME ~Overlap, "undo" \notin Faults
  PROVE  IInv /\ [Next]_vars => IInv'
<1> SUFFICES ASSUME IInv, [Next]_vars PROVE IInv'
  OBVIOUS
<1>1. TypeOK'
  BY TypeStep DEF IInv
<1> QED
  BY <1>1, AloneStep, StagedStep, KeptStep, RowsStep, NamesStep, ApartStep
  DEF IInv

\* The invariant behind the theorems on the file store: what every process remembers
\* of rows and staged names is still so when it acts on it, whatever the others do in
\* between (stage_stored_files, restore_staged_files, discard_staged_files,
\* cleanup_staged_files).
THEOREM JobsAreCurrent ==
  ASSUME ~Overlap, "undo" \notin Faults
  PROVE  Spec => []IInv
  BY IInvInit, IInvStep, PTL DEF Spec

\* Until a file is unlinked because its row is gone, its bytes are at the stored
\* name or under a staged name that the journal holds (stage_stored_files,
\* restore_staged_files, discard_staged_files, cleanup_staged_files).  That a put-back
\* inside staging does not fail is needed: run undo_loses_bytes.
THEOREM BytesNeverLost ==
  ASSUME ~Overlap, "undo" \notin Faults
  PROVE  Spec => []BytesSafe
<1>1. IInv => BytesSafe
  BY DEF IInv, Kept, UnjournaledIsGone, BytesSafe, Present
<1> QED BY JobsAreCurrent, <1>1, PTL

\* Under the same hypotheses the orphan scan of cleanup_staged_files only ever
\* finds rubbish: a staged name outside the journal belongs to no row.
THEOREM ScanIsHarmless ==
  ASSUME ~Overlap, "undo" \notin Faults
  PROVE  Spec => []UnjournaledIsGone
<1>1. IInv => UnjournaledIsGone
  BY DEF IInv
<1> QED BY JobsAreCurrent, <1>1, PTL
-----------------------------------------------------------------------------
(* What a start leaves behind.                                             *)

\* While the server starts, the names still on disk are those its maintenance has yet to
\* deal with; one that has given a file back ends without serving.
BootTidy ==
  /\ at[Boot] \notin Uploading \cup {"apply"}
  /\ at[Boot] = "recover" => staged \cap journal \subseteq held[Boot]
  /\ at[Boot] \in {"scan", "glob"} => staged \cap journal = {}
  /\ at[Boot] = "glob" => plan[Boot] = journal
  /\ at[Boot] \in {"reap", "stage", "move", "delete", "discard"} => staged \subseteq held[Boot]

\* A step that leaves the maintenance and the two directories alone.
LEMMA TidyStays ==
  ASSUME BootTidy, at'[Boot] = at[Boot], plan'[Boot] = plan[Boot], held'[Boot] = held[Boot],
         at[Boot] = "idle" \/ (staged' = staged /\ journal' = journal)
  PROVE  BootTidy'
  BY DEF BootTidy, Uploading

\* A step of anyone else, which only happens while no maintenance runs.
LEMMA TidyApart ==
  ASSUME BootTidy, Alone, TypeOK, NEW p \in Requests \cup Cleaners,
         at'[Boot] = at[Boot], ~Idle(p)
  PROVE  BootTidy'
<1>1. at[Boot] = "idle"
  BY DEF Alone, Idle, TypeOK
<1> QED BY <1>1 DEF BootTidy, Uploading

\* Where the maintenance has ended or died.
LEMMA TidyEnd == at'[Boot] = "idle" => BootTidy'
  BY DEF BootTidy, Uploading

LEMMA TidyStep ==
  ASSUME ~Overlap, Faults \cap {"recover", "unlink"} = {},
         TypeOK, Alone, BootTidy, [Next]_vars
  PROVE  BootTidy' /\ (server = "boot" /\ server' = "up" => staged' = {})
<1> DEFINE Tidy == BootTidy' /\ (server = "boot" /\ server' = "up" => staged' = {})
<1> USE FileStoreAssumption, BootIsProc DEF TypeOK, Procs, db, fs, env, mem
<1>1. ASSUME NEW c \in Courses, CreateCourse(c) PROVE Tidy
  BY <1>1, TidyStays DEF CreateCourse
<1>2. ASSUME NEW f \in Files, TrashFile(f) \/ Expire(f) PROVE Tidy
  BY <1>2, TidyStays DEF TrashFile, Expire
<1>3. ASSUME NEW p \in Requests, NEW f \in Files,
             UploadWrite(p, f) \/ UntrashSelect(p, f) \/ PurgeSelect(p, f)
      PROVE  Tidy
  BY <1>3, TidyStays DEF UploadWrite, UntrashSelect, PurgeSelect, CanServe, Begin
<1>4. ASSUME NEW p \in Cleaners, SweepSelect(p) PROVE Tidy
  BY <1>4, TidyStays DEF SweepSelect, Begin
<1>5. ASSUME NEW p \in Requests, NEW c \in Courses, DropSelect(p, c) PROVE Tidy
  BY <1>5, TidyStays DEF DropSelect, CanServe, Begin
<1>6. ASSUME NEW p \in Requests \cup Cleaners, Continue(p) PROVE Tidy
  <2>1. ~Idle(p)
    BY <1>6 DEF Continue, Idle, UploadInsert, UploadRefused, UploadRemove, UntrashApply,
       UntrashFails, StageJournal, StageRefused, DeleteRows, DeleteFails, ClearUndone,
       ForgetPlan, ClearRestored, ClearDiscarded, Move, MoveFails, PutBack, Discard
  <2>2. at'[Boot] = at[Boot] /\ server' = server
    BY <1>6 DEF Continue, UploadInsert, UploadRefused, UploadRemove, UntrashApply,
       UntrashFails, StageJournal, StageRefused, DeleteRows, DeleteFails, ClearUndone,
       ForgetPlan, ClearRestored, ClearDiscarded, Move, MoveFails, PutBack, Discard,
       Finish, Reset, Goto
  <2> QED BY <2>1, <2>2, TidyApart
<1>7. ASSUME Continue(Boot) PROVE Tidy
  <2>1. ~UploadInsert(Boot) /\ ~UploadRefused(Boot) /\ ~UploadRemove(Boot)
        /\ ~UntrashApply(Boot) /\ ~UntrashFails(Boot)
    BY DEF BootTidy, Uploading, UploadInsert, UploadRefused, UploadRemove, UntrashApply,
       UntrashFails
  <2>2. ASSUME StageJournal(Boot) PROVE Tidy
    BY <2>2 DEF StageJournal, Goto, BootTidy, Uploading
  <2>3. ASSUME StageRefused(Boot) \/ ForgetPlan(Boot) \/ ClearRestored(Boot) PROVE Tidy
    <3>1. at'[Boot] = "idle" /\ server' = "down"
      BY <2>3 DEF StageRefused, ForgetPlan, ClearRestored, Finish, Reset
    <3> QED BY <3>1, TidyEnd
  <2>4. ASSUME NEW n \in Names, Move(Boot, n) PROVE Tidy
    BY <2>4 DEF Move, Goto, BootTidy, Uploading
  <2>5. ASSUME NEW n \in Names, MoveFails(Boot, n) PROVE Tidy
    BY <2>5 DEF MoveFails, Goto, BootTidy, Uploading
  <2>6. ASSUME NEW n \in Names, PutBack(Boot, n) PROVE Tidy
    BY <2>6 DEF PutBack, BootTidy, Uploading
  <2>7. ASSUME ClearUndone(Boot) PROVE Tidy
    BY <2>7 DEF ClearUndone, Goto, BootTidy, Uploading
  <2>8. ASSUME DeleteRows(Boot) PROVE Tidy
    BY <2>8 DEF DeleteRows, Goto, BootTidy, Uploading
  <2>9. ASSUME DeleteFails(Boot) PROVE Tidy
    BY <2>9 DEF DeleteFails, Goto, BootTidy, Uploading
  <2>10. ASSUME NEW n \in Names, Discard(Boot, n) PROVE Tidy
    BY <2>10 DEF Discard, May, BootTidy, Uploading
  <2>11. ASSUME ClearDiscarded(Boot) PROVE Tidy
    <3>1. staged' = staged /\ staged \subseteq held[Boot] /\ held[Boot] = {}
      BY <2>11 DEF ClearDiscarded, BootTidy
    <3>2. at'[Boot] = "idle"
      BY <2>11 DEF ClearDiscarded, Finish, Reset
    <3> QED BY <3>1, <3>2, TidyEnd
  <2> QED
    BY <1>7, <2>1, <2>2, <2>3, <2>4, <2>5, <2>6, <2>7, <2>8, <2>9, <2>10, <2>11 DEF Continue
<1>8. ASSUME BootStart PROVE Tidy
  BY <1>8 DEF BootStart, BootTidy, Uploading
<1>9. ASSUME NEW n \in Names, BootRecover(n) PROVE Tidy
  BY <1>9 DEF BootRecover, May, BootTidy, Uploading
<1>10. ASSUME BootClear PROVE Tidy
  BY <1>10 DEF BootClear, ClearJournal, Goto, BootTidy, Uploading
<1>11. ASSUME BootScan PROVE Tidy
  BY <1>11 DEF BootScan, Goto, BootTidy, Uploading
<1>12. ASSUME BootGlob PROVE Tidy
  BY <1>12 DEF BootGlob, Goto, BootTidy, Uploading
<1>13. ASSUME NEW n \in Names, BootReap(n) PROVE Tidy
  BY <1>13 DEF BootReap, May, BootTidy, Uploading
<1>14. ASSUME BootSweep PROVE Tidy
  <2>1. staged' = staged /\ staged \subseteq held[Boot] /\ held[Boot] = {}
    BY <1>14 DEF BootSweep, BootTidy
  <2>2. at'[Boot] = "idle" \/ (at'[Boot] = "stage" /\ held' = held)
    BY <1>14 DEF BootSweep, Begin, Finish, Reset
  <2> QED BY <2>1, <2>2 DEF BootTidy, Uploading
<1>15. ASSUME Crash PROVE Tidy
  BY <1>15, TidyEnd DEF Crash, Reset
<1>16. ASSUME NEW p \in Cleaners, CleanerCrash(p) PROVE Tidy
  BY <1>16, TidyApart DEF CleanerCrash, Reset
<1>17. CASE UNCHANGED vars
  BY <1>17, TidyStays DEF vars
<1> QED
  BY <1>1, <1>2, <1>3, <1>4, <1>5, <1>6, <1>7, <1>8, <1>9, <1>10, <1>11, <1>12, <1>13,
     <1>14, <1>15, <1>16, <1>17, Zenon
  DEF Next, BootStep

\* A start that unlinks and renames what it means to leaves nothing under a staged name,
\* whatever earlier crashes left, even if it fails to clear the journal or its own sweep
\* runs before it serves (cleanup_staged_files, run_startup_maintenance).
THEOREM StartsDrain ==
  ASSUME ~Overlap, Faults \cap {"recover", "unlink"} = {}
  PROVE  Spec => BootDrains
<1>1. Init => TypeOK /\ Alone /\ BootTidy
  BY TypeInit, BootIsProc DEF Init, Alone, Idle, Procs, BootTidy, Uploading
<1>2. TypeOK /\ Alone /\ BootTidy /\ [Next]_vars => (TypeOK /\ Alone /\ BootTidy)'
  BY TypeStep, AloneStep, TidyStep
<1>3. TypeOK /\ Alone /\ BootTidy /\ [Next]_vars
        => [server = "boot" /\ server' = "up" => staged' = {}]_vars
  BY TidyStep
<1> QED BY <1>1, <1>2, <1>3, PTL DEF Spec, BootDrains
=============================================================================
