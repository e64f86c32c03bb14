------------------------- MODULE FileStorePromise -------------------------
(***************************************************************************)
(* What the file store keeps beyond the bytes, for every instance.  It     *)
(* implements FileLifecycle without restores from the recycle bin, in      *)
(* every interleaving, and with them while one request or maintenance run  *)
(* works at a time; then it leaves no orphan either.  The run              *)
(* restore_then_purge shows that one of the two is needed.                 *)
(***************************************************************************)
EXTENDS FileStoreProofs

\* There is one thread or maintenance run in all; the server's start is apart.
OneAtATime == \A p, q \in Requests \cup Cleaners : p = q

\* What the jobs work on: an upload has one file, a purge or a sweep has rows that are in
\* the bin or gone, and so has a restore, a deletion of a course has a course; and no file
\* is staged before its row is there.
JobOK(p) ==
  /\ at[p] = "apply" => /\ "untrash" \in Ops
                        /\ \E f \in Files : /\ task[p].rows = {f}
                                            /\ row[f] \in Binned \cup {"gone"}
  /\ at[p] \in Uploading => \E f \in Files : task[p].rows = {f}
  /\ at[p] \in Deleting /\ task[p].op # "drop" =>
       \A f \in task[p].rows : row[f] \in Binned \cup {"gone"}
  /\ at[p] \in Deleting /\ task[p].op = "drop" => task[p].course \in Courses

BinInv == /\ \A p \in Procs : JobOK(p)
          /\ \A n \in staged : row[OrigOf[n]] # "none"

\* Who works works alone, since the server's start waits for the others.
LEMMA WorksAlone ==
  ASSUME OneAtATime, IInv
  PROVE  /\ \A p, q \in Procs : ~Idle(p) /\ ~Idle(q) => p = q
         /\ \A p \in Requests \cup Cleaners, q \in Procs :
              server # "boot" /\ ~Idle(q) => p = q
<1>1. server \in {"down", "boot", "up"}
  BY DEF IInv, TypeOK
<1> QED BY <1>1 DEF OneAtATime, IInv, Alone, Procs

LEMMA BinInit == Init => BinInv
  BY FileStoreAssumption DEF Init, BinInv, JobOK, Uploading, Deleting

\* Whoever ends or dies works on nothing.
LEMMA EndsWell ==
  ASSUME BinInv, NEW S, Reset(S), row' = row, staged' = staged
  PROVE  BinInv'
<1>1. ASSUME NEW q \in Procs PROVE JobOK(q)'
  <2>1. CASE q \in S
    <3>1. at'[q] = "idle"
      BY <2>1 DEF Reset
    <3> QED BY <3>1 DEF JobOK, Uploading, Deleting
  <2>2. CASE q \notin S
    <3>1. at'[q] = at[q] /\ task'[q] = task[q]
      BY <2>2 DEF Reset
    <3>2. JobOK(q)
      BY DEF BinInv
    <3> QED BY <3>1, <3>2 DEF JobOK, Uploading, Deleting
  <2> QED BY <2>1, <2>2
<1>2. (\A n \in staged : row[OrigOf[n]] # "none")'
  BY DEF BinInv
<1> QED BY <1>1, <1>2 DEF BinInv

LEMMA BinStep ==
  ASSUME "untrash" \notin Ops \/ OneAtATime, IInv, BinInv, [Next]_vars
  PROVE  BinInv'
<1> USE FileStoreAssumption, BootIsProc
    DEF IInv, TypeOK, RowsOK, NamesOK, Apart, BinInv, JobOK, Task, Deleting, Uploading,
        Present, Binned, Procs, Idle, db, fs, env, mem
<1>1. ASSUME NEW c \in Courses, CreateCourse(c) PROVE BinInv'
  BY <1>1 DEF CreateCourse
<1>2. ASSUME NEW f \in Files, TrashFile(f) PROVE BinInv'
  BY <1>2 DEF TrashFile
<1>3. ASSUME NEW f \in Files, Expire(f) PROVE BinInv'
  BY <1>3 DEF Expire
<1>4. ASSUME NEW p \in Requests, NEW f \in Files, UploadWrite(p, f) PROVE BinInv'
  BY <1>4 DEF UploadWrite, Begin, CanServe, FreshFile
<1>5. ASSUME NEW p \in Procs, UploadInsert(p) PROVE BinInv'
  <2>1. ASSUME NEW q \in Procs, q # p PROVE JobOK(q)'
    <3>1. at'[q] = at[q] /\ task'[q] = task[q]
      BY <1>5, <2>1 DEF UploadInsert, Finish, Reset
    <3>2. task[q].rows \cap task[p].rows = {}
      BY <1>5, <2>1 DEF UploadInsert
    <3>3. \A f \in task[q].rows : f \in Files => row'[f] = row[f]
      BY <1>5, <3>2 DEF UploadInsert
    <3> QED BY <3>1, <3>3
  <2>2. JobOK(p)'
    BY <1>5 DEF UploadInsert, Finish, Reset
  <2>3. (\A n \in staged : row[OrigOf[n]] # "none")'
    BY <1>5 DEF UploadInsert
  <2> QED BY <2>1, <2>2, <2>3
<1>6. ASSUME NEW p \in Procs, UploadRefused(p) PROVE BinInv'
  BY <1>6 DEF UploadRefused, Goto
<1>7. ASSUME NEW p \in Procs, UploadRemove(p) PROVE BinInv'
  BY <1>7, EndsWell DEF UploadRemove, Finish
<1>8. ASSUME NEW p \in Requests, NEW f \in Files, UntrashSelect(p, f) PROVE BinInv'
  BY <1>8 DEF UntrashSelect, Begin, CanServe
<1>9. ASSUME NEW p \in Procs, UntrashApply(p) PROVE BinInv'
  <2>1. OneAtATime
    BY <1>9 DEF UntrashApply
  <2>2. \A q \in Procs : q # p => at[q] = "idle"
    BY <1>9, <2>1, WorksAlone DEF UntrashApply
  <2>3. \A q \in Procs : at'[q] = "idle"
    BY <1>9, <2>2 DEF UntrashApply, Finish, Reset
  <2>4. (\A n \in staged : row[OrigOf[n]] # "none")'
    BY <1>9 DEF UntrashApply
  <2> QED BY <2>3, <2>4
<1>10. ASSUME NEW p \in Procs, UntrashFails(p) PROVE BinInv'
  BY <1>10, EndsWell DEF UntrashFails, Finish
<1>11. ASSUME NEW p \in Requests, NEW f \in Files, PurgeSelect(p, f) PROVE BinInv'
  BY <1>11 DEF PurgeSelect, Begin, CanServe
<1>12. ASSUME NEW p \in Cleaners, SweepSelect(p) PROVE BinInv'
  BY <1>12 DEF SweepSelect, Begin, Expired
<1>13. ASSUME NEW p \in Requests, NEW c \in Courses, DropSelect(p, c) PROVE BinInv'
  BY <1>13 DEF DropSelect, Begin, CanServe
<1>14. ASSUME NEW p \in Procs, StageJournal(p) PROVE BinInv'
  BY <1>14 DEF StageJournal, Goto, FreeNames, NamesFor
<1>15. ASSUME NEW p \in Procs, StageRefused(p) PROVE BinInv'
  BY <1>15, EndsWell DEF StageRefused, Finish
<1>16. ASSUME NEW p \in Procs, NEW n \in Names, Move(p, n) PROVE BinInv'
  BY <1>16 DEF Move, Goto
<1>17. ASSUME NEW p \in Procs, NEW n \in Names, MoveFails(p, n) PROVE BinInv'
  BY <1>17 DEF MoveFails, Goto
<1>18. ASSUME NEW p \in Procs, NEW n \in Names, PutBack(p, n) PROVE BinInv'
  BY <1>18 DEF PutBack
<1>19. ASSUME NEW p \in Procs, ClearUndone(p) PROVE BinInv'
  BY <1>19 DEF ClearUndone, ClearJournal, Goto
<1>20. ASSUME NEW p \in Procs, ForgetPlan(p) PROVE BinInv'
  BY <1>20, EndsWell DEF ForgetPlan, Finish
<1>21. ASSUME NEW p \in Procs, DeleteRows(p) PROVE BinInv'
  BY <1>21 DEF DeleteRows, Goto, Doomed
<1>22. ASSUME NEW p \in Procs, DeleteFails(p) PROVE BinInv'
  BY <1>22 DEF DeleteFails, Goto
<1>23. ASSUME NEW p \in Procs, ClearRestored(p) PROVE BinInv'
  BY <1>23, EndsWell DEF ClearRestored, Finish
<1>24. ASSUME NEW p \in Procs, NEW n \in Names, Discard(p, n) PROVE BinInv'
  BY <1>24 DEF Discard
<1>25. ASSUME NEW p \in Procs, ClearDiscarded(p) PROVE BinInv'
  BY <1>25, EndsWell DEF ClearDiscarded, Finish
<1>26. ASSUME BootStart PROVE BinInv'
  BY <1>26 DEF BootStart
<1>27. ASSUME NEW n \in Names, BootRecover(n) PROVE BinInv'
  BY <1>27 DEF BootRecover
<1>28. ASSUME BootClear PROVE BinInv'
  BY <1>28 DEF BootClear, ClearJournal, Goto
<1>29. ASSUME BootScan PROVE BinInv'
  BY <1>29 DEF BootScan, Goto
<1>30. ASSUME BootGlob PROVE BinInv'
  BY <1>30 DEF BootGlob, Goto
<1>31. ASSUME NEW n \in Names, BootReap(n) PROVE BinInv'
  BY <1>31 DEF BootReap
<1>32. ASSUME BootSweep PROVE BinInv'
  BY <1>32 DEF BootSweep, Begin, Finish, Reset, Expired
<1>33. ASSUME Crash PROVE BinInv'
  BY <1>33, EndsWell DEF Crash
<1>34. ASSUME NEW p \in Cleaners, CleanerCrash(p) PROVE BinInv'
  BY <1>34, EndsWell DEF CleanerCrash
<1>35. CASE UNCHANGED vars
  BY <1>35 DEF vars
<1> QED
  BY <1>1, <1>2, <1>3, <1>4, <1>5, <1>6, <1>7, <1>8, <1>9, <1>10, <1>11,
     <1>12, <1>13, <1>14, <1>15, <1>16, <1>17, <1>18, <1>19, <1>20, <1>21,
     <1>22, <1>23, <1>24, <1>25, <1>26, <1>27, <1>28, <1>29, <1>30, <1>31,
     <1>32, <1>33, <1>34, <1>35, Zenon
  DEF Next, Continue, BootStep

-----------------------------------------------------------------------------
\* The abstract state of a file, case by case.
LEMMA Seen ==
  ASSUME TypeOK
  PROVE  /\ Visible \in [Files -> {"absent", "live", "binned", "gone"}]
         /\ \A f \in Files : /\ Visible[f] = "absent" <=> row[f] = "none"
                             /\ Visible[f] = "live" <=> row[f] = "live"
                             /\ Visible[f] = "binned" <=> row[f] \in Binned
                             /\ Visible[f] = "gone" <=> row[f] = "gone"
  BY DEF TypeOK, Visible, Present, Binned

LEMMA StartsAsPromised == Init => Lifecycle!Init
<1> SUFFICES ASSUME Init PROVE Lifecycle!Init
  OBVIOUS
<1>1. TypeOK
  BY TypeInit
<1>2. \A f \in Files : Visible[f] = "live" => Lifecycle!Unique(f)
  BY <1>1, Seen, FileStoreAssumption DEF Init, Lifecycle!Unique, Twin
<1>3. Stored \subseteq Files
  BY <1>1, FileStoreAssumption DEF TypeOK, Stored
<1>4. Lifecycle!There \subseteq Stored
  BY <1>1, Seen DEF Init, Lifecycle!There, Stored, Present, Binned
<1> QED
  BY <1>1, <1>2, <1>3, <1>4, Seen DEF Lifecycle!Init

\* The last fact an upload, a deletion and a repair need: what is unlinked belongs
\* to no file that is there.
LEMMA UnlinkStep ==
  ASSUME IInv, BinInv, BinInv', TypeOK', row' = row, NEW f \in Files,
         row[f] \in {"none", "gone"},
         Stored' = Stored \/ Stored' = Stored \ {f}
  PROVE  Lifecycle!Next \/ UNCHANGED <<Visible, Stored>>
<1>1. Visible' = Visible
  BY DEF Visible, Binned
<1>2. CASE Stored' = Stored
  BY <1>1, <1>2
<1>3. CASE Stored' = Stored \ {f}
  <2>1. f \notin Lifecycle!There
    BY Seen DEF IInv, Lifecycle!There, Binned
  <2> QED
    BY <1>1, <1>3, <2>1 DEF Lifecycle!Unlink, Lifecycle!Next
<1> QED BY <1>2, <1>3

LEMMA PromiseStep ==
  ASSUME IInv, IInv', BinInv, BinInv', [Next]_vars
  PROVE  [Lifecycle!Next]_(Lifecycle!vars)
<1> DEFINE Quiet == UNCHANGED <<Visible, Stored>>
<1> DEFINE Promised == Lifecycle!Next \/ Quiet
<1>0. TypeOK /\ TypeOK'
  BY DEF IInv
<1>1. ASSUME NEW c \in Courses, CreateCourse(c) PROVE Promised
  BY <1>1 DEF CreateCourse, Visible, Stored, db, fs, env, mem
<1>2. ASSUME NEW f \in Files, TrashFile(f) PROVE Promised
  <2>1. Visible' = [Visible EXCEPT ![f] = "binned"]
    BY <1>2, <1>0 DEF TrashFile, Visible, Binned, TypeOK
  <2>2. Visible[f] = "live" /\ Stored' = Stored
    BY <1>2, <1>0, Seen DEF TrashFile, Stored, fs
  <2> QED BY <2>1, <2>2 DEF Lifecycle!Bin, Lifecycle!Next
<1>3. ASSUME NEW f \in Files, Expire(f) PROVE Promised
  <2>1. Visible' = Visible
    BY <1>3 DEF Expire, Visible, Binned, IInv, TypeOK
  <2> QED BY <1>3, <2>1 DEF Expire, Stored, fs
<1>4. ASSUME NEW p \in Requests, NEW f \in Files, UploadWrite(p, f) PROVE Promised
  <2>1. Visible' = Visible /\ Visible[f] = "absent"
    BY <1>4, <1>0, Seen DEF UploadWrite, FreshFile, Visible, db
  <2>2. Stored' = Stored \cup {f}
    BY <1>4 DEF UploadWrite, Stored
  <2> QED BY <2>1, <2>2 DEF Lifecycle!Store, Lifecycle!Next
<1>5. ASSUME NEW p \in Procs, UploadInsert(p) PROVE Promised
  <2>1. PICK f \in Files : task[p].rows = {f}
    BY <1>5 DEF UploadInsert, BinInv, JobOK, Uploading
  <2>2. row[f] = "none" /\ f \in Stored /\ ~Twin(f)
    BY <1>5, <2>1 DEF UploadInsert, IInv, RowsOK, Uploading, Stored
  <2>3. Visible' = [Visible EXCEPT ![f] = "live"]
    BY <1>5, <1>0, <2>1 DEF UploadInsert, Visible, Binned, TypeOK
  <2>4. Stored' = Stored
    BY <1>5 DEF UploadInsert, Stored, fs
  <2>5. Visible[f] = "absent" /\ Lifecycle!Unique(f)
    BY <1>0, <2>2, Seen DEF Twin, Lifecycle!Unique
  <2> QED BY <2>2, <2>3, <2>4, <2>5 DEF Lifecycle!Publish, Lifecycle!Next
<1>6. ASSUME NEW p \in Procs, UploadRefused(p) PROVE Promised
  BY <1>6 DEF UploadRefused, Visible, Stored, db, fs, env, mem
<1>7. ASSUME NEW p \in Procs, UploadRemove(p) PROVE Promised
  <2>1. PICK f \in Files : task[p].rows = {f}
    BY <1>7 DEF UploadRemove, BinInv, JobOK, Uploading
  <2>2. row[f] = "none" /\ row' = row /\ staged' = staged
    BY <1>7, <2>1 DEF UploadRemove, IInv, RowsOK, Uploading, db
  <2>3. \A n \in staged : OrigOf[n] # f
    BY <2>2 DEF BinInv
  <2>4. Stored' = Stored \/ Stored' = Stored \ {f}
    BY <1>7, <2>1, <2>2, <2>3 DEF UploadRemove, Stored
  <2> QED BY <1>0, <2>2, <2>4, UnlinkStep
<1>8. ASSUME NEW p \in Requests, NEW f \in Files, UntrashSelect(p, f) PROVE Promised
  BY <1>8 DEF UntrashSelect, Visible, Stored, db, fs, env, mem
<1>9. ASSUME NEW p \in Procs, UntrashApply(p) PROVE Promised
  <2>1. PICK f \in Files : task[p].rows = {f} /\ row[f] \in Binned \cup {"gone"}
    BY <1>9 DEF UntrashApply, BinInv, JobOK
  <2>2. Stored' = Stored
    BY <1>9 DEF UntrashApply, Stored, fs
  <2>3. CASE row[f] = "gone"
    <3>1. row' = row
      BY <1>9, <1>0, <2>1, <2>3 DEF UntrashApply, Present, TypeOK
    <3> QED BY <2>2, <3>1 DEF Visible
  <2>4. CASE row[f] \in Binned
    <3>1. Visible' = [Visible EXCEPT ![f] = "live"]
      BY <1>9, <1>0, <2>1, <2>4 DEF UntrashApply, Visible, Present, Binned, TypeOK
    <3>2. Visible[f] = "binned" /\ ~Twin(f)
      BY <1>9, <1>0, <2>1, <2>4, Seen DEF UntrashApply, Present, Binned
    <3>3. Lifecycle!Unique(f)
      BY <1>0, <3>2, Seen DEF Twin, Lifecycle!Unique
    <3> QED BY <2>2, <3>1, <3>2, <3>3 DEF Lifecycle!Recover, Lifecycle!Next
  <2> QED BY <2>1, <2>3, <2>4
<1>10. ASSUME NEW p \in Procs, UntrashFails(p) PROVE Promised
  BY <1>10 DEF UntrashFails, Visible, Stored, db, fs
<1>11. ASSUME NEW p \in Requests, NEW f \in Files, PurgeSelect(p, f) PROVE Promised
  BY <1>11 DEF PurgeSelect, Visible, Stored, db, fs, env, mem
<1>12. ASSUME NEW p \in Cleaners, SweepSelect(p) PROVE Promised
  BY <1>12 DEF SweepSelect, Visible, Stored, db, fs, env, mem
<1>13. ASSUME NEW p \in Requests, NEW c \in Courses, DropSelect(p, c) PROVE Promised
  BY <1>13 DEF DropSelect, Visible, Stored, db, fs, env, mem
<1>14. ASSUME NEW p \in Procs, StageJournal(p) PROVE Promised
  BY <1>14 DEF StageJournal, Visible, Stored, db, fs, env, mem
<1>15. ASSUME NEW p \in Procs, StageRefused(p) PROVE Promised
  BY <1>15 DEF StageRefused, Visible, Stored, db, fs, env, mem
<1>16. ASSUME NEW p \in Procs, NEW n \in Names, Move(p, n) PROVE Promised
  <2>1. Stored' = Stored
    BY <1>16 DEF Move, Stored
  <2> QED BY <1>16, <2>1 DEF Move, Visible, db
<1>17. ASSUME NEW p \in Procs, NEW n \in Names, MoveFails(p, n) PROVE Promised
  BY <1>17 DEF MoveFails, Visible, Stored, db, fs, env, mem
<1>18. ASSUME NEW p \in Procs, NEW n \in Names, PutBack(p, n) PROVE Promised
  <2>1. Stored' = Stored
    BY <1>18 DEF PutBack, Stored
  <2> QED BY <1>18, <2>1 DEF PutBack, Visible, db
<1>19. ASSUME NEW p \in Procs, ClearUndone(p) PROVE Promised
  BY <1>19 DEF ClearUndone, Visible, Stored, db, fs, env, mem
<1>20. ASSUME NEW p \in Procs, ForgetPlan(p) PROVE Promised
  BY <1>20 DEF ForgetPlan, Visible, Stored, db, fs, env, mem
<1>21. ASSUME NEW p \in Procs, DeleteRows(p) PROVE Promised
  <2>1. Stored' = Stored
    BY <1>21 DEF DeleteRows, Stored, fs
  <2>2. CASE task[p].op = "drop"
    <3>1. task[p].course \in Courses
      BY <1>21, <2>2 DEF DeleteRows, BinInv, JobOK, Deleting
    <3>2. \A f \in Files : row'[f] = IF CourseOf[f] = task[p].course /\ row[f] \in Present
                                     THEN "gone" ELSE row[f]
      BY <1>21, <2>2 DEF DeleteRows, Doomed
    <3>3. \A f \in Files : f \in Lifecycle!There <=> row[f] \in Present
      BY <1>0, Seen DEF Lifecycle!There, Present, Binned
    <3>4. Visible' = [f \in Files |-> IF f \in Lifecycle!There /\ CourseOf[f] = task[p].course
                                     THEN "gone" ELSE Visible[f]]
      BY <3>2, <3>3 DEF Visible, Binned
    <3> QED
      BY <2>1, <3>1, <3>4 DEF Lifecycle!DropCourse, Lifecycle!Remove, Lifecycle!Next
  <2>3. CASE task[p].op # "drop"
    <3> DEFINE S == {f \in task[p].rows : row[f] \in Present}
    <3>1. S \in SUBSET Files
      BY <1>21, <1>0 DEF DeleteRows, TypeOK, Task
    <3>2. \A f \in S : row[f] \in Binned
      BY <1>21, <2>3 DEF DeleteRows, BinInv, JobOK, Deleting, Present
    <3>3. \A f \in S : Visible[f] = "binned"
      BY <1>0, <3>1, <3>2, Seen
    <3>4. \A f \in Files : row'[f] = IF f \in S THEN "gone" ELSE row[f]
      BY <1>21, <2>3 DEF DeleteRows, Doomed
    <3> HIDE DEF S
    <3>5. Visible' = [f \in Files |-> IF f \in S THEN "gone" ELSE Visible[f]]
      BY <3>4 DEF Visible, Binned
    <3> QED
      BY <2>1, <3>1, <3>3, <3>5 DEF Lifecycle!EmptyBin, Lifecycle!Remove, Lifecycle!Next
  <2> QED BY <2>2, <2>3
<1>22. ASSUME NEW p \in Procs, DeleteFails(p) PROVE Promised
  BY <1>22 DEF DeleteFails, Visible, Stored, db, fs, env, mem
<1>23. ASSUME NEW p \in Procs, ClearRestored(p) PROVE Promised
  BY <1>23 DEF ClearRestored, Visible, Stored, db, fs, env, mem
<1>24. ASSUME NEW p \in Procs, NEW n \in Names, Discard(p, n) PROVE Promised
  <2>1. OrigOf[n] \in Files /\ row[OrigOf[n]] = "gone"
    BY <1>24, FileStoreAssumption DEF Discard, IInv, TypeOK, RowsOK
  <2>2. Stored' = Stored \/ Stored' = Stored \ {OrigOf[n]}
    BY <1>24 DEF Discard, Stored
  <2>3. row' = row
    BY <1>24 DEF Discard, db
  <2> QED BY <1>0, <2>1, <2>2, <2>3, UnlinkStep
<1>25. ASSUME NEW p \in Procs, ClearDiscarded(p) PROVE Promised
  BY <1>25 DEF ClearDiscarded, Visible, Stored, db, fs, env, mem
<1>26. ASSUME BootStart PROVE Promised
  BY <1>26 DEF BootStart, Visible, Stored, db, fs, env, mem
<1>27. ASSUME NEW n \in Names, BootRecover(n) PROVE Promised
  <2>1. OrigOf[n] \in Files /\ row' = row
    BY <1>27, <1>0, FileStoreAssumption DEF BootRecover, db
  <2>2. CASE row[OrigOf[n]] \in Present
    <3>1. Stored' = Stored
      BY <1>27, <2>2 DEF BootRecover, Stored, fs
    <3> QED BY <2>1, <3>1 DEF Visible
  <2>3. CASE row[OrigOf[n]] \notin Present
    <3>1. row[OrigOf[n]] \in {"none", "gone"}
      BY <1>0, <2>1, <2>3 DEF TypeOK
    <3>2. Stored' = Stored \/ Stored' = Stored \ {OrigOf[n]}
      BY <1>27, <2>3 DEF BootRecover, Stored, fs
    <3> QED BY <1>0, <2>1, <3>1, <3>2, UnlinkStep
  <2> QED BY <2>2, <2>3
<1>28. ASSUME BootClear PROVE Promised
  BY <1>28 DEF BootClear, Visible, Stored, db, fs, env, mem
<1>29. ASSUME BootScan PROVE Promised
  BY <1>29 DEF BootScan, Visible, Stored, db, fs, env, mem
<1>30. ASSUME BootGlob PROVE Promised
  BY <1>30 DEF BootGlob, Visible, Stored, db, fs, env, mem
<1>31. ASSUME NEW n \in Names, BootReap(n) PROVE Promised
  <2>1. OrigOf[n] \in Files /\ row[OrigOf[n]] = "gone"
    BY <1>31, BootIsProc, FileStoreAssumption DEF BootReap, IInv, TypeOK, RowsOK
  <2>2. Stored' = Stored \/ Stored' = Stored \ {OrigOf[n]}
    BY <1>31 DEF BootReap, Stored
  <2>3. row' = row
    BY <1>31 DEF BootReap, db
  <2> QED BY <1>0, <2>1, <2>2, <2>3, UnlinkStep
<1>32. ASSUME BootSweep PROVE Promised
  BY <1>32 DEF BootSweep, Visible, Stored, db, fs, env, mem
<1>33. ASSUME Crash PROVE Promised
  BY <1>33 DEF Crash, Visible, Stored, db, fs, env, mem
<1>34. ASSUME NEW p \in Cleaners, CleanerCrash(p) PROVE Promised
  BY <1>34 DEF CleanerCrash, Visible, Stored, db, fs, env, mem
<1>35. CASE UNCHANGED vars
  BY <1>35 DEF vars, db, fs, env, mem, Visible, Stored, Lifecycle!vars
<1> QED
  BY <1>1, <1>2, <1>3, <1>4, <1>5, <1>6, <1>7, <1>8, <1>9, <1>10, <1>11,
     <1>12, <1>13, <1>14, <1>15, <1>16, <1>17, <1>18, <1>19, <1>20, <1>21,
     <1>22, <1>23, <1>24, <1>25, <1>26, <1>27, <1>28, <1>29, <1>30, <1>31,
     <1>32, <1>33, <1>34, <1>35
  DEF Next, Continue, BootStep, Lifecycle!vars

\* Without restores from the recycle bin (files.py, apply_trash_restore), or with one
\* request or maintenance run at a time, every behaviour of the file store is one of
\* FileLifecycle: whatever the uploads, deletions, faults, crashes and restarts do, a
\* file's bytes stay while its row is there, and only the bin or its course's end takes a
\* row.
THEOREM StoreKeepsPromise ==
  ASSUME ~Overlap, "undo" \notin Faults, "untrash" \notin Ops \/ OneAtATime
  PROVE  Spec => KeepsPromise
<1>1. IInv /\ [Next]_vars => IInv'
  BY IInvStep
<1>2. IInv /\ BinInv /\ [Next]_vars => BinInv'
  BY BinStep
<1>3. IInv /\ IInv' /\ BinInv /\ BinInv' /\ [Next]_vars => [Lifecycle!Next]_(Lifecycle!vars)
  BY PromiseStep
<1> QED
  BY IInvInit, BinInit, StartsAsPromised, <1>1, <1>2, <1>3, PTL
  DEF Spec, KeepsPromise, Lifecycle!Spec
-----------------------------------------------------------------------------
(* Nothing is left behind by who works alone.                              *)

\* The rows of a deletion stay until it deletes them, and no file joins their course; by
\* then it has taken their files away.
TakesAll(p) ==
  /\ at[p] \in Deleting \ {"discard"} => \A f \in task[p].rows : row[f] \in Present
  /\ at[p] \in {"stage", "move", "delete"} /\ task[p].op = "drop" =>
       \A f \in Files : CourseOf[f] = task[p].course /\ row[f] \in Present => f \in task[p].rows
  /\ at[p] = "move" =>
       \A f \in task[p].rows \cap disk : \E n \in plan[p] \ held[p] : OrigOf[n] = f
  /\ at[p] = "delete" => task[p].rows \cap disk = {}

OrphanInv == NoOrphan /\ \A p \in Procs : TakesAll(p)

LEMMA OrphanInit == Init => OrphanInv
  BY DEF Init, OrphanInv, NoOrphan, TakesAll, Deleting, Present

\* A step of one job, or of none, with the others resting.
LEMMA OrphanByOne ==
  ASSUME NEW p \in Procs, \A q \in Procs : q # p => Idle(q) /\ at'[q] = at[q],
         NoOrphan', TakesAll(p)'
  PROVE  OrphanInv'
<1>1. ASSUME NEW q \in Procs, q # p PROVE TakesAll(q)'
  BY <1>1 DEF TakesAll, Idle, Deleting
<1> QED BY <1>1 DEF OrphanInv

LEMMA OrphanStep ==
  ASSUME ~Overlap, OneAtATime, IInv, BinInv, OrphanInv, [Next]_vars
  PROVE  OrphanInv'
<1> USE FileStoreAssumption, BootIsProc
    DEF TypeOK, Task, Procs, db, fs, env, mem
<1>a. \A p, q \in Procs : at[p] # "idle" /\ at[q] # "idle" => p = q
  BY WorksAlone DEF Idle
<1>b. \A p \in Requests \cup Cleaners, q \in Procs :
        server # "boot" /\ at[q] # "idle" => p = q
  BY WorksAlone DEF Idle
<1>c. TypeOK /\ NoOrphan /\ \A p \in Procs : TakesAll(p) /\ JobOK(p) /\ RowsOK(p) /\ NamesOK(p)
  BY DEF IInv, OrphanInv, BinInv
<1>1. ASSUME NEW c \in Courses, CreateCourse(c) PROVE OrphanInv'
  BY <1>1, <1>a, <1>b, <1>c DEF OrphanInv, NoOrphan, TakesAll, Deleting, Present, CreateCourse
<1>2. ASSUME NEW f \in Files, TrashFile(f) PROVE OrphanInv'
  BY <1>2, <1>a, <1>b, <1>c DEF OrphanInv, NoOrphan, TakesAll, Deleting, Present, TrashFile
<1>3. ASSUME NEW f \in Files, Expire(f) PROVE OrphanInv'
  BY <1>3, <1>a, <1>b, <1>c DEF OrphanInv, NoOrphan, TakesAll, Deleting, Present, Expire
<1>4. ASSUME NEW p \in Requests, NEW f \in Files, UploadWrite(p, f) PROVE OrphanInv'
  <2>1. \A q \in Procs : q # p => Idle(q) /\ at'[q] = at[q]
    BY <1>4, <1>a, <1>b, <1>c DEF UploadWrite, Begin, CanServe, Idle
  <2>2. NoOrphan'
    BY <1>4, <1>c DEF UploadWrite, Begin, CanServe, NoOrphan, FreshFile
  <2>3. TakesAll(p)'
    BY <1>4, <1>c DEF UploadWrite, Begin, CanServe, TakesAll, Deleting, Present, FreshFile
  <2> QED BY <2>1, <2>2, <2>3, OrphanByOne
<1>5. ASSUME NEW p \in Procs, UploadInsert(p) PROVE OrphanInv'
  <2>1. \A q \in Procs : q # p => Idle(q) /\ at'[q] = at[q]
    BY <1>5, <1>a, <1>b, <1>c DEF UploadInsert, Finish, Reset, Idle
  <2>2. NoOrphan'
    BY <1>5, <1>c DEF UploadInsert, Finish, Reset, NoOrphan, Uploading
  <2>3. TakesAll(p)'
    BY <1>5, <1>c DEF UploadInsert, Finish, Reset, TakesAll, Deleting, Present, Uploading
  <2> QED BY <2>1, <2>2, <2>3, OrphanByOne
<1>6. ASSUME NEW p \in Procs, UploadRefused(p) PROVE OrphanInv'
  <2>1. \A q \in Procs : q # p => Idle(q) /\ at'[q] = at[q]
    BY <1>6, <1>a, <1>b, <1>c DEF UploadRefused, Goto, Idle
  <2>2. NoOrphan'
    BY <1>6, <1>c DEF UploadRefused, Goto, NoOrphan, Uploading
  <2>3. TakesAll(p)'
    BY <1>6, <1>c DEF UploadRefused, Goto, TakesAll, Deleting, Present, Uploading
  <2> QED BY <2>1, <2>2, <2>3, OrphanByOne
<1>7. ASSUME NEW p \in Procs, UploadRemove(p) PROVE OrphanInv'
  <2>1. \A q \in Procs : q # p => Idle(q) /\ at'[q] = at[q]
    BY <1>7, <1>a, <1>b, <1>c DEF UploadRemove, Finish, Reset, Idle
  <2>2. NoOrphan'
    BY <1>7, <1>c DEF UploadRemove, Finish, Reset, NoOrphan, Uploading
  <2>3. TakesAll(p)'
    BY <1>7, <1>c DEF UploadRemove, Finish, Reset, TakesAll, Deleting, Present, Uploading
  <2> QED BY <2>1, <2>2, <2>3, OrphanByOne
<1>8. ASSUME NEW p \in Requests, NEW f \in Files, UntrashSelect(p, f) PROVE OrphanInv'
  <2>1. \A q \in Procs : q # p => Idle(q) /\ at'[q] = at[q]
    BY <1>8, <1>a, <1>b, <1>c DEF UntrashSelect, Begin, CanServe, Idle
  <2>2. NoOrphan'
    BY <1>8, <1>c DEF UntrashSelect, Begin, CanServe, NoOrphan, Binned
  <2>3. TakesAll(p)'
    BY <1>8, <1>c DEF UntrashSelect, Begin, CanServe, TakesAll, Deleting, Present, Binned
  <2> QED BY <2>1, <2>2, <2>3, OrphanByOne
<1>9. ASSUME NEW p \in Procs, UntrashApply(p) PROVE OrphanInv'
  <2>1. \A q \in Procs : q # p => Idle(q) /\ at'[q] = at[q]
    BY <1>9, <1>a, <1>b, <1>c DEF UntrashApply, Finish, Reset, Idle
  <2>2. NoOrphan'
    BY <1>9, <1>c DEF UntrashApply, Finish, Reset, NoOrphan, Present
  <2>3. TakesAll(p)'
    BY <1>9, <1>c DEF UntrashApply, Finish, Reset, TakesAll, Deleting, Present, Present
  <2> QED BY <2>1, <2>2, <2>3, OrphanByOne
<1>10. ASSUME NEW p \in Procs, UntrashFails(p) PROVE OrphanInv'
  <2>1. \A q \in Procs : q # p => Idle(q) /\ at'[q] = at[q]
    BY <1>10, <1>a, <1>b, <1>c DEF UntrashFails, Finish, Reset, Idle
  <2>2. NoOrphan'
    BY <1>10, <1>c DEF UntrashFails, Finish, Reset, NoOrphan, Present
  <2>3. TakesAll(p)'
    BY <1>10, <1>c DEF UntrashFails, Finish, Reset, TakesAll, Deleting, Present, Present
  <2> QED BY <2>1, <2>2, <2>3, OrphanByOne
<1>11. ASSUME NEW p \in Requests, NEW f \in Files, PurgeSelect(p, f) PROVE OrphanInv'
  <2>1. \A q \in Procs : q # p => Idle(q) /\ at'[q] = at[q]
    BY <1>11, <1>a, <1>b, <1>c DEF PurgeSelect, Begin, CanServe, Idle
  <2>2. NoOrphan'
    BY <1>11, <1>c DEF PurgeSelect, Begin, CanServe, NoOrphan, Binned
  <2>3. TakesAll(p)'
    BY <1>11, <1>c DEF PurgeSelect, Begin, CanServe, TakesAll, Deleting, Present, Binned
  <2> QED BY <2>1, <2>2, <2>3, OrphanByOne
<1>12. ASSUME NEW p \in Cleaners, SweepSelect(p) PROVE OrphanInv'
  <2>1. \A q \in Procs : q # p => Idle(q) /\ at'[q] = at[q]
    BY <1>12, <1>a, <1>b, <1>c DEF SweepSelect, Begin, Idle
  <2>2. NoOrphan'
    BY <1>12, <1>c DEF SweepSelect, Begin, NoOrphan, Expired
  <2>3. TakesAll(p)'
    BY <1>12, <1>c DEF SweepSelect, Begin, TakesAll, Deleting, Present, Expired
  <2> QED BY <2>1, <2>2, <2>3, OrphanByOne
<1>13. ASSUME NEW p \in Requests, NEW c \in Courses, DropSelect(p, c) PROVE OrphanInv'
  <2>1. \A q \in Procs : q # p => Idle(q) /\ at'[q] = at[q]
    BY <1>13, <1>a, <1>b, <1>c DEF DropSelect, Begin, CanServe, Idle
  <2>2. NoOrphan'
    BY <1>13, <1>c DEF DropSelect, Begin, CanServe, NoOrphan, Present
  <2>3. TakesAll(p)'
    BY <1>13, <1>c DEF DropSelect, Begin, CanServe, TakesAll, Deleting, Present, Present
  <2> QED BY <2>1, <2>2, <2>3, OrphanByOne
<1>14. ASSUME NEW p \in Procs, StageJournal(p) PROVE OrphanInv'
  <2>1. \A q \in Procs : q # p => Idle(q) /\ at'[q] = at[q]
    BY <1>14, <1>a, <1>b, <1>c DEF StageJournal, Goto, Idle
  <2>2. NoOrphan'
    BY <1>14, <1>c DEF StageJournal, Goto, NoOrphan, NamesFor, NamesOK, Own
  <2>3. TakesAll(p)'
    BY <1>14, <1>c DEF StageJournal, Goto, TakesAll, Deleting, Present, NamesFor, NamesOK, Own
  <2> QED BY <2>1, <2>2, <2>3, OrphanByOne
<1>15. ASSUME NEW p \in Procs, StageRefused(p) PROVE OrphanInv'
  <2>1. \A q \in Procs : q # p => Idle(q) /\ at'[q] = at[q]
    BY <1>15, <1>a, <1>b, <1>c DEF StageRefused, Finish, Reset, Idle
  <2>2. NoOrphan'
    BY <1>15, <1>c DEF StageRefused, Finish, Reset, NoOrphan, Present
  <2>3. TakesAll(p)'
    BY <1>15, <1>c DEF StageRefused, Finish, Reset, TakesAll, Deleting, Present, Present
  <2> QED BY <2>1, <2>2, <2>3, OrphanByOne
<1>16. ASSUME NEW p \in Procs, NEW n \in Names, Move(p, n) PROVE OrphanInv'
  <2>1. \A q \in Procs : q # p => Idle(q) /\ at'[q] = at[q]
    BY <1>16, <1>a, <1>b, <1>c DEF Move, Goto, Idle
  <2>2. NoOrphan'
    BY <1>16, <1>c DEF Move, Goto, NoOrphan, Present
  <2>3. TakesAll(p)'
    BY <1>16, <1>c DEF Move, Goto, TakesAll, Deleting, Present, Present
  <2> QED BY <2>1, <2>2, <2>3, OrphanByOne
<1>17. ASSUME NEW p \in Procs, NEW n \in Names, MoveFails(p, n) PROVE OrphanInv'
  <2>1. \A q \in Procs : q # p => Idle(q) /\ at'[q] = at[q]
    BY <1>17, <1>a, <1>b, <1>c DEF MoveFails, Goto, Idle
  <2>2. NoOrphan'
    BY <1>17, <1>c DEF MoveFails, Goto, NoOrphan, Present
  <2>3. TakesAll(p)'
    BY <1>17, <1>c DEF MoveFails, Goto, TakesAll, Deleting, Present, Present
  <2> QED BY <2>1, <2>2, <2>3, OrphanByOne
<1>18. ASSUME NEW p \in Procs, NEW n \in Names, PutBack(p, n) PROVE OrphanInv'
  <2>1. \A q \in Procs : q # p => Idle(q) /\ at'[q] = at[q]
    BY <1>18, <1>a, <1>b, <1>c DEF PutBack, Idle
  <2>2. NoOrphan'
    BY <1>18, <1>c DEF PutBack, NoOrphan, RowsOK, Deleting, TakesAll, Present
  <2>3. TakesAll(p)'
    BY <1>18, <1>c DEF PutBack, TakesAll, Deleting, Present, RowsOK, Deleting, TakesAll, Present
  <2> QED BY <2>1, <2>2, <2>3, OrphanByOne
<1>19. ASSUME NEW p \in Procs, ClearUndone(p) PROVE OrphanInv'
  <2>1. \A q \in Procs : q # p => Idle(q) /\ at'[q] = at[q]
    BY <1>19, <1>a, <1>b, <1>c DEF ClearUndone, Goto, Idle
  <2>2. NoOrphan'
    BY <1>19, <1>c DEF ClearUndone, Goto, NoOrphan, Present
  <2>3. TakesAll(p)'
    BY <1>19, <1>c DEF ClearUndone, Goto, TakesAll, Deleting, Present, Present
  <2> QED BY <2>1, <2>2, <2>3, OrphanByOne
<1>20. ASSUME NEW p \in Procs, ForgetPlan(p) PROVE OrphanInv'
  <2>1. \A q \in Procs : q # p => Idle(q) /\ at'[q] = at[q]
    BY <1>20, <1>a, <1>b, <1>c DEF ForgetPlan, Finish, Reset, Idle
  <2>2. NoOrphan'
    BY <1>20, <1>c DEF ForgetPlan, Finish, Reset, NoOrphan, Present
  <2>3. TakesAll(p)'
    BY <1>20, <1>c DEF ForgetPlan, Finish, Reset, TakesAll, Deleting, Present, Present
  <2> QED BY <2>1, <2>2, <2>3, OrphanByOne
<1>21. ASSUME NEW p \in Procs, DeleteRows(p) PROVE OrphanInv'
  <2>1. \A q \in Procs : q # p => Idle(q) /\ at'[q] = at[q]
    BY <1>21, <1>a, <1>b, <1>c DEF DeleteRows, Goto, Idle
  <2>2. NoOrphan'
    BY <1>21, <1>c DEF DeleteRows, Goto, NoOrphan, Doomed, TakesAll, Present, Deleting
  <2>3. TakesAll(p)'
    BY <1>21, <1>c DEF DeleteRows, Goto, TakesAll, Deleting, Present, Doomed, TakesAll, Present, Deleting
  <2> QED BY <2>1, <2>2, <2>3, OrphanByOne
<1>22. ASSUME NEW p \in Procs, DeleteFails(p) PROVE OrphanInv'
  <2>1. \A q \in Procs : q # p => Idle(q) /\ at'[q] = at[q]
    BY <1>22, <1>a, <1>b, <1>c DEF DeleteFails, Goto, Idle
  <2>2. NoOrphan'
    BY <1>22, <1>c DEF DeleteFails, Goto, NoOrphan, Present
  <2>3. TakesAll(p)'
    BY <1>22, <1>c DEF DeleteFails, Goto, TakesAll, Deleting, Present, Present
  <2> QED BY <2>1, <2>2, <2>3, OrphanByOne
<1>23. ASSUME NEW p \in Procs, ClearRestored(p) PROVE OrphanInv'
  <2>1. \A q \in Procs : q # p => Idle(q) /\ at'[q] = at[q]
    BY <1>23, <1>a, <1>b, <1>c DEF ClearRestored, Finish, Reset, Idle
  <2>2. NoOrphan'
    BY <1>23, <1>c DEF ClearRestored, Finish, Reset, NoOrphan, Present
  <2>3. TakesAll(p)'
    BY <1>23, <1>c DEF ClearRestored, Finish, Reset, TakesAll, Deleting, Present, Present
  <2> QED BY <2>1, <2>2, <2>3, OrphanByOne
<1>24. ASSUME NEW p \in Procs, NEW n \in Names, Discard(p, n) PROVE OrphanInv'
  <2>1. \A q \in Procs : q # p => Idle(q) /\ at'[q] = at[q]
    BY <1>24, <1>a, <1>b, <1>c DEF Discard, Idle
  <2>2. NoOrphan'
    BY <1>24, <1>c DEF Discard, NoOrphan, Present
  <2>3. TakesAll(p)'
    BY <1>24, <1>c DEF Discard, TakesAll, Deleting, Present, Present
  <2> QED BY <2>1, <2>2, <2>3, OrphanByOne
<1>25. ASSUME NEW p \in Procs, ClearDiscarded(p) PROVE OrphanInv'
  <2>1. \A q \in Procs : q # p => Idle(q) /\ at'[q] = at[q]
    BY <1>25, <1>a, <1>b, <1>c DEF ClearDiscarded, Finish, Reset, Idle
  <2>2. NoOrphan'
    BY <1>25, <1>c DEF ClearDiscarded, Finish, Reset, NoOrphan, Present
  <2>3. TakesAll(p)'
    BY <1>25, <1>c DEF ClearDiscarded, Finish, Reset, TakesAll, Deleting, Present, Present
  <2> QED BY <2>1, <2>2, <2>3, OrphanByOne
<1>26. ASSUME BootStart PROVE OrphanInv'
  <2>1. \A q \in Procs : q # Boot => Idle(q) /\ at'[q] = at[q]
    BY <1>26, <1>a, <1>b, <1>c DEF BootStart, Idle, IInv, Alone
  <2>2. NoOrphan'
    BY <1>26, <1>c DEF BootStart, NoOrphan, Present
  <2>3. TakesAll(Boot)'
    BY <1>26, <1>c DEF BootStart, TakesAll, Deleting, Present, Present
  <2> QED BY <2>1, <2>2, <2>3, OrphanByOne
<1>27. ASSUME NEW n \in Names, BootRecover(n) PROVE OrphanInv'
  <2>1. \A q \in Procs : q # Boot => Idle(q) /\ at'[q] = at[q]
    BY <1>27, <1>a, <1>b, <1>c DEF BootRecover, Idle
  <2>2. NoOrphan'
    BY <1>27, <1>c DEF BootRecover, NoOrphan, Present
  <2>3. TakesAll(Boot)'
    BY <1>27, <1>c DEF BootRecover, TakesAll, Deleting, Present, Present
  <2> QED BY <2>1, <2>2, <2>3, OrphanByOne
<1>28. ASSUME BootClear PROVE OrphanInv'
  <2>1. \A q \in Procs : q # Boot => Idle(q) /\ at'[q] = at[q]
    BY <1>28, <1>a, <1>b, <1>c DEF BootClear, Goto, Idle
  <2>2. NoOrphan'
    BY <1>28, <1>c DEF BootClear, Goto, NoOrphan, Present
  <2>3. TakesAll(Boot)'
    BY <1>28, <1>c DEF BootClear, Goto, TakesAll, Deleting, Present, Present
  <2> QED BY <2>1, <2>2, <2>3, OrphanByOne
<1>29. ASSUME BootScan PROVE OrphanInv'
  <2>1. \A q \in Procs : q # Boot => Idle(q) /\ at'[q] = at[q]
    BY <1>29, <1>a, <1>b, <1>c DEF BootScan, Goto, Idle
  <2>2. NoOrphan'
    BY <1>29, <1>c DEF BootScan, Goto, NoOrphan, Present
  <2>3. TakesAll(Boot)'
    BY <1>29, <1>c DEF BootScan, Goto, TakesAll, Deleting, Present, Present
  <2> QED BY <2>1, <2>2, <2>3, OrphanByOne
<1>30. ASSUME BootGlob PROVE OrphanInv'
  <2>1. \A q \in Procs : q # Boot => Idle(q) /\ at'[q] = at[q]
    BY <1>30, <1>a, <1>b, <1>c DEF BootGlob, Goto, Idle
  <2>2. NoOrphan'
    BY <1>30, <1>c DEF BootGlob, Goto, NoOrphan, Present
  <2>3. TakesAll(Boot)'
    BY <1>30, <1>c DEF BootGlob, Goto, TakesAll, Deleting, Present, Present
  <2> QED BY <2>1, <2>2, <2>3, OrphanByOne
<1>31. ASSUME NEW n \in Names, BootReap(n) PROVE OrphanInv'
  <2>1. \A q \in Procs : q # Boot => Idle(q) /\ at'[q] = at[q]
    BY <1>31, <1>a, <1>b, <1>c DEF BootReap, Idle
  <2>2. NoOrphan'
    BY <1>31, <1>c DEF BootReap, NoOrphan, Present
  <2>3. TakesAll(Boot)'
    BY <1>31, <1>c DEF BootReap, TakesAll, Deleting, Present, Present
  <2> QED BY <2>1, <2>2, <2>3, OrphanByOne
<1>32. ASSUME BootSweep PROVE OrphanInv'
  <2>1. \A q \in Procs : q # Boot => Idle(q) /\ at'[q] = at[q]
    BY <1>32, <1>a, <1>b, <1>c DEF BootSweep, Begin, Finish, Reset, Idle
  <2>2. NoOrphan'
    BY <1>32, <1>c DEF BootSweep, Begin, Finish, Reset, NoOrphan, Expired
  <2>3. TakesAll(Boot)'
    BY <1>32, <1>c DEF BootSweep, Begin, Finish, Reset, TakesAll, Deleting, Present, Expired
  <2> QED BY <2>1, <2>2, <2>3, OrphanByOne
<1>33. ASSUME Crash PROVE OrphanInv'
  BY <1>33, <1>a, <1>b, <1>c DEF OrphanInv, NoOrphan, TakesAll, Deleting, Present, Crash, Reset
<1>34. ASSUME NEW p \in Cleaners, CleanerCrash(p) PROVE OrphanInv'
  BY <1>34, <1>a, <1>b, <1>c DEF OrphanInv, NoOrphan, TakesAll, Deleting, Present, CleanerCrash, Reset
<1>35. CASE UNCHANGED vars
  BY <1>35, <1>c DEF vars, OrphanInv, NoOrphan, TakesAll, Deleting, Present
<1> QED
  BY <1>1, <1>2, <1>3, <1>4, <1>5, <1>6, <1>7, <1>8, <1>9, <1>10, <1>11,
     <1>12, <1>13, <1>14, <1>15, <1>16, <1>17, <1>18, <1>19, <1>20, <1>21,
     <1>22, <1>23, <1>24, <1>25, <1>26, <1>27, <1>28, <1>29, <1>30, <1>31,
     <1>32, <1>33, <1>34, <1>35, Zenon
  DEF Next, Continue, BootStep

\* With one request or maintenance run at a time a row takes its file along: whatever is
\* at a stored name belongs to a row, or to an upload whose row is not there yet
\* (purge_deleted_files, delete_course), through faults, crashes and restarts.
THEOREM NothingIsOrphaned ==
  ASSUME ~Overlap, "undo" \notin Faults, OneAtATime
  PROVE  Spec => []NoOrphan
<1>1. IInv /\ [Next]_vars => IInv'
  BY IInvStep
<1>2. IInv /\ BinInv /\ [Next]_vars => BinInv'
  BY BinStep
<1>3. IInv /\ BinInv /\ OrphanInv /\ [Next]_vars => OrphanInv'
  BY OrphanStep
<1>4. OrphanInv => NoOrphan
  BY DEF OrphanInv
<1> QED
  BY IInvInit, BinInit, OrphanInit, <1>1, <1>2, <1>3, <1>4, PTL DEF Spec
=============================================================================
