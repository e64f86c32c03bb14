----------------------------- MODULE FileStore -----------------------------
(***************************************************************************)
(* The files of CourseBox: the rows of the tables courses and files, the   *)
(* uploaded bytes in the uploads directory, and the protocol of db.py that *)
(* deletes the two together.  A deletion first journals a staged name for  *)
(* each file and commits (stage_stored_files), renames the files to those  *)
(* names, deletes the rows in one transaction, and only then unlinks       *)
(* (discard_staged_files); a failure puts the files back                   *)
(* (restore_staged_files).  The next start of the server repairs what a    *)
(* crash left behind (cleanup_staged_files).                               *)
(*                                                                         *)
(* Grain.  A step is one transaction of SQLite from its first write to its *)
(* commit, one SELECT, or one rename or unlink with the existence tests    *)
(* right before it.  A request thread, a run of app.maintenance and the    *)
(* server's start each hold a job, and their steps interleave.             *)
(***************************************************************************)
EXTENDS Naturals

CONSTANTS
  Files,       \* uploads: the row id and the stored name of each, never reused
  Courses,     \* course ids
  Names,       \* staged names, ".coursebox-deleting-<uuid>"
  CourseOf,    \* the course each upload names
  ShaOf,       \* the digest of each upload's bytes
  OrigOf,      \* the file each staged name is drawn for (a uuid only compares equal to itself)
  Requests,    \* threads that serve requests
  Cleaners,    \* processes running app.maintenance
  Boot,        \* run_startup_maintenance
  Ops,         \* the operations this instance performs
  Faults,      \* the calls that may fail in this instance
  Overlap,     \* may app.maintenance run while the server is starting?
  MaxCrashes,  \* bound on the crashes of one behaviour
  NoCourse

AllOps == {"create", "upload", "trash", "untrash", "purge", "sweep", "drop"}
AllFaults == {"stage", "undo", "restore", "unlink", "journal", "commit",
              "recover", "crash"}
Procs == Requests \cup Cleaners \cup {Boot}

ASSUME FileStoreAssumption ==
  /\ CourseOf \in [Files -> Courses]
  /\ DOMAIN ShaOf = Files
  /\ OrigOf \in [Names -> Files]
  /\ Requests \cap Cleaners = {}
  /\ Boot \notin Requests \cup Cleaners
  /\ Ops \subseteq AllOps
  /\ Faults \subseteq AllFaults
  /\ Overlap \in BOOLEAN
  /\ MaxCrashes \in Nat
  /\ NoCourse \notin Courses

VARIABLES
  course,    \* the table courses: "none" before the INSERT, "gone" after the DELETE
  row,       \* the table files; "expired" is in the recycle bin past its retention
  disk,      \* files whose bytes are at their stored name
  staged,    \* staged names that exist on disk
  journal,   \* staged names with a row in file_deletion_journal
  server,    \* "down", "boot" (inside lifespan, not serving yet) or "up"
  crashes,
  at,        \* where each process is in its handler, "idle" between two
  task,      \* its handler, and the rows its SELECT returned
  plan,      \* the staged names it journaled
  held,      \* the staged names it still has to deal with
  done       \* the staged names whose journal rows it will clear

db == <<course, row, journal>>
fs == <<disk, staged>>
env == <<server, crashes>>
mem == <<at, task, plan, held, done>>
vars == <<db, fs, env, mem>>

Present == {"live", "trash", "expired"}    \* the row exists
Binned == {"trash", "expired"}             \* deleted_at IS NOT NULL

Steps == {"idle", "insert", "remove", "apply", "stage", "move", "undo",
          "forget", "delete", "restore", "discard",
          "recover", "scan", "glob", "reap"}
Kinds == {"none", "upload", "untrash", "purge", "sweep", "drop", "boot"}

Task == [op : Kinds, course : Courses \cup {NoCourse}, rows : SUBSET Files]
NoTask == [op |-> "none", course |-> NoCourse, rows |-> {}]

TypeOK ==
  /\ course \in [Courses -> {"none", "open", "gone"}]
  /\ row \in [Files -> Present \cup {"none", "gone"}]
  /\ disk \subseteq Files
  /\ staged \subseteq Names
  /\ journal \subseteq Names
  /\ server \in {"down", "boot", "up"}
  /\ crashes \in 0..MaxCrashes
  /\ at \in [Procs -> Steps]
  /\ task \in [Procs -> Task]
  /\ plan \in [Procs -> SUBSET Names]
  /\ held \in [Procs -> SUBSET Names]
  /\ done \in [Procs -> SUBSET Names]

-----------------------------------------------------------------------------
May(fault) == fault \in Faults

\* The partial unique index on (course_id, sha256) over rows not in the bin.
Twin(f) == \E g \in Files \ {f} : /\ row[g] = "live"
                                  /\ CourseOf[g] = CourseOf[f]
                                  /\ ShaOf[g] = ShaOf[f]

Own(p) == plan[p] \cup held[p] \cup done[p]
Idle(p) == at[p] = "idle"

\* Mutant: a staged name made from the stored name, so that two deletions of one
\* file share it.
FreeNamesShared == Names \ staged

\* uuid4 draws a name nothing knows: not on disk, not in the journal, in no job.
FreeNames == {n \in Names \ (staged \cup journal) : \A p \in Procs : n \notin Own(p)}
FreshFile(f) == /\ row[f] = "none"
                /\ f \notin disk
                /\ \A p \in Procs : f \notin task[p].rows

\* Mutant: only some of the files to delete are staged.
NamesForSome(N, S) == {OrigOf[n] : n \in N} \subseteq S /\ (S # {} => N # {})

\* One name for each file of S.
NamesFor(N, S) == /\ {OrigOf[n] : n \in N} = S
                  /\ \A m, n \in N : OrigOf[m] = OrigOf[n] => m = n

CanServe(p, op) == p \in Requests /\ Idle(p) /\ server = "up" /\ op \in Ops

Begin(p, op, step, c, S) ==
  /\ at' = [at EXCEPT ![p] = step]
  /\ task' = [task EXCEPT ![p] = [op |-> op, course |-> c, rows |-> S]]
  /\ UNCHANGED <<plan, held, done>>

Goto(p, step) == at' = [at EXCEPT ![p] = step] /\ UNCHANGED task

\* What processes of S remember is gone.
Reset(S) ==
  /\ at' = [p \in Procs |-> IF p \in S THEN "idle" ELSE at[p]]
  /\ task' = [p \in Procs |-> IF p \in S THEN NoTask ELSE task[p]]
  /\ plan' = [p \in Procs |-> IF p \in S THEN {} ELSE plan[p]]
  /\ held' = [p \in Procs |-> IF p \in S THEN {} ELSE held[p]]
  /\ done' = [p \in Procs |-> IF p \in S THEN {} ELSE done[p]]

\* The handler returns (ok) or raises.  An exception out of the startup
\* maintenance keeps the server from starting.
Finish(p, ok) ==
  /\ Reset({p})
  /\ server' = IF p = Boot THEN IF ok THEN "up" ELSE "down" ELSE server
  /\ UNCHANGED crashes

\* A database some earlier run left, and under staged names what deletions of
\* versions without a journal left.
Init ==
  /\ row \in [Files -> Present \cup {"none", "gone"}]
  /\ \A f \in Files : row[f] = "live" => ~Twin(f)
  /\ course \in [Courses -> {"none", "open"}]
  /\ \A f \in Files : row[f] \in Present => course[CourseOf[f]] = "open"
  /\ disk = {f \in Files : row[f] \in Present}
  /\ staged \in SUBSET {n \in Names : row[OrigOf[n]] = "gone"}
  /\ journal = {}
  /\ server = "down" /\ crashes = 0
  /\ at = [p \in Procs |-> "idle"]
  /\ task = [p \in Procs |-> NoTask]
  /\ plan = [p \in Procs |-> {}]
  /\ held = plan /\ done = plan

-----------------------------------------------------------------------------
(* Requests that are one transaction.                                      *)

\* create_course
CreateCourse(c) ==
  /\ server = "up" /\ "create" \in Ops
  /\ course[c] = "none"
  /\ course' = [course EXCEPT ![c] = "open"]
  /\ UNCHANGED <<row, journal, fs, env, mem>>

\* delete_file: its UPDATE tests deleted_at again, so a row that left "live"
\* since the SELECT gives a 404.
TrashFile(f) ==
  /\ server = "up" /\ "trash" \in Ops
  /\ row[f] = "live"
  /\ row' = [row EXCEPT ![f] = "trash"]
  /\ UNCHANGED <<course, journal, fs, env, mem>>

\* deleted_at falls behind datetime('now', '-N days').
Expire(f) ==
  /\ row[f] = "trash"
  /\ row' = [row EXCEPT ![f] = "expired"]
  /\ UNCHANGED <<course, journal, fs, env, mem>>

-----------------------------------------------------------------------------
(* upload_course_file                                                      *)

\* The course exists and there is an allowance: the bytes are written under
\* a new name before anything is in the database.
UploadWrite(p, f) ==
  /\ CanServe(p, "upload")
  /\ FreshFile(f)
  /\ course[CourseOf[f]] = "open"
  /\ disk' = disk \cup {f}
  /\ Begin(p, "upload", "insert", NoCourse, {f})
  /\ UNCHANGED <<db, staged, env>>

\* The guarded INSERT and its audit row commit.  The foreign key refuses a
\* course that is gone, the index a second live copy.
UploadInsert(p) ==
  /\ at[p] = "insert"
  /\ \A f \in task[p].rows : course[CourseOf[f]] = "open" /\ ~Twin(f)
  /\ row' = [f \in Files |-> IF f \in task[p].rows THEN "live" ELSE row[f]]
  /\ Finish(p, TRUE)
  /\ UNCHANGED <<course, journal, fs>>

\* Too large, empty, executable, over quota, course gone, duplicate, or the
\* database failed: every exception leads to remove_stored_file.
UploadRefused(p) ==
  /\ at[p] = "insert"
  /\ Goto(p, "remove")
  /\ UNCHANGED <<db, fs, env, plan, held, done>>

\* remove_stored_file only logs an OSError.
UploadRemove(p) ==
  /\ at[p] = "remove"
  /\ disk' = disk \ task[p].rows \/ (May("unlink") /\ disk' = disk)
  /\ Finish(p, FALSE)
  /\ UNCHANGED <<db, staged>>

-----------------------------------------------------------------------------
(* apply_trash_restore                                                     *)

UntrashSelect(p, f) ==
  /\ CanServe(p, "untrash")
  /\ row[f] \in Binned
  /\ Begin(p, "untrash", "apply", NoCourse, {f})
  /\ UNCHANGED <<db, fs, env>>

\* Mutant: no unique index on the content of live files.
UntrashApplyUnchecked(p) ==
  /\ at[p] = "apply"
  /\ row' = [f \in Files |-> IF f \in task[p].rows /\ row[f] \in Present
                             THEN "live" ELSE row[f]]
  /\ Finish(p, TRUE)
  /\ UNCHANGED <<course, journal, fs>>

\* UPDATE files SET deleted_at = NULL WHERE id = ?: no test of deleted_at and
\* none of rowcount, so it matches nothing once the row is gone.
UntrashApply(p) ==
  /\ at[p] = "apply"
  /\ \A f \in task[p].rows : row[f] \in Present => ~Twin(f)
  /\ row' = [f \in Files |-> IF f \in task[p].rows /\ row[f] \in Present
                             THEN "live" ELSE row[f]]
  /\ Finish(p, TRUE)
  /\ UNCHANGED <<course, journal, fs>>

\* IntegrityError on the index (409), or the database failed: rollback.
UntrashFails(p) ==
  /\ at[p] = "apply"
  /\ May("commit") \/ \E f \in task[p].rows : (row[f] \in Present /\ Twin(f))
  /\ Finish(p, FALSE)
  /\ UNCHANGED <<db, fs>>

-----------------------------------------------------------------------------
(* Deletions: apply_trash_purge, purge_deleted_files, delete_course.       *)

PurgeSelect(p, f) ==
  /\ CanServe(p, "purge")
  /\ row[f] \in Binned
  /\ Begin(p, "purge", "stage", NoCourse, {f})
  /\ UNCHANGED <<db, fs, env>>

Expired == {f \in Files : row[f] = "expired"}

\* app.maintenance: nothing to do without an expired row.
SweepSelect(p) ==
  /\ p \in Cleaners /\ Idle(p) /\ "sweep" \in Ops
  /\ Overlap \/ server # "boot"
  /\ Expired # {}
  /\ Begin(p, "sweep", "stage", NoCourse, Expired)
  /\ UNCHANGED <<db, fs, env>>

\* The SELECT of the files comes first and the SELECT of the course second; a
\* course that exists then existed before, since its id is never used again.
DropSelect(p, c) ==
  /\ CanServe(p, "drop")
  /\ course[c] = "open"
  /\ Begin(p, "drop", "stage", c,
           {f \in Files : CourseOf[f] = c /\ row[f] \in Present})
  /\ UNCHANGED <<db, fs, env>>

\* stage_stored_files up to its commit: the files that exist get a name each.
StageJournal(p) ==
  /\ at[p] = "stage"
  /\ \E N \in SUBSET FreeNames :
       /\ NamesFor(N, task[p].rows \cap disk)
       /\ journal' = journal \cup N
       /\ plan' = [plan EXCEPT ![p] = N]
       /\ Goto(p, IF N = {} THEN "delete" ELSE "move")
  /\ UNCHANGED <<course, row, fs, env, held, done>>

\* The INSERT into the journal fails: nothing was staged.
StageRefused(p) ==
  /\ at[p] = "stage"
  /\ May("journal")
  /\ Finish(p, FALSE)
  /\ UNCHANGED <<db, fs>>

\* original.replace(staged_path)
Move(p, n) ==
  /\ at[p] = "move"
  /\ n \in plan[p] \ held[p]
  /\ OrigOf[n] \in disk
  /\ disk' = disk \ {OrigOf[n]}
  /\ staged' = staged \cup {n}
  /\ held' = [held EXCEPT ![p] = @ \cup {n}]
  /\ Goto(p, IF plan[p] \subseteq held[p] \cup {n} THEN "delete" ELSE "move")
  /\ UNCHANGED <<db, env, plan, done>>

\* The rename raises: the file is no longer there, or the system refuses.
MoveFails(p, n) ==
  /\ at[p] = "move"
  /\ n \in plan[p] \ held[p]
  /\ OrigOf[n] \notin disk \/ May("stage")
  /\ Goto(p, "undo")
  /\ UNCHANGED <<db, fs, env, plan, held, done>>

\* Mutant: restored_names collects the original name.
PutBackOriginal(p, n) ==
  /\ at[p] \in {"undo", "restore"}
  /\ n \in held[p] \cap staged
  /\ held' = [held EXCEPT ![p] = @ \ {n}]
  /\ staged' = staged \ {n}
  /\ disk' = disk \cup {OrigOf[n]}
  /\ done' = [done EXCEPT ![p] = @ \cup {OrigOf[n]}]
  /\ UNCHANGED <<db, env, at, task, plan>>

\* One iteration of restore_staged_files, called from the staging handler
\* ("undo") or after a failed transaction ("restore").
PutBack(p, n) ==
  /\ at[p] \in {"undo", "restore"}
  /\ n \in held[p]
  /\ held' = [held EXCEPT ![p] = @ \ {n}]
  /\ \/ /\ n \in staged
        /\ staged' = staged \ {n}
        /\ disk' = disk \cup {OrigOf[n]}
        /\ done' = [done EXCEPT ![p] = @ \cup {n}]
     \/ /\ n \notin staged \/ May(at[p])
        /\ UNCHANGED <<disk, staged, done>>
  /\ UNCHANGED <<db, env, at, task, plan>>

\* Mutant: DELETE FROM file_deletion_journal without its WHERE.
ClearWholeJournal(N) == journal' = {}

\* clear_deletion_journal: an sqlite3.Error leaves the rows.
ClearJournal(N) == journal' = journal \ N \/ (May("journal") /\ journal' = journal)

\* The end of restore_staged_files inside stage_stored_files.
ClearUndone(p) ==
  /\ at[p] = "undo" /\ held[p] = {}
  /\ ClearJournal(done[p])
  /\ done' = [done EXCEPT ![p] = {}]
  /\ Goto(p, "forget")
  /\ UNCHANGED <<course, row, fs, env, plan, held>>

\* stage_stored_files then clears the journal of every candidate and raises.
ForgetPlan(p) ==
  /\ at[p] = "forget"
  /\ ClearJournal(plan[p])
  /\ Finish(p, FALSE)
  /\ UNCHANGED <<course, row, fs>>

\* The DELETE, the audit row and the commit: by id for a purge or a sweep, by
\* course with ON DELETE CASCADE for delete_course.
Doomed(p) == IF task[p].op = "drop"
             THEN {f \in Files : CourseOf[f] = task[p].course}
             ELSE task[p].rows

DeleteRows(p) ==
  /\ at[p] = "delete"
  /\ task[p].op = "drop" => course[task[p].course] = "open"
  /\ row' = [f \in Files |-> IF f \in Doomed(p) /\ row[f] \in Present
                             THEN "gone" ELSE row[f]]
  /\ course' = [c \in Courses |-> IF task[p].op = "drop" /\ c = task[p].course
                                 THEN "gone" ELSE course[c]]
  /\ plan' = [plan EXCEPT ![p] = {}]
  /\ Goto(p, "discard")
  /\ UNCHANGED <<journal, fs, env, held, done>>

\* Mutant: a failed transaction goes on to discard_staged_files.
DeleteFailsDiscards(p) ==
  /\ at[p] = "delete"
  /\ May("commit")
  /\ plan' = [plan EXCEPT ![p] = {}]
  /\ Goto(p, "discard")
  /\ UNCHANGED <<db, fs, env, held, done>>

\* rowcount = 0 (the course is gone: 404), or the transaction failed: rollback.
DeleteFails(p) ==
  /\ at[p] = "delete"
  /\ \/ May("commit")
     \/ (task[p].op = "drop" /\ course[task[p].course] # "open")
  /\ plan' = [plan EXCEPT ![p] = {}]
  /\ Goto(p, "restore")
  /\ UNCHANGED <<db, fs, env, held, done>>

ClearRestored(p) ==
  /\ at[p] = "restore" /\ held[p] = {}
  /\ ClearJournal(done[p])
  /\ Finish(p, FALSE)
  /\ UNCHANGED <<course, row, fs>>

\* One iteration of discard_staged_files: unlink(missing_ok=True).
Discard(p, n) ==
  /\ at[p] = "discard"
  /\ n \in held[p]
  /\ held' = [held EXCEPT ![p] = @ \ {n}]
  /\ \/ /\ staged' = staged \ {n}
        /\ done' = [done EXCEPT ![p] = @ \cup {n}]
     \/ May("unlink") /\ n \in staged /\ UNCHANGED <<staged, done>>
  /\ UNCHANGED <<db, disk, env, at, task, plan>>

ClearDiscarded(p) ==
  /\ at[p] = "discard" /\ held[p] = {}
  /\ ClearJournal(done[p])
  /\ Finish(p, TRUE)
  /\ UNCHANGED <<course, row, fs>>

-----------------------------------------------------------------------------
(* The server's start and its end.                                         *)

\* Mutant: the start does not look at the journal.
BootStartBlind ==
  /\ server = "down"
  /\ server' = "boot"
  /\ at' = [at EXCEPT ![Boot] = "recover"]
  /\ UNCHANGED <<db, fs, crashes, task, plan, held, done>>

\* lifespan calls run_startup_maintenance; cleanup_staged_files reads the journal.
BootStart ==
  /\ server = "down"
  /\ Overlap \/ \A p \in Cleaners : Idle(p)
  /\ server' = "boot"
  /\ at' = [at EXCEPT ![Boot] = "recover"]
  /\ held' = [held EXCEPT ![Boot] = journal]
  /\ UNCHANGED <<db, fs, crashes, task, plan, done>>

\* One journal row.  A name whose row exists goes back, unless the original is
\* there already; any other is unlinked.  It is handled when nothing is left
\* under the staged name.
BootRecover(n) ==
  /\ at[Boot] = "recover"
  /\ n \in held[Boot]
  /\ held' = [held EXCEPT ![Boot] = @ \ {n}]
  /\ \/ /\ staged' = staged \ {n}
        /\ disk' = IF n \in staged /\ row[OrigOf[n]] \in Present
                   THEN disk \cup {OrigOf[n]} ELSE disk
        /\ done' = [done EXCEPT ![Boot] = @ \cup {n}]
     \/ May("recover") /\ n \in staged /\ UNCHANGED <<fs, done>>
  /\ UNCHANGED <<db, env, at, task, plan>>

BootClear ==
  /\ at[Boot] = "recover" /\ held[Boot] = {}
  /\ ClearJournal(done[Boot])
  /\ done' = [done EXCEPT ![Boot] = {}]
  /\ Goto(Boot, "scan")
  /\ UNCHANGED <<course, row, fs, env, plan, held>>

\* journal_names, read before the directory is listed.
BootScan ==
  /\ at[Boot] = "scan"
  /\ plan' = [plan EXCEPT ![Boot] = journal]
  /\ Goto(Boot, "glob")
  /\ UNCHANGED <<db, fs, env, held, done>>

BootGlob ==
  /\ at[Boot] = "glob"
  /\ plan' = [plan EXCEPT ![Boot] = {}]
  /\ held' = [held EXCEPT ![Boot] = staged \ plan[Boot]]
  /\ Goto(Boot, "reap")
  /\ UNCHANGED <<db, fs, env, done>>

BootReap(n) ==
  /\ at[Boot] = "reap"
  /\ n \in held[Boot]
  /\ held' = [held EXCEPT ![Boot] = @ \ {n}]
  /\ staged' = staged \ {n} \/ (May("recover") /\ staged' = staged)
  /\ UNCHANGED <<db, disk, env, at, task, plan, done>>

\* purge_deleted_files at the end of run_startup_maintenance: from here the
\* deletion actions run on behalf of Boot.
BootSweep ==
  /\ at[Boot] = "reap" /\ held[Boot] = {}
  /\ IF "sweep" \in Ops /\ Expired # {}
     THEN Begin(Boot, "sweep", "stage", NoCourse, Expired) /\ UNCHANGED env
     ELSE Finish(Boot, TRUE)
  /\ UNCHANGED <<db, fs>>

\* The server process ends, and its threads with it.
Crash ==
  /\ May("crash") /\ server # "down" /\ crashes < MaxCrashes
  /\ server' = "down"
  /\ Reset(Requests \cup {Boot})
  /\ crashes' = crashes + 1
  /\ UNCHANGED <<db, fs>>

CleanerCrash(p) ==
  /\ May("crash") /\ ~Idle(p) /\ crashes < MaxCrashes
  /\ Reset({p})
  /\ crashes' = crashes + 1
  /\ UNCHANGED <<db, fs, server>>

-----------------------------------------------------------------------------
\* The next step of a job already begun.
Continue(p) ==
  \/ UploadInsert(p) \/ UploadRefused(p) \/ UploadRemove(p)
  \/ UntrashApply(p) \/ UntrashFails(p)
  \/ StageJournal(p) \/ StageRefused(p)
  \/ DeleteRows(p) \/ DeleteFails(p)
  \/ ClearUndone(p) \/ ForgetPlan(p) \/ ClearRestored(p) \/ ClearDiscarded(p)
  \/ \E n \in Names : Move(p, n) \/ MoveFails(p, n) \/ PutBack(p, n) \/ Discard(p, n)

BootStep ==
  \/ BootStart \/ BootClear \/ BootScan \/ BootGlob \/ BootSweep
  \/ \E n \in Names : BootReap(n) \/ BootRecover(n)

Next ==
  \/ \E c \in Courses : CreateCourse(c) \/ \E p \in Requests : DropSelect(p, c)
  \/ \E f \in Files : \/ TrashFile(f) \/ Expire(f)
                      \/ \E p \in Requests : \/ UploadWrite(p, f)
                                            \/ UntrashSelect(p, f)
                                            \/ PurgeSelect(p, f)
  \/ \E p \in Cleaners : SweepSelect(p) \/ CleanerCrash(p)
  \/ \E p \in Procs : Continue(p)
  \/ BootStep
  \/ Crash

Spec == Init /\ [][Next]_vars

\* A thread, a maintenance run and the server's start go on with what they
\* began, and a server that is down is started again.
FairSpec == Spec /\ (\A p \in Procs : WF_vars(Continue(p))) /\ WF_vars(BootStep)

-----------------------------------------------------------------------------
\* Whatever fails and whenever the server dies, the bytes of every row are at
\* their stored name, or under a staged name that the journal leads back from
\* (purge_deleted_files: never a record without its file).
BytesSafe == \A f \in Files : row[f] \in Present =>
               f \in disk \/ \E n \in staged \cap journal : OrigOf[n] = f

\* A file under a staged name that the journal does not hold belongs to no row:
\* the next start of the server takes it for rubbish and unlinks it
\* (cleanup_staged_files).
UnjournaledIsGone == \A n \in staged \ journal : row[OrigOf[n]] = "gone"

\* A row that is gone leaves nothing at its stored name (purge_deleted_files:
\* never a file without its record).
NoOrphan == \A f \in disk : row[f] # "gone"

\* Only delete_course takes a file that is not in the recycle bin: a purge or
\* a sweep removes what the bin holds (apply_trash_purge, purge_deleted_files).
OnlyBinIsPurged ==
  [][\A f \in Files : row[f] = "live" /\ row'[f] = "gone"
                         => course'[CourseOf[f]] = "gone"]_vars

\* The bytes of a row that is gone are unlinked in the end, by the deletion
\* that took the row or by a later start of the server.
PurgedBytesVanish ==
  \A f \in Files : row[f] = "gone" ~>
    f \notin disk /\ \A n \in staged : OrigOf[n] # f

\* A start of the server that meets no locked file leaves nothing behind under
\* a staged name, whatever the crashes before it left (cleanup_staged_files).
BootDrains == [][server = "boot" /\ server' = "up" => staged' = {}]_vars

\* The promise FileLifecycle states, read off the rows and the two places where
\* bytes can be.
Visible == [f \in Files |-> IF row[f] = "none" THEN "absent"
                            ELSE IF row[f] \in Binned THEN "binned" ELSE row[f]]
Stored == disk \cup {OrigOf[n] : n \in staged}

Lifecycle == INSTANCE FileLifecycle WITH state <- Visible, bytes <- Stored

\* The file store keeps the promise of FileLifecycle.
KeepsPromise == Lifecycle!Spec

-----------------------------------------------------------------------------
(* Why BytesSafe holds: an inductive invariant.  It needs startup to run    *)
(* alone (~Overlap) and the staging handler's put-back to succeed.          *)

Uploading == {"insert", "remove"}
Deleting == {"stage", "move", "undo", "forget", "delete", "restore", "discard"}
Recovering == {"recover", "scan", "glob", "reap"}

\* Until a name is cleared from the journal nothing is left under it; rows a
\* job works on were inserted, and those of an upload were not.
RowsOK(p) ==
  /\ at[p] \in Uploading => \A f \in task[p].rows : row[f] = "none"
  /\ at[p] = "insert" => task[p].rows \subseteq disk
  /\ at[p] \in Deleting \cup {"apply"} => \A f \in task[p].rows : row[f] # "none"
  /\ at[p] \in Deleting =>
       /\ \A n \in plan[p] \cup held[p] : OrigOf[n] \in task[p].rows
       /\ task[p].op = "drop" => \A f \in task[p].rows : CourseOf[f] = task[p].course
  /\ at[p] \in {"discard", "reap"} => \A n \in held[p] : row[OrigOf[n]] = "gone"
  /\ at[p] = "glob" => \A n \in staged \ plan[p] : row[OrigOf[n]] = "gone"

NamesOK(p) ==
  /\ at[p] \in Recovering => p = Boot
  /\ at[p] \in {"idle", "insert", "remove", "apply", "stage", "scan"} => Own(p) = {}
  /\ at[p] \in {"move", "delete", "glob", "reap"} => done[p] = {}
  /\ at[p] = "move" => plan[p] \subseteq journal
  /\ at[p] \in {"move", "undo", "forget"} => plan[p] \cap staged \subseteq held[p]
  /\ at[p] \in {"move", "undo"} => held[p] \subseteq staged
  /\ at[p] = "forget" => held[p] = {}
  /\ at[p] \in {"recover", "reap"} => plan[p] = {}
  /\ at[p] = "glob" => held[p] = {}
  /\ done[p] \cap staged = {}

Apart(p, q) == /\ Own(p) \cap Own(q) = {}
               /\ at[p] \in Uploading => task[p].rows \cap task[q].rows = {}

Alone ==
  /\ server # "up" => \A p \in Requests : Idle(p)
  /\ server = "boot" => \A p \in Cleaners : Idle(p)
  /\ server # "boot" => Idle(Boot)

Kept == \A f \in Files : row[f] \in Present =>
          f \in disk \/ \E n \in staged : OrigOf[n] = f

IInv ==
  /\ TypeOK
  /\ UnjournaledIsGone
  /\ Kept
  /\ Alone
  /\ \A p \in Procs : RowsOK(p) /\ NamesOK(p)
  /\ \A p, q \in Procs : p # q => Apart(p, q)

=============================================================================
