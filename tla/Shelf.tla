------------------------------- MODULE Shelf -------------------------------
(***************************************************************************)
(* The rows of courses and files as uploads, the recycle bin and the       *)
(* deletion of courses change them.  The bytes behind the rows are in      *)
(* FileStore.  A purge deletes by id the row its SELECT has found, which   *)
(* may be live again by then.  A restore is one step here: its UPDATE by   *)
(* id changes a row of the bin only, and a SELECT could find that row then.*)
(***************************************************************************)
EXTENDS Integers, FiniteSets, FiniteSetsExt

CONSTANTS
  Courses, Files, Users,
  Nowhere, Nobody  \* the course and the uploader of a row that is not there

ASSUME ShelfAssumption == Nowhere \notin Courses /\ Nobody \notin Users

VARIABLES
  course,     \* "none", "open" or "gone"
  state,      \* of a file: "none", "new" (it is uploading), "live", "bin" or "gone"
  home,       \* course_id
  owner,      \* uploaded_by; Nobody also for rows of an early release
  purging     \* files a purge has found in the bin

shelfVars == <<course, state, home, owner, purging>>

HasRow(f) == state[f] \in {"live", "bin"}
Open(c) == course[c] = "open"

ShelfTypeOK ==
  /\ course \in [Courses -> {"none", "open", "gone"}]
  /\ state \in [Files -> {"none", "new", "live", "bin", "gone"}]
  /\ home \in [Files -> Courses \cup {Nowhere}]
  /\ owner \in [Files -> Users \cup {Nobody}]
  /\ purging \subseteq Files

\* A new database, or one with files nobody is known to have uploaded.
ShelfInit ==
  /\ course \in [Courses -> {"none", "open"}]
  /\ state \in [Files -> {"none", "live"}]
  /\ home \in [Files -> Courses \cup {Nowhere}]
  /\ \A f \in Files : IF state[f] = "live" THEN home[f] \in Courses /\ Open(home[f])
                                          ELSE home[f] = Nowhere
  /\ owner = [f \in Files |-> Nobody]
  /\ purging = {}

-----------------------------------------------------------------------------
\* Rows of S are deleted; a purge that holds one of them will delete nothing.
Delete(S) ==
  /\ purging' = purging \ S
  /\ state' = [f \in Files |-> IF f \in S THEN "gone" ELSE state[f]]
  /\ home' = [f \in Files |-> IF f \in S THEN Nowhere ELSE home[f]]
  /\ owner' = [f \in Files |-> IF f \in S THEN Nobody ELSE owner[f]]

\* upload_course_file up to the end of the stream: the course is there.
UploadBegin(f, c, u) ==
  /\ state[f] = "none" /\ Open(c)
  /\ state' = [state EXCEPT ![f] = "new"]
  /\ home' = [home EXCEPT ![f] = c] /\ owner' = [owner EXCEPT ![f] = u]
  /\ UNCHANGED <<course, purging>>

\* Mutant: connections do not enforce foreign keys.
UploadInsertAnywhere(f) ==
  /\ state[f] = "new"
  /\ state' = [state EXCEPT ![f] = "live"]
  /\ UNCHANGED <<course, home, owner, purging>>

\* The INSERT: its course must still be there.
UploadInsert(f) ==
  /\ state[f] = "new" /\ Open(home[f])
  /\ state' = [state EXCEPT ![f] = "live"]
  /\ UNCHANGED <<course, home, owner, purging>>

\* Any refusal: too large, over a quota, a twin, no course, a busy database.
UploadRefused(f) ==
  /\ state[f] = "new"
  /\ state' = [state EXCEPT ![f] = "none"]
  /\ home' = [home EXCEPT ![f] = Nowhere] /\ owner' = [owner EXCEPT ![f] = Nobody]
  /\ UNCHANGED <<course, purging>>

\* delete_file
Trash(f) ==
  /\ state[f] = "live"
  /\ state' = [state EXCEPT ![f] = "bin"]
  /\ UNCHANGED <<course, home, owner, purging>>

\* apply_trash_restore, unless a twin is live
Restore(f) ==
  /\ state[f] = "bin"
  /\ state' = [state EXCEPT ![f] = "live"]
  /\ UNCHANGED <<course, home, owner, purging>>

\* apply_trash_purge and the sweep: the SELECT, then the DELETE by id.
PurgeBegin(f) ==
  /\ state[f] = "bin"
  /\ purging' = purging \cup {f}
  /\ UNCHANGED <<course, state, home, owner>>

PurgeCommit(f) ==
  /\ f \in purging
  /\ Delete({f})
  /\ UNCHANGED course

PurgeFails(f) ==
  /\ f \in purging
  /\ purging' = purging \ {f}
  /\ UNCHANGED <<course, state, home, owner>>

CreateCourse(c) ==
  /\ course[c] = "none"
  /\ course' = [course EXCEPT ![c] = "open"]
  /\ UNCHANGED <<state, home, owner, purging>>

\* DELETE FROM courses, and its rows by the cascade.
DropCourse(c) ==
  /\ Open(c)
  /\ course' = [course EXCEPT ![c] = "gone"]
  /\ Delete({f \in Files : HasRow(f) /\ home[f] = c})

\* The steps that bring no row into the shelf.
ShelfStep ==
  \/ \E f \in Files : \/ Trash(f) \/ PurgeBegin(f) \/ PurgeCommit(f) \/ PurgeFails(f)
  \/ \E c \in Courses : DropCourse(c)
=============================================================================
