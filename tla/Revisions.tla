----------------------------- MODULE Revisions -----------------------------
(***************************************************************************)
(* Edits of titles and of courses: a form shows a row with its version and *)
(* is saved later, with the version or without; the name of a course is    *)
(* tested before it is written, and again by the unique index, if the      *)
(* database has one.                                                       *)
(***************************************************************************)
EXTENDS Shelf

CONSTANTS
  Forms,       \* edits in progress
  Titles,      \* titles of files and names of courses
  MaxVersion,  \* bound on the versions
  NoRow, NoTitle

ASSUME RevisionAssumption ==
  /\ MaxVersion \in Nat /\ NoTitle \notin Titles
  /\ NoRow \notin Files \cup Courses /\ Files \cap Courses = {}

Rows == Files \cup Courses

VARIABLES
  title,    \* files.title, courses.name
  version,
  stage,    \* of a form: "closed", "file", "course", "rename" or "create"
  row,      \* what it edits
  seen,     \* the version it sends; 0: none
  shown,    \* the title it was opened with
  wish,     \* the name that was tested and is about to be written
  indexed   \* is there a unique index on the names of courses?

formVars == <<stage, row, seen, shown, wish>>
revisionVars == <<title, version, formVars, indexed>>

RevisionTypeOK ==
  /\ title \in [Rows -> Titles \cup {NoTitle}] /\ version \in [Rows -> Nat]
  /\ stage \in [Forms -> {"closed", "file", "course", "rename", "create"}]
  /\ row \in [Forms -> Rows \cup {NoRow}] /\ seen \in [Forms -> Nat]
  /\ shown \in [Forms -> Titles \cup {NoTitle}]
  /\ wish \in [Forms -> Titles \cup {NoTitle}]
  /\ indexed \in BOOLEAN
  /\ \A m \in Forms :
       /\ stage[m] = "file" => row[m] \in Files
       /\ stage[m] \in {"course", "rename", "create"} => row[m] \in Courses

NamesUnique == \A c, d \in Courses : c # d /\ Open(c) /\ Open(d) => title[c] # title[d]

\* Courses of one name, as old databases have them, leave the index out.
RevisionInit ==
  /\ title \in [Rows -> Titles \cup {NoTitle}]
  /\ \A c \in Courses : title[c] = NoTitle <=> ~Open(c)
  /\ \A f \in Files : title[f] = NoTitle <=> ~HasRow(f)
  /\ version = [r \in Rows |-> IF title[r] = NoTitle THEN 0 ELSE 1]
  /\ stage = [m \in Forms |-> "closed"] /\ row = [m \in Forms |-> NoRow]
  /\ seen = [m \in Forms |-> 0]
  /\ shown = [m \in Forms |-> NoTitle] /\ wish = [m \in Forms |-> NoTitle]
  /\ indexed = NamesUnique

-----------------------------------------------------------------------------
OpenForm(m, s, r, v, old, new) ==
  /\ stage[m] = "closed"
  /\ stage' = [stage EXCEPT ![m] = s] /\ row' = [row EXCEPT ![m] = r]
  /\ seen' = [seen EXCEPT ![m] = v]
  /\ shown' = [shown EXCEPT ![m] = old] /\ wish' = [wish EXCEPT ![m] = new]

CloseForm(m) ==
  /\ stage' = [stage EXCEPT ![m] = "closed"] /\ row' = [row EXCEPT ![m] = NoRow]
  /\ seen' = [seen EXCEPT ![m] = 0]
  /\ shown' = [shown EXCEPT ![m] = NoTitle] /\ wish' = [wish EXCEPT ![m] = NoTitle]

\* Mutant: an edit that names no version does not count as one.
SetUncounted(r, t, m) ==
  /\ title' = [title EXCEPT ![r] = t]
  /\ version' = [version EXCEPT ![r] = IF seen[m] > 0 THEN @ + 1 ELSE @]

\* SET title = ?, version = version + 1
Set(r, t, m) ==
  /\ version[r] < MaxVersion
  /\ title' = [title EXCEPT ![r] = t]
  /\ version' = [version EXCEPT ![r] = @ + 1]

\* AND version = ?, if the form sends one.
Current(m) == seen[m] \in {0, version[row[m]]}

\* A page shows the file; its form will send the version or not.
LookAtFile(m, f) ==
  /\ state[f] = "live"
  /\ \E v \in {0, version[f]} : OpenForm(m, "file", f, v, title[f], NoTitle)
  /\ UNCHANGED <<shelfVars, title, version, indexed>>

\* update_file: one statement tests that the row is live and of that version.
SaveFile(m, t) ==
  /\ stage[m] = "file" /\ state[row[m]] = "live" /\ Current(m)
  /\ Set(row[m], t, m)
  /\ CloseForm(m)
  /\ UNCHANGED <<shelfVars, indexed>>

LookAtCourse(m, c) ==
  /\ Open(c)
  /\ \E v \in {0, version[c]} : OpenForm(m, "course", c, v, title[c], NoTitle)
  /\ UNCHANGED <<shelfVars, title, version, indexed>>

\* SELECT 1 FROM courses WHERE name = ? AND id != ?
Taken(c, t) == \E d \in Courses \ {c} : Open(d) /\ title[d] = t

\* Mutant: the names are left to the SELECT.
IndexRefusesNot(c, t) == FALSE

\* The INSERT or UPDATE raises IntegrityError.
IndexRefuses(c, t) == indexed /\ Taken(c, t)

\* update_course of other fields than the name.
SaveCourse(m) ==
  /\ stage[m] = "course" /\ Open(row[m]) /\ Current(m)
  /\ Set(row[m], title[row[m]], m)
  /\ CloseForm(m)
  /\ UNCHANGED <<shelfVars, indexed>>

\* update_course of the name: the test comes first.
RenameTest(m, t) ==
  /\ stage[m] = "course" /\ ~Taken(row[m], t)
  /\ stage' = [stage EXCEPT ![m] = "rename"] /\ wish' = [wish EXCEPT ![m] = t]
  /\ UNCHANGED <<shelfVars, title, version, row, seen, shown, indexed>>

Rename(m) ==
  /\ stage[m] = "rename" /\ Open(row[m]) /\ Current(m)
  /\ ~IndexRefuses(row[m], wish[m])
  /\ Set(row[m], wish[m], m)
  /\ CloseForm(m)
  /\ UNCHANGED <<shelfVars, indexed>>

CreateTest(m, c, t) ==
  /\ course[c] = "none" /\ ~Taken(c, t)
  /\ \A l \in Forms : stage[l] = "create" => row[l] # c
  /\ OpenForm(m, "create", c, 0, NoTitle, t)
  /\ UNCHANGED <<shelfVars, title, version, indexed>>

Create(m) ==
  /\ stage[m] = "create" /\ ~IndexRefuses(row[m], wish[m])
  /\ CreateCourse(row[m])
  /\ title' = [title EXCEPT ![row[m]] = wish[m]]
  /\ version' = [version EXCEPT ![row[m]] = 1]
  /\ CloseForm(m)
  /\ UNCHANGED indexed

\* 404 or 409, a busy database, or the user thinks better of it.
GiveUp(m) ==
  /\ stage[m] # "closed"
  /\ CloseForm(m)
  /\ UNCHANGED <<shelfVars, title, version, indexed>>

Upload(f) ==
  /\ UploadInsert(f)
  /\ \E t \in Titles : title' = [title EXCEPT ![f] = t]
  /\ version' = [version EXCEPT ![f] = 1]
  /\ UNCHANGED <<formVars, indexed>>

\* ensure_course_name_unique, whenever a process starts.
Reindex ==
  /\ ~indexed /\ NamesUnique
  /\ indexed' = TRUE
  /\ UNCHANGED <<shelfVars, title, version, formVars>>

\* The title goes with the row; the form stays, its author has not noticed.  Who uploads
\* a file is none of the edits' business.
RevisionShelf ==
  /\ \/ ShelfStep
     \/ \E f \in Files :
          \/ Restore(f) \/ UploadRefused(f)
          \/ \E c \in Courses : UploadBegin(f, c, Nobody)
  /\ LET Gone(r) == IF r \in Files THEN state'[r] = "gone" ELSE course'[r] = "gone" IN
       /\ title' = [r \in Rows |-> IF Gone(r) THEN NoTitle ELSE title[r]]
       /\ version' = [r \in Rows |-> IF Gone(r) THEN 0 ELSE version[r]]
  /\ UNCHANGED <<formVars, indexed>>

RevisionNext ==
  \/ \E m \in Forms :
       \/ \E f \in Files : LookAtFile(m, f)
       \/ \E c \in Courses : LookAtCourse(m, c)
       \/ \E t \in Titles : \/ SaveFile(m, t) \/ RenameTest(m, t)
                            \/ \E c \in Courses : CreateTest(m, c, t)
       \/ SaveCourse(m) \/ Rename(m) \/ Create(m) \/ GiveUp(m)
  \/ \E f \in Files : Upload(f)
  \/ Reindex
  \/ RevisionShelf

RevisionSpec == ShelfInit /\ RevisionInit /\ [][RevisionNext]_<<shelfVars, revisionVars>>

-----------------------------------------------------------------------------
\* "The version in the response goes back with the edit; 409 if it does not match": a form
\* whose version is still the row's shows the row's title, so that saving it undoes no
\* edit its author has not seen, one without a version included.
NoLostEdit ==
  \A m \in Forms :
    LET r == row[m] IN
      stage[m] \in {"file", "course", "rename"} /\ seen[m] > 0 /\ seen[m] = version[r]
        => shown[m] = title[r]

\* Names tested at once, before either is written, do not make two courses of one name
\* where there is an index.
NamesDiffer == indexed => NamesUnique
=============================================================================
