------------------------------ MODULE Readers ------------------------------
(***************************************************************************)
(* Who sees which file: reviews, roles, and every route that shows a file  *)
(* or hangs something on it, comments and share links included.            *)
(***************************************************************************)
EXTENDS Shelf

CONSTANTS
  Links,  \* share links, drawn once each
  Guest   \* who is not logged in

ASSUME ReaderAssumption == Guest \notin Users \cup {Nobody}

Viewers == Users \cup {Guest}

VARIABLES
  status,      \* "pending", "approved" or "rejected"
  role,        \* users.role
  comments,    \* files with comments
  commenting,  \* files a comment is about to be written to
  link,        \* of a link: "none", "test" (its course is tested), "on", "expired" or "off"
  target,      \* course_id of a link
  vetted       \* history: files an administrator uploaded or approved and none rejected since

readerVars == <<status, role, comments, commenting, link, target, vetted>>

ReaderTypeOK ==
  /\ status \in [Files -> {"pending", "approved", "rejected"}]
  /\ role \in [Users -> {"admin", "uploader", "viewer"}]
  /\ comments \subseteq Files /\ commenting \subseteq Files
  /\ link \in [Links -> {"none", "test", "on", "expired", "off"}]
  /\ target \in [Links -> Courses \cup {Nowhere}]
  /\ \A l \in Links : link[l] = "test" => target[l] \in Courses
  /\ vetted \subseteq Files

\* A migrated row has the default of its column, 'approved'.
ReaderInit ==
  /\ status = [f \in Files |-> "approved"]
  /\ role \in [Users -> {"admin", "uploader", "viewer"}]
  /\ comments = {} /\ commenting = {}
  /\ link = [l \in Links |-> "none"] /\ target = [l \in Links |-> Nowhere]
  /\ vetted = {f \in Files : HasRow(f)}

-----------------------------------------------------------------------------
(* The routes                                                              *)

Is(v, r) == v \in Users /\ role[v] = r
Approved(f) == state[f] = "live" /\ status[f] = "approved"

\* Mutant: an uploader sees what is not reviewed, whoever uploaded it.
ListedToUploaders(v, f) == state[f] = "live" /\
  (status[f] = "approved" \/ Is(v, "admin") \/ Is(v, "uploader"))

\* file_visibility: list_course_files, export_course_files, search_files and
\* download_course_archive show these.
Listed(v, f) == state[f] = "live" /\
  (status[f] = "approved" \/ Is(v, "admin") \/ (Is(v, "uploader") /\ owner[f] = v))

\* download_file, preview_file and ensure_commentable_file decide alike, and do not ask
\* for the role of the uploader.
Served(v, f) == state[f] = "live" /\
  (status[f] = "approved" \/ Is(v, "admin") \/ (v \in Users /\ owner[f] = v))

\* list_my_files
Mine(v, f) == state[f] = "live" /\ owner[f] = v

\* view_share: of a link that is neither expired nor revoked.
Shared(l, f) == link[l] = "on" /\ home[f] = target[l] /\ Approved(f)

\* hot_files, recent_files, and the files get_course counts.
OnHomePage(f) == Approved(f)

\* list_trash
InBin(v, f) == Is(v, "admin") /\ state[f] = "bin"

-----------------------------------------------------------------------------
\* Mutant: the column's default is what an upload gets.
SubmitByDefault(f, c, u) ==
  /\ role[u] \in {"admin", "uploader"}
  /\ UploadBegin(f, c, u)
  /\ vetted' = IF role[u] = "admin" THEN vetted \cup {f} ELSE vetted
  /\ UNCHANGED <<status, role, comments, commenting, link, target>>

\* The role was read when the request began.
Submit(f, c, u) ==
  /\ role[u] \in {"admin", "uploader"}
  /\ UploadBegin(f, c, u)
  /\ status' = [status EXCEPT ![f] = IF role[u] = "admin" THEN "approved" ELSE "pending"]
  /\ vetted' = IF role[u] = "admin" THEN vetted \cup {f} ELSE vetted
  /\ UNCHANGED <<role, comments, commenting, link, target>>

Saved(f) == UploadInsert(f) /\ UNCHANGED readerVars

Refused(f) ==
  /\ UploadRefused(f)
  /\ status' = [status EXCEPT ![f] = "approved"]
  /\ vetted' = vetted \ {f}
  /\ UNCHANGED <<role, comments, commenting, link, target>>

\* apply_file_review, alone or for each file of a batch.
Review(f, s) ==
  /\ state[f] = "live"
  /\ status' = [status EXCEPT ![f] = s]
  /\ vetted' = IF s = "approved" THEN vetted \cup {f} ELSE vetted \ {f}
  /\ UNCHANGED <<shelfVars, role, comments, commenting, link, target>>

\* apply_user_update
ChangeRole(u, r) ==
  /\ role' = [role EXCEPT ![u] = r]
  /\ UNCHANGED <<shelfVars, status, comments, commenting, link, target, vetted>>

\* create_comment: ensure_commentable_file, then the INSERT, which wants the row.
CommentTest(f, u) ==
  /\ Served(u, f)
  /\ commenting' = commenting \cup {f}
  /\ UNCHANGED <<shelfVars, status, role, comments, link, target, vetted>>

CommentInsert(f) ==
  /\ f \in commenting /\ HasRow(f)
  /\ comments' = comments \cup {f}
  /\ \E C \in {commenting, commenting \ {f}} : commenting' = C
  /\ UNCHANGED <<shelfVars, status, role, link, target, vetted>>

CommentFails(f) ==
  /\ f \in commenting
  /\ commenting' = commenting \ {f}
  /\ UNCHANGED <<shelfVars, status, role, comments, link, target, vetted>>

\* delete_comment, of the last comment
DeleteComment(f) ==
  /\ f \in comments
  /\ comments' = comments \ {f}
  /\ UNCHANGED <<shelfVars, status, role, commenting, link, target, vetted>>

\* create_share_link: the course is there; then the INSERT, which wants it, too.
LinkTest(l, c) ==
  /\ link[l] = "none" /\ Open(c)
  /\ link' = [link EXCEPT ![l] = "test"] /\ target' = [target EXCEPT ![l] = c]
  /\ UNCHANGED <<shelfVars, status, role, comments, commenting, vetted>>

LinkInsert(l) ==
  /\ link[l] = "test"
  /\ link' = [link EXCEPT ![l] = IF Open(target[l]) THEN "on" ELSE "off"]
  /\ target' = IF Open(target[l]) THEN target ELSE [target EXCEPT ![l] = Nowhere]
  /\ UNCHANGED <<shelfVars, status, role, comments, commenting, vetted>>

LinkExpires(l) ==
  /\ link[l] = "on"
  /\ link' = [link EXCEPT ![l] = "expired"]
  /\ UNCHANGED <<shelfVars, status, role, comments, commenting, target, vetted>>

\* revoke_share_link
Revoke(l) ==
  /\ link[l] \in {"on", "expired"}
  /\ link' = [link EXCEPT ![l] = "off"] /\ target' = [target EXCEPT ![l] = Nowhere]
  /\ UNCHANGED <<shelfVars, status, role, comments, commenting, vetted>>

\* Mutant: the links of a course that is dropped stay.
CascadeFiles ==
  /\ comments' = {f \in comments : state'[f] # "gone"}
  /\ UNCHANGED <<link, target>>

\* ON DELETE CASCADE
Cascade ==
  /\ comments' = {f \in comments : state'[f] # "gone"}
  /\ link' = [l \in Links |->
       IF link[l] \in {"on", "expired"} /\ course'[target[l]] = "gone" THEN "off" ELSE link[l]]
  /\ target' = [l \in Links |-> IF link'[l] = "off" THEN Nowhere ELSE target[l]]

ReaderShelf ==
  /\ \/ ShelfStep
     \/ \E c \in Courses : CreateCourse(c)
     \/ \E f \in Files : Restore(f)
  /\ Cascade
  /\ status' = [f \in Files |-> IF state'[f] = "gone" THEN "approved" ELSE status[f]]
  /\ vetted' = {f \in vetted : state'[f] # "gone"}
  /\ UNCHANGED <<role, commenting>>

ReaderNext ==
  \/ \E f \in Files :
       \/ Saved(f) \/ Refused(f)
       \/ \E c \in Courses, u \in Users : Submit(f, c, u)
       \/ \E s \in {"approved", "rejected"} : Review(f, s)
       \/ \E u \in Users : CommentTest(f, u)
       \/ CommentInsert(f) \/ CommentFails(f) \/ DeleteComment(f)
  \/ \E u \in Users, r \in {"admin", "uploader", "viewer"} : ChangeRole(u, r)
  \/ \E l \in Links : \/ LinkInsert(l) \/ LinkExpires(l) \/ Revoke(l)
                      \/ \E c \in Courses : LinkTest(l, c)
  \/ ReaderShelf

ReaderSpec == ShelfInit /\ ReaderInit /\ [][ReaderNext]_<<shelfVars, readerVars>>

-----------------------------------------------------------------------------
\* A comment, a link or a file whose file or course was tested first has a row to stand on,
\* whatever was purged or dropped before its INSERT or after it.
NothingDangles ==
  /\ \A f \in comments : HasRow(f)
  /\ \A l \in Links : link[l] \in {"on", "expired"} => Open(target[l])
  /\ \A f \in Files : HasRow(f) => Open(home[f])

\* No list shows what another route then denies, a guest sees the same files on every
\* page, and the bin and the lists share none; only uploaders who were made viewers may
\* fetch what no list but their own shows.
RoutesAgree ==
  \A v \in Viewers, f \in Files :
    /\ Listed(v, f) => Served(v, f)
    /\ Served(v, f) /\ ~Listed(v, f) => Mine(v, f) /\ Is(v, "viewer")
    /\ Listed(Guest, f) <=> OnHomePage(f)
    /\ \A l \in Links : Shared(l, f) => Listed(v, f)
    /\ Mine(v, f) => Served(v, f)
    /\ InBin(v, f) => ~Served(v, f)

\* "What uploaders submit is reviewed": nobody but administrators and its uploader is
\* shown a file that no administrator uploaded or approved, or that one has rejected
\* since, through the bin and back and however roles change on the way.
OnlyVettedIsPublic ==
  \A v \in Viewers, f \in Files \ vetted :
    Listed(v, f) \/ Served(v, f) => Is(v, "admin") \/ Mine(v, f)
=============================================================================
