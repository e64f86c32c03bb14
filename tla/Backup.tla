------------------------------- MODULE Backup -------------------------------
(***************************************************************************)
(* app.backup beside a running server: the database is copied, verified    *)
(* and named, then the uploads directory is listed and packed file by      *)
(* file, then old backups are pruned.  Uploads and deletions go on         *)
(* meanwhile; a run may fail or die at any step, and nothing keeps two     *)
(* runs apart.  Run r has the r-th stamp.                                  *)
(***************************************************************************)
EXTENDS Naturals, FiniteSets

CONSTANTS
  Files,   \* uploaded files
  NRuns,   \* bound on the runs
  Keep,    \* --keep; 0 keeps every backup
  MaxCrashes  \* bound on runs that die

ASSUME BackupAssumption == NRuns \in Nat /\ Keep \in Nat /\ MaxCrashes \in Nat

Runs == 1..NRuns

VARIABLES
  row,      \* "none", "row" (committed) or "gone"
  disk,     \* bytes: "none", "part" (being written), "whole", "staged"
  at,       \* where each run is
  copy,     \* coursebox-r.db.partial: "none", "torn", "whole" or "empty"
  base,     \* coursebox-r.db: the same
  rows,     \* the files of which the copy has a row
  packing,  \* is there an uploads-r.zip.partial?
  zip,      \* uploads-r.zip: "none", "named", or "needless" if r wants none
  todo,     \* listed files not yet packed
  packed,   \* files whose bytes are whole in the archive
  stale,    \* what the run is about to prune
  crashes,
  touched,  \* history: files a deletion had staged at the copy or staged since
  overlapped  \* history: two runs were at work at once

files == <<row, disk>>
out == <<copy, base, packing, zip>>
mem == <<rows, todo, packed, stale>>
vars == <<files, at, out, mem, crashes, touched, overlapped>>

Busy == {"copy", "verify", "name", "list", "pack", "prune", "unlink"}
Images == {"none", "torn", "whole", "empty"}

TypeOK ==
  /\ row \in [Files -> {"none", "row", "gone"}]
  /\ disk \in [Files -> {"none", "part", "whole", "staged"}]
  /\ at \in [Runs -> Busy \cup {"new", "failed", "done"}]
  /\ copy \in [Runs -> Images] /\ base \in [Runs -> Images]
  /\ rows \in [Runs -> SUBSET Files]
  /\ packing \in [Runs -> BOOLEAN]
  /\ zip \in [Runs -> {"none", "named", "needless"}]
  /\ todo \in [Runs -> SUBSET Files] /\ packed \in [Runs -> SUBSET Files]
  /\ stale \in [Runs -> SUBSET Runs]
  /\ crashes \in 0..MaxCrashes
  /\ touched \in [Runs -> SUBSET Files]
  /\ overlapped \in BOOLEAN
  /\ \A r \in Runs : at[r] \in {"new", "copy", "verify", "name"} => base[r] = "none"

Init ==
  /\ row \in [Files -> {"none", "row"}]
  /\ disk = [f \in Files |-> IF row[f] = "row" THEN "whole" ELSE "none"]
  /\ at = [r \in Runs |-> "new"]
  /\ copy = [r \in Runs |-> "none"] /\ base = [r \in Runs |-> "none"]
  /\ rows = [r \in Runs |-> {}]
  /\ packing = [r \in Runs |-> FALSE] /\ zip = [r \in Runs |-> "none"]
  /\ todo = [r \in Runs |-> {}] /\ packed = [r \in Runs |-> {}]
  /\ stale = [r \in Runs |-> {}]
  /\ crashes = 0
  /\ touched = [r \in Runs |-> {}] /\ overlapped = FALSE

-----------------------------------------------------------------------------
(* The server's side: an upload writes its file and then inserts the row;  *)
(* a deletion stages the file, deletes the row and unlinks, or puts back.  *)

UploadStart(f) ==
  /\ row[f] = "none" /\ disk[f] = "none"
  /\ disk' = [disk EXCEPT ![f] = "part"]
  /\ UNCHANGED <<row, at, out, mem, crashes, touched, overlapped>>

UploadWritten(f) ==
  /\ disk[f] = "part"
  /\ disk' = [disk EXCEPT ![f] = "whole"]
  /\ UNCHANGED <<row, at, out, mem, crashes, touched, overlapped>>

UploadFails(f) ==
  /\ row[f] = "none" /\ disk[f] \in {"part", "whole"}
  /\ disk' = [disk EXCEPT ![f] = "none"]
  /\ UNCHANGED <<row, at, out, mem, crashes, touched, overlapped>>

\* Mutant: the row is inserted while the file is being written.
UploadInsertEarly(f) ==
  /\ row[f] = "none" /\ disk[f] \in {"part", "whole"}
  /\ row' = [row EXCEPT ![f] = "row"]
  /\ UNCHANGED <<disk, at, out, mem, crashes, touched, overlapped>>

UploadInsert(f) ==
  /\ row[f] = "none" /\ disk[f] = "whole"
  /\ row' = [row EXCEPT ![f] = "row"]
  /\ UNCHANGED <<disk, at, out, mem, crashes, touched, overlapped>>

\* An action that takes the bytes of f away is remembered for every run.
Stage(f) ==
  /\ row[f] = "row" /\ disk[f] = "whole"
  /\ disk' = [disk EXCEPT ![f] = "staged"]
  /\ touched' = [r \in Runs |-> IF f \in rows[r] /\ at[r] \in Busy THEN touched[r] \cup {f}
                                                              ELSE touched[r]]
  /\ UNCHANGED <<row, at, out, mem, crashes, overlapped>>

PutBack(f) ==
  /\ row[f] = "row" /\ disk[f] = "staged"
  /\ disk' = [disk EXCEPT ![f] = "whole"]
  /\ UNCHANGED <<row, at, out, mem, crashes, touched, overlapped>>

DeleteRow(f) ==
  /\ row[f] = "row" /\ disk[f] = "staged"
  /\ row' = [row EXCEPT ![f] = "gone"]
  /\ UNCHANGED <<disk, at, out, mem, crashes, touched, overlapped>>

Unlink(f) ==
  /\ row[f] = "gone" /\ disk[f] = "staged"
  /\ disk' = [disk EXCEPT ![f] = "none"]
  /\ UNCHANGED <<row, at, out, mem, crashes, touched, overlapped>>

Server == \E f \in Files :
  \/ UploadStart(f) \/ UploadWritten(f) \/ UploadFails(f) \/ UploadInsert(f)
  \/ Stage(f) \/ PutBack(f) \/ DeleteRow(f) \/ Unlink(f)

-----------------------------------------------------------------------------
Go(r, from, to) == at[r] = from /\ at' = [at EXCEPT ![r] = to]
Others(r) == \E q \in Runs \ {r} : at[q] \in Busy

\* The next run starts, by schedule or by hand, and clear_partial_files removes what is
\* left of a run that died - or in use by another.
Start(r) ==
  /\ \A q \in Runs : q < r => at[q] # "new"
  /\ Go(r, "new", "copy")
  /\ copy' = [q \in Runs |-> "none"] /\ packing' = [q \in Runs |-> FALSE]
  /\ overlapped' = (overlapped \/ Others(r))
  /\ UNCHANGED <<files, base, zip, mem, crashes, touched>>

\* Mutant: the copy is written under its final name.
CopyInPlace(r) ==
  /\ Go(r, "copy", "verify")
  /\ copy' = [copy EXCEPT ![r] = "whole"] /\ base' = [base EXCEPT ![r] = "whole"]
  /\ rows' = [rows EXCEPT ![r] = {f \in Files : row[f] = "row"}]
  /\ touched' = [touched EXCEPT ![r] = {f \in Files : disk[f] = "staged"}]
  /\ UNCHANGED <<files, packing, zip, todo, packed, stale, crashes, overlapped>>

\* The online backup is one read of the database; the copy may be damaged.
Copy(r) ==
  /\ Go(r, "copy", "verify")
  /\ \E image \in {"torn", "whole"} : copy' = [copy EXCEPT ![r] = image]
  /\ rows' = [rows EXCEPT ![r] = {f \in Files : row[f] = "row"}]
  /\ touched' = [touched EXCEPT ![r] = {f \in Files : disk[f] = "staged"}]
  /\ UNCHANGED <<files, base, packing, zip, todo, packed, stale, crashes, overlapped>>

\* Mutant: the result of the check is not looked at.
VerifyUnread(r) ==
  /\ Go(r, "verify", "name")
  /\ copy' = IF copy[r] = "none" THEN [copy EXCEPT ![r] = "empty"] ELSE copy
  /\ UNCHANGED <<files, base, packing, zip, mem, crashes, touched, overlapped>>

\* integrity_ok: quick_check approves an empty database, and opening a file that is
\* not there makes one.
Verify(r) ==
  /\ copy[r] # "torn"
  /\ Go(r, "verify", "name")
  /\ copy' = IF copy[r] = "none" THEN [copy EXCEPT ![r] = "empty"] ELSE copy
  /\ UNCHANGED <<files, base, packing, zip, mem, crashes, touched, overlapped>>

VerifyFails(r) ==
  /\ copy[r] = "torn"
  /\ Go(r, "verify", "failed")
  /\ copy' = [copy EXCEPT ![r] = "none"]
  /\ UNCHANGED <<files, base, packing, zip, mem, crashes, touched, overlapped>>

\* temporary.replace(target)
Name(r) ==
  /\ copy[r] # "none"
  /\ Go(r, "name", "list")
  /\ base' = [base EXCEPT ![r] = copy[r]]
  /\ copy' = [copy EXCEPT ![r] = "none"]
  /\ UNCHANGED <<files, packing, zip, mem, crashes, touched, overlapped>>

NameFails(r) ==
  /\ copy[r] = "none"
  /\ Go(r, "name", "failed")
  /\ UNCHANGED <<files, out, mem, crashes, touched, overlapped>>

-----------------------------------------------------------------------------
Packable(f) == disk[f] \in {"part", "whole"}

\* archive_uploads lists the files that are not staged and opens the archive.
List(r) ==
  /\ \E f \in Files : Packable(f)
  /\ Go(r, "list", "pack")
  /\ todo' = [todo EXCEPT ![r] = {f \in Files : Packable(f)}]
  /\ packing' = [packing EXCEPT ![r] = TRUE]
  /\ UNCHANGED <<files, copy, base, zip, rows, packed, stale, crashes, touched, overlapped>>

\* There is no file, or --no-uploads.
ListNothing(r) ==
  /\ Go(r, "list", "prune")
  /\ zip' = [zip EXCEPT ![r] = "needless"]
  /\ UNCHANGED <<files, copy, base, packing, mem, crashes, touched, overlapped>>

Pack(r, f) ==
  /\ at[r] = "pack" /\ f \in todo[r] /\ Packable(f)
  /\ todo' = [todo EXCEPT ![r] = @ \ {f}]
  /\ packed' = [packed EXCEPT ![r] = IF disk[f] = "whole" THEN @ \cup {f} ELSE @]
  /\ UNCHANGED <<files, at, out, rows, stale, crashes, touched, overlapped>>

\* Mutant: the run goes on without its archive.
PackFailsGoesOn(r) ==
  /\ \E f \in todo[r] : ~Packable(f)
  /\ Go(r, "pack", "prune")
  /\ packing' = [packing EXCEPT ![r] = FALSE]
  /\ UNCHANGED <<files, copy, base, zip, mem, crashes, touched, overlapped>>

\* A listed file has gone: the archive is given up and the run ends.
PackFails(r) ==
  /\ \E f \in todo[r] : ~Packable(f)
  /\ Go(r, "pack", "failed")
  /\ packing' = [packing EXCEPT ![r] = FALSE]
  /\ todo' = [todo EXCEPT ![r] = {}] /\ packed' = [packed EXCEPT ![r] = {}]
  /\ UNCHANGED <<files, copy, base, zip, rows, stale, crashes, touched, overlapped>>

Seal(r) ==
  /\ todo[r] = {} /\ packing[r]
  /\ Go(r, "pack", "prune")
  /\ packing' = [packing EXCEPT ![r] = FALSE]
  /\ zip' = [zip EXCEPT ![r] = "named"]
  /\ UNCHANGED <<files, copy, base, mem, crashes, touched, overlapped>>

\* Another run has cleared the .partial file.
SealFails(r) ==
  /\ todo[r] = {} /\ ~packing[r]
  /\ Go(r, "pack", "failed")
  /\ UNCHANGED <<files, out, mem, crashes, touched, overlapped>>

\* prune_backups: a stamp with a database or an archive is a group; all but the newest
\* Keep groups are to go.
Groups == {q \in Runs : base[q] # "none" \/ zip[q] = "named"}
Outdated == IF Keep = 0 THEN {}
            ELSE {q \in Groups : Cardinality({s \in Groups : s > q}) >= Keep}

Prune(r) ==
  /\ Go(r, "prune", "unlink")
  /\ stale' = [stale EXCEPT ![r] = Outdated]
  /\ UNCHANGED <<files, out, rows, todo, packed, crashes, touched, overlapped>>

\* The files of the outdated groups go one by one, and may be gone already.
PruneBase(r, q) ==
  /\ at[r] = "unlink" /\ q \in stale[r] /\ base[q] # "none"
  /\ base' = [base EXCEPT ![q] = "none"]
  /\ UNCHANGED <<files, at, copy, packing, zip, mem, crashes, touched, overlapped>>

PruneZip(r, q) ==
  /\ at[r] = "unlink" /\ q \in stale[r] /\ zip[q] = "named"
  /\ zip' = [zip EXCEPT ![q] = "none"]
  /\ UNCHANGED <<files, at, copy, base, packing, mem, crashes, touched, overlapped>>

Done(r) ==
  /\ \A q \in stale[r] : base[q] = "none" /\ zip[q] # "named"
  /\ Go(r, "unlink", "done")
  /\ stale' = [stale EXCEPT ![r] = {}]
  /\ UNCHANGED <<files, out, rows, todo, packed, crashes, touched, overlapped>>

\* The run dies, in the middle of the copy or of a rename, too.
Die(r) ==
  /\ crashes < MaxCrashes /\ crashes' = crashes + 1
  /\ at[r] \in Busy
  /\ at' = [at EXCEPT ![r] = "failed"]
  /\ \/ UNCHANGED copy
     \/ at[r] = "copy" /\ copy' = [copy EXCEPT ![r] = "torn"]
  /\ todo' = [todo EXCEPT ![r] = {}] /\ stale' = [stale EXCEPT ![r] = {}]
  /\ UNCHANGED <<files, base, packing, zip, rows, packed, touched, overlapped>>

Run(r) ==
  \/ Start(r) \/ Copy(r) \/ Verify(r) \/ VerifyFails(r) \/ Name(r) \/ NameFails(r)
  \/ List(r) \/ ListNothing(r) \/ (\E f \in Files : Pack(r, f)) \/ PackFails(r)
  \/ Seal(r) \/ SealFails(r) \/ Prune(r) \/ (\E q \in Runs : PruneBase(r, q) \/ PruneZip(r, q))
  \/ Done(r)

Next == Server \/ \E r \in Runs : Run(r) \/ Die(r)

Spec == Init /\ [][Next]_vars

-----------------------------------------------------------------------------
\* A database with the name of a backup is a whole copy, whatever failed or died, as
\* long as the runs do not overlap: one run clears the .partial files of the other,
\* and the check then approves the empty database it has itself created.
NamedIsWhole == overlapped \/ \A r \in Runs : base[r] \in {"none", "whole"}

\* A row in a copied database has its bytes in the archive with the same stamp, unless
\* a deletion was at work on the file at the copy or after it.
RowsHaveBytes == \A r \in Runs :
  zip[r] = "named" => rows[r] \ touched[r] \subseteq packed[r]

\* Once a run has succeeded there is a backup that is whole, both parts of it: failed
\* runs may leave databases without an archive, which pruning counts, yet never
\* crowd out the last good one.
Whole(r) == base[r] = "whole" /\ zip[r] # "none"
AWholeRemains ==
  (\E r \in Runs : at[r] = "done") => overlapped \/ \E r \in Runs : Whole(r)
=============================================================================
