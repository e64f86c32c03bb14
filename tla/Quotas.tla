------------------------------- MODULE Quotas -------------------------------
(***************************************************************************)
(* The quotas of uploads: the allowance an upload is given when it begins, *)
(* the sums its INSERT tests again, and the restore that tests nothing.    *)
(***************************************************************************)
EXTENDS Shelf

CONSTANTS
  Sizes,                         \* how many bytes an upload may turn out to have
  MaxFile,
  MaxTotal, MaxCourse, MaxUser,  \* 0: no limit
  Spares                         \* what the disk may have left above min_free_space

ASSUME QuotaAssumption ==
  /\ IsFiniteSet(Files) /\ Sizes \subseteq Nat /\ Spares \subseteq Int
  /\ MaxFile \in Nat \ {0} /\ MaxTotal \in Nat /\ MaxCourse \in Nat /\ MaxUser \in Nat

VARIABLES
  size,     \* of a row
  granted,  \* the allowance of an upload
  exempt    \* history: rows that were there before these limits, or were restored

quotaVars == <<size, granted, exempt>>

QuotaTypeOK ==
  /\ size \in [Files -> Sizes \cup {0}]
  /\ granted \in [Files -> 0..MaxFile]
  /\ exempt \subseteq Files
  /\ \A f \in Files : (size[f] > 0 <=> HasRow(f)) /\ (granted[f] > 0 <=> state[f] = "new")

QuotaInit ==
  /\ size \in [Files -> Sizes \cup {0}]
  /\ \A f \in Files : size[f] > 0 <=> HasRow(f)
  /\ granted = [f \in Files |-> 0]
  /\ exempt = {f \in Files : HasRow(f)}

-----------------------------------------------------------------------------
\* SUM(size) of the rows of S: the number of their bytes.
Bytes(S) == UNION {{f} \X (1..size[f]) : f \in S}
Sum(S) == Cardinality(Bytes(S))

\* WHERE deleted_at IS NULL, for a course or an uploader or for all.
Live == {f \in Files : state[f] = "live"}
InCourse(c) == {f \in Live : home[f] = c}
ByUser(u) == {f \in Live : owner[f] = u}

Left(limit, S) == IF limit = 0 THEN {} ELSE {limit - Sum(S)}

\* Mutant: the bin counts when the allowance is computed.
AllowanceWithBin(c, u, spare) ==
  LET least == Min({MaxFile, spare} \cup Left(MaxTotal, {f \in Files : HasRow(f)})
                     \cup Left(MaxCourse, InCourse(c)) \cup Left(MaxUser, ByUser(u)))
  IN IF least < 0 THEN 0 ELSE least

\* upload_quota: the tightest of the five limits.  The sums are SELECTs of their own, read
\* here as one: the INSERT tests them again.
Allowance(c, u, spare) ==
  LET least == Min({MaxFile, spare} \cup Left(MaxTotal, Live)
                     \cup Left(MaxCourse, InCourse(c)) \cup Left(MaxUser, ByUser(u)))
  IN IF least < 0 THEN 0 ELSE least

Within(limit, S, n) == limit > 0 => Sum(S) + n <= limit

\* quota_guard_clauses
Fits(c, u, n) ==
  /\ Within(MaxCourse, InCourse(c), n)
  /\ Within(MaxTotal, Live, n)
  /\ Within(MaxUser, ByUser(u), n)

UploadGranted(f, c, u) ==
  /\ UploadBegin(f, c, u)
  /\ \E spare \in Spares :
       /\ Allowance(c, u, spare) > 0
       /\ granted' = [granted EXCEPT ![f] = Allowance(c, u, spare)]
  /\ UNCHANGED <<size, exempt>>

\* Mutant: the allowance of the beginning is all that is tested.
UploadSavedUnguarded(f) ==
  /\ UploadInsert(f)
  /\ \E n \in Sizes : n > 0 /\ n <= granted[f] /\ size' = [size EXCEPT ![f] = n]
  /\ granted' = [granted EXCEPT ![f] = 0]
  /\ UNCHANGED exempt

\* Mutant: an empty file is taken.
UploadSavedEmpty(f) ==
  /\ UploadInsert(f)
  /\ \E n \in Sizes : /\ n <= granted[f] /\ Fits(home[f], owner[f], n)
                      /\ size' = [size EXCEPT ![f] = n]
  /\ granted' = [granted EXCEPT ![f] = 0]
  /\ UNCHANGED exempt

\* The stream was not empty and stayed within the allowance, and the INSERT tests the
\* sums.
UploadSaved(f) ==
  /\ UploadInsert(f)
  /\ \E n \in Sizes : /\ n > 0 /\ n <= granted[f] /\ Fits(home[f], owner[f], n)
                      /\ size' = [size EXCEPT ![f] = n]
  /\ granted' = [granted EXCEPT ![f] = 0]
  /\ UNCHANGED exempt

\* Empty, too long, of a dangerous type, or refused by the INSERT: no row.
UploadDropped(f) ==
  /\ UploadRefused(f)
  /\ granted' = [granted EXCEPT ![f] = 0]
  /\ UNCHANGED <<size, exempt>>

Restored(f) ==
  /\ Restore(f)
  /\ exempt' = exempt \cup {f}
  /\ UNCHANGED <<size, granted>>

\* The size goes with the row.
QuotaShelf ==
  /\ ShelfStep \/ \E c \in Courses : CreateCourse(c)
  /\ size' = [f \in Files |-> IF state'[f] = "gone" THEN 0 ELSE size[f]]
  /\ exempt' = {f \in exempt : state'[f] # "gone"}
  /\ UNCHANGED granted

QuotaNext ==
  \/ \E f \in Files :
       \/ UploadSaved(f) \/ UploadDropped(f) \/ Restored(f)
       \/ \E c \in Courses, u \in Users : UploadGranted(f, c, u)
  \/ QuotaShelf

QuotaSpec == ShelfInit /\ QuotaInit /\ [][QuotaNext]_<<shelfVars, quotaVars>>

-----------------------------------------------------------------------------
\* Uploads that each fitted when they began cannot together exceed a limit: what is over
\* it came back from the bin or was there before the limit.
UploadsFit ==
  /\ Within(MaxTotal, Live \ exempt, 0)
  /\ \A c \in Courses : Within(MaxCourse, InCourse(c) \ exempt, 0)
  /\ \A u \in Users : Within(MaxUser, ByUser(u) \ exempt, 0)

\* What course_quota shows and the stream is measured by is what the INSERT will accept,
\* the bin, other courses, other users and sums above a limit included; only an empty
\* upload is refused for another reason.
AllowanceIsHonest ==
  \A c \in Courses, u \in Users, n \in Sizes \ {0} :
    n <= Allowance(c, u, MaxFile) <=> n <= MaxFile /\ Fits(c, u, n)
=============================================================================
