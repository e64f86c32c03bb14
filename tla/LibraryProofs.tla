--------------------------- MODULE LibraryProofs ---------------------------
(***************************************************************************)
(* Proofs about Library and its parts, the quotas with their sums over     *)
(* rows included: for any courses, files, sizes, users, forms, links and   *)
(* limits, and without the bound on the versions' values.                  *)
(***************************************************************************)
EXTENDS Library, TLAPS, FiniteSetTheorems

\* What any traffic does to the shelf.
ShelfNext ==
  \/ ShelfStep
  \/ \E f \in Files : UploadInsert(f) \/ UploadRefused(f) \/ Restore(f)
  \/ \E f \in Files, c \in Courses, u \in Users \cup {Nobody} : UploadBegin(f, c, u)
  \/ \E c \in Courses : CreateCourse(c)
  \/ UNCHANGED shelfVars

\* A file belongs to a course, and a row to one that is there; a purge holds rows.
Housed ==
  /\ \A f \in Files : /\ state[f] = "new" \/ HasRow(f) => home[f] \in Courses
                      /\ HasRow(f) => Open(home[f])
  /\ \A f \in purging : HasRow(f)

ShelfInv == ShelfTypeOK /\ Housed

\* A row is deleted for good, and a course is not closed but dropped.
RowsEndOnce ==
  /\ \A f \in Files : HasRow(f) => HasRow(f)' \/ state'[f] = "gone"
  /\ \A f \in Files : state[f] = "gone" => state'[f] = "gone"
  /\ \A c \in Courses : Open(c) => Open(c)' \/ course'[c] = "gone"
  /\ \A c \in Courses : course[c] = "gone" => course'[c] = "gone"

Alive(r) == (r \in Files /\ HasRow(r)) \/ (r \in Courses /\ Open(r))
Dead(r) == (r \in Files /\ state[r] = "gone") \/ (r \in Courses /\ course[r] = "gone")

\* A form edits a row that is gone, or none has a version above its row's, and one of the
\* same version shows the row's title.
FormsKnow ==
  \A m \in Forms : stage[m] \in {"file", "course", "rename"} =>
    \/ Dead(row[m]) /\ version[row[m]] = 0
    \/ /\ Alive(row[m]) /\ seen[m] <= version[row[m]]
       /\ seen[m] = version[row[m]] => shown[m] = title[row[m]]

EditInv == RevisionTypeOK /\ FormsKnow /\ NamesDiffer

\* What hangs on a row, and why a file is approved.
Hangs ==
  /\ \A f \in comments : HasRow(f)
  /\ \A l \in Links : link[l] \in {"on", "expired"} => target[l] \in Courses /\ Open(target[l])

Vetting ==
  \A f \in Files : (state[f] = "new" \/ HasRow(f)) /\ status[f] = "approved" => f \in vetted

ReadInv == ReaderTypeOK /\ Hangs /\ Vetting

-----------------------------------------------------------------------------
(* The shelf                                                               *)

LEMMA ShelfKept == ShelfInv /\ ShelfNext => ShelfInv' /\ RowsEndOnce
<1> SUFFICES ASSUME ShelfInv, ShelfNext PROVE ShelfInv' /\ RowsEndOnce
  OBVIOUS
<1> USE ShelfAssumption DEF ShelfInv, ShelfTypeOK, Housed, HasRow, Open, RowsEndOnce
<1>1. ASSUME NEW f \in Files, Trash(f) PROVE ShelfInv' /\ RowsEndOnce
  BY <1>1 DEF Trash
<1>2. ASSUME NEW f \in Files, PurgeBegin(f) PROVE ShelfInv' /\ RowsEndOnce
  BY <1>2 DEF PurgeBegin
<1>3. ASSUME NEW f \in Files, PurgeCommit(f) PROVE ShelfInv' /\ RowsEndOnce
  <2> USE <1>3 DEF PurgeCommit, Delete
  <2>1. ShelfTypeOK'
    OBVIOUS
  <2>2. Housed'
    OBVIOUS
  <2>3. \A g \in Files : state'[g] = IF g = f THEN "gone" ELSE state[g]
    OBVIOUS
  <2>4. RowsEndOnce
    BY <2>3
  <2>5. QED
    BY <2>1, <2>2, <2>4
<1>4. ASSUME NEW f \in Files, PurgeFails(f) PROVE ShelfInv' /\ RowsEndOnce
  BY <1>4 DEF PurgeFails
<1>5. ASSUME NEW c \in Courses, DropCourse(c) PROVE ShelfInv' /\ RowsEndOnce
  BY <1>5 DEF DropCourse, Delete
<1>6. ASSUME NEW f \in Files, UploadInsert(f) PROVE ShelfInv' /\ RowsEndOnce
  BY <1>6 DEF UploadInsert
<1>7. ASSUME NEW f \in Files, UploadRefused(f) PROVE ShelfInv' /\ RowsEndOnce
  BY <1>7 DEF UploadRefused
<1>8. ASSUME NEW f \in Files, Restore(f) PROVE ShelfInv' /\ RowsEndOnce
  BY <1>8 DEF Restore
<1>9. ASSUME NEW f \in Files, NEW c \in Courses, NEW u \in Users \cup {Nobody},
             UploadBegin(f, c, u)
      PROVE  ShelfInv' /\ RowsEndOnce
  BY <1>9 DEF UploadBegin
<1>10. ASSUME NEW c \in Courses, CreateCourse(c) PROVE ShelfInv' /\ RowsEndOnce
  BY <1>10 DEF CreateCourse
<1>11. CASE UNCHANGED shelfVars
  BY <1>11 DEF shelfVars
<1>12. QED
  BY <1>1, <1>2, <1>3, <1>4, <1>5, <1>6, <1>7, <1>8, <1>9, <1>10, <1>11
     DEF ShelfNext, ShelfStep

LEMMA QuotasOnShelf == QuotaNext => ShelfNext
<1>1. ASSUME NEW f \in Files, UploadSaved(f) \/ UploadDropped(f) \/ Restored(f) PROVE ShelfNext
  BY <1>1 DEF UploadSaved, UploadDropped, Restored, ShelfNext
<1>2. ASSUME NEW f \in Files, NEW c \in Courses, NEW u \in Users, UploadGranted(f, c, u)
      PROVE  ShelfNext
  BY <1>2 DEF UploadGranted, ShelfNext
<1>3. QuotaShelf => ShelfNext
  BY DEF QuotaShelf, ShelfNext
<1>4. QED
  BY <1>1, <1>2, <1>3 DEF QuotaNext

LEMMA EditsOnShelf ==
  (\A m \in Forms : stage[m] = "create" => row[m] \in Courses) /\ RevisionNext => ShelfNext
<1> SUFFICES ASSUME \A m \in Forms : stage[m] = "create" => row[m] \in Courses, RevisionNext
             PROVE  ShelfNext
  OBVIOUS
<1>1. RevisionShelf => ShelfNext
  BY DEF RevisionShelf, ShelfNext
<1>2. ASSUME NEW m \in Forms, Create(m) PROVE ShelfNext
  BY <1>2 DEF Create, ShelfNext
<1>3. ASSUME NEW f \in Files, Upload(f) PROVE ShelfNext
  BY <1>3 DEF Upload, ShelfNext
<1>4. ASSUME NEW m \in Forms, NEW f \in Files, LookAtFile(m, f) PROVE ShelfNext
  BY <1>4 DEF LookAtFile, ShelfNext
<1>5. ASSUME NEW m \in Forms, NEW c, LookAtCourse(m, c) PROVE ShelfNext
  BY <1>5 DEF LookAtCourse, ShelfNext
<1>6. ASSUME NEW m \in Forms, NEW t, SaveFile(m, t) \/ RenameTest(m, t) PROVE ShelfNext
  BY <1>6 DEF SaveFile, RenameTest, ShelfNext
<1>7. ASSUME NEW m \in Forms, NEW c, NEW t, CreateTest(m, c, t) PROVE ShelfNext
  BY <1>7 DEF CreateTest, ShelfNext
<1>8. ASSUME NEW m \in Forms, SaveCourse(m) \/ Rename(m) \/ GiveUp(m) PROVE ShelfNext
  BY <1>8 DEF SaveCourse, Rename, GiveUp, ShelfNext
<1>9. Reindex => ShelfNext
  BY DEF Reindex, ShelfNext
<1>10. QED
  BY <1>1, <1>2, <1>3, <1>4, <1>5, <1>6, <1>7, <1>8, <1>9 DEF RevisionNext

LEMMA ReadersOnShelf == ReaderNext => ShelfNext
<1>1. ReaderShelf => ShelfNext
  BY DEF ReaderShelf, ShelfNext
<1>2. ASSUME NEW f \in Files, NEW c \in Courses, NEW u \in Users, Submit(f, c, u)
      PROVE  ShelfNext
  BY <1>2 DEF Submit, ShelfNext
<1>3. ASSUME NEW f \in Files, Saved(f) \/ Refused(f) PROVE ShelfNext
  BY <1>3 DEF Saved, Refused, ShelfNext
<1>4. ASSUME NEW f \in Files, NEW s \in {"approved", "rejected"}, Review(f, s)
      PROVE  ShelfNext
  BY <1>4 DEF Review, ShelfNext
<1>5. ASSUME NEW f \in Files,
             \/ \E u \in Users : CommentTest(f, u)
             \/ CommentInsert(f) \/ CommentFails(f) \/ DeleteComment(f)
      PROVE  ShelfNext
  BY <1>5 DEF CommentTest, CommentInsert, CommentFails, DeleteComment, ShelfNext
<1>6. ASSUME NEW u \in Users, NEW r, ChangeRole(u, r) PROVE ShelfNext
  BY <1>6 DEF ChangeRole, ShelfNext
<1>7. ASSUME NEW l \in Links,
             \/ LinkInsert(l) \/ LinkExpires(l) \/ Revoke(l)
             \/ \E c \in Courses : LinkTest(l, c)
      PROVE  ShelfNext
  BY <1>7 DEF LinkInsert, LinkExpires, Revoke, LinkTest, ShelfNext
<1>8. QED
  BY <1>1, <1>2, <1>3, <1>4, <1>5, <1>6, <1>7 DEF ReaderNext
-----------------------------------------------------------------------------
(* Quotas: sums of sizes                                                   *)

\* Sum for any sizes, so that one lemma speaks of the rows before and after a step.
Total(z, S) == Cardinality(UNION {{f} \X (1..z[f]) : f \in S})

LEMMA BytesOfOne ==
  ASSUME NEW f, NEW n \in Nat
  PROVE  IsFiniteSet({f} \X (1..n)) /\ Cardinality({f} \X (1..n)) = n
<1>1. IsFiniteSet({f}) /\ Cardinality({f}) = 1
  BY FS_Singleton
<1>2. IsFiniteSet(1..n) /\ Cardinality(1..n) = n
  BY FS_Interval
<1>3. /\ IsFiniteSet({f} \X (1..n))
      /\ Cardinality({f} \X (1..n)) = Cardinality({f}) * Cardinality(1..n)
  BY <1>1, <1>2, FS_Product
<1>4. 1 * n = n
  OBVIOUS
<1>5. QED
  BY <1>1, <1>2, <1>3, <1>4

LEMMA BytesAreFinite ==
  ASSUME NEW z \in [Files -> Nat], NEW S \in SUBSET Files
  PROVE  /\ IsFiniteSet(UNION {{f} \X (1..z[f]) : f \in S})
         /\ Total(z, S) \in Nat
<1> DEFINE all == {{f} \X (1..z[f]) : f \in S}
<1> DEFINE bytes == [f \in S |-> {f} \X (1..z[f])]
<1>1. IsFiniteSet(S)
  BY FS_Subset, QuotaAssumption
<1>2. bytes \in Surjection(S, all)
  BY DEF Surjection
<1>3. IsFiniteSet(all)
  <2> HIDE DEF bytes, all
  <2>1. \A h \in Surjection(S, all) : IsFiniteSet(all)
    BY <1>1, FS_Surjection
  <2> QED BY <1>2, <2>1
<1>4. \A B \in all : IsFiniteSet(B)
  <2> SUFFICES ASSUME NEW f \in S PROVE IsFiniteSet({f} \X (1..z[f]))
    OBVIOUS
  <2>1. z[f] \in Nat
    OBVIOUS
  <2> QED BY <2>1, BytesOfOne
<1>5. IsFiniteSet(UNION all)
  <2> HIDE DEF all
  <2> QED BY <1>3, <1>4, FS_UNION
<1>6. QED
  BY <1>5, FS_CardinalityType DEF Total

\* Fewer rows of the same sizes have no more bytes.
LEMMA TotalShrinks ==
  ASSUME NEW y \in [Files -> Nat], NEW z \in [Files -> Nat],
         NEW S \in SUBSET Files, NEW T \in SUBSET S, \A f \in T : y[f] = z[f]
  PROVE  Total(y, T) <= Total(z, S)
<1> DEFINE all == UNION {{f} \X (1..z[f]) : f \in S}
<1> DEFINE some == UNION {{f} \X (1..y[f]) : f \in T}
<1>1. some \subseteq all
  OBVIOUS
<1>2. IsFiniteSet(all)
  BY BytesAreFinite
<1>3. Cardinality(some) <= Cardinality(all)
  <2> HIDE DEF some, all
  <2> QED BY <1>1, <1>2, FS_Subset
<1>4. QED
  BY <1>3 DEF Total

\* One row more adds its bytes.
LEMMA TotalGrows ==
  ASSUME NEW y \in [Files -> Nat], NEW z \in [Files -> Nat],
         NEW S \in SUBSET Files, NEW f \in Files, f \notin S, \A g \in S : y[g] = z[g]
  PROVE  Total(y, S \cup {f}) = Total(z, S) + y[f]
<1> DEFINE old == UNION {{g} \X (1..z[g]) : g \in S}
<1> DEFINE new == {f} \X (1..y[f])
<1>1. UNION {{g} \X (1..y[g]) : g \in S \cup {f}} = old \cup new
  OBVIOUS
<1>2. old \cap new = {}
  OBVIOUS
<1>3. IsFiniteSet(old) /\ Cardinality(old) \in Nat
  BY BytesAreFinite DEF Total
<1>4. IsFiniteSet(new) /\ Cardinality(new) = y[f]
  BY BytesOfOne
<1>5. Cardinality(old \cup new) = Cardinality(old) + y[f]
  <2>1. Cardinality(old \cup new) = Cardinality(old) + Cardinality(new) - Cardinality(old \cap new)
    <3> HIDE DEF old, new
    <3> QED BY <1>3, <1>4, FS_Union
  <2>2. Cardinality(old \cap new) = 0
    BY <1>2, FS_EmptySet
  <2> HIDE DEF old, new
  <2>3. QED
    BY <2>1, <2>2, <1>3, <1>4
<1>6. QED
  BY <1>1, <1>5 DEF Total

LEMMA TotalOfNone ==
  ASSUME NEW z, NEW S, \A f \in S : z[f] = 0
  PROVE  Total(z, S) = 0
<1>1. UNION {{f} \X (1..z[f]) : f \in S} = {}
  OBVIOUS
<1>2. QED
  BY <1>1, FS_EmptySet DEF Total

LEMMA SumIsTotal == \A S : Sum(S) = Total(size, S)
BY DEF Sum, Bytes, Total

-----------------------------------------------------------------------------
(* Quotas: the allowance                                                   *)

LEMMA LeastOfFive ==
  ASSUME NEW a \in Int, NEW b \in Int, NEW c \in Int, NEW d \in Int, NEW e \in Int
  PROVE  \E x \in {a, b, c, d, e} : \A y \in {a, b, c, d, e} : x =< y
<1>1. \A x, y \in Int : \E z \in {x, y} : z =< x /\ z =< y
  OBVIOUS
<1>2. PICK p \in {a, b} : p =< a /\ p =< b
  BY <1>1
<1>3. PICK q \in {c, d} : q =< c /\ q =< d
  BY <1>1
<1>4. PICK r \in {p, q} : r =< p /\ r =< q
  BY <1>1
<1>5. PICK s \in {r, e} : s =< r /\ s =< e
  BY <1>1
<1>6. QED
  BY <1>2, <1>3, <1>4, <1>5

LEMMA SizesAreNats == \A z \in [Files -> Sizes \cup {0}] : z \in [Files -> Nat]
<1>1. Sizes \cup {0} \subseteq Nat
  BY QuotaAssumption
<1>2. QED
  BY <1>1

Sized == size \in [Files -> Sizes \cup {0}]

LEMMA SumsAreNats ==
  ASSUME Sized
  PROVE  size \in [Files -> Nat] /\ \A S \in SUBSET Files : Sum(S) \in Nat
<1>1. size \in [Files -> Nat]
  BY SizesAreNats DEF Sized
<1>2. QED
  BY <1>1, BytesAreFinite, SumIsTotal

\* The allowance is at most what the form and the disk allow, and what each limit leaves.
LEMMA AllowanceIsLeast ==
  ASSUME Sized, NEW c \in Courses, NEW u \in Users, NEW spare \in Int
  PROVE  /\ Allowance(c, u, spare) \in 0..MaxFile
         /\ \A n \in Nat \ {0} :
              n <= Allowance(c, u, spare) <=> n <= MaxFile /\ n <= spare /\ Fits(c, u, n)
<1> DEFINE Room(limit, S) == IF limit = 0 THEN MaxFile ELSE limit - Sum(S)
<1> DEFINE t == Room(MaxTotal, Live)
<1> DEFINE k == Room(MaxCourse, InCourse(c))
<1> DEFINE w == Room(MaxUser, ByUser(u))
<1> DEFINE all == {MaxFile, spare, t, k, w}
<1>1. Sum(Live) \in Nat /\ Sum(InCourse(c)) \in Nat /\ Sum(ByUser(u)) \in Nat
  BY SumsAreNats DEF Live, InCourse, ByUser
<1>2. t \in Int /\ k \in Int /\ w \in Int
  BY <1>1, QuotaAssumption
<1>3. {MaxFile, spare} \cup Left(MaxTotal, Live)
        \cup Left(MaxCourse, InCourse(c)) \cup Left(MaxUser, ByUser(u)) = all
  BY DEF Left
<1>4. PICK least \in all : \A y \in all : least =< y
  <2> HIDE DEF t, k, w
  <2> QED BY <1>2, LeastOfFive, QuotaAssumption
<1>5. Min(all) \in all /\ \A y \in all : Min(all) =< y
  <2> HIDE DEF all
  <2> QED BY <1>4 DEF Min
<1>6. Allowance(c, u, spare) = IF Min(all) < 0 THEN 0 ELSE Min(all)
  BY <1>3 DEF Allowance
<1>7. \A n \in Nat \ {0} : Fits(c, u, n) /\ n <= MaxFile <=>
        n <= MaxFile /\ n <= t /\ n <= k /\ n <= w
  BY <1>1, QuotaAssumption DEF Fits, Within
<1> HIDE DEF t, k, w
<1>8. Min(all) \in Int
  BY <1>2, <1>5, QuotaAssumption
<1>9. \A n \in Nat \ {0} : n <= Min(all) <=>
        n <= MaxFile /\ n <= spare /\ n <= t /\ n <= k /\ n <= w
  BY <1>2, <1>5, <1>8, QuotaAssumption
<1>10. Min(all) <= MaxFile
  BY <1>5
<1> HIDE DEF all
<1>11. Allowance(c, u, spare) \in 0..MaxFile
  BY <1>6, <1>8, <1>10, QuotaAssumption
<1>12. \A n \in Nat \ {0} : n <= Allowance(c, u, spare) <=> n <= Min(all)
  BY <1>6, <1>8
<1>13. QED
  BY <1>7, <1>9, <1>11, <1>12

-----------------------------------------------------------------------------
(* Quotas: the invariant                                                   *)

\* What counts against a limit shrinks but for the row of an upload, which fits.
LEMMA LimitKept ==
  ASSUME Sized, Sized', NEW limit \in Nat, NEW S \in SUBSET Files, NEW T \in SUBSET S,
         Within(limit, S, 0), \A f \in T : size'[f] = size[f]
  PROVE  Within(limit, T, 0)'
<1>1. size \in [Files -> Nat] /\ size' \in [Files -> Nat]
  BY SizesAreNats DEF Sized
<1>2. Total(size', T) <= Total(size, S) /\ Total(size', T) \in Nat /\ Total(size, S) \in Nat
  BY <1>1, TotalShrinks, BytesAreFinite
<1>3. Sum(S) = Total(size, S) /\ Sum(T)' = Total(size', T)
  BY DEF Sum, Bytes, Total
<1>4. QED
  BY <1>2, <1>3 DEF Within

LEMMA LimitReached ==
  ASSUME Sized, Sized', NEW limit \in Nat, NEW S \in SUBSET Files, NEW T \in SUBSET S,
         NEW f \in Files, f \notin S, Within(limit, S, size'[f]),
         \A g \in T : size'[g] = size[g]
  PROVE  Within(limit, T \cup {f}, 0)'
<1>1. size \in [Files -> Nat] /\ size' \in [Files -> Nat]
  BY SizesAreNats DEF Sized
<1>2. Total(size', T \cup {f}) = Total(size, T) + size'[f]
  BY <1>1, TotalGrows
<1>3. Total(size, T) <= Total(size, S) /\ Total(size, T) \in Nat /\ Total(size, S) \in Nat
  BY <1>1, TotalShrinks, BytesAreFinite
<1>4. Sum(S) = Total(size, S) /\ Sum(T \cup {f})' = Total(size', T \cup {f})
  BY DEF Sum, Bytes, Total
<1>5. size'[f] \in Nat
  BY <1>1
<1>6. QED
  BY <1>2, <1>3, <1>4, <1>5 DEF Within

QuotaInv == QuotaTypeOK /\ UploadsFit

\* No row counts that did not, and none counts elsewhere or for more.
Narrows ==
  \A f \in (Live \ exempt)' : /\ f \in Live \ exempt
                             /\ home'[f] = home[f] /\ owner'[f] = owner[f] /\ size'[f] = size[f]

LEMMA NarrowsKeeps ==
  ASSUME QuotaInv, QuotaTypeOK', Narrows
  PROVE  QuotaInv'
<1>1. Sized /\ Sized'
  BY DEF QuotaInv, QuotaTypeOK, Sized
<1>2. Within(MaxTotal, Live \ exempt, 0)'
  <2>1. (Live \ exempt)' \subseteq Live \ exempt /\ Live \ exempt \subseteq Files
        /\ \A f \in (Live \ exempt)' : size'[f] = size[f]
    BY DEF Narrows, Live
  <2>2. Within(MaxTotal, Live \ exempt, 0) /\ MaxTotal \in Nat
    BY QuotaAssumption DEF QuotaInv, UploadsFit
  <2>3. PICK T : T = (Live \ exempt)'
    OBVIOUS
  <2>4. Within(MaxTotal, T, 0)'
    BY <1>1, <2>1, <2>2, <2>3, LimitKept
  <2>5. QED
    BY <2>3, <2>4 DEF Within, Sum, Bytes
<1>3. ASSUME NEW c \in Courses PROVE Within(MaxCourse, InCourse(c) \ exempt, 0)'
  <2>1. (InCourse(c) \ exempt)' \subseteq InCourse(c) \ exempt /\ InCourse(c) \ exempt \subseteq Files
        /\ \A f \in (InCourse(c) \ exempt)' : size'[f] = size[f]
    BY DEF Narrows, Live, InCourse
  <2>2. Within(MaxCourse, InCourse(c) \ exempt, 0) /\ MaxCourse \in Nat
    BY QuotaAssumption DEF QuotaInv, UploadsFit
  <2>3. PICK T : T = (InCourse(c) \ exempt)'
    OBVIOUS
  <2>4. Within(MaxCourse, T, 0)'
    BY <1>1, <2>1, <2>2, <2>3, LimitKept
  <2>5. QED
    BY <2>3, <2>4 DEF Within, Sum, Bytes
<1>4. ASSUME NEW u \in Users PROVE Within(MaxUser, ByUser(u) \ exempt, 0)'
  <2>1. (ByUser(u) \ exempt)' \subseteq ByUser(u) \ exempt /\ ByUser(u) \ exempt \subseteq Files
        /\ \A f \in (ByUser(u) \ exempt)' : size'[f] = size[f]
    BY DEF Narrows, Live, ByUser
  <2>2. Within(MaxUser, ByUser(u) \ exempt, 0) /\ MaxUser \in Nat
    BY QuotaAssumption DEF QuotaInv, UploadsFit
  <2>3. PICK T : T = (ByUser(u) \ exempt)'
    OBVIOUS
  <2>4. Within(MaxUser, T, 0)'
    BY <1>1, <2>1, <2>2, <2>3, LimitKept
  <2>5. QED
    BY <2>3, <2>4 DEF Within, Sum, Bytes
<1>5. QED
  BY <1>2, <1>3, <1>4 DEF QuotaInv, UploadsFit

LEMMA QuotaStep == ShelfInv /\ QuotaInv /\ QuotaNext => QuotaInv'
<1> SUFFICES ASSUME ShelfInv, QuotaInv, QuotaNext PROVE QuotaInv'
  OBVIOUS
<1> USE DEF ShelfInv, ShelfTypeOK, Housed, HasRow
<1>1. Sized
  BY DEF QuotaInv, QuotaTypeOK, Sized
<1>2. ASSUME NEW f \in Files, NEW c \in Courses, NEW u \in Users, UploadGranted(f, c, u)
      PROVE  QuotaInv'
  <2>1. PICK spare \in Spares : /\ Allowance(c, u, spare) > 0
                                /\ granted' = [granted EXCEPT ![f] = Allowance(c, u, spare)]
    BY <1>2 DEF UploadGranted
  <2>2. Allowance(c, u, spare) \in 0..MaxFile
    BY <1>1, AllowanceIsLeast, QuotaAssumption
  <2>3. QuotaTypeOK'
    BY <1>2, <2>1, <2>2 DEF UploadGranted, UploadBegin, QuotaInv, QuotaTypeOK
  <2>4. Narrows
    BY <1>2 DEF UploadGranted, UploadBegin, Narrows, Live
  <2>5. QED
    BY <2>3, <2>4, NarrowsKeeps
<1>3. ASSUME NEW f \in Files, UploadDropped(f) PROVE QuotaInv'
  <2>1. QuotaTypeOK'
    BY <1>3, QuotaAssumption DEF UploadDropped, UploadRefused, QuotaInv, QuotaTypeOK
  <2>2. Narrows
    BY <1>3 DEF UploadDropped, UploadRefused, Narrows, Live
  <2>3. QED
    BY <2>1, <2>2, NarrowsKeeps
<1>4. ASSUME NEW f \in Files, Restored(f) PROVE QuotaInv'
  <2>1. QuotaTypeOK'
    BY <1>4 DEF Restored, Restore, QuotaInv, QuotaTypeOK
  <2>2. Narrows
    BY <1>4 DEF Restored, Restore, Narrows, Live
  <2>3. QED
    BY <2>1, <2>2, NarrowsKeeps
<1>5. ASSUME QuotaShelf PROVE QuotaInv'
  <2>1. \A f \in Files : /\ state'[f] = "live" => state[f] = "live"
                         /\ state'[f] # "gone" /\ HasRow(f) => HasRow(f)'
                         /\ HasRow(f)' => HasRow(f)
                         /\ state[f] = "new" <=> state'[f] = "new"
                         /\ state'[f] = "live" => home'[f] = home[f] /\ owner'[f] = owner[f]
    BY <1>5 DEF QuotaShelf, ShelfStep, Trash, PurgeBegin, PurgeCommit, PurgeFails, DropCourse,
                Delete, CreateCourse
  <2>2. /\ size' = [f \in Files |-> IF state'[f] = "gone" THEN 0 ELSE size[f]]
        /\ exempt' = {f \in exempt : state'[f] # "gone"} /\ granted' = granted
    BY <1>5 DEF QuotaShelf
  <2>3. QuotaTypeOK'
    BY <2>1, <2>2 DEF QuotaInv, QuotaTypeOK
  <2>4. Narrows
    BY <2>1, <2>2 DEF Narrows, Live, QuotaInv, QuotaTypeOK
  <2>5. QED
    BY <2>3, <2>4, NarrowsKeeps
<1>6. ASSUME NEW f \in Files, UploadSaved(f) PROVE QuotaInv'
  <2>1. PICK n \in Sizes : n > 0 /\ Fits(home[f], owner[f], n) /\ size' = [size EXCEPT ![f] = n]
    BY <1>6 DEF UploadSaved
  <2>2. /\ state[f] = "new" /\ state' = [state EXCEPT ![f] = "live"]
        /\ UNCHANGED <<home, owner, exempt>> /\ granted' = [granted EXCEPT ![f] = 0]
    BY <1>6 DEF UploadSaved, UploadInsert
  <2>3. n \in Nat \ {0}
    BY <2>1, QuotaAssumption
  <2>4. QuotaTypeOK'
    BY <2>1, <2>2, <2>3, QuotaAssumption DEF QuotaInv, QuotaTypeOK
  <2>5. Sized' /\ size'[f] = n
    BY <2>1, <2>4 DEF QuotaTypeOK, Sized, QuotaInv
  <2>6. \A g \in Files \ {f} : size'[g] = size[g]
    BY <2>1 DEF QuotaInv, QuotaTypeOK
  <2>7. Live' = Live \cup {f} /\ f \notin Live /\ Live \in SUBSET Files
    BY <2>2 DEF Live
  \* The rows of a limit, the upload's own or not.
  <2>8. ASSUME NEW limit \in Nat, NEW S \in SUBSET Live, NEW T, T \in SUBSET (S \cup {f}),
               T \cap exempt = {}, Within(limit, S \ exempt, 0),
               f \in T => Within(limit, S, n)
        PROVE  Within(limit, T, 0)'
    <3>1. CASE f \in T
      <4>1. T \ {f} \in SUBSET S /\ S \in SUBSET Files /\ f \notin S /\ (T \ {f}) \cup {f} = T
        BY <2>7, <2>8, <3>1
      <4>2. \A g \in T \ {f} : size'[g] = size[g]
        BY <2>6, <4>1
      <4>3. Within(limit, (T \ {f}) \cup {f}, 0)'
        BY <1>1, <2>5, <2>8, <3>1, <4>1, <4>2, LimitReached
      <4>4. QED
        BY <4>1, <4>3
    <3>2. CASE f \notin T
      <4>1. T \in SUBSET (S \ exempt) /\ S \ exempt \in SUBSET Files
        BY <2>7, <2>8, <3>2
      <4>2. \A g \in T : size'[g] = size[g]
        BY <2>6, <3>2, <4>1
      <4>3. QED
        BY <1>1, <2>5, <2>8, <4>1, <4>2, LimitKept
    <3>3. QED
      BY <3>1, <3>2
  <2>9. Within(MaxTotal, Live \ exempt, 0)'
    <3>1. PICK T : T = (Live \ exempt)'
      OBVIOUS
    <3>2. Within(MaxTotal, T, 0)'
      <4>1. T \in SUBSET (Live \cup {f}) /\ T \cap exempt = {}
        BY <2>2, <2>7, <3>1
      <4>2. Within(MaxTotal, Live \ exempt, 0) /\ Within(MaxTotal, Live, n) /\ MaxTotal \in Nat
        BY <2>1, QuotaAssumption DEF QuotaInv, UploadsFit, Fits
      <4>3. PICK S : S = Live
        OBVIOUS
      <4>4. QED
        BY <2>8, <4>1, <4>2
    <3>3. QED
      BY <3>1, <3>2 DEF Within, Sum, Bytes
  <2>10. ASSUME NEW c \in Courses PROVE Within(MaxCourse, InCourse(c) \ exempt, 0)'
    <3>1. PICK T : T = (InCourse(c) \ exempt)'
      OBVIOUS
    <3>2. Within(MaxCourse, T, 0)'
      <4>1. /\ T \in SUBSET (InCourse(c) \cup {f}) /\ T \cap exempt = {}
            /\ f \in T => home[f] = c
            /\ InCourse(c) \in SUBSET Live
        BY <2>2, <2>7, <3>1 DEF InCourse
      <4>2. /\ Within(MaxCourse, InCourse(c) \ exempt, 0) /\ MaxCourse \in Nat
            /\ f \in T => Within(MaxCourse, InCourse(c), n)
        BY <2>1, <4>1, QuotaAssumption DEF QuotaInv, UploadsFit, Fits
      <4>3. QED
        BY <2>8, <4>1, <4>2
    <3>3. QED
      BY <3>1, <3>2 DEF Within, Sum, Bytes
  <2>11. ASSUME NEW u \in Users PROVE Within(MaxUser, ByUser(u) \ exempt, 0)'
    <3>1. PICK T : T = (ByUser(u) \ exempt)'
      OBVIOUS
    <3>2. Within(MaxUser, T, 0)'
      <4>1. /\ T \in SUBSET (ByUser(u) \cup {f}) /\ T \cap exempt = {}
            /\ f \in T => owner[f] = u
            /\ ByUser(u) \in SUBSET Live
        BY <2>2, <2>7, <3>1 DEF ByUser
      <4>2. /\ Within(MaxUser, ByUser(u) \ exempt, 0) /\ MaxUser \in Nat
            /\ f \in T => Within(MaxUser, ByUser(u), n)
        BY <2>1, <4>1, QuotaAssumption DEF QuotaInv, UploadsFit, Fits
      <4>3. QED
        BY <2>8, <4>1, <4>2
    <3>3. QED
      BY <3>1, <3>2 DEF Within, Sum, Bytes
  <2>12. QED
    BY <2>4, <2>9, <2>10, <2>11 DEF QuotaInv, UploadsFit
<1>7. QED
  BY <1>2, <1>3, <1>4, <1>5, <1>6 DEF QuotaNext

\* What course_quota shows agrees with the INSERT whenever the sizes are sizes.
LEMMA AllowanceHonest == Sized => AllowanceIsHonest
<1> SUFFICES ASSUME Sized, NEW c \in Courses, NEW u \in Users, NEW n \in Sizes \ {0}
             PROVE  n <= Allowance(c, u, MaxFile) <=> n <= MaxFile /\ Fits(c, u, n)
  BY DEF AllowanceIsHonest
<1>1. n \in Nat \ {0} /\ MaxFile \in Int
  BY QuotaAssumption
<1>2. QED
  BY <1>1, AllowanceIsLeast

\* Without sizes, nothing is over a limit.
NoSizes == size = [f \in Files |-> 0]

LEMMA NothingCounts == NoSizes => Sized /\ UploadsFit
<1> SUFFICES ASSUME NoSizes PROVE Sized /\ UploadsFit
  OBVIOUS
<1>1. ASSUME NEW S \in SUBSET Files PROVE Sum(S) = 0
  <2>1. \A f \in S : size[f] = 0
    BY DEF NoSizes
  <2>2. QED
    BY <2>1, TotalOfNone, SumIsTotal
<1>2. Sized
  BY DEF NoSizes, Sized
<1>3. Live \in SUBSET Files
  BY DEF Live
<1>4. ASSUME NEW limit \in Nat, NEW S \in SUBSET Live PROVE Within(limit, S, 0)
  BY <1>1, <1>3, <1>4 DEF Within
<1>5. UploadsFit
  BY <1>4, QuotaAssumption DEF UploadsFit, InCourse, ByUser
<1>6. QED
  BY <1>2, <1>5

LEMMA QuotasStart == ShelfInit /\ QuotaInit => QuotaInv
<1> SUFFICES ASSUME ShelfInit, QuotaInit PROVE QuotaInv
  OBVIOUS
<1>1. QuotaTypeOK
  <2>1. 0 \in 0..MaxFile /\ granted = [f \in Files |-> 0]
    BY QuotaAssumption DEF QuotaInit
  <2>2. \A f \in Files : state[f] # "new"
    BY DEF ShelfInit
  <2>3. QED
    BY <2>1, <2>2 DEF QuotaInit, QuotaTypeOK
<1>2. Live \ exempt = {}
  BY DEF QuotaInit, Live, HasRow
<1>3. Sum({}) = 0
  BY TotalOfNone, SumIsTotal
<1>4. ASSUME NEW limit \in Nat, NEW S, S = {} PROVE Within(limit, S, 0)
  BY <1>3, <1>4 DEF Within
<1>5. ASSUME NEW c \in Courses PROVE InCourse(c) \ exempt = {}
  BY <1>2 DEF InCourse
<1>6. ASSUME NEW u \in Users PROVE ByUser(u) \ exempt = {}
  BY <1>2 DEF ByUser
<1>7. UploadsFit
  BY <1>2, <1>4, <1>5, <1>6, QuotaAssumption DEF UploadsFit
<1>8. QED
  BY <1>1, <1>7 DEF QuotaInv
-----------------------------------------------------------------------------
(* Edits                                                                   *)

LEMMA EditStep ==
  ShelfInv /\ EditInv /\ [RevisionNext]_<<shelfVars, revisionVars>> => EditInv'
<1> SUFFICES ASSUME ShelfInv, EditInv, [RevisionNext]_<<shelfVars, revisionVars>> PROVE EditInv'
  OBVIOUS
<1> USE ShelfAssumption, RevisionAssumption
    DEF EditInv, FormsKnow, NamesDiffer, NamesUnique, Alive, Dead, HasRow, Open, Rows, shelfVars, formVars,
        ShelfInv, ShelfTypeOK
<1>1. ASSUME NEW m \in Forms, NEW f \in Files, LookAtFile(m, f) PROVE EditInv'
  <2> USE <1>1 DEF LookAtFile, OpenForm
  <2>1. RevisionTypeOK'
    BY DEF RevisionTypeOK
  <2>2. FormsKnow'
    BY DEF RevisionTypeOK
  <2>3. NamesDiffer'
    BY DEF RevisionTypeOK
  <2>4. QED
    BY <2>1, <2>2, <2>3
<1>2. ASSUME NEW m \in Forms, NEW c \in Courses, LookAtCourse(m, c) PROVE EditInv'
  <2> USE <1>2 DEF LookAtCourse, OpenForm
  <2>1. RevisionTypeOK'
    BY DEF RevisionTypeOK
  <2>2. FormsKnow'
    BY DEF RevisionTypeOK
  <2>3. NamesDiffer'
    BY DEF RevisionTypeOK
  <2>4. QED
    BY <2>1, <2>2, <2>3
<1>3. ASSUME NEW m \in Forms, NEW t \in Titles, SaveFile(m, t) PROVE EditInv'
  <2> USE <1>3 DEF SaveFile, Set, CloseForm, Current
  <2>1. RevisionTypeOK'
    BY DEF RevisionTypeOK
  <2>2. FormsKnow'
    BY DEF RevisionTypeOK
  <2>3. NamesDiffer'
    BY DEF RevisionTypeOK
  <2>4. QED
    BY <2>1, <2>2, <2>3
<1>4. ASSUME NEW m \in Forms, NEW t \in Titles, RenameTest(m, t) PROVE EditInv'
  <2> USE <1>4 DEF RenameTest
  <2>1. RevisionTypeOK'
    BY DEF RevisionTypeOK
  <2>2. FormsKnow'
    BY DEF RevisionTypeOK
  <2>3. NamesDiffer'
    BY DEF RevisionTypeOK
  <2>4. QED
    BY <2>1, <2>2, <2>3
<1>5. ASSUME NEW m \in Forms, NEW c \in Courses, NEW t \in Titles, CreateTest(m, c, t) PROVE EditInv'
  <2> USE <1>5 DEF CreateTest, OpenForm
  <2>1. RevisionTypeOK'
    BY DEF RevisionTypeOK
  <2>2. FormsKnow'
    BY DEF RevisionTypeOK
  <2>3. NamesDiffer'
    BY DEF RevisionTypeOK
  <2>4. QED
    BY <2>1, <2>2, <2>3
<1>6. ASSUME NEW m \in Forms, SaveCourse(m) PROVE EditInv'
  <2> USE <1>6 DEF SaveCourse, Set, CloseForm, Current
  <2>1. RevisionTypeOK'
    BY DEF RevisionTypeOK
  <2>2. FormsKnow'
    BY DEF RevisionTypeOK
  <2>3. NamesDiffer'
    BY DEF RevisionTypeOK
  <2>4. QED
    BY <2>1, <2>2, <2>3
<1>7. ASSUME NEW m \in Forms, Rename(m) PROVE EditInv'
  <2> USE <1>7 DEF Rename, Set, CloseForm, Current, IndexRefuses, Taken
  <2>1. RevisionTypeOK'
    BY DEF RevisionTypeOK
  <2>2. FormsKnow'
    BY DEF RevisionTypeOK
  <2>3. NamesDiffer'
    BY DEF RevisionTypeOK
  <2>4. QED
    BY <2>1, <2>2, <2>3
<1>8. ASSUME NEW m \in Forms, Create(m) PROVE EditInv'
  <2> USE <1>8 DEF Create, CreateCourse, CloseForm, IndexRefuses, Taken
  <2>1. RevisionTypeOK'
    BY DEF RevisionTypeOK
  <2>2. FormsKnow'
    BY DEF RevisionTypeOK
  <2>3. NamesDiffer'
    BY DEF RevisionTypeOK
  <2>4. QED
    BY <2>1, <2>2, <2>3
<1>9. ASSUME NEW m \in Forms, GiveUp(m) PROVE EditInv'
  <2> USE <1>9 DEF GiveUp, CloseForm
  <2>1. RevisionTypeOK'
    BY DEF RevisionTypeOK
  <2>2. FormsKnow'
    BY DEF RevisionTypeOK
  <2>3. NamesDiffer'
    BY DEF RevisionTypeOK
  <2>4. QED
    BY <2>1, <2>2, <2>3
<1>10. ASSUME NEW f \in Files, Upload(f) PROVE EditInv'
  <2> USE <1>10 DEF Upload, UploadInsert
  <2>1. RevisionTypeOK'
    BY DEF RevisionTypeOK
  <2>2. FormsKnow'
    BY DEF RevisionTypeOK
  <2>3. NamesDiffer'
    BY DEF RevisionTypeOK
  <2>4. QED
    BY <2>1, <2>2, <2>3
<1>11. ASSUME RevisionShelf PROVE EditInv'
  <2>1. RowsEndOnce
    BY <1>11, EditsOnShelf, ShelfKept DEF RevisionNext, RevisionTypeOK
  <2>2. \A c \in Courses : course'[c] = "open" => course[c] = "open"
    BY <1>11 DEF RevisionShelf, ShelfStep, Trash, PurgeBegin, PurgeCommit, PurgeFails, DropCourse,
                 Restore, UploadRefused, UploadBegin
  <2> DEFINE Ends(r) == \/ r \in Files /\ state'[r] = "gone"
                        \/ r \notin Files /\ course'[r] = "gone"
  <2>3. \A r \in Rows : /\ title'[r] = IF Ends(r) THEN NoTitle ELSE title[r]
                       /\ version'[r] = IF Ends(r) THEN 0 ELSE version[r]
    BY <1>11 DEF RevisionShelf
  <2>4. UNCHANGED <<formVars, indexed>>
    BY <1>11 DEF RevisionShelf
  <2>5. RevisionTypeOK'
    BY <1>11 DEF RevisionShelf, RevisionTypeOK
  <2>6. FormsKnow'
    <3> SUFFICES ASSUME NEW m \in Forms, stage[m] \in {"file", "course", "rename"}
                 PROVE  \/ Dead(row[m])' /\ version'[row[m]] = 0
                        \/ /\ Alive(row[m])' /\ seen[m] <= version'[row[m]]
                           /\ seen[m] = version'[row[m]] => shown[m] = title'[row[m]]
      BY <2>4
    <3>1. row[m] \in Files \/ row[m] \in Courses
      BY DEF RevisionTypeOK
    <3>2. CASE row[m] \in Files
      BY <2>1, <2>3, <2>4, <3>2 DEF RowsEndOnce
    <3>3. CASE row[m] \in Courses
      BY <2>1, <2>3, <2>4, <3>3 DEF RowsEndOnce
    <3>4. QED
      BY <3>1, <3>2, <3>3
  <2>7. NamesDiffer'
    BY <2>2, <2>3, <2>4
  <2>8. QED
    BY <2>5, <2>6, <2>7
<1>12. CASE Reindex
  BY <1>12 DEF Reindex, RevisionTypeOK
<1>13. CASE UNCHANGED <<shelfVars, revisionVars>>
  BY <1>13 DEF revisionVars, RevisionTypeOK
<1>14. QED
  BY <1>1, <1>2, <1>3, <1>4, <1>5, <1>6, <1>7, <1>8, <1>9, <1>10, <1>11, <1>12, <1>13
     DEF RevisionNext
-----------------------------------------------------------------------------
(* Readers                                                                 *)

LEMMA ReadStep ==
  ShelfInv /\ ReadInv /\ [ReaderNext]_<<shelfVars, readerVars>> => ReadInv'
<1> SUFFICES ASSUME ShelfInv, ReadInv, [ReaderNext]_<<shelfVars, readerVars>> PROVE ReadInv'
  OBVIOUS
<1> USE ShelfAssumption
    DEF ReadInv, ReaderTypeOK, Hangs, Vetting, HasRow, Open, shelfVars, ShelfInv, ShelfTypeOK
<1>1. ASSUME NEW f \in Files, NEW c \in Courses, NEW u \in Users, Submit(f, c, u) PROVE ReadInv'
  BY <1>1 DEF Submit, UploadBegin
<1>2. ASSUME NEW f \in Files, Saved(f) PROVE ReadInv'
  BY <1>2 DEF Saved, UploadInsert, readerVars
<1>3. ASSUME NEW f \in Files, Refused(f) PROVE ReadInv'
  BY <1>3 DEF Refused, UploadRefused
<1>4. ASSUME NEW f \in Files, NEW s \in {"approved", "rejected"}, Review(f, s) PROVE ReadInv'
  BY <1>4 DEF Review
<1>5. ASSUME NEW u \in Users, NEW r \in {"admin", "uploader", "viewer"}, ChangeRole(u, r) PROVE ReadInv'
  BY <1>5 DEF ChangeRole
<1>6. ASSUME NEW f \in Files, NEW u \in Users, CommentTest(f, u) PROVE ReadInv'
  BY <1>6 DEF CommentTest
<1>7. ASSUME NEW f \in Files, CommentInsert(f) PROVE ReadInv'
  BY <1>7 DEF CommentInsert
<1>8. ASSUME NEW f \in Files, CommentFails(f) PROVE ReadInv'
  BY <1>8 DEF CommentFails
<1>9. ASSUME NEW f \in Files, DeleteComment(f) PROVE ReadInv'
  BY <1>9 DEF DeleteComment
<1>10. ASSUME NEW l \in Links, NEW c \in Courses, LinkTest(l, c) PROVE ReadInv'
  BY <1>10 DEF LinkTest
<1>11. ASSUME NEW l \in Links, LinkInsert(l) PROVE ReadInv'
  BY <1>11 DEF LinkInsert
<1>12. ASSUME NEW l \in Links, LinkExpires(l) PROVE ReadInv'
  BY <1>12 DEF LinkExpires
<1>13. ASSUME NEW l \in Links, Revoke(l) PROVE ReadInv'
  BY <1>13 DEF Revoke
<1>14. ASSUME ReaderShelf PROVE ReadInv'
  <2>1. RowsEndOnce
    BY <1>14, ReadersOnShelf, ShelfKept DEF ReaderNext
  <2>2. \A f \in Files : state'[f] \in {"none", "gone"} \/ state[f] = "new" \/ HasRow(f)
    BY <1>14 DEF ReaderShelf, ShelfStep, Trash, PurgeBegin, PurgeCommit, PurgeFails, DropCourse,
                 Delete, CreateCourse, Restore
  <2>3. ReaderTypeOK'
    BY <1>14 DEF ReaderShelf, Cascade
  <2>4. Hangs'
    BY <1>14, <2>1 DEF ReaderShelf, Cascade, RowsEndOnce
  <2>5. Vetting'
    BY <1>14, <2>2 DEF ReaderShelf
  <2>6. QED
    BY <2>3, <2>4, <2>5
<1>15. CASE UNCHANGED <<shelfVars, readerVars>>
  BY <1>15 DEF readerVars
<1>16. QED
  BY <1>1, <1>2, <1>3, <1>4, <1>5, <1>6, <1>7, <1>8, <1>9, <1>10, <1>11, <1>12, <1>13,
     <1>14, <1>15 DEF ReaderNext

LEMMA ReadersServed == ShelfInv /\ ReadInv => NothingDangles /\ OnlyVettedIsPublic /\ RoutesAgree
<1> SUFFICES ASSUME ShelfInv, ReadInv PROVE NothingDangles /\ OnlyVettedIsPublic /\ RoutesAgree
  OBVIOUS
<1>1. NothingDangles
  <2>1. Housed
    BY DEF ShelfInv
  <2>2. Hangs
    BY DEF ReadInv
  <2>3. QED
    BY <2>1, <2>2 DEF Housed, Hangs, NothingDangles
<1>2. OnlyVettedIsPublic
  BY ReaderAssumption DEF ReadInv, Vetting, OnlyVettedIsPublic, Listed, Served, Mine, HasRow
<1>3. RoutesAgree
  <2> USE ShelfAssumption, ReaderAssumption
      DEF ShelfInv, ShelfTypeOK, ReadInv, ReaderTypeOK, Viewers, Is, Mine, Served, Listed, Approved
  <2> SUFFICES ASSUME NEW v \in Viewers, NEW f \in Files
               PROVE  /\ Listed(v, f) => Served(v, f)
                      /\ Served(v, f) /\ ~Listed(v, f) => Mine(v, f) /\ Is(v, "viewer")
                      /\ Listed(Guest, f) <=> OnHomePage(f)
                      /\ \A l \in Links : Shared(l, f) => Listed(v, f)
                      /\ Mine(v, f) => Served(v, f)
                      /\ InBin(v, f) => ~Served(v, f)
    BY DEF RoutesAgree
  <2>1. Listed(v, f) => Served(v, f)
    OBVIOUS
  <2>2. Served(v, f) /\ ~Listed(v, f) => Mine(v, f) /\ Is(v, "viewer")
    OBVIOUS
  <2>3. Listed(Guest, f) <=> OnHomePage(f)
    BY DEF OnHomePage
  <2>4. \A l \in Links : Shared(l, f) => Listed(v, f)
    BY DEF Shared
  <2>5. Mine(v, f) => Served(v, f)
    OBVIOUS
  <2>6. InBin(v, f) => ~Served(v, f)
    BY DEF InBin
  <2>7. QED
    BY <2>1, <2>2, <2>3, <2>4, <2>5, <2>6
<1>4. QED
  BY <1>1, <1>2, <1>3

-----------------------------------------------------------------------------
(* The library                                                             *)

EditsRest == ~indexed /\ \A m \in Forms : stage[m] = "closed"
ReadersAtRest == comments = {} /\ vetted = Files /\ \A l \in Links : link[l] = "none"

\* The invariants of the parts, which hold while they rest, too.
LibraryInv ==
  /\ ShelfInv /\ EditInv /\ ReadInv
  /\ IF subject = "quotas" THEN QuotaInv ELSE NoSizes
  /\ subject # "edits" => EditsRest
  /\ subject # "readers" => ReadersAtRest

LEMMA LibraryStarts == Init => LibraryInv
<1> SUFFICES ASSUME Init PROVE LibraryInv
  OBVIOUS
<1> USE ShelfAssumption, RevisionAssumption DEF Init
<1>1. ShelfTypeOK
  BY DEF ShelfInit, ShelfTypeOK
<1>2. Housed
  BY DEF ShelfInit, Housed, HasRow, Open
<1>3. RevisionTypeOK
  <2> USE DEF RevisionTypeOK, Rows
  <2>1. CASE RevisionInit
    BY <2>1 DEF RevisionInit, NamesUnique
  <2>2. CASE RevisionsRest
    BY <2>2 DEF RevisionsRest
  <2>3. QED
    BY <2>1, <2>2
<1>4. FormsKnow
  BY DEF RevisionsRest, RevisionInit, FormsKnow
<1>5. NamesDiffer
  BY DEF RevisionsRest, RevisionInit, NamesDiffer
<1>6. ReaderTypeOK
  BY DEF ReadersRest, ReaderInit, ReaderTypeOK
<1>7. Hangs
  BY DEF ReadersRest, ReaderInit, Hangs
<1>8. Vetting
  BY DEF ReadersRest, ReaderInit, Vetting, ShelfInit, HasRow
<1>9. subject # "edits" => EditsRest
  BY DEF RevisionsRest, EditsRest
<1>10. subject # "readers" => ReadersAtRest
  BY DEF ReadersRest, ReadersAtRest
<1>11. IF subject = "quotas" THEN QuotaInv ELSE NoSizes
  BY QuotasStart DEF QuotasRest, NoSizes
<1>12. QED
  BY <1>1, <1>2, <1>3, <1>4, <1>5, <1>6, <1>7, <1>8, <1>9, <1>10, <1>11
     DEF LibraryInv, ShelfInv, EditInv, ReadInv

\* Whoever rests is not disturbed by what the others do to the shelf.
LEMMA EditsUndisturbed == EditInv /\ EditsRest /\ UNCHANGED revisionVars => EditInv' /\ EditsRest'
BY DEF EditInv, EditsRest, revisionVars, formVars, RevisionTypeOK, FormsKnow, NamesDiffer

LEMMA ReadersUndisturbed ==
  ReadInv /\ ReadersAtRest /\ UNCHANGED readerVars => ReadInv' /\ ReadersAtRest'
BY DEF ReadInv, ReadersAtRest, readerVars, ReaderTypeOK, Hangs, Vetting

LEMMA LibraryStep == LibraryInv /\ [Next]_vars => LibraryInv'
<1> SUFFICES ASSUME LibraryInv, [Next]_vars PROVE LibraryInv'
  OBVIOUS
<1> USE DEF LibraryInv
<1>1. ASSUME subject = "quotas", QuotaNext, UNCHANGED <<subject, revisionVars, readerVars>>
      PROVE  LibraryInv'
  BY <1>1, QuotasOnShelf, ShelfKept, QuotaStep, EditsUndisturbed, ReadersUndisturbed
<1>2. ASSUME subject = "edits", RevisionNext, UNCHANGED <<subject, quotaVars, readerVars>>
      PROVE  LibraryInv'
  <2>1. ShelfInv'
    BY <1>2, EditsOnShelf, ShelfKept DEF EditInv, RevisionTypeOK
  <2>2. QED
    BY <1>2, <2>1, EditStep, ReadersUndisturbed DEF quotaVars, NoSizes
<1>3. ASSUME subject = "readers", ReaderNext, UNCHANGED <<subject, quotaVars, revisionVars>>
      PROVE  LibraryInv'
  BY <1>3, ReadersOnShelf, ShelfKept, ReadStep, EditsUndisturbed DEF quotaVars, NoSizes
<1>4. CASE UNCHANGED vars
  <2>1. UNCHANGED shelfVars /\ UNCHANGED revisionVars /\ UNCHANGED readerVars /\ UNCHANGED subject
    BY <1>4 DEF vars
  <2>2. ShelfInv'
    BY <2>1, ShelfKept DEF ShelfNext
  <2>3. EditInv' /\ ReadInv'
    BY <2>1, EditStep, ReadStep
  <2>4. (subject # "edits" => EditsRest)' /\ (subject # "readers" => ReadersAtRest)'
    BY <2>1 DEF EditsRest, ReadersAtRest, revisionVars, formVars, readerVars
  <2>5. (IF subject = "quotas" THEN QuotaInv ELSE NoSizes)'
    <3>1. UNCHANGED quotaVars
      BY <1>4 DEF vars
    <3>2. NoSizes => NoSizes'
      BY <3>1 DEF NoSizes, quotaVars
    <3>3. QuotaInv => QuotaInv'
      BY <2>1, <3>1 DEF QuotaInv, QuotaTypeOK, UploadsFit, Within, Sum, Bytes, Live, InCourse,
                        ByUser, HasRow, quotaVars, shelfVars
    <3>4. QED
      BY <2>1, <3>2, <3>3
  <2>6. QED
    BY <2>2, <2>3, <2>4, <2>5
<1>5. QED
  BY <1>1, <1>2, <1>3, <1>4 DEF Next

\* Types: no request writes what a column may not hold, an upload has an allowance as long
\* as it runs, and a size is kept as long as its row.
THEOREM LibraryTyped == Spec => []TypeOK
<1>1. LibraryInv => TypeOK
  BY DEF LibraryInv, TypeOK, ShelfInv, EditInv, ReadInv, QuotaInv
<1>2. QED
  BY <1>1, LibraryStarts, LibraryStep, PTL DEF Spec

\* Uploads that run at the same time cannot together exceed a quota, for any sizes and
\* limits (quota_guard_clauses in the INSERT): what is over it was restored from the bin
\* or was there before.
THEOREM UploadsAlwaysFit == Spec => []UploadsFit
<1>1. LibraryInv => UploadsFit
  BY NothingCounts DEF LibraryInv, QuotaInv
<1>2. QED
  BY <1>1, LibraryStarts, LibraryStep, PTL DEF Spec

\* The allowance upload_quota computes is what the INSERT accepts, whatever is in the bin,
\* in other courses or above a limit already.
THEOREM AllowancesAreHonest == Spec => []AllowanceIsHonest
<1>1. LibraryInv => AllowanceIsHonest
  BY NothingCounts, AllowanceHonest DEF LibraryInv, QuotaInv, QuotaTypeOK, Sized
<1>2. QED
  BY <1>1, LibraryStarts, LibraryStep, PTL DEF Spec

\* Saving a form that names its row's version undoes no edit its author has not seen
\* (update_file, update_course), whatever is purged, dropped or restored in between.
THEOREM EditsAreNotLost == Spec => []NoLostEdit
<1>1. LibraryInv => NoLostEdit
  BY DEF LibraryInv, EditInv, RevisionTypeOK, FormsKnow, NoLostEdit
<1>2. QED
  BY <1>1, LibraryStarts, LibraryStep, PTL DEF Spec

\* Where the unique index is, no two open courses have one name (create_course and
\* update_course, both of which test the name before they write it).
THEOREM NamesStayApart == Spec => []NamesDiffer
<1>1. LibraryInv => NamesDiffer
  BY DEF LibraryInv, EditInv
<1>2. QED
  BY <1>1, LibraryStarts, LibraryStep, PTL DEF Spec

\* No comment, link or file outlives what it belongs to (the foreign keys).
THEOREM NothingIsLeftBehind == Spec => []NothingDangles
<1>1. LibraryInv => NothingDangles
  BY ReadersServed DEF LibraryInv
<1>2. QED
  BY <1>1, LibraryStarts, LibraryStep, PTL DEF Spec

\* What no administrator has vetted is shown to administrators and its uploader only, by
\* every route, for any number of users whose roles change.
THEOREM TheUnvettedStayHidden == Spec => []OnlyVettedIsPublic
<1>1. LibraryInv => OnlyVettedIsPublic
  BY ReadersServed DEF LibraryInv
<1>2. QED
  BY <1>1, LibraryStarts, LibraryStep, PTL DEF Spec

\* The routes agree on who sees a file.
THEOREM RoutesAlwaysAgree == Spec => []RoutesAgree
<1>1. LibraryInv => RoutesAgree
  BY ReadersServed DEF LibraryInv
<1>2. QED
  BY <1>1, LibraryStarts, LibraryStep, PTL DEF Spec
=============================================================================
