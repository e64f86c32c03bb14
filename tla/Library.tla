------------------------------ MODULE Library ------------------------------
(***************************************************************************)
(* The rows of the library under three kinds of traffic: uploads against   *)
(* the quotas, edits, and reviews with what readers see of them.  All      *)
(* share the shelf, and what one adds to it no other reads; so each        *)
(* behaviour has the traffic of one.                                       *)
(***************************************************************************)
EXTENDS Quotas, Revisions, Readers

CONSTANT MaxFew  \* bound on the files while the traffic is not about quotas

VARIABLE subject

vars == <<subject, shelfVars, quotaVars, revisionVars, readerVars>>

TypeOK ==
  /\ ShelfTypeOK
  /\ subject = "quotas" => QuotaTypeOK
  /\ subject = "edits" => RevisionTypeOK
  /\ subject = "readers" => ReaderTypeOK

\* The parts that rest: no sizes, no titles, every file reviewed.
QuotasRest ==
  /\ size = [f \in Files |-> 0] /\ granted = [f \in Files |-> 0] /\ exempt = {}
RevisionsRest ==
  /\ title = [r \in Rows |-> NoTitle] /\ version = [r \in Rows |-> 0]
  /\ stage = [m \in Forms |-> "closed"] /\ row = [m \in Forms |-> NoRow]
  /\ seen = [m \in Forms |-> 0] /\ indexed = FALSE
  /\ shown = [m \in Forms |-> NoTitle] /\ wish = [m \in Forms |-> NoTitle]
ReadersRest ==
  /\ status = [f \in Files |-> "approved"] /\ role = [u \in Users |-> "viewer"]
  /\ comments = {} /\ commenting = {} /\ vetted = Files
  /\ link = [l \in Links |-> "none"] /\ target = [l \in Links |-> Nowhere]

FewFiles == Cardinality({f \in Files : state[f] # "none"}) <= MaxFew

Init ==
  /\ ShelfInit
  /\ \/ subject = "quotas" /\ QuotaInit /\ RevisionsRest /\ ReadersRest
     \/ subject = "edits" /\ FewFiles /\ QuotasRest /\ RevisionInit /\ ReadersRest
     \/ subject = "readers" /\ FewFiles /\ QuotasRest /\ RevisionsRest /\ ReaderInit

Next ==
  \/ subject = "quotas" /\ QuotaNext /\ UNCHANGED <<subject, revisionVars, readerVars>>
  \/ subject = "edits" /\ RevisionNext /\ FewFiles' /\ UNCHANGED <<subject, quotaVars, readerVars>>
  \/ subject = "readers" /\ ReaderNext /\ FewFiles' /\ UNCHANGED <<subject, quotaVars, revisionVars>>

Spec == Init /\ [][Next]_vars
=============================================================================
