------------------------------- MODULE Ledger -------------------------------
(***************************************************************************)
(* What the registrar promises about the SPIRE server, whatever its full   *)
(* pass, its event handlers and its controllers do and in which order: a   *)
(* book of entries in which a line is opened for a pod that has started,   *)
(* amended without becoming a line about somebody else, or struck out if   *)
(* it is the registrar's own.                                              *)
(***************************************************************************)
EXTENDS SequencesExt

CONSTANTS
  Own,          \* entries the registrar may write
  For(_, _)     \* For(e, p): entry e identifies pod p

VARIABLES
  book,         \* the entries on the server
  started       \* the pods that have run

(* Entries that identify the same workload, which SPIRE allows only once.  *)
SameWorkload(x, e) ==
  /\ x.spiffeID = e.spiffeID
  /\ x.parentID = e.parentID
  /\ ToSet(x.selectors) = ToSet(e.selectors)

Init == book \cap Own = {}

Grant(e) ==
  /\ e \in Own /\ \E p \in started : For(e, p)
  /\ \A x \in book : x.id # e.id /\ ~SameWorkload(x, e)
  /\ book' = book \cup {e}

(* Only what is said of the workload changes, not which workload it is.    *)
Amend(old, new) ==
  /\ old \in book \cap Own /\ new \in Own
  /\ new.id = old.id /\ SameWorkload(old, new)
  /\ book' = (book \ {old}) \cup {new}

Revoke(e) ==
  /\ e \in book \cap Own
  /\ book' = book \ {e}

(* A pod that has run stays one that has run.                              *)
Start == started \subseteq started' /\ UNCHANGED book

Entry == \/ \E e \in Own : Grant(e) \/ Revoke(e)
         \/ \E old, new \in Own : Amend(old, new)

Next == Start \/ (Entry /\ UNCHANGED started)

Spec == Init /\ [][Next]_<<book, started>>

=============================================================================
