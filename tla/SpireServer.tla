----------------------------- MODULE SpireServer -----------------------------
(***************************************************************************)
(* The SPIRE server's entry API as pkg/spireapi/client.go uses it: each    *)
(* client call is one request about one entry and is atomic at the server. *)
(* Entries of other registrars and of administrators are in the server     *)
(* from the start; their IDs do not carry this registrar's prefix.         *)
(***************************************************************************)
EXTENDS SpireEntry

CONSTANT ForeignEntry      \* entries registered by somebody else

VARIABLE spire             \* the entries the server holds

ASSUME ForeignAssumption == \A e \in ForeignEntry : ~shouldProcessEntry(e)

(* The server's notion of a similar entry.                                 *)
Similar(x, e) ==
  /\ x.spiffeID = e.spiffeID
  /\ x.parentID = e.parentID
  /\ ToSet(x.selectors) = ToSet(e.selectors)

SpireInit == spire = ForeignEntry

(* All pages of ListEntries.                                               *)
ListEntries == spire

(* ALREADY_EXISTS (code 6) is success to the client and changes nothing.   *)
CreateEntry(e) ==
  spire' = IF \E x \in spire : Similar(x, e) \/ x.id = e.id
             THEN spire
             ELSE spire \cup {e}

(* No input mask, so every field is replaced; NOT_FOUND changes nothing.   *)
UpdateEntry(e) ==
  spire' = IF \E x \in spire : x.id = e.id
             THEN {x \in spire : x.id # e.id} \cup {e}
             ELSE spire

DeleteEntry(id) == spire' = {x \in spire : x.id # id}

=============================================================================
