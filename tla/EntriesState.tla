---------------------------- MODULE EntriesState ----------------------------
(***************************************************************************)
(* internal/spireentry/state.go: the entries a full pass found in SPIRE    *)
(* (current), the entries it wants there (declared), and the difference.   *)
(* Both Go maps are keyed by entry ID; here each is a set of entries with  *)
(* distinct IDs.                                                           *)
(***************************************************************************)
EXTENDS SpireEntry

(* Storing into a map: a later entry replaces an earlier one with its ID.  *)
Put(map, entries) ==
  {x \in map : \A y \in entries : y.id # x.id} \cup entries

AddCurrent(current, entries) == Put(current, entries)
AddDeclared(declared, entries) == Put(declared, entries)

toCreateOf(current, declared) ==
  {d \in declared : \A x \in current : x.id # d.id}

toUpdateOf(current, declared) ==
  {d \in declared : \E x \in current : x.id = d.id /\ ~entriesEqual(x, d)}

toDeleteOf(current, declared) ==
  {x \in current : \A d \in declared : d.id # x.id}

=============================================================================
