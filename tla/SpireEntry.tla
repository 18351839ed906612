----------------------------- MODULE SpireEntry -----------------------------
(***************************************************************************)
(* SPIRE registration entries as the registrar renders and compares them   *)
(* (internal/spireentry/entries.go and state.go).                          *)
(*                                                                         *)
(* A WorkloadIdentity spec is a record; templates are opaque values.  What *)
(* the program depends on is kept: which pods and clusters the spec        *)
(* selects, whether its templates can be rendered, whether the SPIFFE ID   *)
(* it renders depends on a pod label, its extra selectors, and the fields  *)
(* compared by getOutdatedEntryFields (attrs and hint).                    *)
(***************************************************************************)
EXTENDS SequencesExt

CONSTANT Nil                       \* an absent optional field

(* cmd/main.go gives EntryIDPrefix this value when the config has none, so *)
(* the prefix is never empty and the branches for "" are never taken.      *)
EntryIDPrefix == "eks-workload-"

(* The fields of a WorkloadIdentity that decide what it does.  podSelector *)
(* and clusterSelector are Nil or the set of label values they match.      *)
SpecFields == {"namespace", "podSelector", "clusterSelector", "template",
               "usesLabel", "valid", "selectors", "attrs", "hint"}

(* A selector template renders to TYPE:VALUE; VALUE is a path of strings.  *)
Selector == [type : STRING, value : Seq(STRING)]

(* "k8s" / "pod-uid:UID": the selector that ties an entry to one pod.      *)
PodUIDSelector(p) == [type |-> "k8s", value |-> <<"pod-uid", p>>]

(* Custom or generated, a hint ends with the owning WorkloadIdentity.      *)
RenderHint(i, s, c) ==
  [base  |-> IF s.hint = Nil THEN <<"workloadidentity", i, c>> ELSE <<s.hint>>,
   owner |-> i]

(* Templates parse, execute, and give well-formed SPIFFE IDs.              *)
CanRender(s) == s.valid

(* The entry of pod p, labelled l, of cluster c under identity i with      *)
(* spec s.  RenderEntry leaves the entry's ID empty.                       *)
RenderEntry(i, s, c, p, l) ==
  [id        |-> <<>>,
   spiffeID  |-> IF s.usesLabel THEN <<s.template, l>> ELSE <<s.template>>,
   parentID  |-> c,
   selectors |-> <<PodUIDSelector(p)>> \o s.selectors,
   attrs     |-> s.attrs,
   hint      |-> RenderHint(i, s, c)]

(* Mutant: the SPIFFE ID is left out of the hash.                          *)
KeyOfSelectors(e) == <<e.parentID, ToBag(e.selectors)>>

(* SHA-256 over SPIFFE ID, parent ID and the sorted selectors, taken as    *)
(* injective: the order of the selectors is all it forgets.                *)
MakeEntryKey(e) == <<e.spiffeID, e.parentID, ToBag(e.selectors)>>

(* The ID that AddDeclared and reconcilePodEntry put on a rendered entry.  *)
WithID(e) == [e EXCEPT !.id = <<EntryIDPrefix, MakeEntryKey(e)>>]

Declaration(i, s, c, p, l) == WithID(RenderEntry(i, s, c, p, l))

(* Managed by this controller: the ID carries the configured prefix.       *)
shouldProcessEntry(e) == e.id[1] = EntryIDPrefix

(* Does the entry carry the pod-uid selector of p?                         *)
HasPodUID(e, p) ==
  \E k \in DOMAIN e.selectors : e.selectors[k] = PodUIDSelector(p)

(* attrs stands for the TTLs, FederatesWith, Admin, Downstream, DNSNames.  *)
getOutdatedEntryFields(new, old) == {f \in {"attrs", "hint"} : old[f] # new[f]}

(* The value a map keyed by selector type holds after a's selectors have   *)
(* been stored in order: the last one of each type.                        *)
LastOfItsType(selectors, k) ==
  \A m \in DOMAIN selectors : selectors[m].type = selectors[k].type => m =< k

(* Mutant: the fields outside the entry's key are not compared.            *)
EqualKeys(a, b) == MakeEntryKey(a) = MakeEntryKey(b)

entriesEqual(a, b) ==
  /\ a.spiffeID = b.spiffeID /\ a.parentID = b.parentID
  /\ Len(a.selectors) = Len(b.selectors)
  /\ \A k \in DOMAIN b.selectors : \E j \in DOMAIN a.selectors :
        a.selectors[j] = b.selectors[k] /\ LastOfItsType(a.selectors, j)
  /\ getOutdatedEntryFields(b, a) = {}

=============================================================================
