---------------------------- MODULE MCRegistrar ----------------------------
(***************************************************************************)
(* Small instances of Registrar for TLC: the values its cfgs give to the   *)
(* constants.                                                              *)
(***************************************************************************)
EXTENDS Registrar

Base == [namespace |-> "app", podSelector |-> {"a"}, clusterSelector |-> Nil,
         template |-> "t", usesLabel |-> FALSE, valid |-> TRUE,
         selectors |-> <<>>, attrs |-> "x", hint |-> Nil]

(* The SPIFFE ID depends on the pod's label, every label is selected, and  *)
(* the entry has a second selector.                                        *)
AsRoot == [type |-> "unix", value |-> <<"uid", "0">>]
ByLabel == [Base EXCEPT !.podSelector = {"a", "b"}, !.usesLabel = TRUE,
                        !.selectors = <<AsRoot>>]
(* Narrower, with other attributes and a custom hint for the same IDs.     *)
Retuned == [ByLabel EXCEPT !.podSelector = {"a"}, !.attrs = "y", !.hint = "h"]
(* Only production clusters; a template that cannot be rendered; an        *)
(* ignored namespace.                                                      *)
Production == [Base EXCEPT !.clusterSelector = {"prod"}, !.attrs = "y"]
Broken == [Base EXCEPT !.template = "bad", !.valid = FALSE]
InSystem == [Base EXCEPT !.namespace = "kube-system"]

(* A k8s selector, as in the examples of the documentation.                *)
InNamespace == [Base EXCEPT !.selectors = <<[type |-> "k8s", value |-> <<"ns", "app">>]>>]

Enabled == [enabled |-> TRUE, labels |-> {"prod"}, role |-> "r1"]
Staging == [Enabled EXCEPT !.labels = {"staging"}]
Disabled == [Enabled EXCEPT !.enabled = FALSE]
Reassumed == [Staging EXCEPT !.role = "r2"]

OneCluster == {"c1"}
OneIdentity == {"w1"}
OnePod == {"p1"}
TwoPods == {"p1", "p2"}
OneListener == {"l1"}
TwoListeners == {"l1", "l2"}
OneLabel == {"a"}
TwoLabels == {"a", "b"}

AllInC1 == [p \in Pod |-> "c1"]
AllInApp == [p \in Pod |-> "app"]
P2InSystem == [p \in Pod |-> IF p = "p2" THEN "kube-system" ELSE "app"]
System == {"kube-system"}

(* Registered by hand: one entry that carries p1's UID, one that is        *)
(* similar to the entry ByLabel declares for p1 when it is labelled b.     *)
ByHand ==
  {[id |-> <<"uuid-1">>, spiffeID |-> <<"admin">>, parentID |-> "c1",
    selectors |-> <<PodUIDSelector("p1")>>, attrs |-> "x",
    hint |-> [base |-> <<"admin">>, owner |-> "admin"]],
   [id |-> <<"uuid-2">>, spiffeID |-> <<"t", "b">>, parentID |-> "c1",
    selectors |-> <<AsRoot, PodUIDSelector("p1")>>, attrs |-> "x",
    hint |-> [base |-> <<"admin">>, owner |-> "admin"]]}

NoEntries == {}

CoreSpecs == {ByLabel, Retuned}
OnOff == {Enabled, Disabled}
NewRole == {Enabled, Reassumed}
OnlyProduction == {[Retuned EXCEPT !.clusterSelector = {"prod"}]}
SelectiveSpecs == {Base, Production, Broken, InSystem}
NilSelectorSpecs == {[Base EXCEPT !.podSelector = Nil]}
OnlyBase == {Base}
OnlyInNamespace == {InNamespace}
OnlyEnabled == {Enabled}
TwoIdentities == {"w1", "w2"}
ProdOrStaging == {Enabled, Staging}
=============================================================================
