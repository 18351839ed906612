--------------------------- MODULE MCClusterManager ---------------------------
(***************************************************************************)
(* Small instances of ClusterManager for TLC.                              *)
(***************************************************************************)
EXTENDS ClusterManager

OneCluster == {"c1"}
TwoInformers == {"f1", "f2"}
Enabled == [enabled |-> TRUE, role |-> "r1"]
Disabled == [Enabled EXCEPT !.enabled = FALSE]
Reassumed == [Enabled EXCEPT !.role = "r2"]
Registrations == {Enabled, Disabled, Reassumed}
NewRole == {Enabled, Reassumed}
==============================================================================
