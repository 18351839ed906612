---------------------------- MODULE MCDeletion ----------------------------
(***************************************************************************)
(* A small instance of Deletion for TLC: two identities on one cluster,    *)
(* the name of one a prefix of the other's, one of them with a custom      *)
(* hint, and batches of one.                                               *)
(***************************************************************************)
EXTENDS Deletion

Identities == {"web", "web-2"}
OneCluster == {"c1"}
WebGoing == [n \in Identities \cup OneCluster |->
               IF n = "web" THEN "terminating" ELSE "live"]
Entries == {[identity |-> n, cluster |-> "c1", custom |-> n = "web-2"] : n \in Identities}
Prefixed == {<<"web", "web">>, <<"web-2", "web-2">>, <<"web-2", "web">>}
===========================================================================
