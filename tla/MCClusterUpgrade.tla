-------------------------- MODULE MCClusterUpgrade --------------------------
(* 4.14.3 with updates in its own and in the next minor version: 4.15.1 is *)
(* the beginning of 4.15.10, and 4.15 is a part of 4.14.15.                *)
EXTENDS ClusterUpgrade

MCBase == [minor |-> 14, patch |-> 3]
MCVersions == {MCBase, [minor |-> 14, patch |-> 15], [minor |-> 15, patch |-> 1],
               [minor |-> 15, patch |-> 10]}
=============================================================================
