-------------------------- MODULE MCReplicasStatus --------------------------
(* Model-checking instance of ReplicasStatus: the Replicas instance of     *)
(* MCReplicas, with both devices able to go offline.                       *)
EXTENDS ReplicasStatus, TLC

CONSTANTS m1, m2

\* enum bch_data_types (bcachefs_format.h)
BCH_DATA_JOURNAL == 2
BCH_DATA_BTREE == 3
BCH_DATA_USER == 4
BCH_DATA_NR == 6

MCDevIdx == {0, 1}
MCDataTypes == {BCH_DATA_JOURNAL, BCH_DATA_USER}
MCExtents == {[type |-> BCH_DATA_JOURNAL, devs |-> {0}],
              [type |-> BCH_DATA_USER, devs |-> {0, 1}],
              [type |-> BCH_DATA_USER, devs |-> {1}]}
MCMasksUser == {2 ^ BCH_DATA_USER}
MCMarkers == {m1, m2}

Symmetry == Permutations(MCMarkers)
=============================================================================
