----------------------------- MODULE MCReplicas -----------------------------
(* Model-checking instance of Replicas: two devices, journal and user      *)
(* extents, two writers, a replicas field with room for two entries.       *)
EXTENDS Replicas, TLC

CONSTANTS m1, m2

\* enum bch_data_types (bcachefs_format.h)
BCH_DATA_JOURNAL == 2
BCH_DATA_USER == 4

MCDevIdx == {0, 1}
MCDataTypes == {BCH_DATA_JOURNAL, BCH_DATA_USER}
MCExtents == {[type |-> BCH_DATA_JOURNAL, devs |-> {0}],
              [type |-> BCH_DATA_USER, devs |-> {0, 1}],
              [type |-> BCH_DATA_USER, devs |-> {1}]}
\* GC of user data, as the device-evacuate path starts it.
MCMasksUser == {2 ^ BCH_DATA_USER}
\* GC of journal entries, as journal device flush starts it.
MCMasksJournal == {2 ^ BCH_DATA_JOURNAL}
MCMarkers == {m1, m2}

Symmetry == Permutations(MCMarkers)
=============================================================================
