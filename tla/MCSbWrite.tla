------------------------------ MODULE MCSbWrite ------------------------------
(* Model-checking instance of SbWrite: two or three member devices with    *)
(* two-slot layouts (the default sector and one backup).                   *)
EXTENDS SbWrite, TLC

CONSTANTS d1, d2, d3

\* Same layout and journal on every device, as format gives them.
MCDev2 == {d1, d2}
MCDev3 == {d1, d2, d3}
MCNrSb == [d \in MCDev3 |-> 2]
MCBudget == [d \in MCDev3 |-> 6]
MCJournalUniform == [d \in MCDev3 |-> 1]
MCSizes == {4, 5, 6}

Symmetry == Permutations(MCDev2)
=============================================================================
