------------------------------ MODULE MCBlockIO ------------------------------
(***************************************************************************)
(* BlockIO with two chained children: enough for two completions of        *)
(* children on different threads to race on the parent's status.          *)
(***************************************************************************)
EXTENDS BlockIO

CONSTANTS c1, c2

MCChildren == {c1, c2}

=============================================================================
