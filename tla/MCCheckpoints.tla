--------------------------- MODULE MCCheckpoints ---------------------------
(***************************************************************************)
(* Small instances of Checkpoints for TLC.                                 *)
(***************************************************************************)
EXTENDS Checkpoints

CONSTANTS a, q1, q2, q3

=============================================================================
