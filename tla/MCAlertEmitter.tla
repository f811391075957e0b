---------------------------- MODULE MCAlertEmitter ----------------------------
(* Small instances of AlertEmitter for TLC.                                 *)
EXTENDS AlertEmitter, TLC

Symmetry == Permutations(Entities)
===============================================================================
