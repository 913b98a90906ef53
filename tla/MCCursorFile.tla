---------------------------- MODULE MCCursorFile ----------------------------
(* CursorFile on small instances. *)
EXTENDS CursorFile, TLC

CONSTANTS s1, s2, w1, w2
StoreSymmetry == Permutations(Store)
=============================================================================
