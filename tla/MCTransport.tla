---------------------------- MODULE MCTransport ----------------------------
(* Transport on small instances. *)
EXTENDS Transport, TLC

CONSTANTS s1, s2, c1, c2
CallerSymmetry == Permutations(Caller)
SessionSymmetry == Permutations(Session)
=============================================================================
