----------------------------- MODULE MCApprovals -----------------------------
(* Small instances of Approvals for TLC. *)
EXTENDS Approvals, TLC

CONSTANTS a1, a2, approve, deny, other

ApprovalSymmetry == Permutations(Approval)
=============================================================================
