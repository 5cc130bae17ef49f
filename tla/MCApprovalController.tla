------------------------ MODULE MCApprovalController ------------------------
(* A finite instance of ApprovalController for TLC. *)
EXTENDS ApprovalController, TLC

Symmetry == Permutations(Ids) \cup Permutations(Calls)
=============================================================================
