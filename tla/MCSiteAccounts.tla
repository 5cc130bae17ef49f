---------------------------- MODULE MCSiteAccounts ----------------------------
(* A finite instance of SiteAccounts for TLC. *)
EXTENDS SiteAccounts

CONSTANTS w1, w2, a1, a2, a3

TwoWallets == (w1 :> <<a1, a2>>) @@ (w2 :> <<a3>>)

\* The sites are interchangeable, and every property is a safety property.
Symmetry == Permutations(Origins)
=============================================================================
