----------------------- MODULE MCTransactionController -----------------------
(* Finite instances of TransactionController for TLC. *)
EXTENDS TransactionController, TLC

CONSTANTS p1, p2, p3, a1, a2

\* p2 is a replay of p1: the page sends its unanswered requests again when the
\* content script reconnects.
ReplayActionOf == (p1 :> a1) @@ (p2 :> a1) @@ (p3 :> a2)

Symmetry == Permutations(TxIds)
=============================================================================
