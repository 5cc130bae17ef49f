------------------------ MODULE MCAccountTransactions ------------------------
(* A finite instance of AccountTransactions for TLC. *)
EXTENDS AccountTransactions, TLC

CONSTANTS b1, s1, s2

\* Two calls sent one by one, or a delegation and the atomic batch.
BatchLength == [b \in Batches |-> 2]

\* An approval and its swap.
SwapApproval == (s1 :> None) @@ (s2 :> s1)
=============================================================================
