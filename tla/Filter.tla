------------------------------- MODULE Filter -------------------------------
(***************************************************************************)
(* The filter of the language's arrays, which the controllers use to drop  *)
(* transactions, accounts and keyrings: the elements of a sequence that    *)
(* are in a set, in their order.  SelectSeq has the same value; a recursive*)
(* function is what the proofs can unfold.                                 *)
(***************************************************************************)
EXTENDS Naturals, SequencesExt

\* What is kept of the first i elements.
KeptOf(s, Q) ==
    LET kept[i \in 0 .. Len(s)] ==
            IF i = 0 THEN <<>>
            ELSE IF s[i] \in Q THEN Append(kept[i - 1], s[i]) ELSE kept[i - 1]
    IN  kept

Filtered(s, Q) == KeptOf(s, Q)[Len(s)]

\* The position of the first element in the set, or 0: the arrays' find.
FirstIn(s, Q) == SelectInSeq(s, LAMBDA e : e \in Q)
=============================================================================
