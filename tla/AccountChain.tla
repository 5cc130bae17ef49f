----------------------------- MODULE AccountChain -----------------------------
(***************************************************************************)
(* The chain and its node as the wallet uses them for one account: a node  *)
(* takes transactions by nonce, and of those sent with one nonce whichever *)
(* a block includes first is mined.  Not code of the repository.           *)
(***************************************************************************)
EXTENDS Naturals

CONSTANTS
    MaxNonce,       \* bound of the account's nonces
    None

ASSUME ChainConstantsOK == MaxNonce \in Nat \ {0} /\ None \notin Nat

VARIABLE chain      \* pool: transactions taken, by nonce; mined: how many are

Nonces == 0 .. MaxNonce

ChainTypeOK(Txs) ==
    chain \in [pool : [Nonces -> SUBSET Txs], mined : 0 .. MaxNonce + 1,
               succeeded : SUBSET Txs, reverted : SUBSET Txs]

ChainInit ==
    chain = [pool |-> [n \in Nonces |-> {}], mined |-> 0, succeeded |-> {}, reverted |-> {}]

\* The transaction count at the block tag `pending`.
IsPendingNonce(n) ==
    /\ n >= chain.mined /\ chain.pool[n] = {}
    /\ \A k \in Nonces : chain.mined <= k /\ k < n => chain.pool[k] # {}

\* The node takes t, next to others with its nonce if it pays more.
NodeTakes(t, n) ==
    /\ n >= chain.mined
    /\ chain' = [chain EXCEPT !.pool[n] = @ \cup {t}]

IsMined(t) == t \in chain.succeeded \cup chain.reverted

NonceOf(t) == CHOOSE n \in Nonces : t \in chain.pool[n]

Known(t) == \E n \in Nonces : t \in chain.pool[n]

MineNext ==
    /\ chain.mined \in Nonces
    /\ \E t \in chain.pool[chain.mined] :
          \/ chain' = [chain EXCEPT !.mined = @ + 1, !.succeeded = @ \cup {t}]
          \/ chain' = [chain EXCEPT !.mined = @ + 1, !.reverted = @ \cup {t}]
=============================================================================
