-------------------------- MODULE AccountTransactions --------------------------
(***************************************************************************)
(* The transactions of one account that are sent without the mutex of      *)
(* TransactionController: the batches of sites (CallBatch) and the user's  *)
(* own (WalletTransactions) compete for the nonces of one chain, and the   *)
(* service worker restarts.                                                *)
(***************************************************************************)
EXTENDS CallBatch, WalletTransactions, FiniteSets

CONSTANT MaxRestarts    \* bound of service worker restarts

ASSUME AccountConstantsOK == MaxRestarts \in Nat /\ Batches \cap Sends = {}

VARIABLE restarts

vars == <<batches, wallet, chain, restarts>>

TypeOK ==
    /\ BatchTypeOK /\ WalletTypeOK
    /\ ChainTypeOK(BatchTxs \cup SendTxs)
    /\ restarts \in 0 .. MaxRestarts

Init == BatchInit /\ WalletInit /\ ChainInit /\ restarts = 0

Mine == MineNext /\ UNCHANGED <<batches, wallet, restarts>>

Restart ==
    /\ restarts < MaxRestarts
    /\ restarts' = restarts + 1
    /\ BatchRestart /\ WalletRestart
    /\ UNCHANGED chain

Next ==
    \/ BatchNext /\ UNCHANGED <<wallet, restarts>>
    \/ WalletNext /\ UNCHANGED <<batches, restarts>>
    \/ Mine
    \/ Restart

Spec == Init /\ [][Next]_vars

-----------------------------------------------------------------------------
(* Properties *)

Succeeded(b) == {i \in 1 .. LastTx(b) : <<b, i>> \in chain.succeeded}

AllSucceeded(b) == IF run[b].atomic THEN 2 \in Succeeded(b) ELSE Succeeded(b) = 1 .. Length[b]

\* What a status of a batch says of its calls.  Confirmed: every call succeeded.
\* Partly reverted: the first one did, the receipts listed are of mined calls,
\* and only the last of these may have reverted.  Reverted: no receipt, or that
\* of the first call, which did; without one it tells of an execution that
\* ended with an error, of whose calls some may have succeeded.
TellsTheChain(b, s) ==
    /\ s.code = "Confirmed" => AllSucceeded(b)
    /\ s.code = "PartialRevert" =>
          /\ 1 \in Succeeded(b)
          /\ 1 .. s.receipts - 1 \subseteq Succeeded(b)
          /\ s.receipts > 0 => IsMined(<<b, s.receipts>>)
    /\ s.code = "Reverted" => \A i \in 1 .. s.receipts : <<b, i>> \in chain.reverted

\* What memory and storage say of a batch is what happened on the chain, also
\* when another transaction of the account took its nonce; and only a batch
\* of which every call succeeded was answered with its id.
StatusIsTrue ==
    \A b \in Batches :
        /\ \A s \in {memoryCache[b], storage[b]} : TellsTheChain(b, s)
        /\ answer[b] = "id" => AllSucceeded(b)

\* A batch that ended keeps its status while the service worker lives: the
\* catch must not take a partial revert back, nor a query read the storage.
EndedStays ==
    [][\A b \in Batches :
          restarts' = restarts /\ Observed(b).code \notin {None, "Pending"}
              => Observed(b)' = Observed(b)]_vars

\* What is done in steps stops at the first that does not succeed, whatever
\* failed, was replaced or was lost meanwhile: a call of a batch is sent only
\* when every call before it has succeeded, an atomic batch only when its
\* delegation is mined, a swap only when its approval has succeeded.
StepsInOrder ==
    /\ \A b \in Batches : \A i \in 1 .. LastTx(b) :
          Known(<<b, i>>) => IF run[b].atomic
                             THEN Known(<<b, 1>>) /\ i = 2 => IsMined(<<b, 1>>)
                             ELSE 1 .. i - 1 \subseteq Succeeded(b)
    /\ \A s \in Sends : \A k \in 1 .. Attempts :
          Known(<<s, k>>) /\ ApprovalOf[s] # None => SentTx(ApprovalOf[s]) \in chain.succeeded

\* What the list tells of a transaction is true of that transaction, although
\* polls end in any order with replacements, deletions and one another: the
\* hash and the status of an entry always come from the same place.
EntriesAreTrue ==
    \A s \in Sends :
        LET e == pendingTransactions[s]
        IN  e # None => /\ e.status = "sent" => e.tx \in chain.succeeded
                        /\ e.status = "failed" => e.tx \in chain.reverted

\* The user pays once for what was confirmed once: of the transactions sent
\* for it, those of the retries and the replacement included, one is mined.
\* The exception is a retry after a lost reply, which reads a new nonce and
\* sends the payment again.
PaidOnce ==
    \A s \in Sends :
        Cardinality({k \in 1 .. Attempts + 1 : IsMined(<<s, k>>)}) > 1
            => send[s].replyLost
=============================================================================
