------------------------------ MODULE CallBatch ------------------------------
(***************************************************************************)
(* executeWalletSendCalls of src/controller/TransactionController.tsx and  *)
(* src/lib/eip5792/callBatchStore.tsx: the transactions of a batch of      *)
(* calls are sent one after the other from one account of one chain, and   *)
(* the batch's status is kept in memory and, best effort, in storage.      *)
(*                                                                         *)
(* An atomic batch sends one transaction for all its calls, and before it  *)
(* one that delegates the account unless it is delegated already.  It does *)
(* not look at the status of a receipt: the wait of the ethers library     *)
(* must reject for a reverted transaction.  For the other batches the      *)
(* model allows what the code handles, a rejection or a receipt that tells *)
(* of the revert.                                                          *)
(***************************************************************************)
EXTENDS AccountChain

CONSTANTS
    Batches,        \* accepted wallet_sendCalls requests
    Length          \* how many calls each has

ASSUME BatchConstantsOK ==
    /\ Length \in [Batches -> 1 .. MaxNonce + 1]
    /\ None \notin {"Pending", "Confirmed", "Reverted", "PartialRevert"}

VARIABLES
    run,            \* where the execution of each batch is
    memoryCache,    \* its status as the service worker has it
    storage,        \* its status in browser.storage
    answer          \* what the site was answered

batches == <<run, memoryCache, storage, answer>>

BatchTxs == Batches \X (1 .. MaxNonce + 1)

\* A stored CallBatchStatus: its code and how many receipts it lists.
NoStatus == [code |-> None, receipts |-> 0]
Codes == {"Pending", "Confirmed", "Reverted", "PartialRevert"}
BatchStatus == [code : Codes, receipts : 0 .. MaxNonce + 1] \cup {NoStatus}

\* atomic: the request's atomicRequired.  sent: the transaction of the batch
\* that is being sent or was sent last.
Runs == [at : {"idle", "nonce", "broadcast", "wait", "throw", "done", "lost"},
         atomic : BOOLEAN, sent : 0 .. MaxNonce + 1, nonce : Nonces \cup {None}]

BatchTypeOK ==
    /\ run \in [Batches -> Runs]
    /\ memoryCache \in [Batches -> BatchStatus] /\ storage \in [Batches -> BatchStatus]
    /\ answer \in [Batches -> {"none", "id", "error"}]
    /\ \A b \in Batches : run[b].at \in {"nonce", "broadcast", "wait"}
                              => memoryCache[b].code = "Pending" /\ answer[b] = "none"

BatchInit ==
    /\ run = [b \in Batches |-> [at |-> "idle", atomic |-> FALSE, sent |-> 0, nonce |-> None]]
    /\ memoryCache = [b \in Batches |-> NoStatus]
    /\ storage = [b \in Batches |-> NoStatus]
    /\ answer = [b \in Batches |-> "none"]

-----------------------------------------------------------------------------
(* callBatchStore *)

\* setCallBatchStatus: the write to storage may fail, and nobody is told.
SetCallBatchStatus(b, s) ==
    /\ memoryCache' = [memoryCache EXCEPT ![b] = s]
    /\ storage' \in {storage, [storage EXCEPT ![b] = s]}

\* getCallBatchStatus: what the site or the user is shown.
Observed(b) == IF memoryCache[b] # NoStatus THEN memoryCache[b] ELSE storage[b]

\* wallet_getCallsStatus caches what it read from storage.
GetCallsStatus(b) ==
    /\ memoryCache' = [memoryCache EXCEPT ![b] = Observed(b)]
    /\ UNCHANGED <<run, storage, answer, chain>>

-----------------------------------------------------------------------------
(* executeWalletSendCalls *)

Tx(b) == <<b, run[b].sent>>

\* The execution throws, and `catch` goes on after the awaits in between.
Throw(b) == run' = [run EXCEPT ![b].at = "throw", ![b].nonce = None]

\* Mutant of Catch: whatever the batch's status is, it becomes reverted.
CatchAll(b) ==
    /\ run[b].at = "throw"
    /\ SetCallBatchStatus(b, [code |-> "Reverted", receipts |-> 0])
    /\ run' = [run EXCEPT ![b].at = "done"]
    /\ answer' = [answer EXCEPT ![b] = "error"]
    /\ UNCHANGED chain

\* The catch: only a batch that is still pending becomes reverted, with the
\* receipts its status already lists, which are none while it is pending.
Catch(b) ==
    /\ run[b].at = "throw"
    /\ IF Observed(b).code = "Pending"
       THEN SetCallBatchStatus(b, [code |-> "Reverted", receipts |-> 0])
       ELSE UNCHANGED <<memoryCache, storage>>
    /\ run' = [run EXCEPT ![b].at = "done"]
    /\ answer' = [answer EXCEPT ![b] = "error"]
    /\ UNCHANGED chain

\* Mutant of Start: the batch is not stored before its first transaction.
StartUnstored(b) ==
    /\ run[b].at = "idle"
    /\ \E atomic \in BOOLEAN, first \in {1, 2} :
          /\ first = 2 => atomic    \* the account is delegated
          /\ run' = [run EXCEPT ![b] = [at |-> "nonce", atomic |-> atomic, sent |-> first, nonce |-> None]]
    /\ UNCHANGED <<memoryCache, storage, answer, chain>>

Start(b) ==
    /\ run[b].at = "idle"
    /\ \E atomic \in BOOLEAN, first \in {1, 2} :
          /\ first = 2 => atomic    \* the account is delegated
          /\ run' = [run EXCEPT ![b] = [at |-> "nonce", atomic |-> atomic, sent |-> first, nonce |-> None]]
    /\ SetCallBatchStatus(b, [code |-> "Pending", receipts |-> 0])
    /\ UNCHANGED <<answer, chain>>

\* sendTransaction populates the transaction: the nonce comes after the mined
\* and the pooled ones, and other batches may read it before this one is sent.
ReadNonce(b) ==
    /\ run[b].at = "nonce"
    /\ \E n \in Nonces :
          IsPendingNonce(n) /\ run' = [run EXCEPT ![b].at = "broadcast", ![b].nonce = n]
    /\ UNCHANGED <<memoryCache, storage, answer, chain>>

Broadcast(b) ==
    /\ run[b].at = "broadcast"
    /\ NodeTakes(Tx(b), run[b].nonce)
    /\ run' = [run EXCEPT ![b].at = "wait", ![b].nonce = None]
    /\ UNCHANGED <<memoryCache, storage, answer>>

\* The node refuses the nonce, an estimate fails, or the node is not reached.
SendFails(b) ==
    /\ run[b].at \in {"nonce", "broadcast"}
    /\ Throw(b)
    /\ UNCHANGED <<memoryCache, storage, answer, chain>>

\* The node takes the transaction and its reply is lost.
SendReplyLost(b) ==
    /\ run[b].at = "broadcast"
    /\ NodeTakes(Tx(b), run[b].nonce)
    /\ Throw(b)
    /\ UNCHANGED <<memoryCache, storage, answer>>

LastTx(b) == IF run[b].atomic THEN 2 ELSE Length[b]

\* The next call, or the end of the batch.
Proceed(b) ==
    IF run[b].sent < LastTx(b)
    THEN /\ run' = [run EXCEPT ![b].at = "nonce", ![b].sent = @ + 1]
         /\ UNCHANGED <<memoryCache, storage, answer, chain>>
    ELSE /\ SetCallBatchStatus(b, [code |-> "Confirmed",
                                   receipts |-> IF run[b].atomic THEN 1 ELSE Length[b]])
         /\ run' = [run EXCEPT ![b].at = "done"]
         /\ answer' = [answer EXCEPT ![b] = "id"]
         /\ UNCHANGED chain

\* A receipt of success.
WaitSucceeds(b) ==
    /\ run[b].at = "wait" /\ Tx(b) \in chain.succeeded
    /\ Proceed(b)

\* After the transaction that delegates, only the account's code is looked at.
DelegatedAllTheSame(b) ==
    /\ run[b].at = "wait" /\ run[b].atomic /\ run[b].sent = 1
    /\ Tx(b) \in chain.reverted
    /\ Proceed(b)

\* Mutant of Partial: the comparison of the branch without a receipt, which
\* counts one receipt less than the branch with a reverted one.
PartialFromOne(b) == IF run[b].sent > 0 THEN "PartialRevert" ELSE "Reverted"

\* Earlier calls of the batch had a receipt of success.
Partial(b) == IF run[b].sent > 1 THEN "PartialRevert" ELSE "Reverted"

\* Mutant of WaitTellsRevert: the status of the receipt is not looked at.
WaitTellsRevertUnread(b) ==
    /\ run[b].at = "wait" /\ ~ run[b].atomic /\ Tx(b) \in chain.reverted
    /\ Proceed(b)

\* A receipt of a reverted transaction; the status is written before the
\* error is thrown, so the catch leaves it.
WaitTellsRevert(b) ==
    /\ run[b].at = "wait" /\ ~ run[b].atomic /\ Tx(b) \in chain.reverted
    /\ SetCallBatchStatus(b, [code |-> Partial(b), receipts |-> run[b].sent])
    /\ Throw(b)
    /\ UNCHANGED <<answer, chain>>

WaitMissing(b) ==
    /\ run[b].at = "wait" /\ ~ run[b].atomic
    /\ SetCallBatchStatus(b, [code |-> Partial(b), receipts |-> run[b].sent - 1])
    /\ Throw(b)
    /\ UNCHANGED <<answer, chain>>

\* The wait rejects: reverted, replaced in the pool, or the node is gone.
WaitRejects(b) ==
    /\ run[b].at = "wait"
    /\ Throw(b)
    /\ UNCHANGED <<memoryCache, storage, answer, chain>>

-----------------------------------------------------------------------------
(* The service worker *)

\* The executions and the memory are gone; storage has what reached it.  The
\* page's request is not answered by anyone.
BatchRestart ==
    /\ run' = [b \in Batches |-> IF run[b].at \in {"nonce", "broadcast", "wait", "throw"}
                                 THEN [run[b] EXCEPT !.at = "lost", !.nonce = None] ELSE run[b]]
    /\ memoryCache' = [b \in Batches |-> NoStatus]
    /\ UNCHANGED <<storage, answer>>

BatchNext ==
    \E b \in Batches :
        \/ Start(b) \/ ReadNonce(b) \/ Broadcast(b) \/ SendFails(b) \/ SendReplyLost(b)
        \/ WaitSucceeds(b) \/ DelegatedAllTheSame(b) \/ WaitTellsRevert(b) \/ WaitMissing(b)
        \/ WaitRejects(b) \/ Catch(b) \/ GetCallsStatus(b)
=============================================================================
