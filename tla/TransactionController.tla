------------------------ MODULE TransactionController ------------------------
(***************************************************************************)
(* src/controller/TransactionController.tsx: the life of a transaction a   *)
(* site asks for, from addTransaction through the user's approval, the     *)
(* nonce, the signature and the broadcast to the answer.  One account on   *)
(* one chain; the stretches of code between two awaits are the actions.    *)
(*                                                                         *)
(* The approval of transaction t is the promise t of ApprovalPromise, the  *)
(* specification ApprovalController implements.  Transactions are excluded *)
(* from its rate limit and expect a result, so none is replaced.           *)
(***************************************************************************)
EXTENDS Filter, FiniteSets

CONSTANTS
    Calls,          \* calls of addTransaction, one per delivered site request
    Actions,        \* actionIds: the sites' request ids
    ActionOf,       \* the actionId a call carries; a replay carries the same
    TxIds,          \* random() ids of new transactions
    SiteNonces,     \* nonces a site may ask for, and None
    MaxNonce,       \* bound of the account's nonces
    SignOutcomes,   \* what `sign` may do, of "signed", "error" and "empty"
    MaxRestarts,    \* bound of service worker restarts
    None

ASSUME ConstantsOK ==
    /\ ActionOf \in [Calls -> Actions]
    /\ MaxNonce \in Nat /\ MaxRestarts \in Nat
    /\ SiteNonces \subseteq (0 .. MaxNonce) \cup {None}
    /\ SignOutcomes \subseteq {"signed", "error", "empty"}
    /\ None \notin Actions \cup TxIds \cup Nat

VARIABLES
    rpcTransactions,    \* ids of the stored transactions, oldest first
    meta,               \* their TransactionMeta: status, nonce, actionId
    approval,           \* the approval promise of each transaction
    mutex,              \* holder and waiters of `mutex`, the holder first
    stage,              \* how far processApproval has come with a transaction
    signAbortCallbacks, \* transactions with an abort callback
    call,               \* what each call waits for or was answered
    node,               \* the chain as its node shows it
    persisted,          \* rpcTransactions and meta as last written to storage
    restarts

controller == <<rpcTransactions, meta, approval, mutex, stage, signAbortCallbacks>>
vars == <<controller, call, node, persisted, restarts>>

Nonces == 0 .. MaxNonce
Statuses == {"none", "unapproved", "approved", "signed", "submitted",
             "failed", "rejected", "lost"}
Stages == {"none", "approval", "mutex", "signing", "publishing", "done"}
Answers == {"hash", "failed", "userRejected", "unknownProblem"}

Metas == [status : Statuses, nonce : Nonces \cup {None}, actionId : Actions \cup {None}]
CallRecords == [state : {"idle", "waiting", "lost"} \cup Answers,
                tx : TxIds \cup {None}, processes : BOOLEAN]
Nodes == [mined : 0 .. MaxNonce + 1, pool : [Nonces -> TxIds \cup {None}], seen : SUBSET TxIds]
NoMeta == [status |-> "none", nonce |-> None, actionId |-> None]

AP == INSTANCE ApprovalPromise WITH Ids <- TxIds, status <- approval

TypeOK ==
    /\ rpcTransactions \in Seq(TxIds) /\ IsInjective(rpcTransactions)
    /\ meta \in [TxIds -> Metas]
    /\ approval \in [TxIds -> AP!Status]
    /\ mutex \in Seq(TxIds) /\ IsInjective(mutex)
    /\ stage \in [TxIds -> Stages]
    /\ signAbortCallbacks \subseteq TxIds
    /\ call \in [Calls -> CallRecords]
    /\ node \in Nodes
    /\ persisted \in [txs : Seq(TxIds), meta : [TxIds -> Metas]]
    /\ IsInjective(persisted.txs)
    /\ restarts \in 0 .. MaxRestarts

Init ==
    /\ rpcTransactions = <<>>
    /\ meta = [t \in TxIds |-> NoMeta]
    /\ AP!Init
    /\ mutex = <<>>
    /\ stage = [t \in TxIds |-> "none"]
    /\ signAbortCallbacks = {}
    /\ call = [p \in Calls |-> [state |-> "idle", tx |-> None, processes |-> FALSE]]
    /\ node = [mined |-> 0, pool |-> [n \in Nonces |-> None], seen |-> {}]
    /\ persisted = [txs |-> <<>>, meta |-> [t \in TxIds |-> NoMeta]]
    /\ restarts = 0

-----------------------------------------------------------------------------
(* Helpers *)

\* Mutant of isFinalState: a signed transaction counts as final.
isFinalStateEarly(s) == s \in {"signed", "rejected", "confirmed", "failed"}

isFinalState(s) == s \in {"rejected", "confirmed", "failed"}

\* trimTransactionsForState walks from the newest: a transaction stays when it
\* is not final, or when a newer one that is not final has the same key.  On
\* one chain and one day the key is the nonce.
trimTransactionsForState(txs, m) ==
    LET kept(i) == \/ ~isFinalState(m[txs[i]].status)
                   \/ \E j \in i + 1 .. Len(txs) :
                         /\ ~isFinalState(m[txs[j]].status)
                         /\ m[txs[j]].nonce = m[txs[i]].nonce
        keptTxs == {txs[i] : i \in {k \in DOMAIN txs : kept(k)}}
    IN  Filtered(txs, keptTxs)

\* Mutant of WithActionId: only transactions the user has not decided on.
WithActionIdUnapproved(a) ==
    {t \in ToSet(rpcTransactions) : meta[t].actionId = a /\ meta[t].status = "unapproved"}

\* The stored transactions with an actionId (at most one, see below).
WithActionId(a) == {t \in ToSet(rpcTransactions) : meta[t].actionId = a}

\* Mutant of Finished: processApproval returns the status it waited for.
FinishedUnmapped(t, outcome) ==
    [p \in Calls |->
        IF call[p].state = "waiting" /\ call[p].tx = t
        THEN [call[p] EXCEPT !.state = outcome] ELSE call[p]]

\* The event `<t>:finished` reaches every call that waits for it.  The call
\* that processes t maps the outcome by processApproval's switch or by its
\* catch; for a call that only waits, "rejected" is an unknown problem.
Finished(t, outcome) ==
    [p \in Calls |->
        IF call[p].state = "waiting" /\ call[p].tx = t
        THEN [call[p] EXCEPT !.state =
                CASE outcome = "submitted" -> "hash"
                  [] outcome = "failed" -> "failed"
                  [] outcome = "rejected" /\ call[p].processes -> "userRejected"
                  [] OTHER -> "unknownProblem"]
        ELSE call[p]]

\* Mutant of HoldsMutex: `acquire` does not wait.
HoldsMutexAny(t) == t \in ToSet(mutex)

\* Mutant of Released: the mutex is not released.
ReleasedNever(t) == mutex

HoldsMutex(t) == mutex # <<>> /\ Head(mutex) = t

\* The `finally` of approveTransaction releases the mutex to the next waiter.
Released(t) == IF HoldsMutex(t) THEN Tail(mutex) ELSE mutex

\* Mutant of Fail: the `finished` event is not fired.
FailSilently(t) ==
    /\ meta' = [meta EXCEPT ![t].status = "failed"]
    /\ call' = call
    /\ stage' = [stage EXCEPT ![t] = "done"]
    /\ mutex' = Released(t)

\* failTransaction, then the `finally`.
Fail(t) ==
    /\ meta' = [meta EXCEPT ![t].status = "failed"]
    /\ call' = Finished(t, "failed")
    /\ stage' = [stage EXCEPT ![t] = "done"]
    /\ mutex' = Released(t)

-----------------------------------------------------------------------------
(* The site's requests *)

\* random() gives ids nobody used; which one is immaterial, so any fixed order
\* of use stands for all of them.
IsNewId(t) ==
    /\ meta[t].status = "none"
    /\ t = CHOOSE u \in TxIds : meta[u].status = "none"

\* addTransaction of a new actionId: stored as unapproved, and processApproval
\* asks the user.  n is the nonce the site gave, if any.
AddTransaction(p, t, n) ==
    /\ call[p].state = "idle"
    /\ WithActionId(ActionOf[p]) = {}
    /\ IsNewId(t)
    /\ meta' = [meta EXCEPT ![t] =
           [status |-> "unapproved", nonce |-> n, actionId |-> ActionOf[p]]]
    /\ rpcTransactions' = trimTransactionsForState(Append(rpcTransactions, t), meta')
    /\ AP!Open(t, {})
    /\ stage' = [stage EXCEPT ![t] = "approval"]
    /\ call' = [call EXCEPT ![p] = [state |-> "waiting", tx |-> t, processes |-> TRUE]]
    /\ UNCHANGED <<mutex, signAbortCallbacks, node, persisted, restarts>>

\* Mutant of JoinExisting: "signed" counts as a local final state.
JoinExistingSigned(p, t) ==
    /\ call[p].state = "idle"
    /\ t \in WithActionId(ActionOf[p])
    /\ call' = [call EXCEPT ![p] =
           [state |-> CASE meta[t].status \in {"signed", "submitted"} -> "hash"
                        [] meta[t].status = "failed" -> "failed"
                        [] OTHER -> "waiting",
            tx |-> t, processes |-> FALSE]]
    /\ UNCHANGED <<controller, node, persisted, restarts>>

\* addTransaction of an actionId that is stored: the call only waits for the
\* transaction to finish, or answers at once when it has.
JoinExisting(p, t) ==
    /\ call[p].state = "idle"
    /\ t \in WithActionId(ActionOf[p])
    /\ call' = [call EXCEPT ![p] =
           [state |-> CASE meta[t].status = "submitted" -> "hash"
                        [] meta[t].status = "failed" -> "failed"
                        [] OTHER -> "waiting",
            tx |-> t, processes |-> FALSE]]
    /\ UNCHANGED <<controller, node, persisted, restarts>>

-----------------------------------------------------------------------------
(* The user's decision *)

\* The window accepts: processApproval stores the window's copy of the
\* transaction and queues for the mutex.
Accept(t) ==
    /\ stage[t] = "approval"
    /\ AP!Resolve(t)
    /\ stage' = [stage EXCEPT ![t] = "mutex"]
    /\ mutex' = Append(mutex, t)
    /\ UNCHANGED <<rpcTransactions, meta, signAbortCallbacks, call, node,
                   persisted, restarts>>

\* The window's copy does not pass validateTxParams: the transaction fails.
AcceptInvalid(t) ==
    /\ stage[t] = "approval"
    /\ AP!Resolve(t)
    /\ Fail(t)
    /\ UNCHANGED <<rpcTransactions, signAbortCallbacks, node, persisted, restarts>>

\* The window rejects: cancelRpcTransaction removes the transaction.
RejectByUser(t) ==
    /\ stage[t] = "approval"
    /\ AP!Reject({t})
    /\ meta' = [meta EXCEPT ![t].status = "rejected"]
    /\ rpcTransactions' = trimTransactionsForState(
           Filtered(rpcTransactions, TxIds \ {t}), meta')
    /\ call' = Finished(t, "rejected")
    /\ stage' = [stage EXCEPT ![t] = "done"]
    /\ UNCHANGED <<mutex, signAbortCallbacks, node, persisted, restarts>>

-----------------------------------------------------------------------------
(* approveTransaction *)

\* getNextNonce: the site's nonce, or the number of mined transactions.
NextNonce(t) == IF meta[t].nonce # None THEN meta[t].nonce ELSE node.mined

\* The mutex is acquired, the nonce read and stored, and `sign` called.
StartSigning(t) ==
    /\ stage[t] = "mutex" /\ HoldsMutex(t)
    /\ NextNonce(t) \in Nonces
    /\ meta' = [meta EXCEPT ![t].nonce = NextNonce(t), ![t].status = "approved"]
    /\ stage' = [stage EXCEPT ![t] = "signing"]
    /\ signAbortCallbacks' = signAbortCallbacks \cup {t}
    /\ UNCHANGED <<rpcTransactions, approval, mutex, call, node, persisted, restarts>>

\* The node does not answer the nonce query.
NonceFails(t) ==
    /\ stage[t] = "mutex" /\ HoldsMutex(t)
    /\ Fail(t)
    /\ UNCHANGED <<rpcTransactions, approval, signAbortCallbacks, node,
                   persisted, restarts>>

\* `sign` returns: the signature is stored and the broadcast sent.
Sign(t) ==
    /\ stage[t] = "signing" /\ "signed" \in SignOutcomes
    /\ meta' = [meta EXCEPT ![t].status = "signed"]
    /\ stage' = [stage EXCEPT ![t] = "publishing"]
    /\ signAbortCallbacks' = signAbortCallbacks \ {t}
    /\ UNCHANGED <<rpcTransactions, approval, mutex, call, node, persisted, restarts>>

\* `sign` throws; the abort callback stays behind.
SignFails(t) ==
    /\ stage[t] = "signing" /\ "error" \in SignOutcomes
    /\ Fail(t)
    /\ UNCHANGED <<rpcTransactions, approval, signAbortCallbacks, node,
                   persisted, restarts>>

\* `sign` returns nothing: approveTransaction returns NotApproved and no
\* `finished` event is fired.
SignEmpty(t) ==
    /\ stage[t] = "signing" /\ "empty" \in SignOutcomes
    /\ stage' = [stage EXCEPT ![t] = "done"]
    /\ mutex' = Released(t)
    /\ signAbortCallbacks' = signAbortCallbacks \ {t}
    /\ UNCHANGED <<rpcTransactions, meta, approval, call, node, persisted, restarts>>

\* abortTransactionSigning: the pending `sign` is rejected.  A callback that a
\* failed signature left behind has nothing to reject any more.
AbortTransactionSigning(t) ==
    /\ t \in ToSet(rpcTransactions) /\ t \in signAbortCallbacks
    /\ signAbortCallbacks' = signAbortCallbacks \ {t}
    /\ IF stage[t] = "signing" THEN Fail(t) ELSE UNCHANGED <<meta, call, stage, mutex>>
    /\ UNCHANGED <<rpcTransactions, approval, node, persisted, restarts>>

\* The node takes a transaction whose nonce is not mined; one that is pending
\* with the same nonce is replaced.
NodeTakes(t) ==
    /\ meta[t].nonce >= node.mined
    /\ node' = [node EXCEPT !.pool[meta[t].nonce] = t, !.seen = @ \cup {t}]

\* broadcastTransaction returns the hash.
Publish(t) ==
    /\ stage[t] = "publishing"
    /\ NodeTakes(t)
    /\ meta' = [meta EXCEPT ![t].status = "submitted"]
    /\ call' = Finished(t, "submitted")
    /\ stage' = [stage EXCEPT ![t] = "done"]
    /\ mutex' = Released(t)
    /\ UNCHANGED <<rpcTransactions, approval, signAbortCallbacks, persisted, restarts>>

\* broadcastTransaction throws: the node refused the transaction, or took it
\* and its reply was lost.
PublishFails(t) ==
    /\ stage[t] = "publishing"
    /\ NodeTakes(t) \/ UNCHANGED node
    /\ Fail(t)
    /\ UNCHANGED <<rpcTransactions, approval, signAbortCallbacks, persisted, restarts>>

-----------------------------------------------------------------------------
(* The chain, storage and the service worker *)

Mine ==
    /\ node.mined \in Nonces /\ node.pool[node.mined] # None
    /\ node' = [node EXCEPT !.mined = @ + 1]
    /\ UNCHANGED <<controller, call, persisted, restarts>>

\* The debounced pipeline, or the end of a window's call, writes the state.
Persist ==
    /\ restarts < MaxRestarts
    /\ persisted # [txs |-> rpcTransactions, meta |-> meta]
    /\ persisted' = [txs |-> rpcTransactions, meta |-> meta]
    /\ UNCHANGED <<controller, call, node, restarts>>

Remembered(t) ==
    CASE persisted.meta[t].status # "none" -> persisted.meta[t]
      [] meta[t].status = "none" -> NoMeta
      [] OTHER -> [meta[t] EXCEPT !.status = "lost"]

\* What memory held is gone.
MemoryLost ==
    /\ approval' = [t \in TxIds |->
           IF approval[t] = "open" THEN "abandoned" ELSE approval[t]]
    /\ mutex' = <<>>
    /\ signAbortCallbacks' = {}
    /\ call' = [p \in Calls |->
           IF call[p].state = "waiting" THEN [call[p] EXCEPT !.state = "lost"] ELSE call[p]]

\* Mutant of Restart: stored transactions go on as if the user had accepted.
RestartResuming ==
    /\ restarts < MaxRestarts
    /\ restarts' = restarts + 1
    /\ rpcTransactions' = persisted.txs
    /\ meta' = [t \in TxIds |-> Remembered(t)]
    /\ mutex' = persisted.txs
    /\ signAbortCallbacks' = {}
    /\ call' = [p \in Calls |->
           IF call[p].state = "waiting" THEN [call[p] EXCEPT !.state = "lost"] ELSE call[p]]
    /\ stage' = [t \in TxIds |-> IF t \in ToSet(persisted.txs) THEN "mutex" ELSE stage[t]]
    /\ UNCHANGED <<approval, node, persisted>>

\* The browser stops the service worker and starts it again: memory is gone,
\* the stored transactions are what was last written.  The content script has
\* the page send its unanswered requests again, as further calls.
Restart ==
    /\ restarts < MaxRestarts
    /\ restarts' = restarts + 1
    /\ rpcTransactions' = persisted.txs
    /\ meta' = [t \in TxIds |-> Remembered(t)]
    /\ MemoryLost
    /\ stage' = [t \in TxIds |-> IF stage[t] = "none" THEN "none" ELSE "done"]
    /\ UNCHANGED <<node, persisted>>

-----------------------------------------------------------------------------
Pipeline(t) ==
    \/ StartSigning(t) \/ NonceFails(t)
    \/ Sign(t) \/ SignFails(t) \/ SignEmpty(t)
    \/ Publish(t) \/ PublishFails(t)

Next ==
    \/ \E p \in Calls, t \in TxIds, n \in SiteNonces : AddTransaction(p, t, n)
    \/ \E p \in Calls, t \in TxIds : JoinExisting(p, t)
    \/ \E t \in TxIds : Accept(t) \/ AcceptInvalid(t) \/ RejectByUser(t)
    \/ \E t \in TxIds : Pipeline(t)
    \/ \E t \in TxIds : AbortTransactionSigning(t)
    \/ Mine
    \/ Persist
    \/ Restart

Spec == Init /\ [][Next]_vars

\* The node and the keyring answer, so a transaction that has its turn moves on.
FairSpec == Spec /\ \A t \in TxIds : WF_vars(Pipeline(t))

-----------------------------------------------------------------------------
(* Properties *)

InPipeline(t) == stage[t] \in {"approval", "mutex", "signing", "publishing"}

\* `sign` returned nothing: processApproval ended without firing `finished`.
EmptySignature(t) == stage[t] = "done" /\ meta[t].status = "approved"

\* No call waits for a `finished` event that nobody is left to fire: the call
\* that processes its transaction is still on its way, unless `sign` returned
\* nothing or the service worker has restarted since (see ReplayHasProcessor).
WaiterHasProcessor ==
    restarts = 0 =>
        \A p \in Calls : call[p].state = "waiting" =>
            InPipeline(call[p].tx) \/ EmptySignature(call[p].tx)

\* The same with restarts.  Contradicted by the code: "This is used as a
\* notification to replay any pending messages in MV3." (ContentScript.tsx:179).
\* The replayed call finds its transaction stored and waits for it, but the
\* restart has ended its processing.
ReplayHasProcessor ==
    \A p \in Calls : call[p].state = "waiting" => InPipeline(call[p].tx)

\* A transaction in processing is stored and unfinished, whatever trimming,
\* rejections and failures of others do meanwhile.  approveTransaction needs
\* it: getTransactionOrThrow runs after mutex.acquire and outside the try, and
\* if it threw the mutex would stay locked.
ProcessedIsStored ==
    \A t \in TxIds : InPipeline(t) =>
        /\ t \in ToSet(rpcTransactions)
        /\ meta[t].status \in {"unapproved", "approved", "signed"}

\* What the mutex is for: between the moment a transaction reads its nonce and
\* the end of its broadcast, no other one reaches the node.
NonceToBroadcastIsExclusive ==
    [][\A t \in TxIds :
        stage[t] \in {"signing", "publishing"} /\ stage'[t] # "done"
            => node'.pool = node.pool]_vars

\* Nothing reaches the node that the user did not accept, even across restarts.
OnlyAcceptedReachTheNode ==
    \A t \in node.seen : approval[t] = "resolved"

\* The answers given to a site are true: a hash is of a transaction the node
\* took, and a refusal by the user means the node never saw it.
AnswersAreTrue ==
    \A p \in Calls :
        /\ call[p].state = "hash" => call[p].tx \in node.seen
        /\ call[p].state \in {"userRejected", "unknownProblem"}
               => call[p].tx \notin node.seen

\* actionId "to prevent duplicate requests": one request reaches the node as
\* two transactions only when the first was reported as failed (its broadcast
\* threw), or was lost unsaved in a restart.
ResentOnlyAfterFailure ==
    \A t, u \in node.seen :
        t # u /\ meta[t].actionId = meta[u].actionId
            => meta[t].status \in {"failed", "lost"} \/ meta[u].status \in {"failed", "lost"}

\* Once the user accepted, every call that waits for the transaction is
\* answered, also those behind other transactions that fail or are aborted,
\* unless `sign` returned nothing or the service worker stops.
AcceptedIsAnswered ==
    \A p \in Calls :
        (restarts = 0 /\ call[p].state = "waiting" /\ approval[call[p].tx] = "resolved")
            ~> \/ call[p].state # "waiting"
               \/ EmptySignature(call[p].tx)
               \/ restarts > 0

\* Contradicted by the code: "Use `pending` so the next nonce includes txs
\* already in the mempool (`latest` would repeat nonce 0)."
\* (TransactionController.tsx:1647); getNextNonce counts mined transactions.
SubmittedNoncesDiffer ==
    \A t, u \in TxIds :
        t # u /\ meta[t].status = "submitted" /\ meta[u].status = "submitted"
            => meta[t].nonce # meta[u].nonce
=============================================================================
