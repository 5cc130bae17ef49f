---------------------- MODULE TransactionControllerProofs ----------------------
(***************************************************************************)
(* Theorems about TransactionController, for all sets of calls, requests   *)
(* and transactions, any number of restarts and all that `sign` may do.    *)
(***************************************************************************)
EXTENDS TransactionController, FilterProofs

-----------------------------------------------------------------------------
(* The inductive invariant *)

\* The transaction will not be sent any more, or not by this wallet's doing.
Dead(m, t) == m[t].status \in {"failed", "rejected", "lost"}

\* What is true of the stored transactions, and of any earlier copy of them:
\* one that is alive is stored, and of one actionId at most one is; a status
\* tells what the node and the user have done.
Snapshot(txs, m, seen, promises) ==
    /\ \A t \in ToSet(txs) : m[t].status \notin {"none", "rejected", "lost"}
    /\ \A t \in TxIds :
          /\ m[t].status # "none" /\ ~Dead(m, t) => t \in ToSet(txs)
          /\ m[t].status = "submitted" => t \in seen
          /\ m[t].status = "rejected" => promises[t] = "rejected"
    /\ \A t, u \in TxIds :
          t # u /\ m[t].status # "none" /\ m[u].status # "none"
            /\ m[t].actionId = m[u].actionId
                => Dead(m, t) \/ Dead(m, u)

\* An id nobody used is nowhere.
UnusedIsNew ==
    \A t \in TxIds : meta[t].status = "none" =>
        /\ stage[t] = "none" /\ approval[t] = "unmade"
        /\ t \notin node.seen
        /\ persisted.meta[t].status = "none"

\* How far a transaction has come agrees with its approval, its status and
\* its place at the mutex.
StagesAgree ==
    \A t \in TxIds :
        /\ stage[t] = "none" => meta[t].status = "none"
        /\ stage[t] = "approval" => approval[t] = "open" /\ meta[t].status = "unapproved"
        /\ stage[t] = "mutex" => meta[t].status = "unapproved"
        /\ stage[t] = "signing" => meta[t].status = "approved"
        /\ stage[t] = "publishing" => meta[t].status = "signed"
        /\ stage[t] \in {"mutex", "signing", "publishing"}
               => approval[t] = "resolved" /\ t \in ToSet(mutex)
        /\ stage[t] \in {"signing", "publishing"} => HoldsMutex(t)
        /\ t \in ToSet(mutex) => stage[t] \in {"mutex", "signing", "publishing"}

\* Before the first restart, a transaction whose processing ended has a final
\* status, or `sign` returned nothing.
EndedIsFinal ==
    restarts = 0 => \A t \in TxIds :
        stage[t] = "done" => meta[t].status \in {"submitted", "failed", "rejected", "approved"}

\* What calls wait for, and why they were answered.
CallsAgree ==
    \A p \in Calls :
        /\ call[p].state # "idle" => call[p].tx \in TxIds
        /\ call[p].state = "hash" => call[p].tx \in node.seen
        /\ call[p].state \in {"userRejected", "unknownProblem"}
               => approval[call[p].tx] = "rejected"

IInv ==
    /\ TypeOK
    /\ Snapshot(rpcTransactions, meta, node.seen, approval)
    /\ Snapshot(persisted.txs, persisted.meta, node.seen, approval)
    /\ UnusedIsNew
    /\ StagesAgree
    /\ EndedIsFinal
    /\ CallsAgree
    /\ OnlyAcceptedReachTheNode
    /\ WaiterHasProcessor

-----------------------------------------------------------------------------
(* Snapshots *)

\* What the node has seen and what the user has rejected only grows.
LEMMA SnapshotStays ==
    ASSUME NEW txs, NEW m, NEW seen, NEW seen2, NEW promises, NEW promises2,
           Snapshot(txs, m, seen, promises),
           seen \subseteq seen2,
           \A t \in TxIds : promises[t] = "rejected" => promises2[t] = "rejected"
    PROVE  Snapshot(txs, m, seen2, promises2)
BY DEF Snapshot

\* A transaction that is alive moves on.
LEMMA SnapshotMoves ==
    ASSUME NEW txs, NEW m \in [TxIds -> Metas], NEW seen, NEW promises,
           Snapshot(txs, m, seen, promises),
           NEW t \in TxIds, NEW r \in Metas,
           m[t].status # "none", ~Dead(m, t), r.actionId = m[t].actionId,
           r.status \notin {"none", "rejected", "lost"},
           r.status = "submitted" => t \in seen
    PROVE  Snapshot(txs, [m EXCEPT ![t] = r], seen, promises)
<1> DEFINE n == [m EXCEPT ![t] = r]
<1>1. n[t] = r /\ \A u \in TxIds : u # t => n[u] = m[u]
  OBVIOUS
<1> HIDE DEF n
<1>2. \A u \in ToSet(txs) : n[u].status \notin {"none", "rejected", "lost"}
  <2>1. ASSUME NEW u \in ToSet(txs), u \notin TxIds PROVE n[u] = m[u]
    BY <2>1 DEF n
  <2> QED BY <1>1, <2>1 DEF Snapshot
<1>3. t \in ToSet(txs)
  BY DEF Snapshot
<1>4. \A u \in TxIds :
          /\ n[u].status # "none" /\ ~Dead(n, u) => u \in ToSet(txs)
          /\ n[u].status = "submitted" => u \in seen
          /\ n[u].status = "rejected" => promises[u] = "rejected"
  BY <1>1, <1>3 DEF Snapshot, Dead
<1>5. \A u, v \in TxIds :
          u # v /\ n[u].status # "none" /\ n[v].status # "none" /\ n[u].actionId = n[v].actionId
              => Dead(n, u) \/ Dead(n, v)
  BY <1>1 DEF Snapshot, Dead
<1> QED BY <1>2, <1>4, <1>5 DEF Snapshot, n

-----------------------------------------------------------------------------
(* The queue of the mutex and the calls *)

LEMMA ReleasedQueue ==
    ASSUME TypeOK, NEW t \in TxIds, HoldsMutex(t) \/ t \notin ToSet(mutex)
    PROVE  /\ Released(t) \in Seq(TxIds) /\ IsInjective(Released(t))
           /\ ToSet(Released(t)) = ToSet(mutex) \ {t}
<1>1. CASE HoldsMutex(t)
  BY <1>1, TailElements DEF TypeOK, HoldsMutex, Released
<1>2. CASE ~HoldsMutex(t)
  BY <1>2 DEF TypeOK, Released
<1> QED BY <1>1, <1>2

\* Every call that waits is answered; the others keep their answers.
LEMMA FinishedCalls ==
    ASSUME TypeOK, NEW t, NEW outcome \in {"submitted", "failed", "rejected"}
    PROVE  /\ Finished(t, outcome) \in [Calls -> CallRecords]
           /\ \A p \in Calls :
                 LET c == Finished(t, outcome)[p]
                 IN  IF call[p].state = "waiting" /\ call[p].tx = t
                     THEN /\ c.tx = t
                          /\ outcome = "submitted" => c.state = "hash"
                          /\ outcome = "failed" => c.state = "failed"
                          /\ outcome = "rejected"
                                 => c.state \in {"userRejected", "unknownProblem"}
                     ELSE c = call[p]
<1> DEFINE answer(p) == CASE outcome = "submitted" -> "hash"
                          [] outcome = "failed" -> "failed"
                          [] outcome = "rejected" /\ call[p].processes -> "userRejected"
                          [] OTHER -> "unknownProblem"
           c(p) == IF call[p].state = "waiting" /\ call[p].tx = t
                   THEN [call[p] EXCEPT !.state = answer(p)] ELSE call[p]
<1>1. ASSUME NEW p \in Calls
      PROVE  /\ answer(p) \in Answers
             /\ outcome = "submitted" => answer(p) = "hash"
             /\ outcome = "failed" => answer(p) = "failed"
             /\ outcome = "rejected" => answer(p) \in {"userRejected", "unknownProblem"}
  BY DEF Answers
<1> HIDE DEF answer
<1>2. ASSUME NEW p \in Calls
      PROVE  /\ c(p) \in CallRecords
             /\ IF call[p].state = "waiting" /\ call[p].tx = t
                THEN c(p).tx = t /\ c(p).state = answer(p) ELSE c(p) = call[p]
  BY <1>1 DEF TypeOK, CallRecords
<1>3. Finished(t, outcome) = [p \in Calls |-> c(p)]
  BY Zenon DEF Finished, answer
<1> HIDE DEF c
<1> QED BY <1>1, <1>2, <1>3

-----------------------------------------------------------------------------
(* The end of a transaction's processing *)

\* Whatever ends the processing of t, by Fail or by a successful broadcast.
LEMMA EndKeepsIInv ==
    ASSUME IInv, NEW t \in TxIds, NEW outcome \in {"submitted", "failed"},
           InPipeline(t), HoldsMutex(t) \/ stage[t] = "approval",
           meta' = [meta EXCEPT ![t].status = outcome],
           call' = Finished(t, outcome),
           stage' = [stage EXCEPT ![t] = "done"],
           mutex' = Released(t),
           UNCHANGED <<rpcTransactions, persisted, restarts>>,
           \/ approval' = approval
           \/ approval[t] = "open" /\ approval' = [approval EXCEPT ![t] = "resolved"],
           signAbortCallbacks' \subseteq TxIds,
           node' \in Nodes, node.seen \subseteq node'.seen, node'.seen \subseteq node.seen \cup {t},
           t \in node'.seen => approval'[t] = "resolved",
           outcome = "submitted" => t \in node'.seen
    PROVE  IInv'
<1> DEFINE r == [meta[t] EXCEPT !.status = outcome]
<1>1. /\ meta[t].status \in {"unapproved", "approved", "signed"}
      /\ meta[t] \in Metas /\ ~Dead(meta, t)
  BY DEF IInv, TypeOK, StagesAgree, InPipeline, Dead
<1>2. r \in Metas /\ r.status = outcome /\ r.actionId = meta[t].actionId
  BY <1>1 DEF Metas, Statuses
<1>3. meta' = [meta EXCEPT ![t] = r]
  OBVIOUS
<1> HIDE DEF r
<1>4. /\ meta' \in [TxIds -> Metas]
      /\ meta'[t].status = outcome
      /\ \A u \in TxIds : u # t => meta'[u] = meta[u]
  <2>1. meta \in [TxIds -> Metas]
    BY DEF IInv, TypeOK
  <2> QED BY <1>2, <1>3, <2>1
<1>5. /\ mutex' \in Seq(TxIds) /\ IsInjective(mutex')
      /\ ToSet(mutex') = ToSet(mutex) \ {t}
  BY ReleasedQueue DEF IInv, StagesAgree
<1>6. /\ call' \in [Calls -> CallRecords]
      /\ \A p \in Calls :
            IF call[p].state = "waiting" /\ call[p].tx = t
            THEN call'[p].tx = t /\ call'[p].state = (IF outcome = "submitted" THEN "hash" ELSE "failed")
            ELSE call'[p] = call[p]
  BY FinishedCalls DEF IInv
<1>7. /\ approval' \in [TxIds -> AP!Status]
      /\ \A u \in TxIds : u # t => approval'[u] = approval[u]
      /\ \A u \in TxIds : approval[u] \in {"rejected", "resolved"} => approval'[u] = approval[u]
  BY DEF IInv, TypeOK, AP!Status
<1>8. /\ stage' \in [TxIds -> Stages] /\ stage'[t] = "done"
      /\ \A u \in TxIds : u # t => stage'[u] = stage[u]
  BY DEF IInv, TypeOK, Stages
<1>9. TypeOK'
  BY <1>4, <1>5, <1>6, <1>7, <1>8 DEF IInv, TypeOK
<1>10. Snapshot(rpcTransactions, meta, node.seen, approval)'
  <2>1. Snapshot(rpcTransactions, meta, node'.seen, approval')
    BY <1>7, SnapshotStays DEF IInv
  <2>2. Snapshot(rpcTransactions, [meta EXCEPT ![t] = r], node'.seen, approval')
    BY <1>1, <1>2, <2>1, SnapshotMoves DEF IInv, TypeOK
  <2> QED BY <1>3, <2>2
<1>11. Snapshot(persisted.txs, persisted.meta, node.seen, approval)'
  BY <1>7, SnapshotStays DEF IInv
<1>12. UnusedIsNew'
  BY <1>1, <1>4, <1>7, <1>8 DEF IInv, UnusedIsNew
<1>13. StagesAgree'
  <2>1. ASSUME NEW u \in TxIds, u # t, HoldsMutex(u), stage[u] \in {"signing", "publishing"}
        PROVE  HoldsMutex(u)'
    <3>1. ~HoldsMutex(t)
      BY <2>1 DEF HoldsMutex
    <3> QED BY <2>1, <3>1 DEF HoldsMutex, Released
  <2> QED BY <1>4, <1>5, <1>7, <1>8, <2>1 DEF IInv, StagesAgree
<1>14. EndedIsFinal'
  BY <1>4, <1>8 DEF IInv, EndedIsFinal
<1>15. CallsAgree'
  BY <1>6, <1>7 DEF IInv, CallsAgree
<1>16. OnlyAcceptedReachTheNode'
  BY <1>7, <1>9 DEF IInv, OnlyAcceptedReachTheNode, TypeOK, Nodes
<1>17. WaiterHasProcessor'
  <2> SUFFICES ASSUME restarts = 0, NEW p \in Calls, call'[p].state = "waiting"
               PROVE  InPipeline(call[p].tx)' \/ EmptySignature(call[p].tx)'
    BY <1>6 DEF WaiterHasProcessor
  <2>1. call[p].state = "waiting" /\ call[p].tx # t /\ call[p].tx \in TxIds
    BY <1>6 DEF IInv, CallsAgree
  <2>2. InPipeline(call[p].tx) \/ EmptySignature(call[p].tx)
    BY <2>1 DEF IInv, WaiterHasProcessor
  <2> QED BY <1>4, <1>6, <1>8, <2>1, <2>2 DEF InPipeline, EmptySignature
<1> QED BY <1>9, <1>10, <1>11, <1>12, <1>13, <1>14, <1>15, <1>16, <1>17 DEF IInv

-----------------------------------------------------------------------------
(* The list of stored transactions *)

\* Trimming drops only transactions with a final status.
LEMMA TrimKeepsUnfinished ==
    ASSUME NEW txs \in Seq(TxIds), IsInjective(txs), NEW m
    PROVE  /\ trimTransactionsForState(txs, m) \in Seq(TxIds)
           /\ IsInjective(trimTransactionsForState(txs, m))
           /\ ToSet(trimTransactionsForState(txs, m)) \subseteq ToSet(txs)
           /\ \A t \in ToSet(txs) : ~isFinalState(m[t].status)
                  => t \in ToSet(trimTransactionsForState(txs, m))
<1> DEFINE kept(i) == \/ ~isFinalState(m[txs[i]].status)
                      \/ \E j \in i + 1 .. Len(txs) :
                            /\ ~isFinalState(m[txs[j]].status)
                            /\ m[txs[j]].nonce = m[txs[i]].nonce
           keptTxs == {txs[i] : i \in {k \in DOMAIN txs : kept(k)}}
<1>1. trimTransactionsForState(txs, m) = Filtered(txs, keptTxs)
  BY Zenon DEF trimTransactionsForState
<1>2. \A i \in DOMAIN txs : ~isFinalState(m[txs[i]].status) => kept(i)
  OBVIOUS
<1> HIDE DEF kept
<1>3. \A t \in ToSet(txs) : ~isFinalState(m[t].status) => t \in keptTxs
  BY <1>2 DEF ToSet
<1> HIDE DEF keptTxs
<1> QED BY <1>1, <1>3, FilteredProperties

-----------------------------------------------------------------------------
(* The initial state *)

LEMMA InitIInv == Init => IInv
<1> SUFFICES ASSUME Init PROVE IInv
  OBVIOUS
<1>1. /\ <<>> \in Seq(TxIds) /\ ToSet(<<>>) = {} /\ IsInjective(<<>>)
  BY EmptySeq DEF ToSet, IsInjective
<1>2. NoMeta \in Metas /\ NoMeta.status = "none"
  BY DEF NoMeta, Metas, Statuses
<1>3. [mined |-> 0, pool |-> [n \in Nonces |-> None], seen |-> {}] \in Nodes
  BY ConstantsOK DEF Nodes
<1>4. TypeOK
  <2>1. meta \in [TxIds -> Metas] /\ persisted \in [txs : Seq(TxIds), meta : [TxIds -> Metas]]
    BY <1>1, <1>2 DEF Init
  <2>2. call \in [Calls -> CallRecords]
    BY DEF Init, CallRecords
  <2>3. approval \in [TxIds -> AP!Status] /\ stage \in [TxIds -> Stages]
    BY DEF Init, AP!Init, AP!Status, Stages
  <2>4. /\ rpcTransactions = <<>> /\ mutex = <<>> /\ persisted.txs = <<>>
        /\ node \in Nodes /\ signAbortCallbacks = {} /\ restarts = 0
    BY <1>3 DEF Init
  <2>5. 0 \in 0 .. MaxRestarts
    BY ConstantsOK
  <2> QED BY <1>1, <2>1, <2>2, <2>3, <2>4, <2>5 DEF TypeOK
<1>5. /\ \A t \in TxIds : /\ meta[t].status = "none" /\ persisted.meta[t].status = "none"
                          /\ stage[t] = "none" /\ approval[t] = "unmade"
      /\ \A p \in Calls : call[p].state = "idle"
      /\ ToSet(rpcTransactions) = {} /\ ToSet(persisted.txs) = {} /\ ToSet(mutex) = {}
      /\ node.seen = {}
  BY <1>1, <1>2 DEF Init, AP!Init
<1>6. /\ Snapshot(rpcTransactions, meta, node.seen, approval)
      /\ Snapshot(persisted.txs, persisted.meta, node.seen, approval)
  BY <1>5 DEF Snapshot
<1> QED BY <1>4, <1>5, <1>6
        DEF IInv, UnusedIsNew, StagesAgree, EndedIsFinal, CallsAgree,
            OnlyAcceptedReachTheNode, WaiterHasProcessor

-----------------------------------------------------------------------------
(* The site's requests *)

LEMMA AddTransactionKeepsIInv ==
    ASSUME IInv, NEW p \in Calls, NEW t \in TxIds, NEW n \in SiteNonces,
           AddTransaction(p, t, n)
    PROVE  IInv'
<1> DEFINE r == [status |-> "unapproved", nonce |-> n, actionId |-> ActionOf[p]]
           txs == Append(rpcTransactions, t)
<1>1. r \in Metas
  BY ConstantsOK DEF Metas, Statuses, Nonces
<1>2. /\ meta[t].status = "none" /\ stage[t] = "none" /\ approval[t] = "unmade"
      /\ t \notin node.seen /\ persisted.meta[t].status = "none"
  BY DEF AddTransaction, IsNewId, IInv, UnusedIsNew
<1>3. /\ meta' \in [TxIds -> Metas] /\ meta'[t] = r
      /\ \A u \in TxIds : u # t => meta'[u] = meta[u]
  BY <1>1 DEF AddTransaction, IInv, TypeOK
<1>4. t \notin ToSet(rpcTransactions)
  BY <1>2 DEF IInv, Snapshot
<1>5. txs \in Seq(TxIds) /\ IsInjective(txs) /\ ToSet(txs) = ToSet(rpcTransactions) \cup {t}
  BY <1>4, AppendElements DEF IInv, TypeOK
<1> HIDE DEF txs
<1>6. /\ rpcTransactions' \in Seq(TxIds) /\ IsInjective(rpcTransactions')
      /\ ToSet(rpcTransactions') \subseteq ToSet(rpcTransactions) \cup {t}
      /\ \A u \in ToSet(rpcTransactions) \cup {t} :
            ~isFinalState(meta'[u].status) => u \in ToSet(rpcTransactions')
  <2>1. rpcTransactions' = trimTransactionsForState(txs, meta')
    BY DEF AddTransaction, txs
  <2> QED BY <1>5, <2>1, TrimKeepsUnfinished
<1>7. /\ approval' \in [TxIds -> AP!Status] /\ approval'[t] = "open"
      /\ \A u \in TxIds : u # t => approval'[u] = approval[u]
  BY DEF AddTransaction, IInv, TypeOK, AP!Open, AP!Status
<1>8. /\ stage' \in [TxIds -> Stages] /\ stage'[t] = "approval"
      /\ \A u \in TxIds : u # t => stage'[u] = stage[u]
  BY DEF AddTransaction, IInv, TypeOK, Stages
<1>9. /\ call' \in [Calls -> CallRecords]
      /\ call'[p].state = "waiting" /\ call'[p].tx = t
      /\ \A q \in Calls : q # p => call'[q] = call[q]
  BY DEF AddTransaction, IInv, TypeOK, CallRecords
<1>10. UNCHANGED <<mutex, signAbortCallbacks, node, persisted, restarts>>
  BY DEF AddTransaction
<1>11. TypeOK'
  BY <1>3, <1>6, <1>7, <1>8, <1>9, <1>10 DEF IInv, TypeOK
<1>12. Snapshot(rpcTransactions, meta, node.seen, approval)'
  <2>1. \A u \in ToSet(rpcTransactions) : u \in TxIds
    BY <1>5, <1>4, ElementOfSeq, LenProperties DEF IInv, TypeOK, ToSet
  <2>2. \A u \in ToSet(rpcTransactions') : meta'[u].status \notin {"none", "rejected", "lost"}
    BY <1>3, <1>6, <2>1 DEF IInv, Snapshot
  <2>3. \A u \in TxIds :
          /\ meta'[u].status # "none" /\ ~Dead(meta', u) => u \in ToSet(rpcTransactions')
          /\ meta'[u].status = "submitted" => u \in node'.seen
          /\ meta'[u].status = "rejected" => approval'[u] = "rejected"
    <3> SUFFICES ASSUME NEW u \in TxIds
                 PROVE  /\ meta'[u].status # "none" /\ ~Dead(meta', u)
                              => u \in ToSet(rpcTransactions')
                        /\ meta'[u].status = "submitted" => u \in node'.seen
                        /\ meta'[u].status = "rejected" => approval'[u] = "rejected"
      OBVIOUS
    <3>1. meta'[u].status \in Statuses
      BY <1>3 DEF Metas
    <3>2. ~Dead(meta', u) => ~isFinalState(meta'[u].status)
      BY <3>1 DEF Statuses, Dead, isFinalState
    <3>3. CASE u = t
      BY <1>3, <1>6, <3>2, <3>3
    <3>4. CASE u # t
      BY <1>3, <1>6, <1>7, <1>10, <3>2, <3>4 DEF IInv, Snapshot, Dead
    <3> QED BY <3>3, <3>4
  <2>4. \A u \in TxIds : u # t /\ meta[u].status # "none" /\ meta[u].actionId = ActionOf[p]
            => Dead(meta, u)
    BY DEF AddTransaction, WithActionId, IInv, Snapshot
  <2>5. \A u, v \in TxIds :
            u # v /\ meta'[u].status # "none" /\ meta'[v].status # "none"
              /\ meta'[u].actionId = meta'[v].actionId
                => Dead(meta', u) \/ Dead(meta', v)
    BY <1>3, <2>4 DEF IInv, Snapshot, Dead
  <2> QED BY <2>2, <2>3, <2>5 DEF Snapshot
<1>13. Snapshot(persisted.txs, persisted.meta, node.seen, approval)'
  BY <1>2, <1>7, <1>10, SnapshotStays DEF IInv
<1>14. UnusedIsNew'
  BY <1>3, <1>7, <1>8, <1>10 DEF IInv, UnusedIsNew
<1>15. StagesAgree'
  BY <1>2, <1>3, <1>7, <1>8, <1>10 DEF IInv, StagesAgree, HoldsMutex
<1>16. EndedIsFinal'
  BY <1>3, <1>8, <1>10 DEF IInv, EndedIsFinal
<1>17. CallsAgree'
  BY <1>2, <1>7, <1>9, <1>10 DEF IInv, CallsAgree
<1>18. OnlyAcceptedReachTheNode'
  BY <1>2, <1>7, <1>10, <1>11 DEF IInv, OnlyAcceptedReachTheNode, TypeOK, Nodes
<1>19. WaiterHasProcessor'
  BY <1>2, <1>3, <1>8, <1>9, <1>10
     DEF IInv, CallsAgree, WaiterHasProcessor, InPipeline, EmptySignature
<1> QED BY <1>11, <1>12, <1>13, <1>14, <1>15, <1>16, <1>17, <1>18, <1>19 DEF IInv

\* The elements of the list are transactions.
LEMMA StoredAreTransactions ==
    ASSUME TypeOK
    PROVE  ToSet(rpcTransactions) \subseteq TxIds /\ ToSet(mutex) \subseteq TxIds
BY ElementOfSeq, LenProperties DEF TypeOK, ToSet

LEMMA JoinExistingKeepsIInv ==
    ASSUME IInv, NEW p \in Calls, NEW t \in TxIds, JoinExisting(p, t)
    PROVE  IInv'
<1> DEFINE state == CASE meta[t].status = "submitted" -> "hash"
                      [] meta[t].status = "failed" -> "failed"
                      [] OTHER -> "waiting"
<1>1. /\ state \in {"hash", "failed", "waiting"}
      /\ state = "hash" => meta[t].status = "submitted"
      /\ state = "waiting" => meta[t].status \notin {"submitted", "failed"}
  OBVIOUS
<1>2. call' = [call EXCEPT ![p] = [state |-> state, tx |-> t, processes |-> FALSE]]
  BY Zenon DEF JoinExisting
<1> HIDE DEF state
<1>3. /\ call' \in [Calls -> CallRecords]
      /\ call'[p].state = state /\ call'[p].tx = t
      /\ \A q \in Calls : q # p => call'[q] = call[q]
  BY <1>1, <1>2 DEF IInv, TypeOK, CallRecords, Answers
<1>4. UNCHANGED <<controller, node, persisted, restarts>>
  BY DEF JoinExisting
<1>5. TypeOK'
  BY <1>3, <1>4 DEF controller, IInv, TypeOK
<1>6. CallsAgree'
  BY <1>1, <1>3, <1>4 DEF controller, IInv, CallsAgree, Snapshot
<1>7. WaiterHasProcessor'
  <2>1. t \in ToSet(rpcTransactions) /\ meta[t].status \notin {"none", "rejected", "lost"}
    BY DEF JoinExisting, WithActionId, IInv, Snapshot
  <2>2. ASSUME restarts = 0, state = "waiting" PROVE InPipeline(t) \/ EmptySignature(t)
    <3>1. stage[t] \in Stages
      BY DEF IInv, TypeOK
    <3> QED BY <1>1, <2>1, <2>2, <3>1
            DEF Stages, IInv, StagesAgree, EndedIsFinal, InPipeline, EmptySignature
  <2> QED BY <1>3, <1>4, <2>2
          DEF controller, IInv, WaiterHasProcessor, InPipeline, EmptySignature
<1> QED BY <1>4, <1>5, <1>6, <1>7
        DEF controller, IInv, Snapshot, Dead, UnusedIsNew, StagesAgree, HoldsMutex,
            EndedIsFinal, OnlyAcceptedReachTheNode

-----------------------------------------------------------------------------
(* The user's decision *)

LEMMA AcceptKeepsIInv ==
    ASSUME IInv, NEW t \in TxIds, Accept(t)
    PROVE  IInv'
<1>1. stage[t] = "approval" /\ approval[t] = "open" /\ meta[t].status = "unapproved"
  BY DEF Accept, IInv, StagesAgree
<1>2. t \notin ToSet(mutex)
  BY <1>1 DEF IInv, StagesAgree
<1>3. /\ mutex' \in Seq(TxIds) /\ IsInjective(mutex')
      /\ ToSet(mutex') = ToSet(mutex) \cup {t}
  BY <1>2, AppendElements DEF Accept, IInv, TypeOK
<1>4. ASSUME NEW u \in TxIds, HoldsMutex(u) PROVE HoldsMutex(u)'
  BY <1>4, AppendProperties, HeadTailProperties, EmptySeq DEF Accept, HoldsMutex, IInv, TypeOK
<1>5. /\ approval' \in [TxIds -> AP!Status] /\ approval'[t] = "resolved"
      /\ \A u \in TxIds : u # t => approval'[u] = approval[u]
  BY DEF Accept, IInv, TypeOK, AP!Resolve, AP!Status
<1>6. /\ stage' \in [TxIds -> Stages] /\ stage'[t] = "mutex"
      /\ \A u \in TxIds : u # t => stage'[u] = stage[u]
  BY DEF Accept, IInv, TypeOK, Stages
<1>7. UNCHANGED <<rpcTransactions, meta, signAbortCallbacks, call, node, persisted, restarts>>
  BY DEF Accept
<1>8. TypeOK'
  BY <1>3, <1>5, <1>6, <1>7 DEF IInv, TypeOK
<1>9. /\ Snapshot(rpcTransactions, meta, node.seen, approval)'
      /\ Snapshot(persisted.txs, persisted.meta, node.seen, approval)'
  BY <1>1, <1>5, <1>7, SnapshotStays DEF IInv
<1>10. StagesAgree'
  BY <1>1, <1>3, <1>4, <1>5, <1>6, <1>7 DEF IInv, StagesAgree
<1>11. WaiterHasProcessor'
  BY <1>6, <1>7 DEF IInv, CallsAgree, WaiterHasProcessor, InPipeline, EmptySignature
<1> QED BY <1>1, <1>5, <1>6, <1>7, <1>8, <1>9, <1>10, <1>11
        DEF IInv, UnusedIsNew, EndedIsFinal, CallsAgree, OnlyAcceptedReachTheNode, TypeOK, Nodes

LEMMA RejectKeepsIInv ==
    ASSUME IInv, NEW t \in TxIds, RejectByUser(t)
    PROVE  IInv'
<1> DEFINE others == Filtered(rpcTransactions, TxIds \ {t})
<1>1. /\ stage[t] = "approval" /\ approval[t] = "open" /\ meta[t].status = "unapproved"
      /\ t \notin node.seen
  BY DEF RejectByUser, IInv, StagesAgree, OnlyAcceptedReachTheNode
<1>2. /\ meta' \in [TxIds -> Metas] /\ meta'[t].status = "rejected"
      /\ \A u \in TxIds : u # t => meta'[u] = meta[u]
  <2>1. meta \in [TxIds -> Metas]
    BY DEF IInv, TypeOK
  <2>2. [meta[t] EXCEPT !.status = "rejected"] \in Metas
    BY <2>1 DEF Metas, Statuses
  <2>3. meta' = [meta EXCEPT ![t] = [meta[t] EXCEPT !.status = "rejected"]]
    BY DEF RejectByUser
  <2> QED BY <2>1, <2>2, <2>3
<1>3. /\ others \in Seq(TxIds) /\ IsInjective(others)
      /\ ToSet(others) = ToSet(rpcTransactions) \ {t}
  BY FilteredProperties, StoredAreTransactions DEF IInv, TypeOK
<1> HIDE DEF others
<1>4. /\ rpcTransactions' \in Seq(TxIds) /\ IsInjective(rpcTransactions')
      /\ ToSet(rpcTransactions') \subseteq ToSet(rpcTransactions) \ {t}
      /\ \A u \in ToSet(rpcTransactions) \ {t} :
            ~isFinalState(meta'[u].status) => u \in ToSet(rpcTransactions')
  <2>1. rpcTransactions' = trimTransactionsForState(others, meta')
    BY DEF RejectByUser, others
  <2> QED BY <1>3, <2>1, TrimKeepsUnfinished
<1>5. /\ approval' \in [TxIds -> AP!Status] /\ approval'[t] = "rejected"
      /\ \A u \in TxIds : u # t => approval'[u] = approval[u]
  BY DEF RejectByUser, IInv, TypeOK, AP!Reject, AP!Status
<1>6. /\ stage' \in [TxIds -> Stages] /\ stage'[t] = "done"
      /\ \A u \in TxIds : u # t => stage'[u] = stage[u]
  BY DEF RejectByUser, IInv, TypeOK, Stages
<1>7. /\ call' \in [Calls -> CallRecords]
      /\ \A p \in Calls :
            IF call[p].state = "waiting" /\ call[p].tx = t
            THEN call'[p].tx = t /\ call'[p].state \in {"userRejected", "unknownProblem"}
            ELSE call'[p] = call[p]
  BY FinishedCalls DEF RejectByUser, IInv
<1>8. UNCHANGED <<mutex, signAbortCallbacks, node, persisted, restarts>>
  BY DEF RejectByUser
<1>9. TypeOK'
  BY <1>2, <1>4, <1>5, <1>6, <1>7, <1>8 DEF IInv, TypeOK
<1>10. Snapshot(rpcTransactions, meta, node.seen, approval)'
  <2>1. \A u \in ToSet(rpcTransactions') : meta'[u].status \notin {"none", "rejected", "lost"}
    BY <1>2, <1>4, StoredAreTransactions DEF IInv, Snapshot
  <2>2. ASSUME NEW u \in TxIds
        PROVE  /\ meta'[u].status # "none" /\ ~Dead(meta', u) => u \in ToSet(rpcTransactions')
               /\ meta'[u].status = "submitted" => u \in node'.seen
               /\ meta'[u].status = "rejected" => approval'[u] = "rejected"
    <3>1. meta'[u].status \in Statuses
      BY <1>2 DEF Metas
    <3>2. ~Dead(meta', u) => ~isFinalState(meta'[u].status)
      BY <3>1 DEF Statuses, Dead, isFinalState
    <3> QED BY <1>2, <1>4, <1>5, <1>8, <3>2 DEF IInv, Snapshot, Dead
  <2>3. \A u, v \in TxIds :
            u # v /\ meta'[u].status # "none" /\ meta'[v].status # "none"
              /\ meta'[u].actionId = meta'[v].actionId
                => Dead(meta', u) \/ Dead(meta', v)
    BY <1>2 DEF IInv, Snapshot, Dead
  <2> QED BY <2>1, <2>2, <2>3 DEF Snapshot
<1>11. Snapshot(persisted.txs, persisted.meta, node.seen, approval)'
  BY <1>1, <1>5, <1>8, SnapshotStays DEF IInv
<1>12. UnusedIsNew'
  BY <1>1, <1>2, <1>5, <1>6, <1>8 DEF IInv, UnusedIsNew
<1>13. StagesAgree'
  BY <1>1, <1>2, <1>5, <1>6, <1>8 DEF IInv, StagesAgree, HoldsMutex
<1>14. EndedIsFinal'
  BY <1>2, <1>6, <1>8 DEF IInv, EndedIsFinal
<1>15. CallsAgree'
  BY <1>1, <1>5, <1>7, <1>8 DEF IInv, CallsAgree
<1>16. OnlyAcceptedReachTheNode'
  BY <1>1, <1>5, <1>8, <1>9 DEF IInv, OnlyAcceptedReachTheNode, TypeOK, Nodes
<1>17. WaiterHasProcessor'
  <2> SUFFICES ASSUME restarts = 0, NEW p \in Calls, call'[p].state = "waiting"
               PROVE  InPipeline(call[p].tx)' \/ EmptySignature(call[p].tx)'
    BY <1>7, <1>8 DEF WaiterHasProcessor
  <2>1. call[p].state = "waiting" /\ call[p].tx # t /\ call[p].tx \in TxIds /\ call'[p] = call[p]
    BY <1>7 DEF IInv, CallsAgree
  <2>2. InPipeline(call[p].tx) \/ EmptySignature(call[p].tx)
    BY <2>1 DEF IInv, WaiterHasProcessor
  <2> QED BY <1>2, <1>6, <2>1, <2>2 DEF InPipeline, EmptySignature
<1> QED BY <1>9, <1>10, <1>11, <1>12, <1>13, <1>14, <1>15, <1>16, <1>17 DEF IInv

-----------------------------------------------------------------------------
(* approveTransaction *)

\* The steps of t that end nothing: t stays alive, in the pipeline or with an
\* empty signature.
LEMMA StepKeepsIInv ==
    ASSUME IInv, NEW t \in TxIds, NEW r \in Metas, NEW s \in {"signing", "publishing", "done"},
           stage[t] \in {"mutex", "signing"},
           meta' = [meta EXCEPT ![t] = r],
           r.actionId = meta[t].actionId,
           s \in {"signing", "done"} => r.status = "approved",
           s = "publishing" => r.status = "signed",
           stage' = [stage EXCEPT ![t] = s],
           HoldsMutex(t),
           mutex' = IF s = "done" THEN Released(t) ELSE mutex,
           signAbortCallbacks' \subseteq TxIds,
           UNCHANGED <<rpcTransactions, approval, call, node, persisted, restarts>>
    PROVE  IInv'
<1>1. /\ meta[t].status \in {"unapproved", "approved"} /\ ~Dead(meta, t)
      /\ r.status \in {"approved", "signed"} /\ approval[t] = "resolved"
  BY DEF IInv, StagesAgree, Dead
<1>2. meta \in [TxIds -> Metas] /\ stage \in [TxIds -> Stages] /\ s \in Stages
  BY DEF IInv, TypeOK, Stages
<1>3. /\ meta' \in [TxIds -> Metas] /\ meta'[t] = r
      /\ \A u \in TxIds : u # t => meta'[u] = meta[u]
  BY <1>2
<1>4. /\ stage' \in [TxIds -> Stages] /\ stage'[t] = s
      /\ \A u \in TxIds : u # t => stage'[u] = stage[u]
  BY <1>2
<1>5. /\ mutex' \in Seq(TxIds) /\ IsInjective(mutex')
      /\ ToSet(mutex') = IF s = "done" THEN ToSet(mutex) \ {t} ELSE ToSet(mutex)
      /\ s # "done" => mutex' = mutex
  BY ReleasedQueue DEF IInv, TypeOK
<1>6. TypeOK'
  BY <1>3, <1>4, <1>5 DEF IInv, TypeOK
<1>7. Snapshot(rpcTransactions, meta, node.seen, approval)'
  BY <1>1, <1>2, SnapshotMoves DEF IInv
<1>8. Snapshot(persisted.txs, persisted.meta, node.seen, approval)'
  BY DEF IInv
<1>9. UnusedIsNew'
  BY <1>1, <1>3, <1>4 DEF IInv, UnusedIsNew
<1>10. StagesAgree'
  <2>1. ASSUME NEW u \in TxIds, u # t PROVE ~HoldsMutex(u)
    BY <2>1 DEF HoldsMutex
  <2>2. s # "done" => HoldsMutex(t)'
    BY <1>5 DEF HoldsMutex
  <2> QED BY <1>1, <1>3, <1>4, <1>5, <2>1, <2>2 DEF IInv, StagesAgree
<1>11. EndedIsFinal'
  BY <1>1, <1>3, <1>4 DEF IInv, EndedIsFinal
<1>12. WaiterHasProcessor'
  BY <1>3, <1>4 DEF IInv, CallsAgree, WaiterHasProcessor, InPipeline, EmptySignature
<1> QED BY <1>6, <1>7, <1>8, <1>9, <1>10, <1>11, <1>12
        DEF IInv, CallsAgree, OnlyAcceptedReachTheNode

LEMMA StartSigningKeepsIInv ==
    ASSUME IInv, NEW t \in TxIds, StartSigning(t)
    PROVE  IInv'
<1> DEFINE r == [meta[t] EXCEPT !.nonce = NextNonce(t), !.status = "approved"]
<1>0. meta \in [TxIds -> Metas]
  BY DEF IInv, TypeOK
<1>1. r \in Metas /\ r.status = "approved" /\ r.actionId = meta[t].actionId
  BY <1>0 DEF StartSigning, Metas, Statuses
<1>2. meta' = [meta EXCEPT ![t] = r]
  BY <1>0 DEF StartSigning
<1> HIDE DEF r
<1>3. signAbortCallbacks' \subseteq TxIds
  BY DEF StartSigning, IInv, TypeOK
<1> QED BY <1>1, <1>2, <1>3, StepKeepsIInv DEF StartSigning

LEMMA SignKeepsIInv ==
    ASSUME IInv, NEW t \in TxIds, Sign(t)
    PROVE  IInv'
<1> DEFINE r == [meta[t] EXCEPT !.status = "signed"]
<1>0. meta \in [TxIds -> Metas]
  BY DEF IInv, TypeOK
<1>1. r \in Metas /\ r.status = "signed" /\ r.actionId = meta[t].actionId
  BY <1>0 DEF Metas, Statuses
<1>2. meta' = [meta EXCEPT ![t] = r]
  BY DEF Sign
<1> HIDE DEF r
<1>3. signAbortCallbacks' \subseteq TxIds /\ HoldsMutex(t)
  BY DEF Sign, IInv, TypeOK, StagesAgree
<1> QED BY <1>1, <1>2, <1>3, StepKeepsIInv DEF Sign

LEMMA SignEmptyKeepsIInv ==
    ASSUME IInv, NEW t \in TxIds, SignEmpty(t)
    PROVE  IInv'
<1>1. meta[t] \in Metas /\ meta[t].status = "approved" /\ meta' = [meta EXCEPT ![t] = meta[t]]
  BY DEF SignEmpty, IInv, TypeOK, StagesAgree
<1>2. signAbortCallbacks' \subseteq TxIds /\ HoldsMutex(t)
  BY DEF SignEmpty, IInv, TypeOK, StagesAgree
<1> QED BY <1>1, <1>2, StepKeepsIInv DEF SignEmpty

\* The steps that end t's processing.
LEMMA EndsKeepIInv ==
    ASSUME IInv, NEW t \in TxIds,
           \/ AcceptInvalid(t) \/ NonceFails(t) \/ SignFails(t)
           \/ Publish(t) \/ PublishFails(t)
    PROVE  IInv'
<1>1. stage[t] \in {"signing", "publishing"} => HoldsMutex(t) /\ approval[t] = "resolved"
  BY DEF IInv, StagesAgree
<1>2. stage[t] = "mutex" => approval[t] = "resolved"
  BY DEF IInv, StagesAgree
<1>3. node \in Nodes /\ signAbortCallbacks \subseteq TxIds
  BY DEF IInv, TypeOK
<1>4. t \in node.seen => approval[t] = "resolved"
  BY DEF IInv, OnlyAcceptedReachTheNode
<1>5. CASE AcceptInvalid(t)
  BY <1>3, <1>4, <1>5, EndKeepsIInv DEF AcceptInvalid, Fail, AP!Resolve, InPipeline
<1>6. CASE NonceFails(t)
  BY <1>2, <1>3, <1>6, EndKeepsIInv DEF NonceFails, Fail, InPipeline
<1>7. CASE SignFails(t)
  BY <1>1, <1>3, <1>7, EndKeepsIInv DEF SignFails, Fail, InPipeline
<1>8. ASSUME NodeTakes(t), stage[t] = "publishing"
      PROVE  node' \in Nodes /\ node'.seen = node.seen \cup {t}
  <2>1. meta[t].nonce \in Nonces \cup {None}
    BY DEF IInv, TypeOK, Metas
  <2> QED BY <1>3, <1>8, <2>1 DEF NodeTakes, Nodes
<1>9. CASE Publish(t)
  BY <1>1, <1>3, <1>8, <1>9, EndKeepsIInv DEF Publish, InPipeline
<1>10. CASE PublishFails(t)
  BY <1>1, <1>3, <1>8, <1>10, EndKeepsIInv DEF PublishFails, Fail, InPipeline
<1> QED BY <1>5, <1>6, <1>7, <1>9, <1>10

LEMMA AbortKeepsIInv ==
    ASSUME IInv, NEW t \in TxIds, AbortTransactionSigning(t)
    PROVE  IInv'
<1>1. signAbortCallbacks' \subseteq TxIds
  BY DEF AbortTransactionSigning, IInv, TypeOK
<1>2. CASE stage[t] = "signing"
  <2>1. HoldsMutex(t) /\ node \in Nodes /\ approval[t] = "resolved"
    BY <1>2 DEF IInv, TypeOK, StagesAgree
  <2> QED BY <1>1, <1>2, <2>1, EndKeepsIInv DEF AbortTransactionSigning, Fail, InPipeline
<1>3. CASE stage[t] # "signing"
  <2>1. UNCHANGED <<rpcTransactions, meta, approval, mutex, stage, call, node, persisted, restarts>>
    BY <1>3 DEF AbortTransactionSigning
  <2> QED BY <1>1, <2>1
          DEF IInv, TypeOK, Snapshot, Dead, UnusedIsNew, StagesAgree, HoldsMutex, EndedIsFinal,
              CallsAgree, OnlyAcceptedReachTheNode, WaiterHasProcessor, InPipeline,
              EmptySignature
<1> QED BY <1>2, <1>3

-----------------------------------------------------------------------------
(* The chain, storage and the service worker *)

LEMMA MineKeepsIInv == ASSUME IInv, Mine PROVE IInv'
<1>1. node' \in Nodes /\ node'.seen = node.seen
  <2>1. node \in Nodes
    BY DEF IInv, TypeOK
  <2> QED BY <2>1, ConstantsOK DEF Mine, Nodes, Nonces
<1>2. UNCHANGED <<controller, call, persisted, restarts>>
  BY DEF Mine
<1>3. TypeOK'
  BY <1>1, <1>2 DEF controller, IInv, TypeOK
<1> QED BY <1>1, <1>2, <1>3
        DEF controller, IInv, Snapshot, Dead, UnusedIsNew, StagesAgree, HoldsMutex, EndedIsFinal,
            CallsAgree, OnlyAcceptedReachTheNode, WaiterHasProcessor, InPipeline, EmptySignature

LEMMA PersistKeepsIInv == ASSUME IInv, Persist PROVE IInv'
<1>1. /\ UNCHANGED <<controller, call, node, restarts>>
      /\ persisted'.txs = rpcTransactions /\ persisted'.meta = meta
  BY DEF Persist
<1>2. TypeOK'
  BY <1>1 DEF Persist, controller, IInv, TypeOK
<1>3. /\ Snapshot(rpcTransactions, meta, node.seen, approval)'
      /\ Snapshot(persisted.txs, persisted.meta, node.seen, approval)'
  BY <1>1 DEF controller, IInv, Snapshot, Dead
<1>4. UnusedIsNew'
  BY <1>1 DEF controller, IInv, UnusedIsNew
<1> QED BY <1>1, <1>2, <1>3, <1>4
        DEF controller, IInv, StagesAgree, HoldsMutex, EndedIsFinal,
            CallsAgree, OnlyAcceptedReachTheNode, WaiterHasProcessor, InPipeline, EmptySignature

LEMMA RestartKeepsIInv == ASSUME IInv, Restart PROVE IInv'
<1>1. /\ meta \in [TxIds -> Metas] /\ persisted.meta \in [TxIds -> Metas]
      /\ persisted.txs \in Seq(TxIds) /\ IsInjective(persisted.txs)
      /\ restarts \in Nat /\ restarts' = restarts + 1 /\ restarts' \in 0 .. MaxRestarts
  BY ConstantsOK DEF Restart, IInv, TypeOK
<1>2. ASSUME NEW t \in TxIds
      PROVE  /\ meta'[t] \in Metas
             /\ persisted.meta[t].status # "none" => meta'[t] = persisted.meta[t]
             /\ persisted.meta[t].status = "none" =>
                    meta'[t].status = IF meta[t].status = "none" THEN "none" ELSE "lost"
  <2>1. meta'[t] = Remembered(t) /\ meta[t] \in Metas /\ persisted.meta[t] \in Metas
    BY <1>1 DEF Restart
  <2>2. NoMeta \in Metas /\ NoMeta.status = "none"
    BY DEF NoMeta, Metas, Statuses
  <2>3. /\ [meta[t] EXCEPT !.status = "lost"] \in Metas
        /\ [meta[t] EXCEPT !.status = "lost"].status = "lost"
    BY <2>1 DEF Metas, Statuses
  <2>4. meta[t].status = "none" => persisted.meta[t].status = "none"
    BY DEF IInv, UnusedIsNew
  <2>5. CASE persisted.meta[t].status # "none"
    BY <2>1, <2>4, <2>5 DEF Remembered
  <2>6. CASE persisted.meta[t].status = "none" /\ meta[t].status = "none"
    BY <2>1, <2>2, <2>6 DEF Remembered
  <2>7. CASE persisted.meta[t].status = "none" /\ meta[t].status # "none"
    BY <2>1, <2>3, <2>7 DEF Remembered
  <2> QED BY <2>5, <2>6, <2>7
<1>3. meta' \in [TxIds -> Metas]
  <2>1. meta' = [t \in TxIds |-> meta'[t]]
    BY DEF Restart
  <2> QED BY <1>2, <2>1
<1>4. /\ approval' \in [TxIds -> AP!Status]
      /\ \A t \in TxIds : approval[t] # "open" => approval'[t] = approval[t]
  BY DEF Restart, MemoryLost, IInv, TypeOK, AP!Status
<1>5. /\ stage' \in [TxIds -> Stages]
      /\ \A t \in TxIds : stage'[t] = IF stage[t] = "none" THEN "none" ELSE "done"
  BY DEF Restart, IInv, TypeOK, Stages
<1>6. /\ call' \in [Calls -> CallRecords]
      /\ \A p \in Calls : call'[p] = call[p] \/ (call'[p].state = "lost" /\ call[p].state = "waiting"
                                               /\ call'[p].tx = call[p].tx)
  <2>1. ASSUME NEW p \in Calls
        PROVE  /\ call'[p] \in CallRecords
               /\ call'[p] = call[p] \/ (call'[p].state = "lost" /\ call[p].state = "waiting"
                                               /\ call'[p].tx = call[p].tx)
    <3>1. call[p] \in CallRecords
      BY DEF IInv, TypeOK
    <3> QED BY <3>1 DEF Restart, MemoryLost, CallRecords
  <2>2. call' = [p \in Calls |-> call'[p]]
    BY DEF Restart, MemoryLost
  <2> QED BY <2>1, <2>2
<1>7. /\ mutex' = <<>> /\ mutex' \in Seq(TxIds) /\ ToSet(mutex') = {} /\ IsInjective(mutex')
      /\ signAbortCallbacks' = {} /\ rpcTransactions' = persisted.txs
      /\ UNCHANGED <<node, persisted>>
  BY EmptySeq DEF Restart, MemoryLost, ToSet, IsInjective
<1>8. TypeOK'
  BY <1>1, <1>3, <1>4, <1>5, <1>6, <1>7 DEF IInv, TypeOK
<1>9. Snapshot(persisted.txs, persisted.meta, node.seen, approval)'
  BY <1>4, <1>7, SnapshotStays DEF IInv
<1>10. Snapshot(rpcTransactions, meta, node.seen, approval)'
  <2>1. ToSet(persisted.txs) \subseteq TxIds
    BY <1>1, ElementOfSeq, LenProperties DEF ToSet
  <2>2. \A t \in ToSet(persisted.txs) : meta'[t].status \notin {"none", "rejected", "lost"}
    BY <1>2, <2>1 DEF IInv, Snapshot
  <2>3. ASSUME NEW t \in TxIds
        PROVE  /\ meta'[t].status # "none" /\ ~Dead(meta', t) => t \in ToSet(persisted.txs)
               /\ meta'[t].status = "submitted" => t \in node.seen
               /\ meta'[t].status = "rejected" => approval'[t] = "rejected"
    BY <1>2, <1>4 DEF IInv, Snapshot, Dead
  <2>4. ASSUME NEW t \in TxIds, NEW u \in TxIds, t # u,
               meta'[t].status # "none", meta'[u].status # "none",
               meta'[t].actionId = meta'[u].actionId
        PROVE  Dead(meta', t) \/ Dead(meta', u)
    BY <1>2, <2>4 DEF IInv, Snapshot, Dead
  <2> QED BY <1>7, <2>2, <2>3, <2>4 DEF Snapshot
<1>11. UnusedIsNew'
  BY <1>2, <1>4, <1>5, <1>7 DEF IInv, UnusedIsNew
<1>12. StagesAgree'
  BY <1>2, <1>5, <1>7 DEF IInv, StagesAgree, UnusedIsNew
<1>13. EndedIsFinal' /\ WaiterHasProcessor'
  BY <1>1 DEF EndedIsFinal, WaiterHasProcessor
<1>14. CallsAgree'
  BY <1>4, <1>6, <1>7 DEF IInv, CallsAgree
<1>15. OnlyAcceptedReachTheNode'
  BY <1>4, <1>7, <1>8 DEF IInv, OnlyAcceptedReachTheNode, TypeOK, Nodes
<1> QED BY <1>8, <1>9, <1>10, <1>11, <1>12, <1>13, <1>14, <1>15 DEF IInv

-----------------------------------------------------------------------------
(* Every step keeps the invariant *)

LEMMA StepInv == IInv /\ [Next]_vars => IInv'
<1> SUFFICES ASSUME IInv, [Next]_vars PROVE IInv'
  OBVIOUS
<1>1. ASSUME NEW p \in Calls, NEW t \in TxIds, NEW n \in SiteNonces, AddTransaction(p, t, n)
      PROVE  IInv'
  BY <1>1, AddTransactionKeepsIInv
<1>2. ASSUME NEW p \in Calls, NEW t \in TxIds, JoinExisting(p, t)
      PROVE  IInv'
  BY <1>2, JoinExistingKeepsIInv
<1>3. ASSUME NEW t \in TxIds, Accept(t) \/ AcceptInvalid(t) \/ RejectByUser(t)
      PROVE  IInv'
  BY <1>3, AcceptKeepsIInv, EndsKeepIInv, RejectKeepsIInv
<1>4. ASSUME NEW t \in TxIds, Pipeline(t)
      PROVE  IInv'
  BY <1>4, StartSigningKeepsIInv, SignKeepsIInv, SignEmptyKeepsIInv, EndsKeepIInv DEF Pipeline
<1>5. ASSUME NEW t \in TxIds, AbortTransactionSigning(t)
      PROVE  IInv'
  BY <1>5, AbortKeepsIInv
<1>6. CASE Mine
  BY <1>6, MineKeepsIInv
<1>7. CASE Persist
  BY <1>7, PersistKeepsIInv
<1>8. CASE Restart
  BY <1>8, RestartKeepsIInv
<1>9. CASE UNCHANGED vars
  BY <1>9 DEF vars, controller, IInv, TypeOK, Snapshot, Dead, UnusedIsNew, StagesAgree,
              HoldsMutex, EndedIsFinal, CallsAgree, OnlyAcceptedReachTheNode,
              WaiterHasProcessor, InPipeline, EmptySignature
<1> QED BY <1>1, <1>2, <1>3, <1>4, <1>5, <1>6, <1>7, <1>8, <1>9 DEF Next

LEMMA Invariance == Spec => []IInv
BY InitIInv, StepInv, PTL DEF Spec

-----------------------------------------------------------------------------
(* Theorems *)

\* Every variable keeps its type; no transaction is stored or queues twice.
THEOREM TypeCorrect == Spec => []TypeOK
<1>1. IInv => TypeOK
  BY DEF IInv
<1> QED BY <1>1, Invariance, PTL

\* A transaction in processing is stored and unfinished, whatever trimming,
\* rejections and failures of others do: getTransactionOrThrow, which runs
\* with the mutex held and outside the try, finds it.
THEOREM ProcessedStaysStored == Spec => []ProcessedIsStored
<1>1. IInv => ProcessedIsStored
  BY DEF IInv, StagesAgree, Snapshot, Dead, ProcessedIsStored, InPipeline
<1> QED BY <1>1, Invariance, PTL

\* The node sees only what the user accepted, also across restarts.
THEOREM NothingUnacceptedIsSent == Spec => []OnlyAcceptedReachTheNode
<1>1. IInv => OnlyAcceptedReachTheNode
  BY DEF IInv
<1> QED BY <1>1, Invariance, PTL

\* A hash is of a transaction the node took; a request that was answered as
\* refused never reached it.
THEOREM SitesAreToldTheTruth == Spec => []AnswersAreTrue
<1>1. IInv => AnswersAreTrue
  BY DEF IInv, CallsAgree, OnlyAcceptedReachTheNode, AnswersAreTrue
<1> QED BY <1>1, Invariance, PTL

\* One request of a site reaches the node as two transactions only when the
\* first was reported as failed or lost in a restart.
THEOREM OneRequestOneTransaction == Spec => []ResentOnlyAfterFailure
<1>1. ASSUME IInv, NEW t \in node.seen, NEW u \in node.seen, t # u,
             meta[t].actionId = meta[u].actionId
      PROVE  meta[t].status \in {"failed", "lost"} \/ meta[u].status \in {"failed", "lost"}
  <2>1. t \in TxIds /\ u \in TxIds
    BY <1>1 DEF IInv, TypeOK, Nodes
  <2>2. meta[t].status # "none" /\ meta[u].status # "none"
    BY <1>1, <2>1 DEF IInv, UnusedIsNew
  <2>3. Dead(meta, t) \/ Dead(meta, u)
    BY <1>1, <2>1, <2>2 DEF IInv, Snapshot
  <2>4. meta[t].status # "rejected" /\ meta[u].status # "rejected"
    BY <1>1, <2>1 DEF IInv, Snapshot, OnlyAcceptedReachTheNode
  <2> QED BY <2>3, <2>4 DEF Dead
<1>2. IInv => ResentOnlyAfterFailure
  BY <1>1 DEF ResentOnlyAfterFailure
<1> QED BY <1>2, Invariance, PTL

\* A call that waits has somebody to fire the event it waits for, until the
\* first restart and but for an empty signature.
THEOREM WaitersAreServed == Spec => []WaiterHasProcessor
<1>1. IInv => WaiterHasProcessor
  BY DEF IInv
<1> QED BY <1>1, Invariance, PTL

\* The mutex: while one transaction is between its nonce and the end of its
\* broadcast, no other one reaches the node.
THEOREM MutexExcludes == Spec => NonceToBroadcastIsExclusive
<1>1. ASSUME IInv, Next, NEW t \in TxIds, stage[t] \in {"signing", "publishing"},
             stage'[t] # "done"
      PROVE  node'.pool = node.pool
  <2>1. ASSUME NEW u \in TxIds, Publish(u) \/ PublishFails(u)
        PROVE  FALSE
    <3>1. stage[u] = "publishing" /\ stage'[u] = "done"
      BY <1>1, <2>1 DEF Publish, PublishFails, Fail, IInv, TypeOK
    <3>2. HoldsMutex(u) /\ HoldsMutex(t)
      BY <1>1, <3>1 DEF IInv, StagesAgree
    <3> QED BY <1>1, <3>1, <3>2 DEF HoldsMutex
  <2>2. CASE Mine
    BY <1>1, <2>2 DEF Mine, IInv, TypeOK, Nodes
  <2>3. ASSUME NEW u \in TxIds, Pipeline(u)
        PROVE  node'.pool = node.pool
    BY <2>1, <2>3 DEF Pipeline, StartSigning, NonceFails, Sign, SignFails, SignEmpty
  <2>4. ASSUME NEW u \in TxIds, Accept(u) \/ AcceptInvalid(u) \/ RejectByUser(u)
                                  \/ AbortTransactionSigning(u)
        PROVE  node'.pool = node.pool
    BY <2>4 DEF Accept, AcceptInvalid, RejectByUser, AbortTransactionSigning
  <2>5. ASSUME NEW p \in Calls, NEW u \in TxIds,
               JoinExisting(p, u) \/ \E n \in SiteNonces : AddTransaction(p, u, n)
        PROVE  node'.pool = node.pool
    BY <2>5 DEF AddTransaction, JoinExisting
  <2>6. CASE Persist \/ Restart
    BY <2>6 DEF Persist, Restart
  <2> QED BY <1>1, <2>2, <2>3, <2>4, <2>5, <2>6 DEF Next
<1>2. IInv /\ [Next]_vars =>
        [\A t \in TxIds :
            stage[t] \in {"signing", "publishing"} /\ stage'[t] # "done"
                => node'.pool = node.pool]_vars
  BY <1>1
<1> QED BY <1>2, Invariance, PTL DEF Spec, NonceToBroadcastIsExclusive
=============================================================================
