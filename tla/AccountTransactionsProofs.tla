----------------------- MODULE AccountTransactionsProofs -----------------------
(***************************************************************************)
(* Theorems about AccountTransactions, for all sets of batches and of the  *)
(* user's confirmations, any number of retries, nonces and restarts.       *)
(***************************************************************************)
EXTENDS AccountTransactions, FiniteSetTheorems, TLAPS

AllTxs == BatchTxs \cup SendTxs

-----------------------------------------------------------------------------
(* The inductive invariant *)

\* A transaction is taken with one nonce, and what is mined has a nonce of its
\* own among those below the count of mined ones.
ChainInv ==
    /\ \A t \in AllTxs : \A m, n \in Nonces : t \in chain.pool[m] /\ t \in chain.pool[n] => m = n
    /\ \A t \in AllTxs : IsMined(t) =>
          \E n \in Nonces : n < chain.mined /\ t \in chain.pool[n]
    /\ \A n \in Nonces : \A t, u \in chain.pool[n] : IsMined(t) /\ IsMined(u) => t = u

Running(b) == run[b].at \in {"nonce", "broadcast", "wait"}

\* StatusIsTrue of one batch.
StatusOK(b) ==
    /\ \A s \in {memoryCache[b], storage[b]} : TellsTheChain(b, s)
    /\ answer[b] = "id" => AllSucceeded(b)

\* StepsInOrder of one batch.
OrderOK(b) ==
    \A i \in 1 .. LastTx(b) :
        Known(<<b, i>>) => IF run[b].atomic
                           THEN Known(<<b, 1>>) /\ i = 2 => IsMined(<<b, 1>>)
                           ELSE 1 .. i - 1 \subseteq Succeeded(b)

\* A batch that runs has done every call before the one it is at; the node
\* knows no further one.
BatchOK(b) ==
    /\ run[b].at = "idle" =>
          memoryCache[b] = NoStatus /\ storage[b] = NoStatus /\ answer[b] = "none"
    /\ run[b].at = "broadcast" => run[b].nonce \in Nonces
    /\ Running(b) =>
          /\ run[b].sent \in 1 .. LastTx(b)
          /\ ~run[b].atomic => 1 .. run[b].sent - 1 \subseteq Succeeded(b)
          /\ run[b].atomic /\ run[b].sent = 2 /\ Known(<<b, 1>>) => IsMined(<<b, 1>>)
    /\ \A i \in 1 .. MaxNonce + 1 : Known(<<b, i>>) =>
          /\ run[b].at # "idle"
          /\ i < run[b].sent \/ (i = run[b].sent /\ run[b].at \notin {"nonce", "broadcast"})
    /\ StatusOK(b)
    /\ OrderOK(b)

\* The confirmation has reached the list; its attempts are over.
Settled(s) == send[s].at \in {"listed", "sent", "failed", "lost"}

\* What is known of the entry of a confirmation, and of whoever polls.
TxOf(s) == {SentTx(s), Replacement(s)}

\* EntriesAreTrue of one confirmation.
EntryOK(s) ==
    pendingTransactions[s] # None =>
        /\ Settled(s)
        /\ pendingTransactions[s].tx \in TxOf(s)
        /\ pendingTransactions[s].status = "sent" => pendingTransactions[s].tx \in chain.succeeded
        /\ pendingTransactions[s].status = "failed" => pendingTransactions[s].tx \in chain.reverted

\* A retry starts when no earlier attempt has reached the node, unless a reply
\* was lost.
AttemptsOK(s) ==
    /\ send[s].at = "broadcast" => send[s].nonce \in Nonces
    /\ send[s].at \notin {"idle", "lost", "thrown"} => send[s].attempt \in 1 .. Attempts
    /\ send[s].at \in {"returned", "listed", "sent", "failed"} => Known(SentTx(s))
    /\ send[s].at = "sent" => SentTx(s) \in chain.succeeded
    /\ send[s].at # "idle" /\ ApprovalOf[s] # None => send[ApprovalOf[s]].at = "sent"
    /\ \A k \in 1 .. Attempts : Known(<<s, k>>) =>
          /\ send[s].at # "idle"
          /\ k < send[s].attempt \/ (k = send[s].attempt /\ send[s].at \notin {"nonce", "broadcast"})
          /\ send[s].replyLost \/ k = send[s].attempt

\* A replacement competes with the transaction it replaces for one nonce.
ReplacementOK(s) ==
    /\ replacement[s].at # "none" => Settled(s)
    /\ replacement[s].at = "open" =>
          replacement[s].nonce \in Nonces /\ SentTx(s) \in chain.pool[replacement[s].nonce]
    /\ replacement[s].at = "returned" => Known(Replacement(s))
    /\ Known(Replacement(s)) => replacement[s].at \notin {"none", "open"}
    /\ \A n \in Nonces : Replacement(s) \in chain.pool[n] => SentTx(s) \in chain.pool[n]

PollsOK(s) ==
    \A t \in pendingTxStatusTasks : t[1] = s => t \in TxOf(s) /\ Known(t) /\ Settled(s)

SendOK(s) == AttemptsOK(s) /\ EntryOK(s) /\ ReplacementOK(s) /\ PollsOK(s)

IInv ==
    /\ TypeOK
    /\ ChainInv
    /\ \A b \in Batches : BatchOK(b)
    /\ \A s \in Sends : SendOK(s)

-----------------------------------------------------------------------------
(* The chain *)

\* The node takes a transaction it does not know.
LEMMA ChainTakes ==
    ASSUME ChainTypeOK(AllTxs), ChainInv, NEW t \in AllTxs, NEW n \in Nonces,
           NodeTakes(t, n), ~Known(t)
    PROVE  /\ ChainTypeOK(AllTxs)' /\ ChainInv'
           /\ chain'.succeeded = chain.succeeded /\ chain'.reverted = chain.reverted
           /\ \A u : \A m \in Nonces :
                 u \in chain'.pool[m] <=> u \in chain.pool[m] \/ (u = t /\ m = n)
<1>1. /\ chain.pool \in [Nonces -> SUBSET AllTxs] /\ chain.mined \in 0 .. MaxNonce + 1
      /\ n >= chain.mined
  BY DEF ChainTypeOK, NodeTakes
<1>2. /\ chain' = [chain EXCEPT !.pool = [chain.pool EXCEPT ![n] = @ \cup {t}]]
      /\ chain \in [pool : [Nonces -> SUBSET AllTxs], mined : 0 .. MaxNonce + 1,
                    succeeded : SUBSET AllTxs, reverted : SUBSET AllTxs]
  BY DEF ChainTypeOK, NodeTakes
<1> DEFINE p == [chain.pool EXCEPT ![n] = @ \cup {t}]
<1>3. /\ p \in [Nonces -> SUBSET AllTxs]
      /\ \A u : \A m \in Nonces : u \in p[m] <=> u \in chain.pool[m] \/ (u = t /\ m = n)
  BY <1>1
<1> HIDE DEF p
<1>4. /\ chain' \in [pool : [Nonces -> SUBSET AllTxs], mined : 0 .. MaxNonce + 1,
                     succeeded : SUBSET AllTxs, reverted : SUBSET AllTxs]
      /\ chain'.pool = p /\ chain'.mined = chain.mined
      /\ chain'.succeeded = chain.succeeded /\ chain'.reverted = chain.reverted
  BY <1>2, <1>3 DEF p
<1>5. ChainInv'
  <2>1. \A u \in AllTxs : \A l, m \in Nonces : u \in p[l] /\ u \in p[m] => l = m
    BY <1>3 DEF ChainInv, Known
  <2>2. \A u : IsMined(u)' <=> IsMined(u)
    BY <1>4 DEF IsMined
  <2>3. \A u \in AllTxs : IsMined(u) => \E m \in Nonces : m < chain.mined /\ u \in p[m]
    BY <1>3 DEF ChainInv
  <2>4. ~IsMined(t)
    BY DEF ChainInv, Known
  <2>5. \A m \in Nonces : \A u, v \in p[m] : IsMined(u) /\ IsMined(v) => u = v
    BY <1>3, <2>4 DEF ChainInv
  <2> QED BY <1>4, <2>1, <2>2, <2>3, <2>5 DEF ChainInv
<1> QED BY <1>3, <1>4, <1>5 DEF ChainTypeOK

\* A block includes one of the transactions with the next nonce.
LEMMA ChainMines ==
    ASSUME ChainTypeOK(AllTxs), ChainInv, MineNext
    PROVE  /\ ChainTypeOK(AllTxs)' /\ ChainInv'
           /\ chain.succeeded \subseteq chain'.succeeded /\ chain.reverted \subseteq chain'.reverted
           /\ chain'.pool = chain.pool
<1>1. /\ chain \in [pool : [Nonces -> SUBSET AllTxs], mined : 0 .. MaxNonce + 1,
                    succeeded : SUBSET AllTxs, reverted : SUBSET AllTxs]
      /\ chain.mined \in Nonces
  BY DEF ChainTypeOK, MineNext
<1>2. PICK t \in chain.pool[chain.mined] :
          \/ chain' = [chain EXCEPT !.mined = @ + 1, !.succeeded = @ \cup {t}]
          \/ chain' = [chain EXCEPT !.mined = @ + 1, !.reverted = @ \cup {t}]
  BY DEF MineNext
<1>3. t \in AllTxs
  BY <1>1, <1>2
<1>4. chain.mined \in Nat /\ chain.mined + 1 \in 0 .. MaxNonce + 1 /\ chain.mined < chain.mined + 1
  BY <1>1, ChainConstantsOK DEF Nonces
<1>5. /\ chain' \in [pool : [Nonces -> SUBSET AllTxs], mined : 0 .. MaxNonce + 1,
                     succeeded : SUBSET AllTxs, reverted : SUBSET AllTxs]
      /\ chain'.pool = chain.pool /\ chain'.mined = chain.mined + 1
      /\ \/ chain'.succeeded = chain.succeeded \cup {t} /\ chain'.reverted = chain.reverted
         \/ chain'.succeeded = chain.succeeded /\ chain'.reverted = chain.reverted \cup {t}
  <2>1. CASE chain' = [chain EXCEPT !.mined = @ + 1, !.succeeded = @ \cup {t}]
    BY <1>1, <1>3, <1>4, <2>1
  <2>2. CASE chain' = [chain EXCEPT !.mined = @ + 1, !.reverted = @ \cup {t}]
    BY <1>1, <1>3, <1>4, <2>2
  <2> QED BY <1>2, <2>1, <2>2
<1>6. \A u : IsMined(u)' <=> IsMined(u) \/ u = t
  BY <1>5 DEF IsMined
<1>7. ChainInv'
  <2>1. \A u \in AllTxs : IsMined(u)' => \E n \in Nonces : n < chain.mined + 1 /\ u \in chain.pool[n]
    <3> SUFFICES ASSUME NEW u \in AllTxs, IsMined(u)'
                 PROVE  \E n \in Nonces : n < chain.mined + 1 /\ u \in chain.pool[n]
      OBVIOUS
    <3>1. CASE u = t
      BY <1>1, <1>2, <1>4, <3>1
    <3>2. CASE IsMined(u)
      <4>1. PICK n \in Nonces : n < chain.mined /\ u \in chain.pool[n]
        BY <3>2 DEF ChainInv
      <4>2. n < chain.mined + 1
        BY <1>4, <4>1 DEF Nonces
      <4> QED BY <4>1, <4>2
    <3> QED BY <1>6, <3>1, <3>2
  <2>2. \A u \in chain.pool[chain.mined] : ~IsMined(u)
    <3> SUFFICES ASSUME NEW u \in chain.pool[chain.mined], IsMined(u) PROVE FALSE
      OBVIOUS
    <3>1. u \in AllTxs
      BY <1>1
    <3>2. PICK n \in Nonces : n < chain.mined /\ u \in chain.pool[n]
      BY <3>1 DEF ChainInv
    <3>3. n = chain.mined
      BY <1>1, <3>1, <3>2 DEF ChainInv
    <3> QED BY <1>4, <3>2, <3>3
  <2>3. ASSUME NEW n \in Nonces, NEW u \in chain.pool[n], NEW v \in chain.pool[n],
               IsMined(u) \/ u = t, IsMined(v) \/ v = t
        PROVE  u = v
    <3>1. t \in chain.pool[n] => n = chain.mined
      BY <1>1, <1>2, <1>3 DEF ChainInv
    <3> QED BY <2>2, <2>3, <3>1 DEF ChainInv
  <2> QED BY <1>5, <1>6, <2>1, <2>3 DEF ChainInv
<1> QED BY <1>5, <1>7 DEF ChainTypeOK

-----------------------------------------------------------------------------
(* What a step leaves alone *)

\* A batch that does not move, while the chain knows no new transaction of it.
LEMMA BatchStays ==
    ASSUME TypeOK, NEW b \in Batches, BatchOK(b),
           run'[b] = run[b], memoryCache'[b] = memoryCache[b],
           storage'[b] = storage[b], answer'[b] = answer[b],
           \A i \in 1 .. MaxNonce + 1 : Known(<<b, i>>)' <=> Known(<<b, i>>),
           chain.succeeded \subseteq chain'.succeeded, chain.reverted \subseteq chain'.reverted
    PROVE  BatchOK(b)'
<1>1. LastTx(b)' = LastTx(b) /\ LastTx(b) \in 1 .. MaxNonce + 1
  BY ChainConstantsOK, BatchConstantsOK DEF LastTx
<1>2. Succeeded(b) \subseteq Succeeded(b)' /\ Succeeded(b)' \subseteq 1 .. LastTx(b)
  BY <1>1 DEF Succeeded
<1>3. AllSucceeded(b) => AllSucceeded(b)'
  BY <1>1, <1>2 DEF AllSucceeded, LastTx
<1>4. \A t : IsMined(t) => IsMined(t)'
  BY DEF IsMined
<1>5. StatusOK(b)'
  BY <1>2, <1>3, <1>4 DEF BatchOK, StatusOK, TellsTheChain
<1>6. OrderOK(b)'
  <2>1. 1 \in 1 .. MaxNonce + 1 /\ 1 .. LastTx(b) \subseteq 1 .. MaxNonce + 1
    BY <1>1, ChainConstantsOK
  <2>2. OrderOK(b)
    BY DEF BatchOK
  <2> QED BY <1>1, <1>2, <1>4, <2>1, <2>2 DEF OrderOK
<1>7. Running(b)' => Running(b)
  BY DEF Running
<1>8. 1 \in 1 .. MaxNonce + 1
  BY ChainConstantsOK
<1>9. Running(b) =>
          /\ run[b].sent \in 1 .. LastTx(b)
          /\ ~run[b].atomic => 1 .. run[b].sent - 1 \subseteq Succeeded(b)'
          /\ run[b].atomic /\ run[b].sent = 2 /\ Known(<<b, 1>>)' => IsMined(<<b, 1>>)'
  BY <1>2, <1>4, <1>8 DEF BatchOK
<1> QED BY <1>1, <1>5, <1>6, <1>7, <1>9 DEF BatchOK

\* A confirmation that does not move, likewise.
LEMMA SendStays ==
    ASSUME TypeOK, NEW s \in Sends, SendOK(s),
           send'[s] = send[s], pendingTransactions'[s] = pendingTransactions[s],
           replacement'[s] = replacement[s],
           \A t \in pendingTxStatusTasks' : t[1] = s => t \in pendingTxStatusTasks,
           \A r \in Sends : send[r].at = "sent" => send'[r].at = "sent",
           \A k \in 0 .. Attempts + 1 : \A n \in Nonces :
               <<s, k>> \in chain'.pool[n] <=> <<s, k>> \in chain.pool[n],
           chain.succeeded \subseteq chain'.succeeded, chain.reverted \subseteq chain'.reverted
    PROVE  SendOK(s)'
<1>1. /\ SentTx(s)' = SentTx(s) /\ Settled(s)' = Settled(s) /\ TxOf(s)' = TxOf(s)
      /\ Replacement(s)' = Replacement(s)
  BY DEF SentTx, Settled, TxOf, Replacement
<1>2. send[s].attempt \in 0 .. Attempts + 1 /\ Attempts + 1 \in 0 .. Attempts + 1
      /\ 1 .. Attempts \subseteq 0 .. Attempts + 1
  BY SendConstantsOK DEF TypeOK, WalletTypeOK
<1>3. \A k \in 0 .. Attempts + 1 : Known(<<s, k>>)' <=> Known(<<s, k>>)
  BY DEF Known
<1>4. \A n \in Nonces : /\ SentTx(s) \in chain'.pool[n] <=> SentTx(s) \in chain.pool[n]
                       /\ Replacement(s) \in chain'.pool[n] <=> Replacement(s) \in chain.pool[n]
  BY <1>2 DEF SentTx, Replacement
<1>5. /\ Known(SentTx(s))' <=> Known(SentTx(s))
      /\ Known(Replacement(s))' <=> Known(Replacement(s))
  BY <1>2, <1>3 DEF SentTx, Replacement
<1>6. AttemptsOK(s)'
  <2>1. ApprovalOf[s] # None => ApprovalOf[s] \in Sends
    BY SendConstantsOK
  <2> QED BY <1>1, <1>2, <1>3, <1>5, <2>1 DEF SendOK, AttemptsOK
<1>7. EntryOK(s)'
  BY <1>1 DEF SendOK, EntryOK
<1>8. ReplacementOK(s)'
  <2>1. \A n \in Nonces : (Replacement(s) \in chain.pool[n] => SentTx(s) \in chain.pool[n])'
    BY <1>2 DEF SendOK, ReplacementOK, SentTx, Replacement
  <2>2. (replacement[s].at = "open" =>
            replacement[s].nonce \in Nonces /\ SentTx(s) \in chain.pool[replacement[s].nonce])'
    BY <1>2 DEF SendOK, ReplacementOK, SentTx
  <2> QED BY <1>1, <1>5, <2>1, <2>2 DEF SendOK, ReplacementOK
<1>9. PollsOK(s)'
  BY <1>1, <1>5 DEF SendOK, PollsOK, TxOf
<1> QED BY <1>6, <1>7, <1>8, <1>9 DEF SendOK

\* A step that leaves the wallet's own transactions alone.
LEMMA WalletStays ==
    ASSUME IInv, UNCHANGED wallet,
           \A s \in Sends : \A k \in 0 .. Attempts + 1 : \A n \in Nonces :
               <<s, k>> \in chain'.pool[n] <=> <<s, k>> \in chain.pool[n],
           chain.succeeded \subseteq chain'.succeeded, chain.reverted \subseteq chain'.reverted
    PROVE  WalletTypeOK' /\ \A s \in Sends : SendOK(s)'
<1>1. TypeOK /\ WalletTypeOK /\ \A s \in Sends : SendOK(s)
  BY DEF IInv, TypeOK
<1>2. \A s \in Sends : SendOK(s)'
  BY <1>1, SendStays DEF wallet
<1>3. ASSUME NEW s \in Sends, pendingTransactions[s] # None
      PROVE  Known(pendingTransactions[s].tx)'
  <2>1. /\ Known(pendingTransactions[s].tx) /\ pendingTransactions[s].tx \in TxOf(s)
        /\ send[s].attempt \in 0 .. Attempts
    BY <1>1, <1>3 DEF WalletTypeOK, SendOK, EntryOK
  <2>2. PICK k \in 0 .. Attempts + 1 : pendingTransactions[s].tx = <<s, k>>
    BY <2>1, SendConstantsOK DEF TxOf, SentTx, Replacement
  <2>3. pendingTransactions' = pendingTransactions
    BY DEF wallet
  <2> QED BY <2>1, <2>2, <2>3 DEF Known
<1> QED BY <1>1, <1>2, <1>3 DEF wallet, WalletTypeOK

\* A step that leaves the batches alone.
LEMMA BatchesStay ==
    ASSUME IInv, UNCHANGED batches,
           \A b \in Batches : \A i \in 1 .. MaxNonce + 1 : Known(<<b, i>>)' <=> Known(<<b, i>>),
           chain.succeeded \subseteq chain'.succeeded, chain.reverted \subseteq chain'.reverted
    PROVE  BatchTypeOK' /\ \A b \in Batches : BatchOK(b)'
<1>1. TypeOK /\ BatchTypeOK /\ \A b \in Batches : BatchOK(b)
  BY DEF IInv, TypeOK
<1>2. \A b \in Batches : BatchOK(b)'
  BY <1>1, BatchStays DEF batches
<1> QED BY <1>1, <1>2 DEF batches, BatchTypeOK

-----------------------------------------------------------------------------
(* The steps of a batch *)

\* The chain stays, or the node takes the transaction that the batch is at.
ChainStep(b) ==
    \/ chain' = chain
    \/ run[b].at = "broadcast" /\ NodeTakes(Tx(b), run[b].nonce)

\* One batch moves and keeps what holds of it.
LEMMA OneBatchMoves ==
    ASSUME IInv, NEW b \in Batches, NEW r \in Runs, NEW m \in BatchStatus, NEW s \in BatchStatus,
           NEW a \in {"none", "id", "error"},
           run' = [run EXCEPT ![b] = r], memoryCache' = [memoryCache EXCEPT ![b] = m],
           storage' = [storage EXCEPT ![b] = s], answer' = [answer EXCEPT ![b] = a],
           UNCHANGED <<wallet, restarts>>, ChainStep(b),
           r.at \in {"nonce", "broadcast", "wait"} => m.code = "Pending" /\ a = "none",
           BatchOK(b)'
    PROVE  IInv'
<1>1. TypeOK /\ BatchTypeOK /\ ChainTypeOK(AllTxs) /\ ChainInv
  BY DEF IInv, TypeOK, AllTxs
<1>2. /\ ChainTypeOK(AllTxs)' /\ ChainInv'
      /\ chain'.succeeded = chain.succeeded /\ chain'.reverted = chain.reverted
      /\ \A u : u # Tx(b) => \A n \in Nonces : u \in chain'.pool[n] <=> u \in chain.pool[n]
  <2>1. CASE chain' = chain
    BY <1>1, <2>1 DEF ChainTypeOK, ChainInv, IsMined
  <2>2. CASE run[b].at = "broadcast" /\ NodeTakes(Tx(b), run[b].nonce)
    <3>1. /\ run[b].nonce \in Nonces /\ run[b].sent \in 1 .. LastTx(b)
          /\ \A i \in 1 .. MaxNonce + 1 : Known(<<b, i>>) => i # run[b].sent
      BY <2>2 DEF IInv, BatchOK, Running
    <3>2. LastTx(b) \in 1 .. MaxNonce + 1 /\ run[b].sent \in 1 .. MaxNonce + 1
      BY <3>1, ChainConstantsOK, BatchConstantsOK DEF LastTx
    <3>3. Tx(b) \in AllTxs /\ ~Known(Tx(b))
      BY <3>1, <3>2 DEF Tx, AllTxs, BatchTxs
    <3> QED BY <1>1, <2>2, <3>1, <3>3, ChainTakes
  <2> QED BY <2>1, <2>2 DEF ChainStep
<1>3. WalletTypeOK' /\ \A t \in Sends : SendOK(t)'
  <2>1. \A t \in Sends : \A k \in 0 .. Attempts + 1 : <<t, k>> # Tx(b)
    BY AccountConstantsOK DEF Tx
  <2>2. /\ \A t \in Sends : \A k \in 0 .. Attempts + 1 : \A n \in Nonces :
              <<t, k>> \in chain'.pool[n] <=> <<t, k>> \in chain.pool[n]
        /\ chain.succeeded \subseteq chain'.succeeded /\ chain.reverted \subseteq chain'.reverted
    BY <1>2, <2>1
  <2> QED BY <2>2, WalletStays
<1>4. BatchTypeOK'
  BY <1>1 DEF BatchTypeOK
<1>5. ASSUME NEW c \in Batches PROVE BatchOK(c)'
  <2>1. CASE c = b
    BY <2>1
  <2>2. CASE c # b
    <3>1. \A i \in 1 .. MaxNonce + 1 : Known(<<c, i>>)' <=> Known(<<c, i>>)
      BY <1>2, <2>2 DEF Known, Tx
    <3>2. /\ run'[c] = run[c] /\ memoryCache'[c] = memoryCache[c]
          /\ storage'[c] = storage[c] /\ answer'[c] = answer[c]
      BY <1>1, <2>2 DEF BatchTypeOK
    <3>3. /\ BatchOK(c) /\ chain.succeeded \subseteq chain'.succeeded
          /\ chain.reverted \subseteq chain'.reverted
      BY <1>2 DEF IInv
    <3> QED BY <1>1, <3>1, <3>2, <3>3, BatchStays
  <2> QED BY <2>1, <2>2
<1>6. TypeOK'
  BY <1>1, <1>2, <1>3, <1>4 DEF TypeOK, AllTxs
<1> QED BY <1>2, <1>3, <1>5, <1>6 DEF IInv

\* A batch that has started goes on: the calls before the one it is at have
\* been done.
LEMMA RunKeepsBatchOK ==
    ASSUME IInv, NEW b \in Batches, NEW r \in Runs,
           run' = [run EXCEPT ![b] = r], chain' = chain,
           run[b].at # "idle", r.at # "idle",
           r.atomic = run[b].atomic,
           r.at = "broadcast" => r.nonce \in Nonces,
           r.at \in {"nonce", "broadcast", "wait"} =>
              /\ r.sent \in 1 .. LastTx(b)
              /\ ~r.atomic => 1 .. r.sent - 1 \subseteq Succeeded(b)
              /\ r.atomic /\ r.sent = 2 /\ Known(<<b, 1>>) => IsMined(<<b, 1>>),
           \/ r.sent = run[b].sent /\ (r.at \in {"nonce", "broadcast"}
                                         => run[b].at \in {"nonce", "broadcast"})
           \/ r.sent = run[b].sent + 1,
           StatusOK(b) => StatusOK(b)'
    PROVE  BatchOK(b)'
<1>1. run \in [Batches -> Runs] /\ run'[b] = r
  BY DEF IInv, TypeOK, BatchTypeOK
<1>2. /\ LastTx(b)' = LastTx(b) /\ LastTx(b) \in 1 .. MaxNonce + 1
      /\ Succeeded(b)' = Succeeded(b)
  BY <1>1, ChainConstantsOK, BatchConstantsOK DEF LastTx, Succeeded
<1>3. /\ \A i \in 1 .. MaxNonce + 1 : Known(<<b, i>>)' <=> Known(<<b, i>>)
      /\ IsMined(<<b, 1>>)' <=> IsMined(<<b, 1>>)
  BY DEF Known, IsMined
<1>4. BatchOK(b) /\ 1 \in 1 .. MaxNonce + 1
  BY ChainConstantsOK DEF IInv
<1>5. OrderOK(b)'
  <2>1. OrderOK(b) /\ 1 .. LastTx(b) \subseteq 1 .. MaxNonce + 1
    BY <1>2, <1>4, ChainConstantsOK DEF BatchOK
  <2>2. run'[b].atomic = run[b].atomic
    BY <1>1
  <2> QED BY <1>2, <1>3, <1>4, <2>1, <2>2 DEF OrderOK
<1>6. \A i \in 1 .. MaxNonce + 1 : Known(<<b, i>>) =>
          i < r.sent \/ (i = r.sent /\ r.at \notin {"nonce", "broadcast"})
  <2>1. run[b].sent \in Nat
    BY <1>1 DEF Runs
  <2> QED BY <1>4, <2>1 DEF BatchOK
<1>7. StatusOK(b)'
  BY <1>4 DEF BatchOK
<1>8. Running(b)' <=> r.at \in {"nonce", "broadcast", "wait"}
  BY <1>1 DEF Running
<1>9. Running(b)' =>
          /\ r.sent \in 1 .. LastTx(b)
          /\ ~r.atomic => 1 .. r.sent - 1 \subseteq Succeeded(b)'
          /\ r.atomic /\ r.sent = 2 /\ Known(<<b, 1>>)' => IsMined(<<b, 1>>)'
  BY <1>2, <1>3, <1>4, <1>8
<1> QED BY <1>1, <1>2, <1>3, <1>5, <1>6, <1>7, <1>9 DEF BatchOK

\* What a batch's status may become: one that is true.
LEMMA TrueStatusKept ==
    ASSUME IInv, NEW b \in Batches, NEW s, NEW a,
           run'[b].atomic = run[b].atomic, chain' = chain,
           memoryCache'[b] \in {memoryCache[b], storage[b], s},
           storage'[b] \in {storage[b], s}, answer'[b] = a,
           TellsTheChain(b, s),
           a = "id" => answer[b] = "id" \/ AllSucceeded(b),
           StatusOK(b)
    PROVE  StatusOK(b)'
<1>1. Succeeded(b)' = Succeeded(b) /\ (AllSucceeded(b)' <=> AllSucceeded(b))
  BY DEF Succeeded, AllSucceeded, LastTx
<1>2. \A x : TellsTheChain(b, x) => TellsTheChain(b, x)'
  BY <1>1 DEF TellsTheChain, IsMined
<1>3. \A x \in {memoryCache'[b], storage'[b]} : TellsTheChain(b, x)'
  BY <1>2 DEF StatusOK
<1> QED BY <1>1, <1>3 DEF StatusOK

\* A step of a batch that has started, without the chain.
LEMMA BatchStepKeepsIInv ==
    ASSUME IInv, NEW b \in Batches, NEW r \in Runs, NEW m \in BatchStatus, NEW x \in BatchStatus,
           NEW a \in {"none", "id", "error"},
           run' = [run EXCEPT ![b] = r], memoryCache' = [memoryCache EXCEPT ![b] = m],
           storage' = [storage EXCEPT ![b] = x], answer' = [answer EXCEPT ![b] = a],
           UNCHANGED <<wallet, chain, restarts>>,
           run[b].at # "idle", r.at # "idle", r.atomic = run[b].atomic,
           r.at = "broadcast" => r.nonce \in Nonces,
           r.at \in {"nonce", "broadcast", "wait"} =>
              /\ m.code = "Pending" /\ a = "none"
              /\ r.sent \in 1 .. LastTx(b)
              /\ ~r.atomic => 1 .. r.sent - 1 \subseteq Succeeded(b)
              /\ r.atomic /\ r.sent = 2 /\ Known(<<b, 1>>) => IsMined(<<b, 1>>),
           \/ r.sent = run[b].sent /\ (r.at \in {"nonce", "broadcast"}
                                         => run[b].at \in {"nonce", "broadcast"})
           \/ r.sent = run[b].sent + 1,
           StatusOK(b) => StatusOK(b)'
    PROVE  IInv'
<1>1. BatchOK(b)'
  BY RunKeepsBatchOK
<1>2. ChainStep(b)
  BY DEF ChainStep
<1> QED BY <1>1, <1>2, OneBatchMoves

\* SetCallBatchStatus, as an update of both maps at the batch.
LEMMA StatusIsWritten ==
    ASSUME BatchTypeOK, NEW b \in Batches, NEW s, SetCallBatchStatus(b, s)
    PROVE  /\ memoryCache' = [memoryCache EXCEPT ![b] = s]
           /\ \E x \in {storage[b], s} : storage' = [storage EXCEPT ![b] = x]
<1>1. storage = [storage EXCEPT ![b] = storage[b]]
  BY DEF BatchTypeOK
<1> QED BY <1>1 DEF SetCallBatchStatus

\* The same when nothing is written.
LEMMA StatusIsLeft ==
    ASSUME BatchTypeOK, NEW b \in Batches, UNCHANGED <<memoryCache, storage>>
    PROVE  /\ memoryCache' = [memoryCache EXCEPT ![b] = memoryCache[b]]
           /\ storage' = [storage EXCEPT ![b] = storage[b]]
BY DEF BatchTypeOK

LEMMA StartKeepsIInv ==
    ASSUME IInv, NEW b \in Batches, Start(b), UNCHANGED <<wallet, restarts>>
    PROVE  IInv'
<1>1. BatchTypeOK /\ BatchOK(b) /\ run[b].at = "idle"
  BY DEF IInv, TypeOK, Start
<1>2. PICK atomic \in BOOLEAN, first \in {1, 2} :
          /\ first = 2 => atomic
          /\ run' = [run EXCEPT ![b] = [at |-> "nonce", atomic |-> atomic, sent |-> first, nonce |-> None]]
  BY DEF Start
<1> DEFINE r == [at |-> "nonce", atomic |-> atomic, sent |-> first, nonce |-> None]
           s == [code |-> "Pending", receipts |-> 0]
<1>3. /\ r \in Runs /\ r.at = "nonce" /\ r.atomic = atomic /\ r.sent = first
      /\ run' = [run EXCEPT ![b] = r] /\ run'[b] = r
  BY <1>1, <1>2, ChainConstantsOK DEF Runs, BatchTypeOK
<1>4. s \in BatchStatus /\ s.code = "Pending"
  BY ChainConstantsOK DEF BatchStatus, Codes
<1> HIDE DEF r, s
<1>5. SetCallBatchStatus(b, s) /\ answer' = answer /\ chain' = chain
  BY DEF Start, s
<1>6. PICK x \in {storage[b], s} : /\ memoryCache' = [memoryCache EXCEPT ![b] = s]
                                  /\ storage' = [storage EXCEPT ![b] = x]
  BY <1>1, <1>5, StatusIsWritten
<1>7. /\ memoryCache'[b] = s /\ storage'[b] = x /\ answer'[b] = "none"
      /\ storage[b] = NoStatus /\ answer[b] = "none" /\ answer' = [answer EXCEPT ![b] = "none"]
  BY <1>1, <1>5, <1>6 DEF BatchTypeOK, BatchOK
<1>8. x \in BatchStatus /\ x.code \notin {"Confirmed", "PartialRevert", "Reverted"}
  BY <1>4, <1>6, <1>7, BatchConstantsOK DEF BatchStatus, NoStatus
<1>9. \A i \in 1 .. MaxNonce + 1 : ~Known(<<b, i>>)'
  BY <1>1, <1>5 DEF BatchOK, Known
<1>10. BatchOK(b)'
  <2>1. StatusOK(b)'
    <3>1. \A y : y.code \notin {"Confirmed", "PartialRevert", "Reverted"} => TellsTheChain(b, y)'
      BY DEF TellsTheChain
    <3> QED BY <1>4, <1>7, <1>8, <3>1 DEF StatusOK
  <2>2. LastTx(b)' \in 1 .. MaxNonce + 1 /\ (atomic => LastTx(b)' = 2)
    BY <1>3, ChainConstantsOK, BatchConstantsOK DEF LastTx
  <2>3. OrderOK(b)'
    BY <1>9, <2>2, ChainConstantsOK DEF OrderOK
  <2>4. first \in 1 .. LastTx(b)'
    BY <1>2, <2>2, ChainConstantsOK
  <2>5. first = 2 => ~Known(<<b, 1>>)'
    BY <1>9, ChainConstantsOK
  <2>6. ~atomic => 1 .. first - 1 \subseteq Succeeded(b)'
    BY <1>2
  <2>7. /\ run'[b].at = "nonce" /\ run'[b].sent = first /\ run'[b].atomic = atomic
    BY <1>3
  <2> QED BY <1>9, <2>1, <2>3, <2>4, <2>5, <2>6, <2>7 DEF BatchOK
<1>11. ChainStep(b)
  BY <1>5 DEF ChainStep
<1> QED BY <1>3, <1>4, <1>5, <1>6, <1>7, <1>8, <1>10, <1>11, OneBatchMoves

\* The node takes the transaction that the batch is at, and says so or not.
LEMMA BroadcastKeepsIInv ==
    ASSUME IInv, NEW b \in Batches, Broadcast(b) \/ SendReplyLost(b),
           UNCHANGED <<wallet, restarts>>
    PROVE  IInv'
<1>1. /\ TypeOK /\ BatchTypeOK /\ BatchOK(b) /\ run[b].at = "broadcast"
      /\ NodeTakes(Tx(b), run[b].nonce)
      /\ UNCHANGED <<memoryCache, storage, answer>>
  BY DEF IInv, TypeOK, Broadcast, SendReplyLost
<1>2. PICK at \in {"wait", "throw"} : run' = [run EXCEPT ![b].at = at, ![b].nonce = None]
  BY DEF Broadcast, SendReplyLost, Throw
<1> DEFINE r == [run[b] EXCEPT !.at = at, !.nonce = None]
<1>3. run \in [Batches -> Runs]
  BY <1>1 DEF BatchTypeOK
<1>4. /\ r \in Runs /\ r.at = at /\ r.sent = run[b].sent /\ r.atomic = run[b].atomic
      /\ run' = [run EXCEPT ![b] = r] /\ run'[b] = r
  BY <1>2, <1>3 DEF Runs
<1> HIDE DEF r
<1>5. /\ memoryCache' = [memoryCache EXCEPT ![b] = memoryCache[b]]
      /\ storage' = [storage EXCEPT ![b] = storage[b]]
      /\ answer' = [answer EXCEPT ![b] = answer[b]]
      /\ memoryCache[b] \in BatchStatus /\ storage[b] \in BatchStatus
      /\ answer[b] \in {"none", "id", "error"}
      /\ memoryCache[b].code = "Pending" /\ answer[b] = "none"
  BY <1>1 DEF BatchTypeOK
<1>6. /\ run[b].nonce \in Nonces /\ run[b].sent \in 1 .. LastTx(b)
      /\ LastTx(b) \in 1 .. MaxNonce + 1 /\ LastTx(b)' = LastTx(b)
  BY <1>1, <1>4, ChainConstantsOK, BatchConstantsOK DEF BatchOK, Running, LastTx
<1>7. run[b].sent \in 1 .. MaxNonce + 1 /\ 1 .. LastTx(b) \subseteq 1 .. MaxNonce + 1
  BY <1>6, ChainConstantsOK
<1>8. /\ chain'.succeeded = chain.succeeded /\ chain'.reverted = chain.reverted
      /\ \A i \in 1 .. MaxNonce + 1 :
            Known(<<b, i>>)' <=> Known(<<b, i>>) \/ i = run[b].sent
  <2>1. Tx(b) \in AllTxs
    BY <1>7 DEF Tx, AllTxs, BatchTxs
  <2>2. ~Known(Tx(b))
    BY <1>1, <1>7 DEF BatchOK, Tx
  <2>3. /\ chain'.succeeded = chain.succeeded /\ chain'.reverted = chain.reverted
        /\ \A u : \A m \in Nonces :
              u \in chain'.pool[m] <=> u \in chain.pool[m] \/ (u = Tx(b) /\ m = run[b].nonce)
    BY <1>1, <1>6, <2>1, <2>2, ChainTakes DEF IInv, TypeOK, AllTxs
  <2> QED BY <1>6, <2>3 DEF Known, Tx
<1>9. Succeeded(b)' = Succeeded(b) /\ (IsMined(<<b, 1>>)' <=> IsMined(<<b, 1>>))
  BY <1>6, <1>8 DEF Succeeded, IsMined
<1>10. AllSucceeded(b)' <=> AllSucceeded(b)
  BY <1>4, <1>9 DEF AllSucceeded
<1>11. StatusOK(b)'
  <2>1. \A y : TellsTheChain(b, y) => TellsTheChain(b, y)'
    BY <1>8, <1>9, <1>10 DEF TellsTheChain, IsMined
  <2>2. \A y \in {memoryCache[b], storage[b]} : TellsTheChain(b, y)
    BY <1>1 DEF BatchOK, StatusOK
  <2> QED BY <1>1, <1>10, <2>1, <2>2 DEF BatchOK, StatusOK
<1>12. run[b].atomic /\ Known(<<b, 1>>)' /\ run[b].sent = 2 => IsMined(<<b, 1>>)'
  BY <1>1, <1>8, <1>9, ChainConstantsOK DEF BatchOK, Running
<1>13. OrderOK(b)'
  <2> SUFFICES ASSUME NEW i \in 1 .. LastTx(b), Known(<<b, i>>)'
               PROVE  IF run'[b].atomic
                      THEN Known(<<b, 1>>)' /\ i = 2 => IsMined(<<b, 1>>)'
                      ELSE 1 .. i - 1 \subseteq Succeeded(b)'
    BY <1>6 DEF OrderOK
  <2>1. CASE i = run[b].sent
    BY <1>1, <1>4, <1>9, <1>12, <2>1 DEF BatchOK, Running
  <2>2. CASE i # run[b].sent
    <3>1. i \in 1 .. MaxNonce + 1 /\ Known(<<b, i>>)
      BY <1>8, <1>7, <2>2
    <3>2. i < run[b].sent
      BY <1>1, <2>2, <3>1 DEF BatchOK
    <3>3. run[b].sent \in Nat /\ i \in Nat
      BY <1>6
    <3>4. i = 2 => ~run[b].atomic
      BY <1>6, <3>2, <3>3 DEF LastTx
    <3>5. ~run[b].atomic => 1 .. run[b].sent - 1 \subseteq Succeeded(b)
      BY <1>1 DEF BatchOK, Running
    <3>6. 1 .. i - 1 \subseteq 1 .. run[b].sent - 1
      BY <3>2, <3>3
    <3> QED BY <1>4, <1>9, <3>4, <3>5, <3>6
  <2> QED BY <2>1, <2>2
<1>14. BatchOK(b)'
  <2>1. Running(b) /\ run'[b].at = at /\ run'[b].sent = run[b].sent /\ run'[b].atomic = run[b].atomic
    BY <1>1, <1>4 DEF Running
  <2>2. \A i \in 1 .. MaxNonce + 1 : Known(<<b, i>>)' => i < run[b].sent \/ i = run[b].sent
    BY <1>1, <1>8 DEF BatchOK
  <2>3. /\ ~run[b].atomic => 1 .. run[b].sent - 1 \subseteq Succeeded(b)'
    BY <1>1, <1>9, <2>1 DEF BatchOK
  <2>4. /\ at \notin {"idle", "nonce", "broadcast"}
        /\ run'[b].atomic /\ run'[b].sent = 2 /\ Known(<<b, 1>>)' => IsMined(<<b, 1>>)'
        /\ run'[b].sent \in 1 .. LastTx(b)'
    BY <1>6, <1>12, <2>1
  <2> QED BY <1>11, <1>13, <2>1, <2>2, <2>3, <2>4 DEF BatchOK
<1>15. r.at \in {"nonce", "broadcast", "wait"} => memoryCache[b].code = "Pending" /\ answer[b] = "none"
  BY <1>5
<1>16. ChainStep(b)
  BY <1>1 DEF ChainStep
<1> QED BY <1>4, <1>5, <1>14, <1>15, <1>16, OneBatchMoves

\* The execution ends, or throws; a status that it writes is true.
LEMMA HaltKeepsIInv ==
    ASSUME IInv, NEW b \in Batches, run[b].at # "idle",
           NEW at \in {"throw", "done"}, NEW n \in {None, run[b].nonce},
           run' = [run EXCEPT ![b].at = at, ![b].nonce = n],
           NEW s \in BatchStatus,
           SetCallBatchStatus(b, s) \/ UNCHANGED <<memoryCache, storage>>,
           NEW a \in {"none", "id", "error"}, answer' = [answer EXCEPT ![b] = a],
           UNCHANGED <<wallet, chain, restarts>>,
           TellsTheChain(b, s),
           a = "id" => answer[b] = "id" \/ AllSucceeded(b)
    PROVE  IInv'
<1>1. BatchTypeOK /\ run \in [Batches -> Runs] /\ run[b] \in Runs
  BY DEF IInv, TypeOK, BatchTypeOK
<1> DEFINE r == [run[b] EXCEPT !.at = at, !.nonce = n]
<1>2. /\ r \in Runs /\ r.at = at /\ r.sent = run[b].sent /\ r.atomic = run[b].atomic
      /\ run' = [run EXCEPT ![b] = r]
  BY <1>1 DEF Runs
<1> HIDE DEF r
<1>3. r.at \notin {"idle", "nonce", "broadcast", "wait"} /\ UNCHANGED chain
  BY <1>2
<1>4. PICK m \in {memoryCache[b], storage[b], s}, x \in {storage[b], s} :
          /\ memoryCache' = [memoryCache EXCEPT ![b] = m]
          /\ storage' = [storage EXCEPT ![b] = x]
  BY <1>1, StatusIsWritten, StatusIsLeft
<1>5. /\ r.at # "idle" /\ r.at # "broadcast"
      /\ r.at \in {"nonce", "broadcast", "wait"} =>
            /\ m.code = "Pending" /\ a = "none"
            /\ r.sent \in 1 .. LastTx(b)
            /\ ~r.atomic => 1 .. r.sent - 1 \subseteq Succeeded(b)
            /\ r.atomic /\ r.sent = 2 /\ Known(<<b, 1>>) => IsMined(<<b, 1>>)
      /\ r.sent = run[b].sent /\ (r.at \in {"nonce", "broadcast"}
                                      => run[b].at \in {"nonce", "broadcast"})
  BY <1>2, <1>3
<1>6. m \in BatchStatus /\ x \in BatchStatus
  BY <1>1, <1>4 DEF BatchTypeOK
<1>7. /\ memoryCache'[b] = m /\ storage'[b] = x /\ answer'[b] = a
      /\ run'[b].atomic = run[b].atomic
  BY <1>1, <1>2, <1>4 DEF BatchTypeOK
<1>8. StatusOK(b) => StatusOK(b)'
  BY <1>4, <1>7, TrueStatusKept
<1> QED BY <1>2, <1>4, <1>5, <1>6, <1>8, BatchStepKeepsIInv

\* The execution reads the nonce, or goes on to the next transaction.
LEMMA NextKeepsIInv ==
    ASSUME IInv, NEW b \in Batches, Running(b), NEW r \in Runs,
           run' = [run EXCEPT ![b] = r], UNCHANGED <<memoryCache, storage, answer>>,
           UNCHANGED <<wallet, chain, restarts>>,
           r.at \in {"nonce", "broadcast"}, r.atomic = run[b].atomic,
           r.at = "broadcast" => r.nonce \in Nonces,
           \/ r.sent = run[b].sent /\ run[b].at = "nonce"
           \/ /\ r.sent = run[b].sent + 1 /\ run[b].sent < LastTx(b)
              /\ IF run[b].atomic THEN run[b].sent = 1 => IsMined(<<b, 1>>)
                                  ELSE Tx(b) \in chain.succeeded
    PROVE  IInv'
<1>1. BatchTypeOK /\ BatchOK(b) /\ run[b].at # "idle"
  BY DEF IInv, TypeOK, Running
<1>2. /\ run[b].sent \in 1 .. LastTx(b) /\ LastTx(b) \in 1 .. MaxNonce + 1
      /\ ~run[b].atomic => 1 .. run[b].sent - 1 \subseteq Succeeded(b)
      /\ run[b].atomic /\ run[b].sent = 2 /\ Known(<<b, 1>>) => IsMined(<<b, 1>>)
  BY <1>1, ChainConstantsOK, BatchConstantsOK DEF BatchOK, LastTx
<1>3. /\ r.sent \in 1 .. LastTx(b)
      /\ ~r.atomic => 1 .. r.sent - 1 \subseteq Succeeded(b)
      /\ r.atomic /\ r.sent = 2 /\ Known(<<b, 1>>) => IsMined(<<b, 1>>)
  <2>1. CASE r.sent = run[b].sent
    BY <1>2, <2>1
  <2>2. CASE r.sent = run[b].sent + 1
    <3>1. run[b].sent \in Nat /\ LastTx(b) \in Nat /\ r.sent # run[b].sent
      BY <1>2, <2>2, ChainConstantsOK
    <3>2. r.sent \in 1 .. LastTx(b)
      BY <1>2, <2>2, <3>1
    <3>3. ~r.atomic => run[b].sent \in Succeeded(b)
      BY <1>2, <3>1 DEF Succeeded, Tx
    <3>4. \A i \in 1 .. r.sent - 1 : i = run[b].sent \/ i \in 1 .. run[b].sent - 1
      BY <2>2, <3>1
    <3>5. r.sent = 2 => run[b].sent = 1
      BY <2>2, <3>1
    <3> QED BY <1>2, <3>1, <3>2, <3>3, <3>4, <3>5
  <2> QED BY <2>1, <2>2
<1>4. memoryCache[b].code = "Pending" /\ answer[b] = "none" /\ memoryCache[b] \in BatchStatus
  BY <1>1 DEF BatchTypeOK, Running
<1>5. /\ memoryCache' = [memoryCache EXCEPT ![b] = memoryCache[b]]
      /\ storage' = [storage EXCEPT ![b] = storage[b]]
      /\ answer' = [answer EXCEPT ![b] = answer[b]]
  BY <1>1, StatusIsLeft DEF BatchTypeOK
<1>6. \/ r.sent = run[b].sent /\ (r.at \in {"nonce", "broadcast"}
                                     => run[b].at \in {"nonce", "broadcast"})
      \/ r.sent = run[b].sent + 1
  OBVIOUS
<1>7. StatusOK(b) => StatusOK(b)'
  <2>1. run'[b].atomic = run[b].atomic /\ chain' = chain
    BY <1>1 DEF BatchTypeOK
  <2> QED BY <2>1 DEF StatusOK, TellsTheChain, IsMined, AllSucceeded, Succeeded, LastTx
<1> DEFINE m == memoryCache[b]
           x == storage[b]
           a == answer[b]
<1>8. /\ m \in BatchStatus /\ x \in BatchStatus
      /\ a \in {"none", "id", "error"} /\ memoryCache' = [memoryCache EXCEPT ![b] = m]
      /\ storage' = [storage EXCEPT ![b] = x] /\ answer' = [answer EXCEPT ![b] = a]
      /\ m.code = "Pending" /\ a = "none"
  BY <1>1, <1>4, <1>5 DEF BatchTypeOK
<1> HIDE DEF m, x, a
<1> QED BY <1>1, <1>3, <1>6, <1>7, <1>8, BatchStepKeepsIInv

LEMMA ReadNonceKeepsIInv ==
    ASSUME IInv, NEW b \in Batches, ReadNonce(b), UNCHANGED <<wallet, restarts>>
    PROVE  IInv'
<1>1. /\ run \in [Batches -> Runs] /\ run[b] \in Runs /\ Running(b) /\ run[b].at = "nonce"
      /\ UNCHANGED <<memoryCache, storage, answer>> /\ UNCHANGED <<wallet, chain, restarts>>
  BY DEF IInv, TypeOK, BatchTypeOK, ReadNonce, Running
<1>2. PICK n \in Nonces : run' = [run EXCEPT ![b].at = "broadcast", ![b].nonce = n]
  BY DEF ReadNonce
<1> DEFINE r == [run[b] EXCEPT !.at = "broadcast", !.nonce = n]
<1>3. /\ r \in Runs /\ run' = [run EXCEPT ![b] = r] /\ r.at = "broadcast" /\ r.nonce \in Nonces
      /\ r.atomic = run[b].atomic /\ r.sent = run[b].sent
  BY <1>1, <1>2 DEF Runs
<1> HIDE DEF r
<1> QED BY <1>1, <1>3, NextKeepsIInv

\* The next transaction, or the end: then all have succeeded.
LEMMA ProceedKeepsIInv ==
    ASSUME IInv, NEW b \in Batches, WaitSucceeds(b) \/ DelegatedAllTheSame(b),
           UNCHANGED <<wallet, restarts>>
    PROVE  IInv'
<1>1. /\ BatchTypeOK /\ BatchOK(b) /\ run[b].at = "wait" /\ Running(b) /\ Proceed(b)
      /\ UNCHANGED <<wallet, restarts>> /\ run \in [Batches -> Runs] /\ run[b] \in Runs
      /\ \/ Tx(b) \in chain.succeeded
         \/ run[b].atomic /\ run[b].sent = 1 /\ Tx(b) \in chain.reverted
  <2>1. BatchTypeOK /\ BatchOK(b)
    BY DEF IInv, TypeOK
  <2>2. /\ run[b].at = "wait" /\ Proceed(b)
        /\ \/ Tx(b) \in chain.succeeded
           \/ run[b].atomic /\ run[b].sent = 1 /\ Tx(b) \in chain.reverted
    BY DEF WaitSucceeds, DelegatedAllTheSame
  <2> QED BY <2>1, <2>2 DEF Running, BatchTypeOK
<1>2. /\ run[b].sent \in 1 .. LastTx(b) /\ LastTx(b) \in 1 .. MaxNonce + 1
      /\ LastTx(b) = IF run[b].atomic THEN 2 ELSE Length[b]
      /\ ~run[b].atomic => 1 .. run[b].sent - 1 \subseteq Succeeded(b)
  BY <1>1, ChainConstantsOK, BatchConstantsOK DEF BatchOK, LastTx
<1>3. CASE run[b].sent < LastTx(b)
  <2>1. /\ run' = [run EXCEPT ![b].at = "nonce", ![b].sent = @ + 1]
        /\ UNCHANGED <<memoryCache, storage, answer>> /\ UNCHANGED <<wallet, chain, restarts>>
    BY <1>1, <1>3 DEF Proceed
  <2>2. run[b].sent + 1 \in 0 .. MaxNonce + 1
    BY <1>2, <1>3, ChainConstantsOK
  <2> DEFINE r == [run[b] EXCEPT !.at = "nonce", !.sent = @ + 1]
  <2>3. /\ r \in Runs /\ run' = [run EXCEPT ![b] = r] /\ r.at = "nonce"
        /\ r.atomic = run[b].atomic /\ r.sent = run[b].sent + 1
    BY <1>1, <2>1, <2>2 DEF Runs
  <2> HIDE DEF r
  <2>4. IF run[b].atomic THEN run[b].sent = 1 => IsMined(<<b, 1>>)
                         ELSE Tx(b) \in chain.succeeded
    BY <1>1 DEF IsMined, Tx
  <2> QED BY <1>1, <1>3, <2>1, <2>3, <2>4, NextKeepsIInv
<1>4. CASE ~(run[b].sent < LastTx(b))
  <2> DEFINE s == [code |-> "Confirmed", receipts |-> IF run[b].atomic THEN 1 ELSE Length[b]]
  <2>1. s \in BatchStatus /\ s.code = "Confirmed"
    BY ChainConstantsOK, BatchConstantsOK DEF BatchStatus, Codes
  <2>2. SetCallBatchStatus(b, s) /\ answer' = [answer EXCEPT ![b] = "id"]
        /\ run' = [run EXCEPT ![b].at = "done"] /\ UNCHANGED <<wallet, chain, restarts>>
    BY <1>1, <1>4 DEF Proceed
  <2> HIDE DEF s
  <2>3. run[b].sent = LastTx(b) /\ LastTx(b) \in Nat
    BY <1>2, <1>4, ChainConstantsOK
  <2>4. LastTx(b) \in Succeeded(b)
    BY <1>1, <1>2, <2>3 DEF Succeeded, Tx
  <2>5. AllSucceeded(b)
    <3>1. ~run[b].atomic => 1 .. LastTx(b) \subseteq Succeeded(b)
      <4> SUFFICES ASSUME ~run[b].atomic, NEW i \in 1 .. LastTx(b) PROVE i \in Succeeded(b)
        OBVIOUS
      <4>1. i = LastTx(b) \/ i \in 1 .. run[b].sent - 1
        BY <2>3
      <4> QED BY <1>2, <2>4, <4>1
    <3>2. Succeeded(b) \subseteq 1 .. LastTx(b)
      BY DEF Succeeded
    <3> QED BY <1>2, <2>4, <3>1, <3>2 DEF AllSucceeded
  <2>6. run' = [run EXCEPT ![b].at = "done", ![b].nonce = run[b].nonce]
    BY <1>1, <2>2 DEF Runs
  <2>7. TellsTheChain(b, s)
    BY <2>1, <2>5 DEF TellsTheChain
  <2> QED BY <1>1, <2>1, <2>2, <2>5, <2>6, <2>7, HaltKeepsIInv
<1> QED BY <1>3, <1>4

\* What only throws.
LEMMA ThrowKeepsIInv ==
    ASSUME IInv, NEW b \in Batches, SendFails(b) \/ WaitRejects(b), UNCHANGED <<wallet, restarts>>
    PROVE  IInv'
<1>1. /\ BatchTypeOK /\ run[b].at # "idle" /\ UNCHANGED <<memoryCache, storage>>
      /\ run' = [run EXCEPT ![b].at = "throw", ![b].nonce = None]
      /\ answer' = answer /\ UNCHANGED <<wallet, chain, restarts>>
  BY DEF IInv, TypeOK, SendFails, WaitRejects, Throw
<1>2. answer' = [answer EXCEPT ![b] = answer[b]] /\ answer[b] \in {"none", "id", "error"}
  BY <1>1 DEF BatchTypeOK
<1>3. NoStatus \in BatchStatus /\ TellsTheChain(b, NoStatus)
  BY BatchConstantsOK DEF BatchStatus, NoStatus, TellsTheChain
<1> QED BY <1>1, <1>2, <1>3, HaltKeepsIInv

\* What writes a status of a batch that is not atomic, and throws.
LEMMA RevertKeepsIInv ==
    ASSUME IInv, NEW b \in Batches, WaitTellsRevert(b) \/ WaitMissing(b),
           UNCHANGED <<wallet, restarts>>
    PROVE  IInv'
<1>1. /\ BatchTypeOK /\ BatchOK(b) /\ Running(b) /\ run[b].at # "idle" /\ ~run[b].atomic
      /\ run' = [run EXCEPT ![b].at = "throw", ![b].nonce = None]
      /\ answer' = answer /\ UNCHANGED <<wallet, chain, restarts>>
  BY DEF IInv, TypeOK, WaitTellsRevert, WaitMissing, Throw, Running
<1>2. PICK receipts \in {run[b].sent, run[b].sent - 1} :
          /\ SetCallBatchStatus(b, [code |-> Partial(b), receipts |-> receipts])
          /\ receipts = run[b].sent => <<b, receipts>> \in chain.reverted
  <2>1. run[b].sent \in Nat /\ run[b].sent # run[b].sent - 1
    BY <1>1 DEF BatchTypeOK, Runs
  <2> QED BY <2>1 DEF WaitTellsRevert, WaitMissing, Tx
<1> DEFINE s == [code |-> Partial(b), receipts |-> receipts]
<1>3. run[b].sent \in 1 .. MaxNonce + 1 /\ 1 .. run[b].sent - 1 \subseteq Succeeded(b)
  <2>1. run[b].sent \in 1 .. LastTx(b) /\ LastTx(b) \in 1 .. MaxNonce + 1
    BY <1>1, BatchConstantsOK DEF BatchOK, LastTx
  <2> QED BY <1>1, <2>1, ChainConstantsOK DEF BatchOK
<1>4. s \in BatchStatus /\ s.code = Partial(b) /\ s.receipts = receipts
  <2>1. receipts \in 0 .. MaxNonce + 1
    BY <1>3, ChainConstantsOK
  <2> QED BY <2>1 DEF BatchStatus, Codes, Partial
<1>5. TellsTheChain(b, s)
  <2>1. run[b].sent \in Nat \ {0} /\ receipts \in Nat
    BY <1>3, ChainConstantsOK
  <2>2. CASE run[b].sent > 1
    <3>1. s.code = "PartialRevert" /\ 1 \in 1 .. run[b].sent - 1
      BY <1>4, <2>1, <2>2 DEF Partial
    <3>2. 1 .. receipts - 1 \subseteq 1 .. run[b].sent - 1
      BY <2>1
    <3>3. IsMined(<<b, receipts>>)
      <4>1. CASE receipts = run[b].sent
        BY <1>2, <4>1 DEF IsMined
      <4>2. CASE receipts = run[b].sent - 1
        <5>1. receipts \in Succeeded(b)
          BY <1>3, <2>1, <2>2, <4>2
        <5> QED BY <5>1 DEF Succeeded, IsMined
      <4> QED BY <4>1, <4>2
    <3> QED BY <1>3, <1>4, <3>1, <3>2, <3>3 DEF TellsTheChain
  <2>3. CASE ~(run[b].sent > 1)
    <3>1. s.code = "Reverted" /\ run[b].sent = 1
      BY <1>4, <2>1, <2>3 DEF Partial
    <3>2. \A i \in 1 .. receipts : i = receipts /\ receipts = run[b].sent
      BY <2>1, <3>1
    <3>3. \A i \in 1 .. receipts : <<b, i>> \in chain.reverted
      BY <1>2, <3>2
    <3> QED BY <1>4, <3>1, <3>3 DEF TellsTheChain
  <2> QED BY <2>2, <2>3
<1>6. answer' = [answer EXCEPT ![b] = answer[b]] /\ answer[b] \in {"none", "id", "error"}
  BY <1>1 DEF BatchTypeOK
<1>7. SetCallBatchStatus(b, s)
  BY <1>2
<1> HIDE DEF s
<1> QED BY <1>1, <1>4, <1>5, <1>6, <1>7, HaltKeepsIInv

LEMMA CatchKeepsIInv ==
    ASSUME IInv, NEW b \in Batches, Catch(b), UNCHANGED <<wallet, restarts>>
    PROVE  IInv'
<1>1. /\ BatchTypeOK /\ run[b].at # "idle" /\ run' = [run EXCEPT ![b].at = "done"]
      /\ answer' = [answer EXCEPT ![b] = "error"] /\ UNCHANGED <<wallet, chain, restarts>>
  BY DEF IInv, TypeOK, Catch
<1> DEFINE s == [code |-> "Reverted", receipts |-> 0]
<1>2. s \in BatchStatus /\ TellsTheChain(b, s)
  <2>1. \A i \in 1 .. 0 : FALSE
    OBVIOUS
  <2> QED BY <2>1, ChainConstantsOK DEF BatchStatus, Codes, TellsTheChain
<1>3. SetCallBatchStatus(b, s) \/ UNCHANGED <<memoryCache, storage>>
  BY DEF Catch
<1>4. run' = [run EXCEPT ![b].at = "done", ![b].nonce = run[b].nonce]
  BY <1>1 DEF BatchTypeOK, Runs
<1> HIDE DEF s
<1> QED BY <1>1, <1>2, <1>3, <1>4, HaltKeepsIInv

LEMMA QueryKeepsIInv ==
    ASSUME IInv, NEW b \in Batches, GetCallsStatus(b), UNCHANGED <<wallet, restarts>>
    PROVE  IInv'
<1> DEFINE m == Observed(b)
           x == storage[b]
           a == answer[b]
           r == run[b]
<1>1. /\ BatchTypeOK /\ TypeOK /\ BatchOK(b) /\ m \in {memoryCache[b], storage[b]}
      /\ UNCHANGED <<wallet, chain, restarts>>
  BY DEF IInv, TypeOK, GetCallsStatus, Observed
<1>2. /\ m \in BatchStatus /\ x \in BatchStatus /\ a \in {"none", "id", "error"} /\ r \in Runs
      /\ run' = [run EXCEPT ![b] = r] /\ memoryCache' = [memoryCache EXCEPT ![b] = m]
      /\ storage' = [storage EXCEPT ![b] = x] /\ answer' = [answer EXCEPT ![b] = a]
  BY <1>1 DEF BatchTypeOK, GetCallsStatus
<1>3. Running(b) => m = memoryCache[b] /\ m.code = "Pending" /\ a = "none"
  BY <1>1, BatchConstantsOK DEF BatchTypeOK, Observed, Running, NoStatus
<1>4. r.at \in {"nonce", "broadcast", "wait"} <=> Running(b)
  BY DEF Running
<1>5. ChainStep(b)
  BY <1>1 DEF ChainStep
<1>6. CASE run[b].at = "idle"
  <2>1. BatchOK(b)'
    <3>1. /\ run'[b] = run[b] /\ memoryCache'[b] = memoryCache[b] /\ storage'[b] = storage[b]
          /\ answer'[b] = answer[b]
      BY <1>1, <1>2, <1>6 DEF BatchTypeOK, BatchOK
    <3>2. /\ \A i \in 1 .. MaxNonce + 1 : Known(<<b, i>>)' <=> Known(<<b, i>>)
          /\ chain' = chain
      BY <1>1 DEF Known
    <3> QED BY <1>1, <3>1, <3>2, BatchStays
  <2> HIDE DEF m, x, a, r
  <2> QED BY <1>1, <1>2, <1>3, <1>4, <1>5, <2>1, OneBatchMoves
<1>7. CASE run[b].at # "idle"
  <2>1. StatusOK(b) => StatusOK(b)'
    <3>1. /\ memoryCache'[b] \in {memoryCache[b], storage[b]} /\ storage'[b] = storage[b]
          /\ answer'[b] = answer[b] /\ run' = run /\ chain' = chain
      BY <1>1, <1>2 DEF BatchTypeOK
    <3> QED BY <3>1 DEF StatusOK, TellsTheChain, IsMined, AllSucceeded, Succeeded, LastTx
  <2>2. /\ r.at = "broadcast" => r.nonce \in Nonces
        /\ r.at \in {"nonce", "broadcast", "wait"} =>
              /\ m.code = "Pending" /\ a = "none"
              /\ r.sent \in 1 .. LastTx(b)
              /\ ~r.atomic => 1 .. r.sent - 1 \subseteq Succeeded(b)
              /\ r.atomic /\ r.sent = 2 /\ Known(<<b, 1>>) => IsMined(<<b, 1>>)
    BY <1>1, <1>3, <1>4 DEF BatchOK
  <2>3. /\ r.at # "idle" /\ r.atomic = run[b].atomic
        /\ r.sent = run[b].sent /\ (r.at \in {"nonce", "broadcast"}
                                        => run[b].at \in {"nonce", "broadcast"})
    BY <1>1, <1>7
  <2> HIDE DEF m, x, a, r
  <2> QED BY <1>1, <1>2, <1>7, <2>1, <2>2, <2>3, BatchStepKeepsIInv
<1> QED BY <1>6, <1>7

\* Every step of a batch.
LEMMA BatchNextKeepsIInv ==
    ASSUME IInv, BatchNext, UNCHANGED <<wallet, restarts>>
    PROVE  IInv'
<1>1. PICK b \in Batches :
        \/ Start(b) \/ ReadNonce(b) \/ Broadcast(b) \/ SendFails(b) \/ SendReplyLost(b)
        \/ WaitSucceeds(b) \/ DelegatedAllTheSame(b) \/ WaitTellsRevert(b) \/ WaitMissing(b)
        \/ WaitRejects(b) \/ Catch(b) \/ GetCallsStatus(b)
  BY DEF BatchNext
<1> QED BY <1>1, StartKeepsIInv, ReadNonceKeepsIInv, BroadcastKeepsIInv, ProceedKeepsIInv,
           ThrowKeepsIInv, RevertKeepsIInv, CatchKeepsIInv, QueryKeepsIInv

-----------------------------------------------------------------------------
(* The steps of a confirmation *)

SendRecords == [at : {"idle", "nonce", "broadcast", "returned", "listed",
                      "sent", "failed", "thrown", "lost"},
                attempt : 0 .. Attempts, nonce : Nonces \cup {None}, replyLost : BOOLEAN]

Entries == [tx : SendTxs, status : Statuses]

Replacements == [at : {"none", "open", "returned", "ended"}, nonce : Nonces \cup {None}]

\* What IInv says of one confirmation.
LEMMA SendFacts ==
    ASSUME IInv, NEW s \in Sends
    PROVE  /\ TypeOK /\ WalletTypeOK /\ ChainTypeOK(AllTxs) /\ ChainInv
           /\ AttemptsOK(s) /\ EntryOK(s) /\ ReplacementOK(s) /\ PollsOK(s)
           /\ send[s] \in SendRecords /\ replacement[s] \in Replacements
           /\ pendingTransactions[s] \in Entries \cup {None}
           /\ send[s].attempt \in 0 .. Attempts /\ Attempts + 1 \notin 0 .. Attempts
<1>1. /\ TypeOK /\ WalletTypeOK /\ ChainTypeOK(AllTxs) /\ ChainInv /\ SendOK(s)
  BY DEF IInv, TypeOK, AllTxs
<1>2. /\ send[s] \in SendRecords /\ replacement[s] \in Replacements
      /\ pendingTransactions[s] \in Entries \cup {None}
  BY <1>1 DEF WalletTypeOK, SendRecords, Replacements, Entries
<1>3. send[s].attempt \in 0 .. Attempts
  BY <1>2 DEF SendRecords
<1> QED BY <1>1, <1>2, <1>3, SendConstantsOK DEF SendOK

\* The chain stays, or the node takes a new transaction of the confirmation.
SendChainStep(s, k) ==
    \/ chain' = chain
    \/ ~Known(<<s, k>>) /\ \E n \in Nonces : NodeTakes(<<s, k>>, n)

LEMMA SendChain ==
    ASSUME IInv, NEW s \in Sends, NEW k \in 1 .. Attempts + 1, SendChainStep(s, k)
    PROVE  /\ ChainTypeOK(AllTxs)' /\ ChainInv'
           /\ chain'.succeeded = chain.succeeded /\ chain'.reverted = chain.reverted
           /\ \A u : u # <<s, k>> => \A n \in Nonces : u \in chain'.pool[n] <=> u \in chain.pool[n]
           /\ \A u : \A n \in Nonces : u \in chain.pool[n] => u \in chain'.pool[n]
<1>1. ChainTypeOK(AllTxs) /\ ChainInv
  BY SendFacts
<1>2. CASE chain' = chain
  BY <1>1, <1>2 DEF ChainTypeOK, ChainInv, IsMined
<1>3. CASE ~Known(<<s, k>>) /\ \E n \in Nonces : NodeTakes(<<s, k>>, n)
  <2>1. PICK n \in Nonces : NodeTakes(<<s, k>>, n)
    BY <1>3
  <2>2. <<s, k>> \in AllTxs
    BY DEF AllTxs, SendTxs
  <2> QED BY <1>1, <1>3, <2>1, <2>2, ChainTakes
<1> QED BY <1>2, <1>3 DEF SendChainStep

\* One confirmation moves and keeps what holds of it.
LEMMA OneSendMoves ==
    ASSUME IInv, NEW s \in Sends, NEW r \in SendRecords, NEW e \in Entries \cup {None},
           NEW p \in Replacements, NEW k \in 1 .. Attempts + 1,
           send' = [send EXCEPT ![s] = r], replacement' = [replacement EXCEPT ![s] = p],
           pendingTransactions' = [pendingTransactions EXCEPT ![s] = e],
           pendingTxStatusTasks' \subseteq SendTxs,
           \A t \in pendingTxStatusTasks' : t[1] # s => t \in pendingTxStatusTasks,
           UNCHANGED <<batches, restarts>>, SendChainStep(s, k),
           send[s].at = "sent" => r.at = "sent",
           e # None => Known(e.tx)',
           SendOK(s)'
    PROVE  IInv'
<1>1. /\ TypeOK /\ WalletTypeOK /\ \A t \in Sends : SendOK(t)
      /\ send \in [Sends -> SendRecords] /\ replacement \in [Sends -> Replacements]
      /\ pendingTransactions \in [Sends -> Entries \cup {None}]
      /\ \A t \in Sends : pendingTransactions[t] # None => Known(pendingTransactions[t].tx)
  BY DEF IInv, TypeOK, WalletTypeOK, SendRecords, Replacements, Entries
<1>2. /\ ChainTypeOK(AllTxs)' /\ ChainInv'
      /\ chain'.succeeded = chain.succeeded /\ chain'.reverted = chain.reverted
      /\ \A u : u # <<s, k>> => \A n \in Nonces : u \in chain'.pool[n] <=> u \in chain.pool[n]
      /\ \A u : \A n \in Nonces : u \in chain.pool[n] => u \in chain'.pool[n]
  BY SendChain
<1>3. BatchTypeOK' /\ \A b \in Batches : BatchOK(b)'
  <2>1. \A b \in Batches : \A i \in 1 .. MaxNonce + 1 : <<b, i>> # <<s, k>>
    BY AccountConstantsOK
  <2>2. \A b \in Batches : \A i \in 1 .. MaxNonce + 1 : Known(<<b, i>>)' <=> Known(<<b, i>>)
    BY <1>2, <2>1 DEF Known
  <2> QED BY <1>2, <2>2, BatchesStay
<1>4. WalletTypeOK'
  <2>1. ASSUME NEW t \in Sends, pendingTransactions'[t] # None
        PROVE  Known(pendingTransactions[t].tx)'
    <3>1. CASE t = s
      BY <1>1, <2>1, <3>1
    <3>2. CASE t # s
      <4>1. pendingTransactions'[t] = pendingTransactions[t] /\ Known(pendingTransactions[t].tx)
        BY <1>1, <2>1, <3>2
      <4> QED BY <1>2, <4>1 DEF Known
    <3> QED BY <3>1, <3>2
  <2>2. /\ send' \in [Sends -> SendRecords] /\ replacement' \in [Sends -> Replacements]
        /\ pendingTransactions' \in [Sends -> Entries \cup {None}]
    BY <1>1
  <2> QED BY <2>1, <2>2 DEF WalletTypeOK, SendRecords, Replacements, Entries
<1>5. ASSUME NEW t \in Sends PROVE SendOK(t)'
  <2>1. CASE t = s
    BY <2>1
  <2>2. CASE t # s
    <3>1. /\ send'[t] = send[t] /\ pendingTransactions'[t] = pendingTransactions[t]
          /\ replacement'[t] = replacement[t] /\ SendOK(t)
      BY <1>1, <2>2
    <3>2. \A u \in pendingTxStatusTasks' : u[1] = t => u \in pendingTxStatusTasks
      BY <2>2
    <3>3. \A u \in Sends : send[u].at = "sent" => send'[u].at = "sent"
      BY <1>1
    <3>4. \A i \in 0 .. Attempts + 1 : \A n \in Nonces :
              <<t, i>> \in chain'.pool[n] <=> <<t, i>> \in chain.pool[n]
      BY <1>2, <2>2
    <3> QED BY <1>1, <1>2, <3>1, <3>2, <3>3, <3>4, SendStays
  <2> QED BY <2>1, <2>2
<1>6. TypeOK'
  BY <1>1, <1>2, <1>3, <1>4 DEF TypeOK, AllTxs
<1> QED BY <1>2, <1>3, <1>5, <1>6 DEF IInv

\* The list, the polls and the replacements stay.
ListStays == UNCHANGED <<pendingTransactions, pendingTxStatusTasks, replacement>>

\* A confirmation whose hash the window has not: nothing but its attempts
\* moves, and it has no entry, poll or replacement.
LEMMA UnsettledMoves ==
    ASSUME IInv, NEW s \in Sends, ~Settled(s), NEW r \in SendRecords, NEW k \in 1 .. Attempts,
           send' = [send EXCEPT ![s] = r],
           ListStays, UNCHANGED <<batches, restarts>>, SendChainStep(s, k),
           r.at \in {"nonce", "broadcast", "returned", "thrown"},
           r.at = "broadcast" => r.nonce \in Nonces,
           r.at # "thrown" => r.attempt \in 1 .. Attempts,
           r.at = "returned" => Known(<<s, r.attempt>>)',
           ApprovalOf[s] # None => send[ApprovalOf[s]].at = "sent",
           \A i \in 1 .. Attempts : Known(<<s, i>>)' =>
              /\ i < r.attempt \/ (i = r.attempt /\ r.at \notin {"nonce", "broadcast"})
              /\ r.replyLost \/ i = r.attempt
    PROVE  IInv'
<1>1. /\ WalletTypeOK /\ AttemptsOK(s) /\ EntryOK(s) /\ ReplacementOK(s) /\ PollsOK(s)
      /\ send[s] \in SendRecords /\ replacement[s] \in Replacements
      /\ pendingTransactions[s] \in Entries \cup {None}
      /\ k \in 1 .. Attempts + 1 /\ k # Attempts + 1
  BY SendFacts, SendConstantsOK
<1>2. /\ send' = [send EXCEPT ![s] = r] /\ send'[s] = r
      /\ replacement' = [replacement EXCEPT ![s] = replacement[s]]
      /\ pendingTransactions' = [pendingTransactions EXCEPT ![s] = pendingTransactions[s]]
      /\ pendingTxStatusTasks' \subseteq SendTxs
      /\ \A t \in pendingTxStatusTasks' : t \in pendingTxStatusTasks
  BY <1>1 DEF WalletTypeOK, ListStays
<1>3. /\ send[s].at \notin {"sent", "listed", "failed", "lost"}
      /\ pendingTransactions[s] = None /\ replacement[s].at = "none"
      /\ \A t \in pendingTxStatusTasks : t[1] # s
      /\ ~Known(Replacement(s))
  BY <1>1 DEF Settled, EntryOK, ReplacementOK, PollsOK
<1>4. ~Known(Replacement(s))'
  <2>1. Replacement(s) # <<s, k>>
    BY <1>1 DEF Replacement
  <2>2. \A n \in Nonces : Replacement(s) \in chain'.pool[n] <=> Replacement(s) \in chain.pool[n]
    BY <1>1, <2>1, SendChain
  <2> QED BY <1>3, <2>2 DEF Known, Replacement
<1>5. AttemptsOK(s)'
  <2>1. ApprovalOf[s] # None => send'[ApprovalOf[s]].at = "sent"
    <3>1. ApprovalOf[s] # None => ApprovalOf[s] \in Sends /\ ApprovalOf[s] # s
      BY <1>3, SendConstantsOK
    <3> QED BY <1>1, <1>2, <3>1 DEF WalletTypeOK
  <2>2. SentTx(s)' = <<s, r.attempt>>
    BY <1>2 DEF SentTx
  <2>3. Known(SentTx(s))' <=> Known(<<s, r.attempt>>)'
    BY <2>2 DEF Known
  <2>4. r.at \notin {"idle", "lost", "listed", "sent", "failed"}
    OBVIOUS
  <2> QED BY <1>2, <2>1, <2>3, <2>4 DEF AttemptsOK
<1>6. EntryOK(s)'
  BY <1>2, <1>3 DEF EntryOK
<1>7. ReplacementOK(s)'
  BY <1>3, <1>4 DEF ReplacementOK, Known, ListStays
<1>8. PollsOK(s)'
  BY <1>2, <1>3 DEF PollsOK
<1>9. SendOK(s)'
  BY <1>5, <1>6, <1>7, <1>8 DEF SendOK
<1>10. PICK e \in Entries \cup {None}, p \in Replacements :
          /\ e = None
          /\ replacement' = [replacement EXCEPT ![s] = p]
          /\ pendingTransactions' = [pendingTransactions EXCEPT ![s] = e]
  BY <1>1, <1>2, <1>3
<1>11. /\ \A t \in pendingTxStatusTasks' : t[1] # s => t \in pendingTxStatusTasks
       /\ send[s].at = "sent" => r.at = "sent"
       /\ e # None => Known(e.tx)'
  BY <1>2, <1>3, <1>10
<1>12. /\ pendingTxStatusTasks' \subseteq SendTxs /\ k \in 1 .. Attempts + 1
  BY <1>1, <1>2
<1> QED BY <1>9, <1>10, <1>11, <1>12, OneSendMoves

\* What the record, the entry and the replacement of a confirmation may become
\* once its attempts are over.
GoodRecord(s, r) ==
    /\ r.attempt = send[s].attempt /\ r.replyLost = send[s].replyLost
    /\ r.at \in {"listed", "sent", "failed", "lost"}
    /\ \/ r.at = send[s].at
       \/ /\ send[s].at \in {"returned", "listed"} /\ r.at # "lost"
          /\ r.at = "sent" => SentTx(s) \in chain.succeeded

GoodEntry(s, e) ==
    e # None =>
        /\ e.tx \in TxOf(s) /\ Known(e.tx)'
        /\ e.status = "sent" => e.tx \in chain.succeeded
        /\ e.status = "failed" => e.tx \in chain.reverted

GoodReplacement(s, p) ==
    /\ p.at = "open" => p.nonce \in Nonces /\ SentTx(s) \in chain.pool[p.nonce]
    /\ p.at = "returned" => Known(Replacement(s))'
    /\ Known(Replacement(s))' => p.at \notin {"none", "open"}
    /\ \A n \in Nonces : Replacement(s) \in chain'.pool[n] => SentTx(s) \in chain.pool[n]

\* A confirmation whose attempts are over: the window lists or is told of it,
\* its entry and its polls move, its transaction is replaced.
LEMMA SettledMoves ==
    ASSUME IInv, NEW s \in Sends, NEW r \in SendRecords, NEW e \in Entries \cup {None},
           NEW p \in Replacements,
           send' = [send EXCEPT ![s] = r], replacement' = [replacement EXCEPT ![s] = p],
           pendingTransactions' = [pendingTransactions EXCEPT ![s] = e],
           pendingTxStatusTasks' \subseteq SendTxs,
           \A t \in pendingTxStatusTasks' : t \notin pendingTxStatusTasks =>
              t[1] = s /\ t \in TxOf(s) /\ Known(t)',
           UNCHANGED <<batches, restarts>>, SendChainStep(s, Attempts + 1),
           GoodRecord(s, r), GoodEntry(s, e), GoodReplacement(s, p)
    PROVE  IInv'
<1>0. /\ r.attempt = send[s].attempt /\ r.replyLost = send[s].replyLost
      /\ r.at \in {"listed", "sent", "failed", "lost"}
      /\ \/ r.at = send[s].at
         \/ /\ send[s].at \in {"returned", "listed"} /\ r.at # "lost"
            /\ r.at = "sent" => SentTx(s) \in chain.succeeded
  BY DEF GoodRecord
<1>1. /\ WalletTypeOK /\ AttemptsOK(s) /\ EntryOK(s) /\ ReplacementOK(s) /\ PollsOK(s)
      /\ send[s].attempt \in 0 .. Attempts /\ Attempts + 1 \in 1 .. Attempts + 1
      /\ \A i \in 0 .. Attempts : i # Attempts + 1
      /\ \A i \in 1 .. Attempts : i \in 0 .. Attempts
  BY SendFacts, SendConstantsOK
<1>2. /\ chain'.succeeded = chain.succeeded /\ chain'.reverted = chain.reverted
      /\ \A u : u # <<s, Attempts + 1>> =>
            \A n \in Nonces : u \in chain'.pool[n] <=> u \in chain.pool[n]
      /\ \A u : \A n \in Nonces : u \in chain.pool[n] => u \in chain'.pool[n]
  BY <1>1, SendChain
<1>3. /\ send'[s] = r /\ replacement'[s] = p /\ pendingTransactions'[s] = e
      /\ SentTx(s)' = SentTx(s) /\ Replacement(s)' = Replacement(s) /\ TxOf(s)' = TxOf(s)
      /\ Settled(s)'
  BY <1>0, <1>1 DEF WalletTypeOK, SentTx, Replacement, TxOf, Settled
<1>4. /\ \A i \in 0 .. Attempts : Known(<<s, i>>)' <=> Known(<<s, i>>)
      /\ \A u : Known(u) => Known(u)'
  BY <1>1, <1>2 DEF Known
<1>5. AttemptsOK(s)'
  <2>1. ApprovalOf[s] # None => send'[ApprovalOf[s]].at = "sent"
    <3>1. ApprovalOf[s] # None => ApprovalOf[s] \in Sends /\ send[ApprovalOf[s]].at = "sent"
      BY <1>0, <1>1, SendConstantsOK DEF AttemptsOK
    <3>2. send[s].at = "sent" => send'[s].at = "sent"
      BY <1>0, <1>3
    <3> QED BY <1>1, <3>1, <3>2 DEF WalletTypeOK
  <2>2. Known(SentTx(s))' <=> Known(<<s, send[s].attempt>>)
    <3>1. Known(SentTx(s))' <=> Known(<<s, send[s].attempt>>)'
      BY <1>3 DEF SentTx, Known
    <3> QED BY <1>0, <1>1, <1>4, <3>1
  <2>3. SentTx(s) = <<s, send[s].attempt>>
    BY DEF SentTx
  <2>4. send[s].at \notin {"idle", "thrown", "nonce", "broadcast"}
    BY <1>0
  <2>5. /\ r.at # "lost" => r.attempt \in 1 .. Attempts
        /\ r.at # "lost" => Known(SentTx(s))'
    BY <1>0, <1>1, <2>2, <2>3, <2>4 DEF AttemptsOK
  <2>6. r.at = "sent" => SentTx(s) \in chain'.succeeded
    BY <1>0, <1>1, <1>2 DEF AttemptsOK
  <2>7. \A k \in 1 .. Attempts : Known(<<s, k>>)' =>
            /\ k < r.attempt \/ k = r.attempt
            /\ r.replyLost \/ k = r.attempt
    BY <1>0, <1>1, <1>4 DEF AttemptsOK
  <2>8. r.at \notin {"idle", "thrown", "nonce", "broadcast", "returned"}
    BY <1>0
  <2> QED BY <1>3, <2>1, <2>5, <2>6, <2>7, <2>8 DEF AttemptsOK
<1>6. EntryOK(s)'
  BY <1>2, <1>3 DEF EntryOK, GoodEntry
<1>7. ReplacementOK(s)'
  <2>1. \A n \in Nonces : Replacement(s) \in chain'.pool[n] => SentTx(s) \in chain'.pool[n]
    BY <1>2 DEF GoodReplacement
  <2>2. p.at = "open" => p.nonce \in Nonces /\ SentTx(s) \in chain'.pool[p.nonce]
    BY <1>2 DEF GoodReplacement
  <2>3. /\ p.at = "returned" => Known(Replacement(s))'
        /\ Known(Replacement(s))' => p.at \notin {"none", "open"}
    BY DEF GoodReplacement
  <2> QED BY <1>3, <2>1, <2>2, <2>3 DEF ReplacementOK
<1>8. PollsOK(s)'
  BY <1>1, <1>3, <1>4 DEF PollsOK
<1>9. SendOK(s)'
  BY <1>5, <1>6, <1>7, <1>8 DEF SendOK
<1>10. /\ \A t \in pendingTxStatusTasks' : t[1] # s => t \in pendingTxStatusTasks
       /\ send[s].at = "sent" => r.at = "sent"
       /\ e # None => Known(e.tx)'
  BY <1>0 DEF GoodEntry
<1> QED BY <1>1, <1>9, <1>10, OneSendMoves

LEMMA ConfirmKeepsIInv ==
    ASSUME IInv, NEW s \in Sends, Confirm(s), UNCHANGED <<batches, restarts>>
    PROVE  IInv'
<1>1. /\ WalletTypeOK /\ AttemptsOK(s) /\ send[s] \in SendRecords /\ ~Settled(s)
      /\ send[s].at = "idle" /\ send \in [Sends -> SendRecords]
      /\ ApprovalOf[s] # None => send[ApprovalOf[s]].at = "sent"
  BY SendFacts DEF Confirm, Allowed, Settled, WalletTypeOK, SendRecords
<1> DEFINE r == [send[s] EXCEPT !.at = "nonce", !.attempt = 1]
<1>2. 1 \in 1 .. Attempts /\ 1 \in 0 .. Attempts
  BY SendConstantsOK
<1>5. r \in SendRecords /\ r.at = "nonce" /\ r.attempt = 1
  BY <1>1, <1>2 DEF SendRecords
<1>6. send' = [send EXCEPT ![s] = r]
  BY <1>1 DEF Confirm
<1> HIDE DEF r
<1>3. ListStays /\ chain' = chain /\ SendChainStep(s, 1)
  BY DEF Confirm, ListStays, SendChainStep
<1>4. \A i \in 1 .. Attempts : ~Known(<<s, i>>)'
  BY <1>1, <1>3 DEF AttemptsOK, Known
<1> QED BY <1>1, <1>2, <1>3, <1>4, <1>5, <1>6, UnsettledMoves

LEMMA ReadSendNonceKeepsIInv ==
    ASSUME IInv, NEW s \in Sends, ReadSendNonce(s), UNCHANGED <<batches, restarts>>
    PROVE  IInv'
<1>1. /\ WalletTypeOK /\ AttemptsOK(s) /\ send[s] \in SendRecords /\ ~Settled(s)
      /\ send[s].at = "nonce" /\ send \in [Sends -> SendRecords]
  BY SendFacts DEF ReadSendNonce, Settled, WalletTypeOK, SendRecords
<1>2. PICK n \in Nonces : send' = [send EXCEPT ![s].at = "broadcast", ![s].nonce = n]
  BY DEF ReadSendNonce
<1> DEFINE r == [send[s] EXCEPT !.at = "broadcast", !.nonce = n]
<1>3. /\ r \in SendRecords /\ r.at = "broadcast" /\ r.nonce \in Nonces
      /\ r.attempt = send[s].attempt /\ r.replyLost = send[s].replyLost
      /\ send' = [send EXCEPT ![s] = r]
  BY <1>1, <1>2 DEF SendRecords
<1> HIDE DEF r
<1>4. ListStays /\ chain' = chain /\ SendChainStep(s, 1) /\ 1 \in 1 .. Attempts
  BY SendConstantsOK DEF ReadSendNonce, ListStays, SendChainStep
<1>5. /\ r.attempt \in 1 .. Attempts
      /\ ApprovalOf[s] # None => send[ApprovalOf[s]].at = "sent"
      /\ \A i \in 1 .. Attempts : Known(<<s, i>>)' =>
            i < r.attempt /\ (r.replyLost \/ i = r.attempt)
  BY <1>1, <1>3, <1>4 DEF AttemptsOK, Known
<1> QED BY <1>1, <1>3, <1>4, <1>5, UnsettledMoves

\* The node takes the transaction of the attempt, which it does not know.
LEMMA AttemptIsTaken ==
    ASSUME IInv, NEW s \in Sends, send[s].at = "broadcast", NodeTakes(SentTx(s), send[s].nonce)
    PROVE  /\ send[s].attempt \in 1 .. Attempts /\ SendChainStep(s, send[s].attempt)
           /\ \A k \in 1 .. Attempts : k = send[s].attempt => Known(<<s, k>>)'
           /\ \A i \in 1 .. Attempts : Known(<<s, i>>)' =>
                 /\ i < send[s].attempt \/ i = send[s].attempt
                 /\ send[s].replyLost \/ i = send[s].attempt
<1>1. /\ AttemptsOK(s) /\ send[s].nonce \in Nonces /\ send[s].attempt \in 1 .. Attempts
      /\ ChainTypeOK(AllTxs)
  BY SendFacts DEF AttemptsOK
<1>2. PICK k \in 1 .. Attempts, n \in Nonces : k = send[s].attempt /\ n = send[s].nonce
  BY <1>1
<1>3. ~Known(<<s, k>>) /\ NodeTakes(<<s, k>>, n)
  BY <1>1, <1>2 DEF AttemptsOK, SentTx
<1>4. SendChainStep(s, k) /\ k \in 1 .. Attempts + 1
  BY <1>3, SendConstantsOK DEF SendChainStep
<1>5. <<s, k>> \in chain'.pool[n]
  BY <1>1, <1>3 DEF NodeTakes, ChainTypeOK
<1>6. \A i \in 1 .. Attempts : i # k => (Known(<<s, i>>)' <=> Known(<<s, i>>))
  <2>1. \A u : u # <<s, k>> => \A m \in Nonces : u \in chain'.pool[m] <=> u \in chain.pool[m]
    BY <1>4, SendChain
  <2> QED BY <2>1 DEF Known
<1>7. \A i \in 1 .. Attempts : Known(<<s, i>>)' =>
          /\ i < k \/ i = k
          /\ send[s].replyLost \/ i = k
  BY <1>1, <1>2, <1>6 DEF AttemptsOK
<1>8. Known(<<s, k>>)'
  BY <1>5 DEF Known
<1>9. SendChainStep(s, send[s].attempt)
  BY <1>2, <1>4
<1> QED BY <1>1, <1>2, <1>7, <1>8, <1>9

LEMMA BroadcastSendKeepsIInv ==
    ASSUME IInv, NEW s \in Sends, BroadcastSend(s), UNCHANGED <<batches, restarts>>
    PROVE  IInv'
<1>1. /\ WalletTypeOK /\ AttemptsOK(s) /\ send[s] \in SendRecords /\ ~Settled(s)
      /\ send[s].at = "broadcast" /\ send \in [Sends -> SendRecords]
      /\ NodeTakes(SentTx(s), send[s].nonce) /\ ListStays
  BY SendFacts DEF BroadcastSend, Settled, WalletTypeOK, SendRecords, ListStays
<1>2. PICK r \in SendRecords : /\ r.at = "returned" /\ r.attempt = send[s].attempt
                              /\ r.replyLost = send[s].replyLost
                              /\ send' = [send EXCEPT ![s] = r]
  <2> DEFINE r == [send[s] EXCEPT !.at = "returned", !.nonce = None]
  <2>1. /\ r \in SendRecords /\ r.at = "returned" /\ r.attempt = send[s].attempt
        /\ r.replyLost = send[s].replyLost /\ send' = [send EXCEPT ![s] = r]
    BY <1>1 DEF SendRecords, BroadcastSend
  <2> QED BY <2>1
<1>3. PICK k \in 1 .. Attempts :
          /\ k = r.attempt /\ SendChainStep(s, k) /\ Known(<<s, k>>)'
          /\ \A i \in 1 .. Attempts : Known(<<s, i>>)' =>
                /\ i < r.attempt \/ i = r.attempt
                /\ r.replyLost \/ i = r.attempt
  BY <1>1, <1>2, AttemptIsTaken
<1>4. ApprovalOf[s] # None => send[ApprovalOf[s]].at = "sent"
  BY <1>1 DEF AttemptsOK
<1> QED BY <1>1, <1>2, <1>3, <1>4, UnsettledMoves

\* What the record becomes when an attempt is over without a hash.
LEMMA RetriedRecord ==
    ASSUME IInv, NEW s \in Sends, NEW lost \in BOOLEAN, Retried(s, lost),
           send[s].at \in {"nonce", "broadcast"}
    PROVE  \E r \in SendRecords :
              /\ send' = [send EXCEPT ![s] = r] /\ r.at \in {"nonce", "thrown"}
              /\ (send[s].replyLost \/ lost => r.replyLost)
              /\ r.at = "nonce" => /\ r.attempt = send[s].attempt + 1
                                   /\ r.attempt \in 1 .. Attempts
              /\ r.at = "thrown" => r.attempt = send[s].attempt
<1>1. send \in [Sends -> SendRecords] /\ send[s] \in SendRecords /\ AttemptsOK(s)
  BY SendFacts DEF WalletTypeOK, SendRecords
<1>2. send[s].attempt \in 1 .. Attempts
  BY <1>1 DEF AttemptsOK
<1> DEFINE more == send[s].attempt < Attempts
           r == [at |-> IF more THEN "nonce" ELSE "thrown",
                 attempt |-> IF more THEN send[s].attempt + 1 ELSE send[s].attempt,
                 nonce |-> None, replyLost |-> send[s].replyLost \/ lost]
<1>3. send' = [send EXCEPT ![s] = r]
  BY <1>1 DEF Retried
<1>4. /\ r.at = (IF more THEN "nonce" ELSE "thrown")
      /\ r.attempt = (IF more THEN send[s].attempt + 1 ELSE send[s].attempt)
      /\ r.replyLost = (send[s].replyLost \/ lost)
  OBVIOUS
<1>5. more => send[s].attempt + 1 \in 1 .. Attempts
  BY <1>2, SendConstantsOK
<1>6. r \in SendRecords
  <2>1. (IF more THEN send[s].attempt + 1 ELSE send[s].attempt) \in 0 .. Attempts
    BY <1>2, SendConstantsOK
  <2>2. (send[s].replyLost \/ lost) \in BOOLEAN
    OBVIOUS
  <2> HIDE DEF more
  <2> QED BY <2>1, <2>2 DEF SendRecords
<1>7. (r.at = "nonce") <=> more
  BY <1>4
<1> HIDE DEF r
<1> QED BY <1>3, <1>4, <1>5, <1>6, <1>7

LEMMA RetryKeepsIInv ==
    ASSUME IInv, NEW s \in Sends, SendAttemptFails(s) \/ SendAttemptReplyLost(s),
           UNCHANGED <<batches, restarts>>
    PROVE  IInv'
<1>1. /\ WalletTypeOK /\ AttemptsOK(s) /\ send[s] \in SendRecords /\ ~Settled(s)
      /\ send[s].at \in {"nonce", "broadcast"} /\ ListStays
      /\ send[s].attempt \in 1 .. Attempts
      /\ ApprovalOf[s] # None => send[ApprovalOf[s]].at = "sent"
  BY SendFacts DEF SendAttemptFails, SendAttemptReplyLost, Settled, ListStays, AttemptsOK
<1>2. PICK lost \in BOOLEAN :
          /\ Retried(s, lost)
          /\ ~lost => chain' = chain
          /\ lost => send[s].at = "broadcast" /\ NodeTakes(SentTx(s), send[s].nonce)
  BY DEF SendAttemptFails, SendAttemptReplyLost
<1>3. PICK r \in SendRecords :
          /\ send' = [send EXCEPT ![s] = r] /\ r.at \in {"nonce", "thrown"}
          /\ send[s].replyLost \/ lost => r.replyLost
          /\ r.at = "nonce" => r.attempt = send[s].attempt + 1 /\ r.attempt \in 1 .. Attempts
          /\ r.at = "thrown" => r.attempt = send[s].attempt
  BY <1>1, <1>2, RetriedRecord
<1>4. PICK k \in 1 .. Attempts :
          /\ k = send[s].attempt /\ SendChainStep(s, k)
          /\ \A i \in 1 .. Attempts : Known(<<s, i>>)' =>
                /\ i < k \/ (i = k /\ lost)
                /\ send[s].replyLost \/ lost
  <2>1. CASE lost
    BY <1>1, <1>2, <2>1, AttemptIsTaken
  <2>2. CASE ~lost
    BY <1>1, <1>2, <2>2 DEF SendChainStep, AttemptsOK, Known
  <2> QED BY <2>1, <2>2
<1>5. \A i \in 1 .. Attempts : Known(<<s, i>>)' =>
          /\ i < r.attempt \/ (i = r.attempt /\ r.at \notin {"nonce", "broadcast"})
          /\ r.replyLost \/ i = r.attempt
  BY <1>1, <1>3, <1>4, SendConstantsOK
<1> QED BY <1>1, <1>3, <1>4, <1>5, UnsettledMoves

\* What stays as it is fits SettledMoves.
LEMMA RecordStays ==
    ASSUME IInv, NEW s \in Sends, Settled(s), send' = send
    PROVE  \E r \in SendRecords : send' = [send EXCEPT ![s] = r] /\ GoodRecord(s, r)
<1>1. send \in [Sends -> SendRecords] /\ send[s] \in SendRecords
  BY SendFacts DEF WalletTypeOK, SendRecords
<1>2. PICK r \in SendRecords : r = send[s]
  BY <1>1
<1>3. send' = [send EXCEPT ![s] = r]
  BY <1>1, <1>2
<1> QED BY <1>2, <1>3 DEF GoodRecord, Settled

LEMMA EntryStays ==
    ASSUME IInv, NEW s \in Sends, pendingTransactions' = pendingTransactions,
           \A u : Known(u) => Known(u)'
    PROVE  \E e \in Entries \cup {None} :
              pendingTransactions' = [pendingTransactions EXCEPT ![s] = e] /\ GoodEntry(s, e)
<1>1. /\ WalletTypeOK /\ EntryOK(s) /\ pendingTransactions[s] \in Entries \cup {None}
  BY SendFacts
<1>2. PICK e \in Entries \cup {None} : e = pendingTransactions[s]
  BY <1>1
<1>3. pendingTransactions' = [pendingTransactions EXCEPT ![s] = e]
  BY <1>1, <1>2 DEF WalletTypeOK
<1>4. e # None => Known(e.tx)
  BY <1>1, <1>2 DEF WalletTypeOK
<1> QED BY <1>1, <1>2, <1>3, <1>4 DEF GoodEntry, EntryOK

LEMMA ReplacementStays ==
    ASSUME IInv, NEW s \in Sends, replacement' = replacement, chain' = chain
    PROVE  \E p \in Replacements :
              replacement' = [replacement EXCEPT ![s] = p] /\ GoodReplacement(s, p)
<1>1. WalletTypeOK /\ ReplacementOK(s) /\ replacement[s] \in Replacements
  BY SendFacts
<1>2. PICK p \in Replacements : p = replacement[s]
  BY <1>1
<1>3. replacement' = [replacement EXCEPT ![s] = p]
  BY <1>1, <1>2 DEF WalletTypeOK
<1>4. Known(Replacement(s))' <=> Known(Replacement(s))
  BY DEF Known, Replacement
<1> QED BY <1>1, <1>2, <1>3, <1>4 DEF GoodReplacement, ReplacementOK

\* The chain stays.
LEMMA ChainStays ==
    ASSUME chain' = chain, NEW s \in Sends
    PROVE  SendChainStep(s, Attempts + 1) /\ \A u : Known(u) => Known(u)'
BY DEF SendChainStep, Known

LEMMA AddKeepsIInv ==
    ASSUME IInv, NEW s \in Sends, AddPendingTransaction(s), UNCHANGED <<batches, restarts>>
    PROVE  IInv'
<1>1. /\ WalletTypeOK /\ AttemptsOK(s) /\ send[s] \in SendRecords /\ send[s].at = "returned"
      /\ send \in [Sends -> SendRecords] /\ Known(SentTx(s)) /\ send[s].attempt \in 1 .. Attempts
  BY SendFacts DEF AddPendingTransaction, WalletTypeOK, SendRecords, AttemptsOK
<1>2. /\ send' = [send EXCEPT ![s].at = "listed"] /\ chain' = chain /\ replacement' = replacement
      /\ pendingTransactions' = [pendingTransactions EXCEPT ![s] = [tx |-> SentTx(s), status |-> "sending"]]
      /\ pendingTxStatusTasks' \subseteq SendTxs
      /\ \A t \in pendingTxStatusTasks' : t \in pendingTxStatusTasks
  BY <1>1 DEF AddPendingTransaction, WalletTypeOK
<1>3. PICK r \in SendRecords : send' = [send EXCEPT ![s] = r] /\ GoodRecord(s, r)
  <2> DEFINE r == [send[s] EXCEPT !.at = "listed"]
  <2>1. /\ r \in SendRecords /\ r.at = "listed" /\ r.attempt = send[s].attempt
        /\ r.replyLost = send[s].replyLost /\ send' = [send EXCEPT ![s] = r]
    BY <1>1, <1>2 DEF SendRecords
  <2> HIDE DEF r
  <2> QED BY <1>1, <2>1 DEF GoodRecord
<1>4. PICK e \in Entries \cup {None} :
          pendingTransactions' = [pendingTransactions EXCEPT ![s] = e] /\ GoodEntry(s, e)
  <2>1. SentTx(s) \in SendTxs
    BY <1>1, SendConstantsOK DEF SentTx, SendTxs
  <2>2. PICK e \in Entries : e = [tx |-> SentTx(s), status |-> "sending"]
    BY <2>1 DEF Entries, Statuses
  <2>3. /\ e.tx = SentTx(s) /\ e.status = "sending" /\ SentTx(s) \in TxOf(s)
    BY <2>2 DEF TxOf
  <2>4. \E n \in Nonces : e.tx \in chain'.pool[n]
    BY <1>1, <1>2, <2>3 DEF Known
  <2>5. GoodEntry(s, e)
    BY <2>3, <2>4 DEF GoodEntry, Known
  <2> QED BY <1>2, <2>2, <2>5
<1>5. PICK p \in Replacements : replacement' = [replacement EXCEPT ![s] = p] /\ GoodReplacement(s, p)
  BY <1>2, ReplacementStays
<1>6. SendChainStep(s, Attempts + 1)
  BY <1>2, ChainStays
<1> QED BY <1>2, <1>3, <1>4, <1>5, <1>6, SettledMoves

LEMMA StartPollKeepsIInv ==
    ASSUME IInv, NEW t \in SendTxs, StartPoll(t), UNCHANGED <<batches, restarts>>
    PROVE  IInv'
<1>1. PICK s \in Sends : s = t[1]
  BY DEF SendTxs
<1>2. /\ WalletTypeOK /\ AttemptsOK(s) /\ EntryOK(s) /\ SendConstantsOK
  BY SendFacts, SendConstantsOK
<1>3. Settled(s) /\ t \in TxOf(s) /\ Known(t)
  <2>1. CASE pendingTransactions[s] = [tx |-> t, status |-> "sending"]
    <3>1. pendingTransactions[s] # None
      <4>1. t \in Sends \X Nat
        BY SendConstantsOK DEF SendTxs
      <4>2. [tx |-> t, status |-> "sending"] \in
                [tx : Sends \X Nat, status : {"sending", "sent", "failed"}]
        BY <4>1
      <4> QED BY <2>1, <4>2, SendConstantsOK
    <3> QED BY <1>2, <2>1, <3>1 DEF EntryOK, WalletTypeOK
  <2>2. CASE send[s].at = "listed" /\ t = SentTx(s)
    BY <1>2, <2>2 DEF AttemptsOK, Settled, TxOf
  <2> QED BY <1>1, <2>1, <2>2 DEF StartPoll
<1>4. /\ chain' = chain /\ send' = send /\ pendingTransactions' = pendingTransactions
      /\ replacement' = replacement
      /\ pendingTxStatusTasks' = pendingTxStatusTasks \cup {t}
  BY DEF StartPoll
<1>5. SendChainStep(s, Attempts + 1) /\ \A u : Known(u) => Known(u)'
  BY <1>4, ChainStays
<1>6. /\ pendingTxStatusTasks' \subseteq SendTxs
      /\ \A u \in pendingTxStatusTasks' : u \notin pendingTxStatusTasks =>
            u[1] = s /\ u \in TxOf(s) /\ Known(u)'
  BY <1>1, <1>2, <1>3, <1>4, <1>5 DEF WalletTypeOK
<1>7. PICK r \in SendRecords : send' = [send EXCEPT ![s] = r] /\ GoodRecord(s, r)
  BY <1>3, <1>4, RecordStays
<1>8. PICK e \in Entries \cup {None} :
          pendingTransactions' = [pendingTransactions EXCEPT ![s] = e] /\ GoodEntry(s, e)
  BY <1>4, <1>5, EntryStays
<1>9. PICK p \in Replacements : replacement' = [replacement EXCEPT ![s] = p] /\ GoodReplacement(s, p)
  BY <1>4, ReplacementStays
<1> QED BY <1>5, <1>6, <1>7, <1>8, <1>9, SettledMoves

\* A poll writes the transaction it waited for, with a status that is true.
LEMMA PollWrites ==
    ASSUME IInv, NEW t \in pendingTxStatusTasks, NEW status \in Statuses, NEW s \in Sends, s = t[1],
           pendingTransactions' = WithStatus(t, status), chain' = chain,
           status = "sent" => t \in chain.succeeded,
           status = "failed" => t \in chain.reverted
    PROVE  \E e \in Entries \cup {None} :
              pendingTransactions' = [pendingTransactions EXCEPT ![s] = e] /\ GoodEntry(s, e)
<1>1. WalletTypeOK /\ PollsOK(s) /\ t \in SendTxs
  BY SendFacts DEF WalletTypeOK
<1>2. t \in TxOf(s) /\ Known(t)
  BY <1>1 DEF PollsOK
<1>3. CASE pendingTransactions[s] = None
  <2>1. pendingTransactions' = [pendingTransactions EXCEPT ![s] = None]
    BY <1>3 DEF WithStatus
  <2> QED BY <2>1 DEF GoodEntry
<1>4. CASE pendingTransactions[s] # None
  <2>1. PICK e \in Entries : e = [tx |-> t, status |-> status]
    BY <1>1 DEF Entries
  <2>2. pendingTransactions' = [pendingTransactions EXCEPT ![s] = e]
    BY <1>4, <2>1 DEF WithStatus
  <2>3. e.tx = t /\ e.status = status /\ Known(t)'
    BY <1>2, <2>1 DEF Known
  <2> QED BY <1>2, <2>2, <2>3 DEF GoodEntry
<1> QED BY <1>3, <1>4

LEMMA PollAnswersKeepsIInv ==
    ASSUME IInv, NEW t \in SendTxs, PollAnswers(t), UNCHANGED <<batches, restarts>>
    PROVE  IInv'
<1>1. PICK s \in Sends : s = t[1]
  BY DEF SendTxs
<1>2. PICK status \in Statuses :
          /\ status = (IF t \in chain.succeeded THEN "sent" ELSE "failed")
          /\ pendingTransactions' = WithStatus(t, status)
          /\ send' = [send EXCEPT ![t[1]].at = IF @ = "listed" /\ t = SentTx(t[1]) THEN status ELSE @]
  BY DEF PollAnswers, Statuses
<1>3. /\ t \in pendingTxStatusTasks /\ IsMined(t) /\ chain' = chain /\ replacement' = replacement
      /\ pendingTxStatusTasks' = pendingTxStatusTasks \ {t}
  BY DEF PollAnswers
<1>4. /\ WalletTypeOK /\ PollsOK(s) /\ send[s] \in SendRecords /\ send \in [Sends -> SendRecords]
  BY SendFacts DEF WalletTypeOK, SendRecords
<1>5. Settled(s)
  BY <1>1, <1>3, <1>4 DEF PollsOK
<1>6. /\ status = "sent" => t \in chain.succeeded
      /\ status = "failed" => t \in chain.reverted
      /\ status \in {"sent", "failed"}
  BY <1>2, <1>3 DEF IsMined
<1>7. PICK r \in SendRecords : send' = [send EXCEPT ![s] = r] /\ GoodRecord(s, r)
  <2>1. CASE send[s].at = "listed" /\ t = SentTx(s)
    <3> DEFINE r == [send[s] EXCEPT !.at = status]
    <3>1. /\ r \in SendRecords /\ r.at = status /\ r.attempt = send[s].attempt
          /\ r.replyLost = send[s].replyLost
      BY <1>4, <1>6 DEF SendRecords
    <3>2. send' = [send EXCEPT ![s] = r]
      BY <1>1, <1>2, <1>4, <2>1
    <3> HIDE DEF r
    <3> QED BY <1>6, <2>1, <3>1, <3>2 DEF GoodRecord
  <2>2. CASE ~(send[s].at = "listed" /\ t = SentTx(s))
    <3>1. send' = send
      BY <1>1, <1>2, <1>4, <2>2 DEF SendRecords
    <3> QED BY <1>5, <3>1, RecordStays
  <2> QED BY <2>1, <2>2
<1>8. PICK e \in Entries \cup {None} :
          pendingTransactions' = [pendingTransactions EXCEPT ![s] = e] /\ GoodEntry(s, e)
  BY <1>1, <1>2, <1>3, <1>6, PollWrites
<1>9. PICK p \in Replacements : replacement' = [replacement EXCEPT ![s] = p] /\ GoodReplacement(s, p)
  BY <1>3, ReplacementStays
<1>10. /\ SendChainStep(s, Attempts + 1) /\ pendingTxStatusTasks' \subseteq SendTxs
       /\ \A u \in pendingTxStatusTasks' : u \in pendingTxStatusTasks
  BY <1>3, <1>4, ChainStays DEF WalletTypeOK
<1> QED BY <1>7, <1>8, <1>9, <1>10, SettledMoves

LEMMA PollGivesUpKeepsIInv ==
    ASSUME IInv, NEW t \in SendTxs, PollGivesUp(t), UNCHANGED <<batches, restarts>>
    PROVE  IInv'
<1>1. PICK s \in Sends : s = t[1]
  BY DEF SendTxs
<1>2. /\ t \in pendingTxStatusTasks /\ chain' = chain /\ replacement' = replacement /\ send' = send
      /\ pendingTxStatusTasks' = pendingTxStatusTasks \ {t}
      /\ pendingTransactions' = WithStatus(t, "sending") /\ "sending" \in Statuses
  BY DEF PollGivesUp, Statuses
<1>3. WalletTypeOK /\ PollsOK(s)
  BY SendFacts
<1>4. Settled(s)
  BY <1>1, <1>2, <1>3 DEF PollsOK
<1>5. PICK r \in SendRecords : send' = [send EXCEPT ![s] = r] /\ GoodRecord(s, r)
  BY <1>2, <1>4, RecordStays
<1>6. PICK e \in Entries \cup {None} :
          pendingTransactions' = [pendingTransactions EXCEPT ![s] = e] /\ GoodEntry(s, e)
  BY <1>1, <1>2, PollWrites
<1>7. PICK p \in Replacements : replacement' = [replacement EXCEPT ![s] = p] /\ GoodReplacement(s, p)
  BY <1>2, ReplacementStays
<1>8. /\ SendChainStep(s, Attempts + 1) /\ pendingTxStatusTasks' \subseteq SendTxs
      /\ \A u \in pendingTxStatusTasks' : u \in pendingTxStatusTasks
  BY <1>2, <1>3, ChainStays DEF WalletTypeOK
<1> QED BY <1>5, <1>6, <1>7, <1>8, SettledMoves

LEMMA RemoveKeepsIInv ==
    ASSUME IInv, NEW s \in Sends, RemovePendingTransaction(s), UNCHANGED <<batches, restarts>>
    PROVE  IInv'
<1>1. /\ WalletTypeOK /\ EntryOK(s) /\ pendingTransactions[s] # None
  BY SendFacts DEF RemovePendingTransaction
<1>2. Settled(s)
  BY <1>1 DEF EntryOK
<1>3. /\ chain' = chain /\ replacement' = replacement /\ send' = send
      /\ pendingTxStatusTasks' \subseteq SendTxs
      /\ \A u \in pendingTxStatusTasks' : u \in pendingTxStatusTasks
      /\ pendingTransactions' = [pendingTransactions EXCEPT ![s] = None]
  BY <1>1 DEF RemovePendingTransaction, WalletTypeOK
<1>4. PICK r \in SendRecords : send' = [send EXCEPT ![s] = r] /\ GoodRecord(s, r)
  BY <1>2, <1>3, RecordStays
<1>5. PICK p \in Replacements : replacement' = [replacement EXCEPT ![s] = p] /\ GoodReplacement(s, p)
  BY <1>3, ReplacementStays
<1>6. PICK e \in Entries \cup {None} :
          pendingTransactions' = [pendingTransactions EXCEPT ![s] = e] /\ GoodEntry(s, e)
  BY <1>3 DEF GoodEntry
<1>7. SendChainStep(s, Attempts + 1)
  BY <1>3, ChainStays
<1> QED BY <1>3, <1>4, <1>5, <1>6, <1>7, SettledMoves

LEMMA OpenReplacementKeepsIInv ==
    ASSUME IInv, NEW s \in Sends, OpenReplacement(s), UNCHANGED <<batches, restarts>>
    PROVE  IInv'
<1>1. /\ WalletTypeOK /\ EntryOK(s) /\ ReplacementOK(s) /\ replacement[s].at = "none"
      /\ pendingTransactions[s] # None
  BY SendFacts DEF OpenReplacement
<1>2. /\ Settled(s) /\ ~Known(Replacement(s)) /\ pendingTransactions[s].tx = SentTx(s)
      /\ Known(SentTx(s))
  <2>1. /\ Settled(s) /\ ~Known(Replacement(s)) /\ pendingTransactions[s].tx \in TxOf(s)
        /\ Known(pendingTransactions[s].tx)
    BY <1>1 DEF EntryOK, ReplacementOK, WalletTypeOK
  <2>2. pendingTransactions[s].tx = SentTx(s)
    BY <2>1 DEF TxOf
  <2> QED BY <2>1, <2>2
<1>3. /\ chain' = chain /\ send' = send /\ pendingTransactions' = pendingTransactions
      /\ pendingTxStatusTasks' \subseteq SendTxs
      /\ \A u \in pendingTxStatusTasks' : u \in pendingTxStatusTasks
      /\ replacement' = [replacement EXCEPT ![s] = [at |-> "open", nonce |-> NonceOf(SentTx(s))]]
  BY <1>1, <1>2 DEF OpenReplacement, WalletTypeOK
<1>4. PICK n \in Nonces : n = NonceOf(SentTx(s)) /\ SentTx(s) \in chain.pool[n]
  BY <1>2 DEF NonceOf, Known
<1>5. PICK p \in Replacements : p = [at |-> "open", nonce |-> n]
  BY DEF Replacements
<1>6. Known(Replacement(s))' <=> Known(Replacement(s))
  BY <1>3 DEF Known, Replacement
<1>7. replacement' = [replacement EXCEPT ![s] = p] /\ GoodReplacement(s, p)
  <2>1. p.at = "open" /\ p.nonce = n
    BY <1>5
  <2>2. \A m \in Nonces : Replacement(s) \notin chain'.pool[m]
    BY <1>2, <1>3 DEF Known
  <2> QED BY <1>2, <1>3, <1>4, <1>5, <1>6, <2>1, <2>2 DEF GoodReplacement
<1>8. SendChainStep(s, Attempts + 1) /\ \A u : Known(u) => Known(u)'
  BY <1>3, ChainStays
<1>9. PICK r \in SendRecords : send' = [send EXCEPT ![s] = r] /\ GoodRecord(s, r)
  BY <1>2, <1>3, RecordStays
<1>10. PICK e \in Entries \cup {None} :
          pendingTransactions' = [pendingTransactions EXCEPT ![s] = e] /\ GoodEntry(s, e)
  BY <1>3, <1>8, EntryStays
<1> QED BY <1>3, <1>7, <1>8, <1>9, <1>10, SettledMoves

\* The node takes the replacement, which it does not know, with the nonce of
\* the transaction that it replaces.
LEMMA ReplacementIsTaken ==
    ASSUME IInv, NEW s \in Sends, replacement[s].at = "open",
           NodeTakes(Replacement(s), replacement[s].nonce),
           NEW p \in Replacements, p.at \in {"returned", "ended"}
    PROVE  /\ SendChainStep(s, Attempts + 1) /\ GoodReplacement(s, p)
           /\ \A u : Known(u) => Known(u)'
<1>1. /\ ReplacementOK(s) /\ replacement[s].nonce \in Nonces /\ ChainTypeOK(AllTxs)
      /\ SentTx(s) \in chain.pool[replacement[s].nonce] /\ ~Known(Replacement(s))
  BY SendFacts DEF ReplacementOK
<1>2. PICK n \in Nonces : n = replacement[s].nonce
  BY <1>1
<1>3. NodeTakes(<<s, Attempts + 1>>, n) /\ ~Known(<<s, Attempts + 1>>)
  BY <1>1, <1>2 DEF Replacement
<1>4. SendChainStep(s, Attempts + 1)
  BY <1>3 DEF SendChainStep
<1>5. \A u : \A m \in Nonces :
          u \in chain'.pool[m] <=> u \in chain.pool[m] \/ (u = Replacement(s) /\ m = n)
  <2>1. chain.pool \in [Nonces -> SUBSET AllTxs]
    BY <1>1 DEF ChainTypeOK
  <2>2. chain'.pool = [chain.pool EXCEPT ![n] = @ \cup {Replacement(s)}]
    BY <1>1, <1>3 DEF NodeTakes, ChainTypeOK, Replacement
  <2> QED BY <2>1, <2>2
<1>6. Replacement(s)' = Replacement(s)
  BY DEF Replacement
<1>7. Known(Replacement(s))'
  BY <1>5, <1>6 DEF Known
<1>8. \A m \in Nonces : Replacement(s) \in chain'.pool[m] => SentTx(s) \in chain.pool[m]
  BY <1>1, <1>2, <1>5 DEF Known
<1>9. GoodReplacement(s, p)
  BY <1>7, <1>8 DEF GoodReplacement
<1>10. \A u : Known(u) => Known(u)'
  BY <1>5 DEF Known
<1> QED BY <1>4, <1>9, <1>10

LEMMA ReplaceKeepsIInv ==
    ASSUME IInv, NEW s \in Sends, BroadcastReplacement(s) \/ ReplacementFails(s),
           UNCHANGED <<batches, restarts>>
    PROVE  IInv'
<1>1. /\ WalletTypeOK /\ ReplacementOK(s) /\ replacement[s].at = "open" /\ Settled(s)
  BY SendFacts DEF BroadcastReplacement, ReplacementFails, ReplacementOK
<1>2. PICK p \in Replacements :
          /\ p.at \in {"returned", "ended"} /\ replacement' = [replacement EXCEPT ![s] = p]
          /\ \/ NodeTakes(Replacement(s), replacement[s].nonce)
             \/ p.at = "ended" /\ chain' = chain
  <2>1. CASE BroadcastReplacement(s)
    <3>1. PICK p \in Replacements : p = [at |-> "returned", nonce |-> None]
      BY DEF Replacements
    <3> QED BY <2>1, <3>1 DEF BroadcastReplacement
  <2>2. CASE ReplacementFails(s)
    <3>1. PICK p \in Replacements : p = [at |-> "ended", nonce |-> None]
      BY DEF Replacements
    <3> QED BY <2>2, <3>1 DEF ReplacementFails
  <2> QED BY <2>1, <2>2
<1>3. /\ SendChainStep(s, Attempts + 1) /\ GoodReplacement(s, p)
      /\ \A u : Known(u) => Known(u)'
  <2>1. CASE NodeTakes(Replacement(s), replacement[s].nonce)
    BY <1>1, <1>2, <2>1, ReplacementIsTaken
  <2>2. CASE p.at = "ended" /\ chain' = chain
    <3>1. \A n \in Nonces : Replacement(s) \in chain'.pool[n] => SentTx(s) \in chain.pool[n]
      BY <1>1, <2>2 DEF ReplacementOK
    <3>2. GoodReplacement(s, p)
      BY <2>2, <3>1 DEF GoodReplacement
    <3> QED BY <2>2, <3>2, ChainStays
  <2> QED BY <1>2, <2>1, <2>2
<1>4. /\ send' = send /\ pendingTransactions' = pendingTransactions
      /\ pendingTxStatusTasks' \subseteq SendTxs
      /\ \A u \in pendingTxStatusTasks' : u \in pendingTxStatusTasks
  BY <1>1 DEF BroadcastReplacement, ReplacementFails, WalletTypeOK
<1>5. PICK r \in SendRecords : send' = [send EXCEPT ![s] = r] /\ GoodRecord(s, r)
  BY <1>1, <1>4, RecordStays
<1>6. PICK e \in Entries \cup {None} :
          pendingTransactions' = [pendingTransactions EXCEPT ![s] = e] /\ GoodEntry(s, e)
  BY <1>3, <1>4, EntryStays
<1> QED BY <1>2, <1>3, <1>4, <1>5, <1>6, SettledMoves

LEMMA UpdateKeepsIInv ==
    ASSUME IInv, NEW s \in Sends, UpdatePendingTransaction(s), UNCHANGED <<batches, restarts>>
    PROVE  IInv'
<1>1. /\ WalletTypeOK /\ ReplacementOK(s) /\ replacement[s].at = "returned" /\ Settled(s)
      /\ Known(Replacement(s)) /\ replacement[s] \in Replacements
  BY SendFacts DEF UpdatePendingTransaction, ReplacementOK
<1>2. /\ chain' = chain /\ send' = send /\ pendingTxStatusTasks' \subseteq SendTxs
      /\ \A u \in pendingTxStatusTasks' : u \in pendingTxStatusTasks
      /\ replacement' = [replacement EXCEPT ![s].at = "ended"]
      /\ pendingTransactions' = [pendingTransactions EXCEPT ![s] =
             IF @ = None THEN None ELSE [tx |-> Replacement(s), status |-> "sending"]]
  BY <1>1 DEF UpdatePendingTransaction, WalletTypeOK
<1>3. PICK p \in Replacements : replacement' = [replacement EXCEPT ![s] = p] /\ GoodReplacement(s, p)
  <2>1. replacement \in [Sends -> Replacements]
    BY <1>1 DEF WalletTypeOK, Replacements
  <2>2. PICK p \in Replacements : p = [replacement[s] EXCEPT !.at = "ended"]
    BY <1>1 DEF Replacements
  <2>3. p.at = "ended" /\ replacement' = [replacement EXCEPT ![s] = p]
    BY <1>1, <1>2, <2>1, <2>2 DEF Replacements
  <2>4. \A n \in Nonces : Replacement(s) \in chain'.pool[n] => SentTx(s) \in chain.pool[n]
    BY <1>1, <1>2 DEF ReplacementOK
  <2>5. GoodReplacement(s, p)
    BY <2>3, <2>4 DEF GoodReplacement
  <2> QED BY <2>3, <2>5
<1>4. PICK e \in Entries \cup {None} :
          pendingTransactions' = [pendingTransactions EXCEPT ![s] = e] /\ GoodEntry(s, e)
  <2>1. CASE pendingTransactions[s] = None
    BY <1>1, <1>2, <2>1 DEF WalletTypeOK, GoodEntry
  <2>2. CASE pendingTransactions[s] # None
    <3>1. Replacement(s) \in SendTxs
      BY SendConstantsOK DEF Replacement, SendTxs
    <3>2. PICK e \in Entries : e = [tx |-> Replacement(s), status |-> "sending"]
      BY <3>1 DEF Entries, Statuses
    <3>3. /\ e.tx = Replacement(s) /\ e.status = "sending" /\ Replacement(s) \in TxOf(s)
      BY <3>2 DEF TxOf
    <3>4. \E n \in Nonces : e.tx \in chain'.pool[n]
      BY <1>1, <1>2, <3>3 DEF Known
    <3>5. GoodEntry(s, e)
      BY <3>3, <3>4 DEF GoodEntry, Known
    <3>6. pendingTransactions' = [pendingTransactions EXCEPT ![s] = e]
      BY <1>2, <2>2, <3>2
    <3> QED BY <3>5, <3>6
  <2> QED BY <2>1, <2>2
<1>5. SendChainStep(s, Attempts + 1)
  BY <1>2, ChainStays
<1>6. PICK r \in SendRecords : send' = [send EXCEPT ![s] = r] /\ GoodRecord(s, r)
  BY <1>1, <1>2, RecordStays
<1> QED BY <1>2, <1>3, <1>4, <1>5, <1>6, SettledMoves

\* Every step of the user's own transactions.
LEMMA WalletNextKeepsIInv ==
    ASSUME IInv, WalletNext, UNCHANGED <<batches, restarts>>
    PROVE  IInv'
<1>1. CASE \E s \in Sends :
              \/ Confirm(s) \/ ReadSendNonce(s) \/ BroadcastSend(s)
              \/ SendAttemptFails(s) \/ SendAttemptReplyLost(s)
              \/ AddPendingTransaction(s) \/ RemovePendingTransaction(s)
              \/ OpenReplacement(s) \/ BroadcastReplacement(s) \/ ReplacementFails(s)
              \/ UpdatePendingTransaction(s)
  BY <1>1, ConfirmKeepsIInv, ReadSendNonceKeepsIInv, BroadcastSendKeepsIInv, RetryKeepsIInv,
     AddKeepsIInv, RemoveKeepsIInv, OpenReplacementKeepsIInv, ReplaceKeepsIInv, UpdateKeepsIInv
<1>2. CASE \E t \in SendTxs : StartPoll(t) \/ PollAnswers(t) \/ PollGivesUp(t)
  BY <1>2, StartPollKeepsIInv, PollAnswersKeepsIInv, PollGivesUpKeepsIInv
<1> QED BY <1>1, <1>2 DEF WalletNext

-----------------------------------------------------------------------------
(* The chain's step, and the restart *)

LEMMA MineKeepsIInv ==
    ASSUME IInv, Mine
    PROVE  IInv'
<1>1. /\ TypeOK /\ ChainTypeOK(AllTxs) /\ ChainInv /\ MineNext
      /\ UNCHANGED batches /\ UNCHANGED wallet /\ restarts' = restarts
  BY DEF IInv, TypeOK, AllTxs, Mine
<1>2. /\ ChainTypeOK(AllTxs)' /\ ChainInv'
      /\ chain.succeeded \subseteq chain'.succeeded /\ chain.reverted \subseteq chain'.reverted
      /\ chain'.pool = chain.pool
  BY <1>1, ChainMines
<1>3. \A u : Known(u)' <=> Known(u)
  BY <1>2 DEF Known
<1>4. BatchTypeOK' /\ \A b \in Batches : BatchOK(b)'
  BY <1>1, <1>2, <1>3, BatchesStay
<1>5. WalletTypeOK' /\ \A s \in Sends : SendOK(s)'
  BY <1>1, <1>2, WalletStays
<1> QED BY <1>1, <1>2, <1>4, <1>5 DEF IInv, TypeOK, AllTxs

LEMMA RestartKeepsBatches ==
    ASSUME IInv, BatchRestart, UNCHANGED chain
    PROVE  BatchTypeOK' /\ \A b \in Batches : BatchOK(b)'
<1>1. /\ BatchTypeOK /\ run \in [Batches -> Runs] /\ storage' = storage /\ answer' = answer
      /\ memoryCache' = [b \in Batches |-> NoStatus] /\ chain' = chain
  BY DEF IInv, TypeOK, BatchTypeOK, BatchRestart
<1>2. ASSUME NEW b \in Batches
      PROVE  /\ run'[b] \in Runs /\ run'[b].sent = run[b].sent /\ run'[b].atomic = run[b].atomic
             /\ run'[b].at \notin {"nonce", "broadcast", "wait"}
             /\ run'[b].at = "idle" <=> run[b].at = "idle"
  <2>1. run[b] \in Runs
    BY <1>1
  <2>2. CASE run[b].at \in {"nonce", "broadcast", "wait", "throw"}
    <3>1. run'[b] = [run[b] EXCEPT !.at = "lost", !.nonce = None]
      BY <2>2 DEF BatchRestart
    <3> QED BY <2>1, <2>2, <3>1 DEF Runs
  <2>3. CASE run[b].at \notin {"nonce", "broadcast", "wait", "throw"}
    <3>1. run'[b] = run[b]
      BY <2>3 DEF BatchRestart
    <3> QED BY <2>1, <2>3, <3>1
  <2> QED BY <2>2, <2>3
<1>3. BatchTypeOK'
  <2>1. run' \in [Batches -> Runs]
    <3>1. run' = [b \in Batches |-> run'[b]]
      BY DEF BatchRestart
    <3> QED BY <1>2, <3>1
  <2>2. memoryCache' \in [Batches -> BatchStatus]
    BY <1>1 DEF BatchStatus
  <2> QED BY <1>1, <1>2, <2>1, <2>2 DEF BatchTypeOK
<1>4. ASSUME NEW b \in Batches PROVE BatchOK(b)'
  <2>1. BatchOK(b) /\ memoryCache'[b] = NoStatus /\ NoStatus.code = None
    BY <1>1 DEF IInv, NoStatus
  <2>2. /\ LastTx(b)' = LastTx(b) /\ Succeeded(b)' = Succeeded(b)
        /\ (AllSucceeded(b)' <=> AllSucceeded(b))
    BY <1>1, <1>2 DEF LastTx, Succeeded, AllSucceeded
  <2>3. StatusOK(b)'
    <3>1. \A y : TellsTheChain(b, y) => TellsTheChain(b, y)'
      BY <1>1, <2>2 DEF TellsTheChain, IsMined
    <3>2. TellsTheChain(b, NoStatus)'
      BY <2>1, BatchConstantsOK DEF TellsTheChain
    <3> QED BY <1>1, <2>1, <2>2, <3>1, <3>2 DEF BatchOK, StatusOK
  <2>4. /\ \A u : Known(u)' <=> Known(u)
        /\ \A u : IsMined(u)' <=> IsMined(u)
    BY <1>1 DEF Known, IsMined
  <2>5. OrderOK(b)'
    BY <1>2, <2>1, <2>2, <2>4 DEF BatchOK, OrderOK
  <2>6. ~Running(b)'
    BY <1>2 DEF Running
  <2> QED BY <1>1, <1>2, <2>1, <2>3, <2>4, <2>5, <2>6 DEF BatchOK
<1> QED BY <1>3, <1>4

LEMMA RestartKeepsSends ==
    ASSUME IInv, WalletRestart, UNCHANGED chain
    PROVE  WalletTypeOK' /\ \A s \in Sends : SendOK(s)'
<1>1. /\ WalletTypeOK /\ send \in [Sends -> SendRecords] /\ replacement \in [Sends -> Replacements]
      /\ pendingTransactions' = pendingTransactions /\ pendingTxStatusTasks' = {} /\ chain' = chain
  BY DEF IInv, TypeOK, WalletTypeOK, WalletRestart, SendRecords, Replacements
<1>2. ASSUME NEW s \in Sends
      PROVE  /\ send'[s] \in SendRecords /\ send'[s].attempt = send[s].attempt
             /\ send'[s].replyLost = send[s].replyLost
             /\ \/ send[s].at \in {"nonce", "broadcast", "returned", "listed"}
                   /\ send'[s].at = "lost"
                \/ send'[s].at = send[s].at /\ send[s].at \in {"idle", "sent", "failed", "thrown", "lost"}
  <2>1. send[s] \in SendRecords
    BY <1>1
  <2>2. CASE send[s].at \in {"nonce", "broadcast", "returned", "listed"}
    <3>1. send'[s] = [send[s] EXCEPT !.at = "lost", !.nonce = None]
      BY <2>2 DEF WalletRestart
    <3> QED BY <2>1, <2>2, <3>1 DEF SendRecords
  <2>3. CASE send[s].at \notin {"nonce", "broadcast", "returned", "listed"}
    <3>1. send'[s] = send[s]
      BY <2>3 DEF WalletRestart
    <3> QED BY <2>1, <2>3, <3>1 DEF SendRecords
  <2> QED BY <2>2, <2>3
<1>3. ASSUME NEW s \in Sends
      PROVE  /\ replacement'[s] \in Replacements /\ replacement'[s].nonce = replacement[s].nonce
             /\ \/ replacement[s].at = "returned" /\ replacement'[s].at = "ended"
                \/ replacement'[s].at = replacement[s].at /\ replacement[s].at # "returned"
  <2>1. replacement[s] \in Replacements
    BY <1>1
  <2>2. CASE replacement[s].at = "returned"
    <3>1. replacement'[s] = [replacement[s] EXCEPT !.at = "ended"]
      BY <2>2 DEF WalletRestart
    <3> QED BY <2>1, <2>2, <3>1 DEF Replacements
  <2>3. CASE replacement[s].at # "returned"
    <3>1. replacement'[s] = replacement[s]
      BY <2>3 DEF WalletRestart
    <3> QED BY <2>1, <2>3, <3>1
  <2> QED BY <2>2, <2>3
<1>4. /\ \A u : Known(u)' <=> Known(u)
      /\ \A u : IsMined(u)' <=> IsMined(u)
  BY <1>1 DEF Known, IsMined
<1>5. WalletTypeOK'
  <2>1. send' \in [Sends -> SendRecords]
    <3>1. send' = [s \in Sends |-> send'[s]]
      BY DEF WalletRestart
    <3> QED BY <1>2, <3>1
  <2>2. replacement' \in [Sends -> Replacements]
    <3>1. replacement' = [s \in Sends |-> replacement'[s]]
      BY DEF WalletRestart
    <3> QED BY <1>3, <3>1
  <2>3. \A s \in Sends : pendingTransactions'[s] # None => Known(pendingTransactions[s].tx)'
    BY <1>1 DEF WalletTypeOK, Known
  <2> QED BY <1>1, <2>1, <2>2, <2>3 DEF WalletTypeOK, SendRecords, Replacements
<1>6. ASSUME NEW s \in Sends PROVE SendOK(s)'
  <2>1. AttemptsOK(s) /\ EntryOK(s) /\ ReplacementOK(s)
    BY SendFacts
  <2>2. /\ SentTx(s)' = SentTx(s) /\ Replacement(s)' = Replacement(s) /\ TxOf(s)' = TxOf(s)
        /\ Settled(s) => Settled(s)'
    BY <1>2 DEF SentTx, Replacement, TxOf, Settled
  <2>3. /\ Known(SentTx(s))' <=> Known(SentTx(s))
        /\ Known(Replacement(s))' <=> Known(Replacement(s))
    BY <1>1, <2>2 DEF Known
  <2>4. AttemptsOK(s)'
    <3>1. ApprovalOf[s] # None => ApprovalOf[s] \in Sends
      BY SendConstantsOK
    <3>2. send[s].at # "idle" /\ ApprovalOf[s] # None => send'[ApprovalOf[s]].at = "sent"
      BY <1>2, <2>1, <3>1 DEF AttemptsOK
    <3>3. send'[s].at \in {"idle", "sent", "failed", "thrown", "lost"}
      BY <1>2
    <3>4. send'[s].at = "idle" <=> send[s].at = "idle"
      BY <1>2
    <3>5. /\ send'[s].at \in {"sent", "failed"} => send[s].attempt \in 1 .. Attempts /\ Known(SentTx(s))'
          /\ send'[s].at = "sent" => SentTx(s) \in chain'.succeeded
      BY <1>1, <1>2, <2>1, <2>3 DEF AttemptsOK
    <3>6. \A k \in 1 .. Attempts : Known(<<s, k>>)' =>
              /\ send'[s].at # "idle"
              /\ k < send'[s].attempt \/ k = send'[s].attempt
              /\ send'[s].replyLost \/ k = send'[s].attempt
      BY <1>2, <1>4, <2>1 DEF AttemptsOK
    <3> QED BY <1>2, <2>2, <3>2, <3>3, <3>4, <3>5, <3>6 DEF AttemptsOK
  <2>5. EntryOK(s)'
    BY <1>1, <2>1, <2>2 DEF EntryOK
  <2>6. ReplacementOK(s)'
    BY <1>1, <1>3, <2>1, <2>2, <2>3 DEF ReplacementOK
  <2>7. PollsOK(s)'
    BY <1>1 DEF PollsOK
  <2> QED BY <2>4, <2>5, <2>6, <2>7 DEF SendOK
<1> QED BY <1>5, <1>6

LEMMA RestartKeepsIInv ==
    ASSUME IInv, Restart
    PROVE  IInv'
<1>1. /\ restarts' \in 0 .. MaxRestarts /\ chain' = chain /\ ChainTypeOK(AllTxs) /\ ChainInv
  BY AccountConstantsOK DEF IInv, TypeOK, AllTxs, Restart
<1>2. BatchTypeOK' /\ \A b \in Batches : BatchOK(b)'
  BY RestartKeepsBatches DEF Restart
<1>3. WalletTypeOK' /\ \A s \in Sends : SendOK(s)'
  BY RestartKeepsSends DEF Restart
<1>4. ChainTypeOK(AllTxs)' /\ ChainInv'
  BY <1>1 DEF ChainTypeOK, ChainInv, IsMined
<1> QED BY <1>1, <1>2, <1>3, <1>4 DEF IInv, TypeOK, AllTxs

-----------------------------------------------------------------------------
(* The invariant is inductive *)

LEMMA InitIInv == Init => IInv
<1> SUFFICES ASSUME Init PROVE IInv
  OBVIOUS
<1>1. /\ chain.pool = [n \in Nonces |-> {}] /\ chain.mined = 0
      /\ chain.succeeded = {} /\ chain.reverted = {}
      /\ chain \in [pool : [Nonces -> SUBSET AllTxs], mined : 0 .. MaxNonce + 1,
                    succeeded : SUBSET AllTxs, reverted : SUBSET AllTxs]
  BY ChainConstantsOK DEF Init, ChainInit
<1>2. (\A u : ~Known(u)) /\ (\A u : ~IsMined(u))
  BY <1>1 DEF Known, IsMined
<1>3. ChainTypeOK(AllTxs) /\ ChainInv
  BY <1>1, <1>2 DEF ChainTypeOK, ChainInv
<1>4. BatchTypeOK
  BY ChainConstantsOK DEF Init, BatchInit, BatchTypeOK, BatchStatus, Runs
<1>5. WalletTypeOK
  BY SendConstantsOK DEF Init, WalletInit, WalletTypeOK
<1>6. ASSUME NEW b \in Batches PROVE BatchOK(b)
  <2>1. /\ run[b].at = "idle" /\ memoryCache[b] = NoStatus /\ storage[b] = NoStatus
        /\ answer[b] = "none" /\ NoStatus.code = None
    BY DEF Init, BatchInit, NoStatus
  <2> QED BY <1>2, <2>1, BatchConstantsOK
          DEF BatchOK, StatusOK, TellsTheChain, OrderOK, Running
<1>7. ASSUME NEW s \in Sends PROVE SendOK(s)
  <2>1. /\ send[s].at = "idle" /\ pendingTransactions[s] = None /\ pendingTxStatusTasks = {}
        /\ replacement[s].at = "none"
    BY DEF Init, WalletInit
  <2>2. AttemptsOK(s)
    BY <1>2, <2>1 DEF AttemptsOK
  <2>3. ReplacementOK(s)
    BY <1>1, <1>2, <2>1 DEF ReplacementOK
  <2> QED BY <2>1, <2>2, <2>3 DEF SendOK, EntryOK, PollsOK
<1>8. restarts \in 0 .. MaxRestarts
  BY AccountConstantsOK DEF Init
<1> QED BY <1>3, <1>4, <1>5, <1>6, <1>7, <1>8 DEF IInv, TypeOK, AllTxs

LEMMA StutterKeepsIInv ==
    ASSUME IInv, UNCHANGED vars
    PROVE  IInv'
<1>1. /\ UNCHANGED batches /\ UNCHANGED wallet /\ chain' = chain /\ restarts' = restarts
      /\ ChainTypeOK(AllTxs) /\ ChainInv /\ TypeOK
  BY DEF IInv, TypeOK, AllTxs, vars
<1>2. BatchTypeOK' /\ \A b \in Batches : BatchOK(b)'
  <2>1. \A u : Known(u)' <=> Known(u)
    BY <1>1 DEF Known
  <2> QED BY <1>1, <2>1, BatchesStay
<1>3. WalletTypeOK' /\ \A s \in Sends : SendOK(s)'
  BY <1>1, WalletStays
<1>4. ChainTypeOK(AllTxs)' /\ ChainInv'
  BY <1>1 DEF ChainTypeOK, ChainInv, IsMined
<1> QED BY <1>1, <1>2, <1>3, <1>4 DEF IInv, TypeOK, AllTxs

LEMMA StepInv == IInv /\ [Next]_vars => IInv'
<1> SUFFICES ASSUME IInv, [Next]_vars PROVE IInv'
  OBVIOUS
<1>1. CASE BatchNext /\ UNCHANGED <<wallet, restarts>>
  BY <1>1, BatchNextKeepsIInv
<1>2. CASE WalletNext /\ UNCHANGED <<batches, restarts>>
  BY <1>2, WalletNextKeepsIInv
<1>3. CASE Mine
  BY <1>3, MineKeepsIInv
<1>4. CASE Restart
  BY <1>4, RestartKeepsIInv
<1>5. CASE UNCHANGED vars
  BY <1>5, StutterKeepsIInv
<1> QED BY <1>1, <1>2, <1>3, <1>4, <1>5 DEF Next

LEMMA Invariance == Spec => []IInv
BY InitIInv, StepInv, PTL DEF Spec

-----------------------------------------------------------------------------
(* Theorems *)

\* Every variable has its type: a nonce is read before a transaction is sent,
\* a batch that runs is stored as pending and unanswered, and an entry of the
\* list is of a transaction that the node knows.
THEOREM TypeCorrect == Spec => []TypeOK
<1>1. IInv => TypeOK
  BY DEF IInv
<1> QED BY <1>1, Invariance, PTL

\* executeWalletSendCalls and callBatchStore: what memory and storage say of a
\* batch is so on the chain.  Confirmed, every call succeeded; partly reverted,
\* the first did and the receipts are of mined calls; reverted with a receipt,
\* the first call reverted.  Reverted without one says nothing of the calls.
THEOREM StatusTellsTheChain == Spec => []StatusIsTrue
<1>1. IInv => StatusIsTrue
  BY DEF IInv, BatchOK, StatusOK, StatusIsTrue
<1> QED BY <1>1, Invariance, PTL

\* executeWalletSendCalls and onSwapPress: what is done in steps stops at the
\* first that does not succeed.
THEOREM StepsFollowSuccess == Spec => []StepsInOrder
<1>1. IInv => StepsInOrder
  <2> SUFFICES ASSUME IInv PROVE StepsInOrder
    OBVIOUS
  <2>1. \A b \in Batches : OrderOK(b)
    BY DEF IInv, BatchOK
  <2>2. ASSUME NEW s \in Sends, NEW k \in 1 .. Attempts, Known(<<s, k>>), ApprovalOf[s] # None
        PROVE  SentTx(ApprovalOf[s]) \in chain.succeeded
    <3>1. ApprovalOf[s] \in Sends /\ send[ApprovalOf[s]].at = "sent"
      BY <2>2, SendFacts, SendConstantsOK DEF AttemptsOK
    <3> QED BY <3>1, SendFacts DEF AttemptsOK
  <2> QED BY <2>1, <2>2 DEF StepsInOrder, OrderOK
<1> QED BY <1>1, Invariance, PTL

\* PortfolioController: an entry that is listed as sent or failed is so on the
\* chain, in whatever order polls, replacements and deletions end.
THEOREM ListTellsTheChain == Spec => []EntriesAreTrue
<1>1. IInv => EntriesAreTrue
  BY DEF IInv, SendOK, EntryOK, EntriesAreTrue
<1> QED BY <1>1, Invariance, PTL

\* newSendTransaction with retryFunc, speedUpTransaction, cancelTransaction: of
\* the transactions sent for one confirmation at most one is mined, unless the
\* reply to an attempt was lost.
THEOREM ConfirmedOncePaidOnce == Spec => []PaidOnce
<1>1. IInv => PaidOnce
  <2> SUFFICES ASSUME IInv, NEW s \in Sends, ~send[s].replyLost
               PROVE  ~(Cardinality({k \in 1 .. Attempts + 1 : IsMined(<<s, k>>)}) > 1)
    BY DEF PaidOnce
  <2> DEFINE mined == {k \in 1 .. Attempts + 1 : IsMined(<<s, k>>)}
  <2>1. \A k, l \in mined : k = l
    <3> SUFFICES ASSUME NEW k \in mined, NEW l \in mined PROVE k = l
      OBVIOUS
    <3>1. AttemptsOK(s) /\ ReplacementOK(s) /\ ChainInv
      BY SendFacts
    <3>2. ASSUME NEW i \in 1 .. Attempts + 1, IsMined(<<s, i>>)
          PROVE  \E n \in Nonces : SentTx(s) \in chain.pool[n] /\ <<s, i>> \in chain.pool[n]
      <4>1. <<s, i>> \in AllTxs
        BY DEF AllTxs, SendTxs
      <4>2. PICK n \in Nonces : <<s, i>> \in chain.pool[n]
        BY <3>1, <3>2, <4>1 DEF ChainInv
      <4>3. CASE i \in 1 .. Attempts
        BY <3>1, <4>2, <4>3 DEF AttemptsOK, SentTx, Known
      <4>4. CASE i = Attempts + 1
        BY <3>1, <4>2, <4>4 DEF ReplacementOK, Replacement
      <4> QED BY <4>3, <4>4, SendConstantsOK
    <3>3. PICK n \in Nonces : SentTx(s) \in chain.pool[n] /\ <<s, k>> \in chain.pool[n]
      BY <3>2
    <3>4. PICK m \in Nonces : SentTx(s) \in chain.pool[m] /\ <<s, l>> \in chain.pool[m]
      BY <3>2
    <3>5. SentTx(s) \in AllTxs
      BY <3>3, SendFacts DEF ChainTypeOK
    <3>6. n = m
      BY <3>1, <3>3, <3>4, <3>5 DEF ChainInv
    <3>7. <<s, k>> = <<s, l>>
      BY <3>1, <3>3, <3>4, <3>6 DEF ChainInv
    <3> QED BY <3>7
  <2>2. mined = {} \/ \E k \in mined : mined = {k}
    BY <2>1
  <2> HIDE DEF mined
  <2>3. Cardinality(mined) \in {0, 1}
    BY <2>2, FS_EmptySet, FS_Singleton
  <2> QED BY <2>3 DEF mined
<1> QED BY <1>1, Invariance, PTL

\* What is written for one batch leaves what is observed of the others.
LEMMA ObservedOfOthers ==
    ASSUME BatchTypeOK, NEW b \in Batches, NEW c \in Batches, b # c, NEW s,
           \/ SetCallBatchStatus(c, s)
           \/ UNCHANGED <<memoryCache, storage>>
    PROVE  Observed(b)' = Observed(b)
<1>1. memoryCache'[b] = memoryCache[b] /\ storage'[b] = storage[b]
  BY DEF BatchTypeOK, SetCallBatchStatus
<1> QED BY <1>1 DEF Observed

\* A step of a batch keeps an observed status that is an end, of any batch.
LEMMA BatchNextKeepsEnds ==
    ASSUME IInv, BatchNext, NEW b \in Batches, Observed(b).code \notin {None, "Pending"}
    PROVE  Observed(b)' = Observed(b)
<1>1. /\ BatchTypeOK /\ BatchOK(b)
      /\ Observed(b) # NoStatus /\ (Running(b) => Observed(b).code = "Pending")
  BY BatchConstantsOK DEF IInv, TypeOK, BatchTypeOK, Running, Observed, NoStatus
<1>2. run[b].at \notin {"idle", "nonce", "broadcast", "wait"}
  BY <1>1 DEF BatchOK, Running, Observed, NoStatus
<1>3. ASSUME UNCHANGED <<memoryCache, storage>> PROVE Observed(b)' = Observed(b)
  BY <1>3 DEF Observed
<1>4. PICK c \in Batches :
        \/ Start(c) \/ ReadNonce(c) \/ Broadcast(c) \/ SendFails(c) \/ SendReplyLost(c)
        \/ WaitSucceeds(c) \/ DelegatedAllTheSame(c) \/ WaitTellsRevert(c) \/ WaitMissing(c)
        \/ WaitRejects(c) \/ Catch(c) \/ GetCallsStatus(c)
  BY DEF BatchNext
<1>5. CASE c # b
  <2>1. CASE GetCallsStatus(c)
    <3>1. memoryCache'[b] = memoryCache[b] /\ storage'[b] = storage[b]
      BY <1>1, <1>5, <2>1 DEF BatchTypeOK, GetCallsStatus
    <3> QED BY <3>1 DEF Observed
  <2>2. CASE ~GetCallsStatus(c)
    <3>1. (\E s : SetCallBatchStatus(c, s)) \/ UNCHANGED <<memoryCache, storage>>
      BY <1>4, <2>2 DEF Start, ReadNonce, Broadcast, SendFails, SendReplyLost, WaitSucceeds,
         DelegatedAllTheSame, Proceed, WaitTellsRevert, WaitMissing, WaitRejects, Catch
    <3> QED BY <1>1, <1>5, <3>1, ObservedOfOthers
  <2> QED BY <2>1, <2>2
<1>6. CASE c = b
  <2>1. Catch(b) \/ GetCallsStatus(b)
    BY <1>2, <1>4, <1>6 DEF Start, ReadNonce, Broadcast, SendFails, SendReplyLost, WaitSucceeds,
       DelegatedAllTheSame, WaitTellsRevert, WaitMissing, WaitRejects
  <2>2. CASE Catch(b)
    BY <1>3, <2>2 DEF Catch
  <2>3. CASE GetCallsStatus(b)
    <3>1. memoryCache'[b] = Observed(b)
      BY <1>1, <2>3 DEF BatchTypeOK, GetCallsStatus
    <3> QED BY <1>1, <3>1 DEF Observed
  <2> QED BY <2>1, <2>2, <2>3
<1> QED BY <1>5, <1>6

\* callBatchStore and the catch of executeWalletSendCalls: while the service
\* worker lives, a batch that ended keeps the status the site is shown.
THEOREM EndedBatchesStay == Spec => EndedStays
<1> DEFINE kept(b) == restarts' = restarts /\ Observed(b).code \notin {None, "Pending"}
                          => Observed(b)' = Observed(b)
<1>1. ASSUME IInv, Next, NEW b \in Batches PROVE kept(b)
  <2>1. CASE BatchNext /\ UNCHANGED <<wallet, restarts>>
    BY <1>1, <2>1, BatchNextKeepsEnds
  <2>2. CASE (WalletNext /\ UNCHANGED <<batches, restarts>>) \/ Mine
    <3>1. memoryCache' = memoryCache /\ storage' = storage
      BY <2>2 DEF Mine, batches
    <3> QED BY <3>1 DEF Observed
  <2>3. CASE Restart
    BY <1>1, <2>3, AccountConstantsOK DEF Restart, IInv, TypeOK
  <2> QED BY <1>1, <2>1, <2>2, <2>3 DEF Next
<1>2. ASSUME UNCHANGED vars, NEW b \in Batches PROVE kept(b)
  BY <1>2 DEF vars, batches, Observed
<1>3. IInv /\ [Next]_vars => [\A b \in Batches : kept(b)]_vars
  BY <1>1, <1>2
<1> QED BY <1>3, Invariance, PTL DEF Spec, EndedStays
=============================================================================
