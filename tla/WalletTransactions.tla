-------------------------- MODULE WalletTransactions --------------------------
(***************************************************************************)
(* The user's own transactions: newSendTransaction of                      *)
(* src/controller/TransactionController.tsx with retryFunc, which send     *)
(* outside the mutex of the sites' transactions; the list of pending       *)
(* transactions of src/controller/PortfolioController.tsx with its polls   *)
(* for receipts; and the windows that confirm, list, speed up, cancel and  *)
(* delete (Swap, SendConfirmation, PendingTransactionCard,                 *)
(* SpeedUpAndCancelModal).                                                 *)
(*                                                                         *)
(* A transaction is known by its hash: <<s, k>> is the one that attempt k  *)
(* of the confirmation s sends, Replacement(s) the one of speeding it up   *)
(* or cancelling it.  An entry that has no status yet counts as sending.   *)
(***************************************************************************)
EXTENDS AccountChain

CONSTANTS
    Sends,          \* confirmations of the user
    ApprovalOf,     \* the token approval a swap sends and waits for first
    Attempts        \* how often retryFunc tries: once on hardware, else more

ASSUME SendConstantsOK ==
    /\ ApprovalOf \in [Sends -> Sends \cup {None}]
    /\ Attempts \in Nat \ {0}
    /\ None \notin Sends
    /\ None \notin [tx : Sends \X Nat, status : {"sending", "sent", "failed"}]

VARIABLES
    send,                   \* where each confirmation is
    pendingTransactions,    \* its entry in the list
    pendingTxStatusTasks,   \* hashes a poll waits for
    replacement             \* where the window that replaces its transaction is

wallet == <<send, pendingTransactions, pendingTxStatusTasks, replacement>>

Replacement(s) == <<s, Attempts + 1>>
SendTxs == Sends \X (1 .. Attempts + 1)
Statuses == {"sending", "sent", "failed"}

\* "returned": the hash is on its way to the window.  "listed": the window has
\* added the entry.  "sent", "failed": it has been told of a receipt.
\* replyLost records that the node took a transaction and its reply was lost.
WalletTypeOK ==
    /\ send \in [Sends -> [at : {"idle", "nonce", "broadcast", "returned", "listed",
                                 "sent", "failed", "thrown", "lost"},
                           attempt : 0 .. Attempts, nonce : Nonces \cup {None},
                           replyLost : BOOLEAN]]
    /\ pendingTransactions \in [Sends -> [tx : SendTxs, status : Statuses] \cup {None}]
    /\ pendingTxStatusTasks \subseteq SendTxs
    /\ replacement \in [Sends -> [at : {"none", "open", "returned", "ended"},
                                  nonce : Nonces \cup {None}]]
    /\ \A s \in Sends : pendingTransactions[s] # None => Known(pendingTransactions[s].tx)

WalletInit ==
    /\ send = [s \in Sends |-> [at |-> "idle", attempt |-> 0, nonce |-> None, replyLost |-> FALSE]]
    /\ pendingTransactions = [s \in Sends |-> None]
    /\ pendingTxStatusTasks = {}
    /\ replacement = [s \in Sends |-> [at |-> "none", nonce |-> None]]

-----------------------------------------------------------------------------
(* newSendTransaction *)

SentTx(s) == <<s, send[s].attempt>>

\* onSwapPress goes on when handleApproveAllowance was told "sent".
Allowed(s) == ApprovalOf[s] # None => send[ApprovalOf[s]].at = "sent"

\* The user confirms.
Confirm(s) ==
    /\ send[s].at = "idle" /\ Allowed(s)
    /\ send' = [send EXCEPT ![s].at = "nonce", ![s].attempt = 1]
    /\ UNCHANGED <<chain, pendingTransactions, pendingTxStatusTasks, replacement>>

\* Each attempt populates the transaction anew, with its own nonce.
ReadSendNonce(s) ==
    /\ send[s].at = "nonce"
    /\ \E n \in Nonces : IsPendingNonce(n) /\ send' = [send EXCEPT ![s].at = "broadcast", ![s].nonce = n]
    /\ UNCHANGED <<chain, pendingTransactions, pendingTxStatusTasks, replacement>>

BroadcastSend(s) ==
    /\ send[s].at = "broadcast"
    /\ NodeTakes(SentTx(s), send[s].nonce)
    /\ send' = [send EXCEPT ![s].at = "returned", ![s].nonce = None]
    /\ UNCHANGED <<pendingTransactions, pendingTxStatusTasks, replacement>>

\* retryFunc
Retried(s, lost) ==
    LET more == send[s].attempt < Attempts
    IN  send' = [send EXCEPT ![s] = [at |-> IF more THEN "nonce" ELSE "thrown",
                                     attempt |-> IF more THEN @.attempt + 1 ELSE @.attempt,
                                     nonce |-> None, replyLost |-> @.replyLost \/ lost]]

\* The node refuses the transaction, or is not reached.
SendAttemptFails(s) ==
    /\ send[s].at \in {"nonce", "broadcast"}
    /\ Retried(s, FALSE)
    /\ UNCHANGED <<chain, pendingTransactions, pendingTxStatusTasks, replacement>>

\* The node takes the transaction and its reply is lost.
SendAttemptReplyLost(s) ==
    /\ send[s].at = "broadcast"
    /\ NodeTakes(SentTx(s), send[s].nonce)
    /\ Retried(s, TRUE)
    /\ UNCHANGED <<pendingTransactions, pendingTxStatusTasks, replacement>>

-----------------------------------------------------------------------------
(* The list of pending transactions *)

\* The window is still there when the hash comes back.
AddPendingTransaction(s) ==
    /\ send[s].at = "returned"
    /\ pendingTransactions' = [pendingTransactions EXCEPT
                                  ![s] = [tx |-> SentTx(s), status |-> "sending"]]
    /\ send' = [send EXCEPT ![s].at = "listed"]
    /\ UNCHANGED <<chain, pendingTxStatusTasks, replacement>>

\* updatePendingTransactionStatus starts a poll unless one runs for that hash:
\* of a card that shows a pending entry, or of the window that sent it.
StartPoll(t) ==
    /\ \/ pendingTransactions[t[1]] = [tx |-> t, status |-> "sending"]
       \/ send[t[1]].at = "listed" /\ t = SentTx(t[1])
    /\ t \notin pendingTxStatusTasks
    /\ pendingTxStatusTasks' = pendingTxStatusTasks \cup {t}
    /\ UNCHANGED <<chain, send, pendingTransactions, replacement>>

\* Mutant of WithStatus: only the status is written.
WithStatusOnly(t, status) ==
    [pendingTransactions EXCEPT ![t[1]] = IF @ = None THEN None ELSE [@ EXCEPT !.status = status]]

\* #updateTxStatus puts the transaction as the poll's caller had it, with the
\* status, in the place of the entry with its id.
WithStatus(t, status) ==
    [pendingTransactions EXCEPT ![t[1]] = IF @ = None THEN None ELSE [tx |-> t, status |-> status]]

\* A receipt; who waits for it is told.
PollAnswers(t) ==
    /\ t \in pendingTxStatusTasks
    /\ IsMined(t)
    /\ LET status == IF t \in chain.succeeded THEN "sent" ELSE "failed"
       IN  /\ pendingTransactions' = WithStatus(t, status)
           /\ send' = [send EXCEPT ![t[1]].at =
                          IF @ = "listed" /\ t = SentTx(t[1]) THEN status ELSE @]
    /\ pendingTxStatusTasks' = pendingTxStatusTasks \ {t}
    /\ UNCHANGED <<chain, replacement>>

\* The last of the tries has found no receipt and the poll has slept once
\* more, so that by now there may be one.
PollGivesUp(t) ==
    /\ t \in pendingTxStatusTasks
    /\ pendingTransactions' = WithStatus(t, "sending")
    /\ pendingTxStatusTasks' = pendingTxStatusTasks \ {t}
    /\ UNCHANGED <<chain, send, replacement>>

\* removePendingTransactions: the user deletes the entry, it is old, or its
\* transaction is in the account's history.
RemovePendingTransaction(s) ==
    /\ pendingTransactions[s] # None
    /\ pendingTransactions' = [pendingTransactions EXCEPT ![s] = None]
    /\ UNCHANGED <<chain, send, pendingTxStatusTasks, replacement>>

-----------------------------------------------------------------------------
(* Speed up and cancel *)

\* The window opens on a pending entry and finds its transaction at the node.
\* Bound: a transaction is replaced once.
OpenReplacement(s) ==
    /\ replacement[s].at = "none"
    /\ pendingTransactions[s] # None /\ pendingTransactions[s].status = "sending"
    /\ replacement' = [replacement EXCEPT
           ![s] = [at |-> "open", nonce |-> NonceOf(pendingTransactions[s].tx)]]
    /\ UNCHANGED <<chain, send, pendingTransactions, pendingTxStatusTasks>>

\* Mutant of BroadcastReplacement: the nonce is left out of the payload.
BroadcastReplacementAnew(s) ==
    /\ replacement[s].at = "open"
    /\ \E n \in Nonces : IsPendingNonce(n) /\ NodeTakes(Replacement(s), n)
    /\ replacement' = [replacement EXCEPT ![s] = [at |-> "returned", nonce |-> None]]
    /\ UNCHANGED <<send, pendingTransactions, pendingTxStatusTasks>>

\* speedUpTransaction, cancelTransaction: the same nonce and more gas.
BroadcastReplacement(s) ==
    /\ replacement[s].at = "open"
    /\ NodeTakes(Replacement(s), replacement[s].nonce)
    /\ replacement' = [replacement EXCEPT ![s] = [at |-> "returned", nonce |-> None]]
    /\ UNCHANGED <<send, pendingTransactions, pendingTxStatusTasks>>

\* The nonce is used by now or the node is not reached; or the node takes the
\* replacement, its reply is lost, and it refuses the retries as known.
ReplacementFails(s) ==
    /\ replacement[s].at = "open"
    /\ NodeTakes(Replacement(s), replacement[s].nonce) \/ UNCHANGED chain
    /\ replacement' = [replacement EXCEPT ![s] = [at |-> "ended", nonce |-> None]]
    /\ UNCHANGED <<send, pendingTransactions, pendingTxStatusTasks>>

\* updatePendingTransaction with the entry as it was when the window opened.
UpdatePendingTransaction(s) ==
    /\ replacement[s].at = "returned"
    /\ pendingTransactions' = [pendingTransactions EXCEPT ![s] =
           IF @ = None THEN None ELSE [tx |-> Replacement(s), status |-> "sending"]]
    /\ replacement' = [replacement EXCEPT ![s].at = "ended"]
    /\ UNCHANGED <<chain, send, pendingTxStatusTasks>>

-----------------------------------------------------------------------------

\* The windows' calls fail with the service worker; the list is stored.
WalletRestart ==
    /\ send' = [s \in Sends |->
           IF send[s].at \in {"nonce", "broadcast", "returned", "listed"}
           THEN [send[s] EXCEPT !.at = "lost", !.nonce = None] ELSE send[s]]
    /\ pendingTxStatusTasks' = {}
    /\ replacement' = [s \in Sends |->
           IF replacement[s].at = "returned" THEN [replacement[s] EXCEPT !.at = "ended"]
           ELSE replacement[s]]
    /\ UNCHANGED pendingTransactions

WalletNext ==
    \/ \E s \in Sends :
          \/ Confirm(s) \/ ReadSendNonce(s) \/ BroadcastSend(s)
          \/ SendAttemptFails(s) \/ SendAttemptReplyLost(s)
          \/ AddPendingTransaction(s) \/ RemovePendingTransaction(s)
          \/ OpenReplacement(s) \/ BroadcastReplacement(s) \/ ReplacementFails(s)
          \/ UpdatePendingTransaction(s)
    \/ \E t \in SendTxs : StartPoll(t) \/ PollAnswers(t) \/ PollGivesUp(t)
=============================================================================
