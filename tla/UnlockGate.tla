------------------------------ MODULE UnlockGate ------------------------------
(***************************************************************************)
(* src/controller/AppStateController.tsx: callers wait for the wallet to   *)
(* be unlocked, and one request of type Unlock asks the user for it.       *)
(* approvalRequestId is the controller's own memory of that request,       *)
(* promptIsOpen what ApprovalController holds; the two must not part.      *)
(*                                                                         *)
(* No page of the UI rejects a request of type Unlock (they reject only    *)
(* the types they show), so its promise is never rejected here.            *)
(***************************************************************************)
EXTENDS SequencesExt

CONSTANT Waiters        \* callers of getUnlockPromise

VARIABLES
    isUnlocked,         \* KeyringController's state
    waitingForUnlock,   \* unresolved promises, oldest first
    approvalRequestId,  \* whether _approvalRequestId is set
    promptIsOpen        \* whether the Unlock request is pending

gate == <<isUnlocked, waitingForUnlock, approvalRequestId, promptIsOpen>>

Waiting == ToSet(waitingForUnlock)

GateTypeOK ==
    /\ isUnlocked \in BOOLEAN /\ approvalRequestId \in BOOLEAN /\ promptIsOpen \in BOOLEAN
    /\ waitingForUnlock \in Seq(Waiters) /\ IsInjective(waitingForUnlock)

GateInit ==
    /\ isUnlocked = FALSE
    /\ waitingForUnlock = <<>>
    /\ approvalRequestId = FALSE
    /\ promptIsOpen = FALSE

-----------------------------------------------------------------------------

\* _requestApproval: a no-op while a request is remembered.
RequestApproval ==
    /\ approvalRequestId' = TRUE
    /\ promptIsOpen' = (promptIsOpen \/ ~approvalRequestId)

\* getUnlockPromise on a locked wallet (an unlocked one resolves at once).
GetUnlockPromise(w) ==
    /\ ~isUnlocked
    /\ w \notin Waiting
    /\ waitingForUnlock' = Append(waitingForUnlock, w)
    /\ RequestApproval
    /\ UNCHANGED isUnlocked

\* Mutant of AcceptApproval: the request is accepted but still remembered.
AcceptApprovalRemembering ==
    /\ promptIsOpen' = (promptIsOpen /\ ~approvalRequestId)
    /\ UNCHANGED approvalRequestId

\* _acceptApproval: nothing to do unless a request is remembered.
AcceptApproval ==
    /\ promptIsOpen' = (promptIsOpen /\ ~approvalRequestId)
    /\ approvalRequestId' = FALSE

\* #setUnlocked and, through its `unlock` event, handleUnlock: one stretch of
\* code.  Unlocking an unlocked wallet publishes the event again.
HandleUnlock ==
    /\ isUnlocked' = TRUE
    /\ waitingForUnlock' = <<>>
    /\ AcceptApproval

SetLocked ==
    /\ isUnlocked' = FALSE
    /\ UNCHANGED <<waitingForUnlock, approvalRequestId, promptIsOpen>>

\* Nothing of the gate is stored; the constructor starts a locked wallet.
GateRestart ==
    /\ isUnlocked' = FALSE
    /\ waitingForUnlock' = <<>>
    /\ approvalRequestId' = FALSE
    /\ promptIsOpen' = FALSE
=============================================================================
