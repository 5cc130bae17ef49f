------------------------- MODULE SignatureController -------------------------
(***************************************************************************)
(* src/controller/SignatureController.tsx with PersonalMessageManager and  *)
(* TypedMessageManager: a message from newUnsigned...Message through the   *)
(* user's approval and the keyring to the answer.                          *)
(*                                                                         *)
(* The code between two waits for the user or for the keyring runs in one  *)
(* turn of the event loop and is one action.  Messages share their id with *)
(* their approval request, the promise of ApprovalPromise; message types   *)
(* are excluded from the rate limit, so no request is replaced.  The       *)
(* public setters of deferred, in-progress and cleared messages have no    *)
(* caller in the repository.                                               *)
(***************************************************************************)
CONSTANTS
    Messages,       \* message ids
    Typed,          \* those of TypedMessageManager
    Deferred        \* those sent with deferSetAsSigned

VARIABLES
    messages,       \* status of each message, "none" before it is added
    approval,       \* the promise of its approval request
    answer,         \* settlement of newUnsigned...Message
    result          \* what the accepting window has been told

signatures == <<messages, approval, answer, result>>

MessageStatus == {"none", "unapproved", "approved", "signed", "rejected", "errored"}
AP == INSTANCE ApprovalPromise WITH Ids <- Messages, status <- approval

SignatureTypeOK ==
    /\ messages \in [Messages -> MessageStatus]
    /\ approval \in [Messages -> AP!Status]
    /\ answer \in [Messages -> {"none", "signature", "userRejected", "error"}]
    /\ result \in [Messages -> {"none", "pending", "success", "error"}]

SignatureInit ==
    /\ messages = [m \in Messages |-> "none"]
    /\ AP!Init
    /\ answer = [m \in Messages |-> "none"]
    /\ result = [m \in Messages |-> "none"]

-----------------------------------------------------------------------------

\* addUnapprovedMessage, waitForFinishStatus and #requestApproval, for every
\* message whose caller goes on in this turn.
NewUnsignedMessages(ms) ==
    /\ messages' = [m \in Messages |-> IF m \in ms THEN "unapproved" ELSE messages[m]]
    /\ approval' = [m \in Messages |-> IF m \in ms THEN "open" ELSE approval[m]]
    /\ UNCHANGED <<answer, result>>

\* The user rejects: #cancelAbstractMessage, then userRejectedRequest.
CancelMessage(m) ==
    /\ AP!Reject({m})
    /\ messages' = [messages EXCEPT ![m] = "rejected"]
    /\ answer' = [answer EXCEPT ![m] = "userRejected"]
    /\ UNCHANGED result

\* Mutant of Failed: the catch reports to the site and not to the window.
FailedQuietly(m) ==
    /\ messages' = [messages EXCEPT ![m] = IF m \in Typed THEN "errored" ELSE "rejected"]
    /\ answer' = [answer EXCEPT ![m] = "error"]
    /\ UNCHANGED result

\* #errorMessage (a personal message counts as rejected), then the catch of
\* #newUnsignedAbstractMessage.
Failed(m) ==
    /\ messages' = [messages EXCEPT ![m] = IF m \in Typed THEN "errored" ELSE "rejected"]
    /\ answer' = [answer EXCEPT ![m] = "error"]
    /\ result' = [result EXCEPT ![m] = "error"]

\* The user accepts and the window waits for the result: approveMessage, then
\* the keyring is asked.  On a locked wallet it has no keyring for the account.
ApproveMessage(m, keyringHasAccount) ==
    /\ AP!Resolve(m)
    /\ IF keyringHasAccount
       THEN /\ messages' = [messages EXCEPT ![m] = "approved"]
            /\ result' = [result EXCEPT ![m] = "pending"]
            /\ UNCHANGED answer
       ELSE Failed(m)

\* The keyring signs.  setMessageStatusSigned fires the finished event that
\* the caller waits for.  A deferred message stays approved and its caller
\* waits on, as if the keyring had not answered.
SignMessage(m) ==
    /\ messages[m] = "approved"
    /\ m \notin Deferred
    /\ messages' = [messages EXCEPT ![m] = "signed"]
    /\ answer' = [answer EXCEPT ![m] = "signature"]
    /\ result' = [result EXCEPT ![m] = "success"]
    /\ UNCHANGED approval

\* The keyring, or the device behind it, refuses.
SignFails(m) ==
    /\ messages[m] = "approved"
    /\ Failed(m)
    /\ UNCHANGED approval

\* Mutant of SignatureRestart: messages are stored as transactions are.
SignatureRestartStored ==
    /\ approval' = [m \in Messages |-> "unmade"]
    /\ result' = [m \in Messages |-> "none"]
    /\ UNCHANGED <<messages, answer>>

\* The message managers start empty; what was answered is with the page.
SignatureRestart ==
    /\ messages' = [m \in Messages |-> "none"]
    /\ approval' = [m \in Messages |-> "unmade"]
    /\ result' = [m \in Messages |-> "none"]
    /\ UNCHANGED answer
=============================================================================
