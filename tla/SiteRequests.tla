----------------------------- MODULE SiteRequests -----------------------------
(***************************************************************************)
(* Requests of sites through the provider engine of AppController:         *)
(* eth_requestAccounts (src/lib/rpc-method-middleware/request-accounts.tsx)*)
(* and message signatures (src/lib/createWalletMiddleware.tsx), composed   *)
(* with UnlockGate, SignatureController and the sites' permissions while   *)
(* the user locks and unlocks, decides, revokes, and the worker restarts.  *)
(*                                                                         *)
(* A request that is released by the gate goes on in the same turn of the  *)
(* event loop up to its answer or to its approval request.                 *)
(***************************************************************************)
EXTENDS UnlockGate, FiniteSets, Naturals

CONSTANTS
    Calls,          \* requests sites have sent
    OriginOf,       \* the site of each
    KindOf,         \* "accounts", "personal" or "typed"
    Deferred,       \* signature requests with deferSetAsSigned
    MaxRestarts     \* bound of service worker restarts

AccountCalls == {c \in Calls : KindOf[c] = "accounts"}
SignCalls == Calls \ AccountCalls
Origins == {OriginOf[c] : c \in Calls}

ASSUME SiteConstantsOK ==
    /\ KindOf \in [Calls -> {"accounts", "personal", "typed"}]
    /\ DOMAIN OriginOf = Calls
    /\ Calls \subseteq Waiters
    /\ Deferred \subseteq SignCalls
    /\ MaxRestarts \in Nat

VARIABLES
    locks,          \* request-accounts.tsx: origins with a request at the gate
    permitted,      \* PermissionController: origins with eth_accounts
    call,           \* where each request is
    messages, approval, answer, result,     \* SignatureController
    restarts

SC == INSTANCE SignatureController
    WITH Messages <- SignCalls, Typed <- {c \in SignCalls : KindOf[c] = "typed"}

site == <<locks, permitted, call>>
vars == <<gate, site, messages, approval, answer, result, restarts>>

\* "replaced": the permission request made way for a newer one of the site,
\* and its promise never settles.  "message": the answer is answer[c].
CallStates == {"idle", "gate", "asking", "replaced", "message",
               "accounts", "empty", "unauthorized", "busy", "denied"}

TypeOK ==
    /\ GateTypeOK /\ SC!SignatureTypeOK
    /\ locks \subseteq Origins /\ permitted \subseteq Origins
    /\ call \in [Calls -> CallStates]
    /\ restarts \in 0 .. MaxRestarts
    /\ \A c \in SignCalls : messages[c] # "none" => call[c] = "message"

Init ==
    /\ GateInit /\ SC!SignatureInit
    /\ locks = {} /\ permitted \in SUBSET Origins
    /\ call = [c \in Calls |-> "idle"]
    /\ restarts = 0

-----------------------------------------------------------------------------
(* What a request does once it is past the gate *)

\* Mutant of AfterGate: the permission that was checked before the wait holds.
AfterGateUnchecked(c) == IF c \in AccountCalls THEN "accounts" ELSE "message"

\* getAccounts is read after the wait: eth_requestAccounts answers with what
\* the site may see now, and a signature needs the account to be among them.
AfterGate(c) ==
    CASE c \in AccountCalls /\ OriginOf[c] \in permitted -> "accounts"
      [] c \in AccountCalls /\ OriginOf[c] \notin permitted -> "empty"
      [] c \in SignCalls /\ OriginOf[c] \in permitted -> "message"
      [] OTHER -> "unauthorized"

\* The requests cs go on.
GoOn(cs) ==
    /\ call' = [c \in Calls |-> IF c \in cs THEN AfterGate(c) ELSE call[c]]
    /\ SC!NewUnsignedMessages({c \in cs : AfterGate(c) = "message"})

AtGate == {c \in Calls : call[c] = "gate"}

-----------------------------------------------------------------------------
(* eth_requestAccounts *)

\* Another request of the origin waits at the gate.
RefuseBusy(c) ==
    /\ c \in AccountCalls /\ call[c] = "idle"
    /\ OriginOf[c] \in locks
    /\ call' = [call EXCEPT ![c] = "busy"]
    /\ UNCHANGED <<gate, locks, permitted, messages, approval, answer, result, restarts>>

RequestAccounts(c) ==
    /\ c \in AccountCalls /\ call[c] = "idle"
    /\ OriginOf[c] \notin locks
    /\ OriginOf[c] \in permitted
    /\ IF isUnlocked
       THEN /\ GoOn({c})
            /\ UNCHANGED <<gate, locks>>
       ELSE /\ GetUnlockPromise(c)
            /\ locks' = locks \cup {OriginOf[c]}
            /\ call' = [call EXCEPT ![c] = "gate"]
            /\ UNCHANGED <<messages, approval, answer, result>>
    /\ UNCHANGED <<permitted, restarts>>

\* Without the permission the user is asked for it.  The approval type is rate
\* limited, so an older permission request of the site is replaced.
RequestPermission(c) ==
    /\ c \in AccountCalls /\ call[c] = "idle"
    /\ OriginOf[c] \notin locks \cup permitted
    /\ call' = [d \in Calls |->
                  IF d = c THEN "asking"
                  ELSE IF call[d] = "asking" /\ OriginOf[d] = OriginOf[c] THEN "replaced"
                  ELSE call[d]]
    /\ UNCHANGED <<gate, locks, permitted, messages, approval, answer, result, restarts>>

\* getPermittedAccounts does not ask whether the wallet is locked.
GrantPermission(c) ==
    /\ call[c] = "asking"
    /\ permitted' = permitted \cup {OriginOf[c]}
    /\ call' = [call EXCEPT ![c] = "accounts"]
    /\ UNCHANGED <<gate, locks, messages, approval, answer, result, restarts>>

DenyPermission(c) ==
    /\ call[c] = "asking"
    /\ call' = [call EXCEPT ![c] = "denied"]
    /\ UNCHANGED <<gate, locks, permitted, messages, approval, answer, result, restarts>>

\* The user or the site removes the permission.
RevokePermission(o) ==
    /\ o \in permitted
    /\ permitted' = permitted \ {o}
    /\ UNCHANGED <<gate, locks, call, messages, approval, answer, result, restarts>>

-----------------------------------------------------------------------------
(* personal_sign and eth_signTypedData *)

RequestSignature(c) ==
    /\ c \in SignCalls /\ call[c] = "idle"
    /\ IF isUnlocked
       THEN GoOn({c}) /\ UNCHANGED gate
       ELSE /\ GetUnlockPromise(c)
            /\ call' = [call EXCEPT ![c] = "gate"]
            /\ UNCHANGED <<messages, approval, answer, result>>
    /\ UNCHANGED <<locks, permitted, restarts>>

AcceptSignature(c) == SC!ApproveMessage(c, isUnlocked) /\ UNCHANGED <<gate, site, restarts>>
RejectSignature(c) == SC!CancelMessage(c) /\ UNCHANGED <<gate, site, restarts>>
KeyringSigns(c) == SC!SignMessage(c) /\ UNCHANGED <<gate, site, restarts>>
KeyringFails(c) == SC!SignFails(c) /\ UNCHANGED <<gate, site, restarts>>

-----------------------------------------------------------------------------
(* The wallet *)

\* Mutant of Unlock: an origin whose permission is gone keeps its lock, as if
\* it were released only on success.
UnlockKeepingLocks ==
    /\ HandleUnlock
    /\ GoOn(AtGate)
    /\ locks' = {o \in locks : o \notin permitted}
    /\ UNCHANGED <<permitted, restarts>>

\* Every waiter is resolved, goes on and, in its `finally`, frees its origin.
Unlock ==
    /\ HandleUnlock
    /\ GoOn(AtGate)
    /\ locks' = {}
    /\ UNCHANGED <<permitted, restarts>>

Lock == /\ isUnlocked /\ SetLocked
        /\ UNCHANGED <<site, messages, approval, answer, result, restarts>>

Answered(c) ==
    \/ call[c] \in {"accounts", "empty", "unauthorized", "busy", "denied"}
    \/ call[c] = "message" /\ answer[c] # "none"

\* The worker is stopped and started.  The page sends again what has not been
\* answered, when its content script reconnects.
Restart ==
    /\ restarts < MaxRestarts
    /\ restarts' = restarts + 1
    /\ GateRestart /\ SC!SignatureRestart
    /\ locks' = {}
    /\ call' = [c \in Calls |-> IF Answered(c) THEN call[c] ELSE "idle"]
    /\ UNCHANGED permitted

Next ==
    \/ \E c \in Calls : \/ RefuseBusy(c) \/ RequestAccounts(c) \/ RequestPermission(c)
                        \/ GrantPermission(c) \/ DenyPermission(c)
    \/ \E c \in SignCalls : \/ RequestSignature(c) \/ AcceptSignature(c)
                            \/ RejectSignature(c) \/ KeyringSigns(c) \/ KeyringFails(c)
    \/ \E o \in Origins : RevokePermission(o)
    \/ Unlock \/ Lock \/ Restart

Spec == Init /\ [][Next]_vars

\* The keyring settles every signature it was asked for: a software key signs
\* at once, and the promise of a device ends with its answer or with its port.
FairSpec == Spec /\ \A c \in SignCalls : WF_vars(KeyringSigns(c) \/ KeyringFails(c))

-----------------------------------------------------------------------------
(* Properties *)

\* Nobody waits at the gate of an unlocked wallet, and whoever waits has a
\* request in front of the user: _approvalRequestId, which keeps a second one
\* from being made, never outlives the request it stands for.
WaitersArePrompted ==
    /\ waitingForUnlock # <<>> => ~isUnlocked /\ promptIsOpen
    /\ approvalRequestId = promptIsOpen

\* The per-origin lock of eth_requestAccounts is held exactly while one
\* request of the origin waits for the wallet: a lock nobody is left to free
\* would answer every later request of the site with "Already processing".
LocksAreHeldByWaiters ==
    /\ \A o \in Origins :
          LET holders == {c \in AccountCalls : call[c] = "gate" /\ OriginOf[c] = o}
          IN  /\ Cardinality(holders) <= 1
              /\ o \in locks <=> holders # {}
    /\ Waiting = AtGate

\* A site whose permission is revoked while its request waits for the user is
\* neither told the accounts nor asked of the user for a signature.
DisclosedWhilePermitted ==
    [][\A c \in Calls :
          call[c] # call'[c] /\ call'[c] \in {"accounts", "message"}
              => OriginOf[c] \in permitted']_vars

\* A message the user accepted comes to an end that both the site and the
\* window, which waits for the result, are told, and the same one; unless the
\* site asked to defer it, or the worker is restarted.
AcceptedIsReported ==
    \A c \in SignCalls \ Deferred :
        result[c] = "pending" ~>
            <<result[c], answer[c]>> \in {<<"success", "signature">>,
                                          <<"error", "error">>, <<"none", "none">>}
=============================================================================
