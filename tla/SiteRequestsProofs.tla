-------------------------- MODULE SiteRequestsProofs --------------------------
(***************************************************************************)
(* Theorems about SiteRequests, for all sets of sites and of requests and  *)
(* any number of restarts.                                                 *)
(***************************************************************************)
EXTENDS SiteRequests, FilterProofs, FiniteSetTheorems

-----------------------------------------------------------------------------
(* The inductive invariant *)

\* A message whose approval is open is known to its manager.
OpenIsAdded == \A m \in SignCalls : approval[m] = "open" => messages[m] # "none"

\* LocksAreHeldByWaiters, without counting: two requests of one origin do not
\* wait at once.
WaitersHoldLocks ==
    /\ \A c, d \in AccountCalls :
          call[c] = "gate" /\ call[d] = "gate" /\ OriginOf[c] = OriginOf[d] => c = d
    /\ \A c \in AccountCalls : call[c] = "gate" => OriginOf[c] \in locks
    /\ \A o \in locks : \E c \in AccountCalls : call[c] = "gate" /\ OriginOf[c] = o
    /\ Waiting = AtGate

IInv == TypeOK /\ WaitersArePrompted /\ OpenIsAdded /\ WaitersHoldLocks

LEMMA OriginsOfCalls == \A c \in Calls : OriginOf[c] \in Origins
BY DEF Origins

LEMMA InitIInv == Init => IInv
<1> SUFFICES ASSUME Init PROVE IInv
  OBVIOUS
<1>1. /\ waitingForUnlock \in Seq(Waiters) /\ Waiting = {} /\ IsInjective(waitingForUnlock)
  BY EmptySeq DEF Init, GateInit, Waiting, ToSet, IsInjective
<1>2. TypeOK
  <2>1. GateTypeOK
    BY <1>1 DEF Init, GateInit, GateTypeOK
  <2>2. SC!SignatureTypeOK /\ \A c \in SignCalls : messages[c] = "none"
    BY DEF Init, SC!SignatureInit, SC!AP!Init, SC!SignatureTypeOK, SC!MessageStatus, SC!AP!Status
  <2>3. call \in [Calls -> CallStates] /\ restarts \in 0 .. MaxRestarts
    BY SiteConstantsOK DEF Init, CallStates
  <2> QED BY <2>1, <2>2, <2>3 DEF Init, TypeOK
<1>3. WaitersHoldLocks
  BY <1>1 DEF Init, WaitersHoldLocks, AtGate, AccountCalls
<1> QED BY <1>2, <1>3
        DEF IInv, Init, GateInit, WaitersArePrompted, OpenIsAdded, SC!SignatureInit, SC!AP!Init,
            SignCalls, AccountCalls

-----------------------------------------------------------------------------
(* The gate *)

\* A request of an empty place in the queue.
LEMMA GateTakes ==
    ASSUME GateTypeOK, WaitersArePrompted, NEW c \in Calls, GetUnlockPromise(c)
    PROVE  GateTypeOK' /\ WaitersArePrompted' /\ Waiting' = Waiting \cup {c}
<1>1. /\ waitingForUnlock' \in Seq(Waiters) /\ IsInjective(waitingForUnlock')
      /\ Waiting' = Waiting \cup {c}
  BY AppendElements, SiteConstantsOK DEF GateTypeOK, GetUnlockPromise, Waiting
<1>2. /\ isUnlocked' = isUnlocked /\ ~isUnlocked
      /\ approvalRequestId' = TRUE /\ promptIsOpen' = TRUE
  BY DEF GetUnlockPromise, RequestApproval, WaitersArePrompted, GateTypeOK
<1> QED BY <1>1, <1>2 DEF GateTypeOK, WaitersArePrompted

\* Whoever empties the queue also forgets the request.
LEMMA GateEmpties ==
    ASSUME GateTypeOK, WaitersArePrompted, HandleUnlock \/ GateRestart
    PROVE  GateTypeOK' /\ WaitersArePrompted' /\ Waiting' = {}
<1>1. /\ waitingForUnlock' = <<>> /\ waitingForUnlock' \in Seq(Waiters)
      /\ IsInjective(waitingForUnlock') /\ Waiting' = {}
  <2>1. waitingForUnlock' = <<>>
    BY DEF HandleUnlock, GateRestart
  <2>2. <<>> \in Seq(Waiters) /\ ToSet(<<>>) = {} /\ IsInjective(<<>>)
    BY EmptySeq DEF ToSet, IsInjective
  <2> QED BY <2>1, <2>2 DEF Waiting
<1>2. isUnlocked' \in BOOLEAN /\ approvalRequestId' = FALSE /\ promptIsOpen' = FALSE
  BY DEF HandleUnlock, AcceptApproval, GateRestart, WaitersArePrompted, GateTypeOK
<1> QED BY <1>1, <1>2 DEF GateTypeOK, WaitersArePrompted

-----------------------------------------------------------------------------
(* The signatures *)

\* Every step of SignatureController on one message keeps the types, adds no
\* message and opens no approval.
LEMMA SignatureSteps ==
    ASSUME SC!SignatureTypeOK, OpenIsAdded, NEW c \in SignCalls,
           \/ \E b \in BOOLEAN : SC!ApproveMessage(c, b)
           \/ SC!CancelMessage(c) \/ SC!SignMessage(c) \/ SC!SignFails(c)
    PROVE  /\ SC!SignatureTypeOK' /\ OpenIsAdded'
           /\ \A m \in SignCalls : messages'[m] # "none" => messages[m] # "none"
<1>1. messages[c] # "none"
  BY DEF OpenIsAdded, SC!ApproveMessage, SC!CancelMessage, SC!SignMessage, SC!SignFails,
         SC!AP!Resolve, SC!AP!Reject, SC!AP!OpenIds
<1>2. \E s \in SC!MessageStatus \ {"none"} : messages' = [messages EXCEPT ![c] = s]
  BY DEF SC!ApproveMessage, SC!CancelMessage, SC!SignMessage, SC!SignFails, SC!Failed,
         SC!MessageStatus
<1>3. \/ approval' = approval
      \/ approval' = [approval EXCEPT ![c] = "resolved"]
      \/ approval' = [m \in SignCalls |-> IF m \in {c} THEN "rejected" ELSE approval[m]]
  BY DEF SC!ApproveMessage, SC!CancelMessage, SC!SignMessage, SC!SignFails, SC!Failed,
         SC!AP!Resolve, SC!AP!Reject
<1>4. /\ \E a \in {"signature", "userRejected", "error"} :
            answer' \in {answer, [answer EXCEPT ![c] = a]}
      /\ \E r \in {"pending", "success", "error"} :
            result' \in {result, [result EXCEPT ![c] = r]}
  BY DEF SC!ApproveMessage, SC!CancelMessage, SC!SignMessage, SC!SignFails, SC!Failed
<1>5. SC!SignatureTypeOK'
  BY <1>2, <1>3, <1>4 DEF SC!SignatureTypeOK, SC!MessageStatus, SC!AP!Status
<1> QED BY <1>1, <1>2, <1>3, <1>5 DEF OpenIsAdded, SC!SignatureTypeOK

\* Messages are added by the requests that go on and lead there.
LEMMA GoOnSteps ==
    ASSUME IInv, NEW cs \in SUBSET Calls, GoOn(cs)
    PROVE  /\ call' \in [Calls -> CallStates] /\ SC!SignatureTypeOK' /\ OpenIsAdded'
           /\ \A c \in cs : call'[c] = AfterGate(c)
           /\ \A c \in cs : AfterGate(c) # "gate"
           /\ \A c \in Calls \ cs : call'[c] = call[c]
           /\ (\A c \in cs : call[c] # "message")
                 => \A c \in SignCalls : messages'[c] # "none" => call'[c] = "message"
<1> DEFINE ms == {c \in cs : AfterGate(c) = "message"}
<1>1. \A c \in Calls : AfterGate(c) \in CallStates \ {"gate"}
  BY DEF AfterGate, CallStates, SignCalls
<1>2. /\ messages' = [m \in SignCalls |-> IF m \in ms THEN "unapproved" ELSE messages[m]]
      /\ approval' = [m \in SignCalls |-> IF m \in ms THEN "open" ELSE approval[m]]
      /\ answer' = answer /\ result' = result
  BY DEF GoOn, SC!NewUnsignedMessages
<1>3. /\ call' = [c \in Calls |-> IF c \in cs THEN AfterGate(c) ELSE call[c]]
      /\ call \in [Calls -> CallStates] /\ SC!SignatureTypeOK
  BY DEF GoOn, IInv, TypeOK
<1>4. ms \subseteq cs /\ \A c \in ms : AfterGate(c) = "message"
  OBVIOUS
<1> HIDE DEF ms
<1>5. call' \in [Calls -> CallStates]
  BY <1>1, <1>3
<1>6. SC!SignatureTypeOK'
  BY <1>2, <1>3 DEF SC!SignatureTypeOK, SC!MessageStatus, SC!AP!Status
<1>7. OpenIsAdded'
  BY <1>2 DEF IInv, OpenIsAdded
<1>8. ASSUME \A c \in cs : call[c] # "message", NEW c \in SignCalls, messages'[c] # "none"
      PROVE  call'[c] = "message"
  <2>1. messages[c] # "none" => call[c] = "message"
    BY DEF IInv, TypeOK
  <2> QED BY <1>2, <1>3, <1>4, <1>8, <2>1 DEF SignCalls
<1> QED BY <1>1, <1>3, <1>5, <1>6, <1>7, <1>8

-----------------------------------------------------------------------------
(* Every step keeps the invariant *)

\* The gate and the locks do not look at requests that neither come to the
\* gate nor leave it.
LEMMA WaitersStay ==
    ASSUME WaitersHoldLocks, UNCHANGED <<waitingForUnlock, locks>>,
           \A c \in Calls : call'[c] = "gate" <=> call[c] = "gate"
    PROVE  WaitersHoldLocks'
<1>1. Waiting' = Waiting
  BY DEF Waiting
<1> QED BY <1>1 DEF WaitersHoldLocks, AtGate, AccountCalls

LEMMA RequestAccountsKeepsIInv ==
    ASSUME IInv, NEW c \in Calls, RequestAccounts(c)
    PROVE  IInv'
<1>1. c \in AccountCalls /\ c \notin SignCalls /\ call[c] = "idle" /\ OriginOf[c] \notin locks
  BY DEF RequestAccounts, SignCalls
<1>2. CASE isUnlocked
  <2>1. GoOn({c}) /\ UNCHANGED <<gate, locks, permitted, restarts>>
    BY <1>2 DEF RequestAccounts
  <2>2. /\ call' \in [Calls -> CallStates] /\ SC!SignatureTypeOK' /\ OpenIsAdded'
        /\ call'[c] # "gate" /\ \A d \in Calls \ {c} : call'[d] = call[d]
        /\ \A d \in SignCalls : messages'[d] # "none" => call'[d] = "message"
    BY <1>1, <2>1, GoOnSteps
  <2>3. TypeOK' /\ WaitersArePrompted'
    BY <2>1, <2>2 DEF gate, IInv, TypeOK, GateTypeOK, WaitersArePrompted
  <2>4. WaitersHoldLocks'
    BY <1>1, <2>1, <2>2, WaitersStay DEF gate, IInv
  <2> QED BY <2>2, <2>3, <2>4 DEF IInv
<1>3. CASE ~isUnlocked
  <2>1. /\ GetUnlockPromise(c)
        /\ locks' = locks \cup {OriginOf[c]}
        /\ call' = [call EXCEPT ![c] = "gate"]
        /\ UNCHANGED <<messages, approval, answer, result, permitted, restarts>>
    BY <1>3 DEF RequestAccounts
  <2>2. GateTypeOK' /\ WaitersArePrompted' /\ Waiting' = Waiting \cup {c}
    BY <2>1, GateTakes DEF IInv, TypeOK
  <2>3. /\ call' \in [Calls -> CallStates] /\ call'[c] = "gate"
        /\ \A d \in Calls : d # c => call'[d] = call[d]
    BY <2>1 DEF IInv, TypeOK, CallStates
  <2>4. SC!SignatureTypeOK' /\ OpenIsAdded'
    BY <2>1 DEF IInv, TypeOK, SC!SignatureTypeOK, OpenIsAdded
  <2>5. TypeOK'
    BY <1>1, <2>1, <2>2, <2>3, <2>4, OriginsOfCalls DEF IInv, TypeOK, SignCalls
  <2>6. WaitersHoldLocks'
    <3>1. Waiting' = AtGate'
      BY <2>2, <2>3 DEF IInv, WaitersHoldLocks, AtGate
    <3>2. \A d \in AccountCalls : call[d] = "gate" => OriginOf[d] # OriginOf[c]
      BY <1>1 DEF IInv, WaitersHoldLocks
    <3> QED BY <1>1, <2>1, <2>3, <3>1, <3>2 DEF IInv, WaitersHoldLocks, AccountCalls
  <2> QED BY <2>2, <2>4, <2>5, <2>6 DEF IInv
<1> QED BY <1>2, <1>3

LEMMA RequestSignatureKeepsIInv ==
    ASSUME IInv, NEW c \in SignCalls, RequestSignature(c)
    PROVE  IInv'
<1>1. c \notin AccountCalls /\ c \in Calls /\ call[c] = "idle"
  BY DEF RequestSignature, SignCalls
<1>2. CASE isUnlocked
  <2>1. GoOn({c}) /\ UNCHANGED <<gate, locks, permitted, restarts>>
    BY <1>2 DEF RequestSignature
  <2>2. /\ call' \in [Calls -> CallStates] /\ SC!SignatureTypeOK' /\ OpenIsAdded'
        /\ call'[c] # "gate" /\ \A d \in Calls \ {c} : call'[d] = call[d]
        /\ \A d \in SignCalls : messages'[d] # "none" => call'[d] = "message"
    BY <1>1, <2>1, GoOnSteps
  <2>3. TypeOK' /\ WaitersArePrompted'
    BY <2>1, <2>2 DEF gate, IInv, TypeOK, GateTypeOK, WaitersArePrompted
  <2>4. WaitersHoldLocks'
    BY <1>1, <2>1, <2>2, WaitersStay DEF gate, IInv
  <2> QED BY <2>2, <2>3, <2>4 DEF IInv
<1>3. CASE ~isUnlocked
  <2>1. /\ GetUnlockPromise(c)
        /\ call' = [call EXCEPT ![c] = "gate"]
        /\ UNCHANGED <<messages, approval, answer, result, locks, permitted, restarts>>
    BY <1>3 DEF RequestSignature
  <2>2. GateTypeOK' /\ WaitersArePrompted' /\ Waiting' = Waiting \cup {c}
    BY <1>1, <2>1, GateTakes DEF IInv, TypeOK
  <2>3. /\ call' \in [Calls -> CallStates] /\ call'[c] = "gate"
        /\ \A d \in Calls : d # c => call'[d] = call[d]
    BY <1>1, <2>1 DEF IInv, TypeOK, CallStates
  <2>4. SC!SignatureTypeOK' /\ OpenIsAdded'
    BY <2>1 DEF IInv, TypeOK, SC!SignatureTypeOK, OpenIsAdded
  <2>5. messages[c] = "none"
    BY <1>1 DEF IInv, TypeOK
  <2>6. TypeOK'
    BY <1>1, <2>1, <2>2, <2>3, <2>4, <2>5 DEF IInv, TypeOK, SignCalls
  <2>7. WaitersHoldLocks'
    <3>1. Waiting' = AtGate'
      BY <1>1, <2>2, <2>3 DEF IInv, WaitersHoldLocks, AtGate
    <3> QED BY <1>1, <2>1, <2>3, <3>1 DEF IInv, WaitersHoldLocks, AccountCalls
  <2> QED BY <2>2, <2>4, <2>6, <2>7 DEF IInv
<1> QED BY <1>2, <1>3

\* The requests that are refused, ask for the permission or are answered by
\* the user: neither the gate nor the signatures change.
LEMMA AskingKeepsIInv ==
    ASSUME IInv, NEW c \in Calls,
           RefuseBusy(c) \/ RequestPermission(c) \/ GrantPermission(c) \/ DenyPermission(c)
    PROVE  IInv'
<1>1. UNCHANGED <<gate, locks, messages, approval, answer, result, restarts>>
  BY DEF RefuseBusy, RequestPermission, GrantPermission, DenyPermission
<1>2. permitted' \subseteq Origins
  BY OriginsOfCalls DEF RefuseBusy, RequestPermission, GrantPermission, DenyPermission, IInv, TypeOK
<1>3. /\ call' \in [Calls -> CallStates]
      /\ \A d \in Calls : (call'[d] = "gate" <=> call[d] = "gate")
                       /\ (call[d] = "message" => call'[d] = "message")
  BY DEF RefuseBusy, RequestPermission, GrantPermission, DenyPermission, IInv, TypeOK, CallStates
<1>4. TypeOK' /\ WaitersArePrompted' /\ OpenIsAdded'
  BY <1>1, <1>2, <1>3
     DEF gate, IInv, TypeOK, GateTypeOK, SC!SignatureTypeOK, WaitersArePrompted, OpenIsAdded, SignCalls
<1>5. WaitersHoldLocks'
  BY <1>1, <1>3, WaitersStay DEF gate, IInv
<1> QED BY <1>4, <1>5 DEF IInv

LEMMA SignatureStepsKeepIInv ==
    ASSUME IInv, NEW c \in SignCalls,
           AcceptSignature(c) \/ RejectSignature(c) \/ KeyringSigns(c) \/ KeyringFails(c)
    PROVE  IInv'
<1>1. UNCHANGED <<gate, site, restarts>>
  BY DEF AcceptSignature, RejectSignature, KeyringSigns, KeyringFails
<1>2. SC!SignatureTypeOK /\ OpenIsAdded /\ isUnlocked \in BOOLEAN
  BY DEF IInv, TypeOK, GateTypeOK
<1>3. \/ \E b \in BOOLEAN : SC!ApproveMessage(c, b)
      \/ SC!CancelMessage(c) \/ SC!SignMessage(c) \/ SC!SignFails(c)
  BY <1>2 DEF AcceptSignature, RejectSignature, KeyringSigns, KeyringFails
<1>4. /\ SC!SignatureTypeOK' /\ OpenIsAdded'
      /\ \A m \in SignCalls : messages'[m] # "none" => messages[m] # "none"
  BY <1>2, <1>3, SignatureSteps
<1>5. TypeOK' /\ WaitersArePrompted'
  BY <1>1, <1>4 DEF gate, site, IInv, TypeOK, GateTypeOK, WaitersArePrompted
<1>6. WaitersHoldLocks'
  BY <1>1, WaitersStay DEF gate, site, IInv
<1> QED BY <1>4, <1>5, <1>6 DEF IInv

LEMMA UnlockKeepsIInv == ASSUME IInv, Unlock PROVE IInv'
<1>1. GateTypeOK' /\ WaitersArePrompted' /\ Waiting' = {}
  BY GateEmpties DEF Unlock, IInv, TypeOK
<1>2. /\ call' \in [Calls -> CallStates] /\ SC!SignatureTypeOK' /\ OpenIsAdded'
      /\ \A c \in Calls : call'[c] # "gate"
      /\ \A c \in SignCalls : messages'[c] # "none" => call'[c] = "message"
  BY GoOnSteps DEF Unlock, AtGate
<1>3. TypeOK'
  BY <1>1, <1>2 DEF Unlock, IInv, TypeOK
<1>4. WaitersHoldLocks'
  BY <1>1, <1>2 DEF Unlock, WaitersHoldLocks, AtGate, AccountCalls
<1> QED BY <1>1, <1>2, <1>3, <1>4 DEF IInv

LEMMA LockKeepsIInv == ASSUME IInv, Lock PROVE IInv'
<1>1. UNCHANGED <<waitingForUnlock, approvalRequestId, promptIsOpen, site,
                  messages, approval, answer, result, restarts>>
  BY DEF Lock, SetLocked
<1>2. WaitersHoldLocks'
  BY <1>1, WaitersStay DEF site, IInv
<1>3. OpenIsAdded' /\ SC!SignatureTypeOK'
  BY <1>1 DEF IInv, TypeOK, OpenIsAdded, SC!SignatureTypeOK
<1>4. isUnlocked' = FALSE
  BY DEF Lock, SetLocked
<1>5. TypeOK' /\ WaitersArePrompted'
  BY <1>1, <1>3, <1>4 DEF site, IInv, TypeOK, GateTypeOK, WaitersArePrompted
<1> QED BY <1>2, <1>3, <1>5 DEF IInv

LEMMA RevokeKeepsIInv ==
    ASSUME IInv, NEW o \in Origins, RevokePermission(o)
    PROVE  IInv'
<1>1. /\ UNCHANGED <<gate, locks, call, messages, approval, answer, result, restarts>>
      /\ permitted' \subseteq Origins
  BY DEF RevokePermission, IInv, TypeOK
<1>2. WaitersHoldLocks'
  BY <1>1, WaitersStay DEF gate, IInv
<1> QED BY <1>1, <1>2
        DEF gate, IInv, TypeOK, GateTypeOK, SC!SignatureTypeOK, WaitersArePrompted, OpenIsAdded

LEMMA RestartKeepsIInv == ASSUME IInv, Restart PROVE IInv'
<1>1. GateTypeOK' /\ WaitersArePrompted' /\ Waiting' = {}
  BY GateEmpties DEF Restart, IInv, TypeOK
<1>2. /\ call' \in [Calls -> CallStates]
      /\ \A c \in Calls : call'[c] # "gate"
  BY DEF Restart, Answered, IInv, TypeOK, CallStates
<1>3. /\ SC!SignatureTypeOK' /\ OpenIsAdded'
      /\ \A m \in SignCalls : messages'[m] = "none"
  BY DEF Restart, SC!SignatureRestart, IInv, TypeOK, SC!SignatureTypeOK, SC!MessageStatus,
         SC!AP!Status, OpenIsAdded
<1>4. restarts' \in 0 .. MaxRestarts /\ locks' = {} /\ permitted' = permitted
  BY SiteConstantsOK DEF Restart, IInv, TypeOK
<1>5. TypeOK'
  BY <1>1, <1>2, <1>3, <1>4 DEF IInv, TypeOK
<1>6. WaitersHoldLocks'
  BY <1>1, <1>2, <1>4 DEF WaitersHoldLocks, AtGate, AccountCalls
<1> QED BY <1>1, <1>3, <1>5, <1>6 DEF IInv

LEMMA StepInv == IInv /\ [Next]_vars => IInv'
<1> SUFFICES ASSUME IInv, [Next]_vars PROVE IInv'
  OBVIOUS
<1>1. ASSUME NEW c \in Calls,
             \/ RefuseBusy(c) \/ RequestAccounts(c) \/ RequestPermission(c)
             \/ GrantPermission(c) \/ DenyPermission(c)
      PROVE  IInv'
  BY <1>1, RequestAccountsKeepsIInv, AskingKeepsIInv
<1>2. ASSUME NEW c \in SignCalls,
             \/ RequestSignature(c) \/ AcceptSignature(c)
             \/ RejectSignature(c) \/ KeyringSigns(c) \/ KeyringFails(c)
      PROVE  IInv'
  BY <1>2, RequestSignatureKeepsIInv, SignatureStepsKeepIInv
<1>3. ASSUME NEW o \in Origins, RevokePermission(o)
      PROVE  IInv'
  BY <1>3, RevokeKeepsIInv
<1>4. CASE Unlock \/ Lock \/ Restart
  BY <1>4, UnlockKeepsIInv, LockKeepsIInv, RestartKeepsIInv
<1>5. CASE UNCHANGED vars
  <2>1. WaitersHoldLocks'
    BY <1>5, WaitersStay DEF vars, gate, site, IInv
  <2> QED BY <1>5, <2>1
          DEF vars, gate, site, IInv, TypeOK, GateTypeOK, SC!SignatureTypeOK,
              WaitersArePrompted, OpenIsAdded
<1> QED BY <1>1, <1>2, <1>3, <1>4, <1>5 DEF Next

LEMMA Invariance == Spec => []IInv
BY InitIInv, StepInv, PTL DEF Spec

-----------------------------------------------------------------------------
(* Theorems *)

\* Every variable keeps its type, nobody queues twice, and a message belongs
\* to a request that is past the gate.
THEOREM TypeCorrect == Spec => []TypeOK
<1>1. IInv => TypeOK
  BY DEF IInv
<1> QED BY <1>1, Invariance, PTL

\* Whoever waits for the wallet has a request in front of the user, and the
\* remembered request is the one that is open.
THEOREM EveryWaiterIsPrompted == Spec => []WaitersArePrompted
<1>1. IInv => WaitersArePrompted
  BY DEF IInv
<1> QED BY <1>1, Invariance, PTL

\* The lock of an origin is held exactly while one request of it waits.
THEOREM NoLockIsLeftBehind == Spec => []LocksAreHeldByWaiters
<1>1. ASSUME IInv, NEW o \in Origins
      PROVE  LET holders == {c \in AccountCalls : call[c] = "gate" /\ OriginOf[c] = o}
             IN  Cardinality(holders) <= 1 /\ (o \in locks <=> holders # {})
  <2> DEFINE holders == {c \in AccountCalls : call[c] = "gate" /\ OriginOf[c] = o}
  <2>1. o \in locks <=> holders # {}
    BY <1>1 DEF IInv, WaitersHoldLocks
  <2>2. \A c, d \in holders : c = d
    BY <1>1 DEF IInv, WaitersHoldLocks
  <2> HIDE DEF holders
  <2>3. ASSUME holders = {} PROVE Cardinality(holders) <= 1
    <3>1. Cardinality(holders) = 0
      BY <2>3, FS_EmptySet
    <3> QED BY <3>1
  <2>4. ASSUME holders # {} PROVE Cardinality(holders) <= 1
    <3>1. PICK c \in holders : TRUE
      BY <2>4
    <3>2. holders = {c}
      BY <2>2, <3>1
    <3>3. Cardinality(holders) = 1
      BY <3>2, FS_Singleton, Zenon
    <3> QED BY <3>3
  <2>5. Cardinality(holders) <= 1
    BY <2>3, <2>4
  <2> QED BY <2>1, <2>5 DEF holders
<1>2. IInv => LocksAreHeldByWaiters
  BY <1>1, Zenon DEF LocksAreHeldByWaiters, IInv, WaitersHoldLocks
<1> QED BY <1>2, Invariance, PTL

\* A site whose permission is gone by the time its request goes on is neither
\* told the accounts nor asked of the user for a signature.
THEOREM RevokedIsNotDisclosed == Spec => DisclosedWhilePermitted
<1> DEFINE disclosed(c) == call[c] # call'[c] /\ call'[c] \in {"accounts", "message"}
                              => OriginOf[c] \in permitted'
<1>1. ASSUME IInv, NEW cs \in SUBSET Calls, GoOn(cs), permitted' = permitted, NEW c \in Calls
      PROVE  disclosed(c)
  <2>1. c \notin cs => call'[c] = call[c]
    BY <1>1 DEF GoOn, IInv, TypeOK
  <2>2. c \in cs => call'[c] = AfterGate(c)
    BY <1>1 DEF GoOn
  <2>3. AfterGate(c) \in {"accounts", "message"} => OriginOf[c] \in permitted
    BY DEF AfterGate, SignCalls
  <2> QED BY <1>1, <2>1, <2>2, <2>3
<1>2. ASSUME IInv, Next, NEW c \in Calls
      PROVE  disclosed(c)
  <2>1. ASSUME NEW d \in Calls, RequestAccounts(d)
        PROVE  disclosed(c)
    <3>1. permitted' = permitted /\ (GoOn({d}) \/ call' = [call EXCEPT ![d] = "gate"])
      BY <2>1 DEF RequestAccounts
    <3> QED BY <1>1, <1>2, <3>1 DEF IInv, TypeOK
  <2>2. ASSUME NEW d \in Calls,
               RefuseBusy(d) \/ RequestPermission(d) \/ GrantPermission(d) \/ DenyPermission(d)
        PROVE  disclosed(c)
    BY <1>2, <2>2 DEF RefuseBusy, RequestPermission, GrantPermission, DenyPermission, IInv, TypeOK
  <2>3. ASSUME NEW d \in SignCalls, RequestSignature(d)
        PROVE  disclosed(c)
    <3>1. permitted' = permitted /\ (GoOn({d}) \/ call' = [call EXCEPT ![d] = "gate"])
      BY <2>3 DEF RequestSignature
    <3> QED BY <1>1, <1>2, <3>1 DEF IInv, TypeOK, SignCalls
  <2>4. ASSUME NEW d \in SignCalls,
               AcceptSignature(d) \/ RejectSignature(d) \/ KeyringSigns(d) \/ KeyringFails(d)
        PROVE  disclosed(c)
    BY <2>4 DEF AcceptSignature, RejectSignature, KeyringSigns, KeyringFails, site
  <2>5. CASE Unlock
    BY <1>1, <1>2, <2>5 DEF Unlock, AtGate
  <2>6. ASSUME Lock \/ Restart \/ \E o \in Origins : RevokePermission(o)
        PROVE  disclosed(c)
    BY <2>6 DEF Lock, site, Restart, RevokePermission
  <2> HIDE DEF disclosed
  <2> QED BY <1>2, <2>1, <2>2, <2>3, <2>4, <2>5, <2>6 DEF Next
<1>3. IInv /\ [Next]_vars =>
        [\A c \in Calls :
            call[c] # call'[c] /\ call'[c] \in {"accounts", "message"}
                => OriginOf[c] \in permitted']_vars
  BY <1>2
<1> QED BY <1>3, Invariance, PTL DEF Spec, DisclosedWhilePermitted
=============================================================================
