-------------------------- MODULE ApprovalController --------------------------
(***************************************************************************)
(* src/controller/ApprovalController.tsx: the registry of requests that    *)
(* wait for the user.  JavaScript runs each method to its end, so a method *)
(* is one action; the one asynchronous part, the `.finally` of accept, is  *)
(* an action of its own.                                                   *)
(***************************************************************************)
EXTENDS Naturals, FiniteSets

CONSTANTS
    Ids,             \* request ids; callers draw fresh ones (nanoid, uuid)
    Origins,
    Types,
    ExcludedTypes,   \* typesExcludedFromRateLimiting
    Calls,           \* calls of accept made by the wallet's windows
    RequestStates,   \* values of requestState
    InitialState,    \* the requestState a request is added with
    None

Requests == [origin : Origins, type : Types, expectsResult : BOOLEAN,
             requestState : RequestStates]

ASSUME ConstantsOK ==
    /\ IsFiniteSet(Ids) /\ IsFiniteSet(Types)
    /\ ExcludedTypes \subseteq Types
    /\ InitialState \in RequestStates
    /\ None \notin Requests \cup Ids \cup Calls

VARIABLES
    approvals,             \* keys of #approvals: requests whose callbacks are held
    origins,               \* #origins; an absent entry counts 0
    pendingApprovals,      \* the store the windows render
    pendingApprovalCount,
    promise,               \* the promise #add returned to the requester
    resultCallbacks,       \* the accept call whose result callbacks it was given
    acceptCall             \* the promise each accept call returned

registry == <<approvals, origins, pendingApprovals, pendingApprovalCount>>
vars == <<registry, promise, resultCallbacks, acceptCall>>

PromiseStates == {"unmade", "pending", "resolved", "rejected"}

\* settling: the promise is settled and its `.finally` has not run yet.
CallStates == {"unused", "waiting", "settling", "resolved", "rejected"}
AcceptCalls == [state : CallStates, id : Ids \cup {None},
                deletes : BOOLEAN, ok : BOOLEAN]
UnusedCall == [state |-> "unused", id |-> None, deletes |-> FALSE, ok |-> FALSE]

TypeOK ==
    /\ approvals \in SUBSET Ids
    /\ origins \in [Origins -> [Types -> Nat]]
    /\ pendingApprovals \in [Ids -> Requests \cup {None}]
    /\ pendingApprovalCount \in Nat
    /\ promise \in [Ids -> PromiseStates]
    /\ resultCallbacks \in [Ids -> Calls \cup {None}]
    /\ acceptCall \in [Calls -> AcceptCalls]

Init ==
    /\ approvals = {}
    /\ origins = [o \in Origins |-> [t \in Types |-> 0]]
    /\ pendingApprovals = [id \in Ids |-> None]
    /\ pendingApprovalCount = 0
    /\ promise = [id \in Ids |-> "unmade"]
    /\ resultCallbacks = [id \in Ids |-> None]
    /\ acceptCall = [c \in Calls |-> UnusedCall]

-----------------------------------------------------------------------------
(* The registry's own operations, as functions of its parts. *)

Pending(store) == {id \in Ids : store[id] # None}
PendingOf(store, o, t) ==
    {id \in Pending(store) : store[id].origin = o /\ store[id].type = t}

\* Mutant of OriginTotal: the number of the origin's types, not of its requests.
OriginTotalByType(counts) == Cardinality({t \in Types : counts[t] > 0})

\* getApprovalCount({origin}): the sum of an origin's counts, as the number of
\* pairs <<type, n>> with n up to the type's count.
OriginTotal(counts) ==
    Cardinality(UNION {{<<t, n>> : n \in 1 .. counts[t]} : t \in Types})

\* #delete's update of #origins: the last request of an origin drops its entry.
Uncounted(counts, o, t) ==
    IF OriginTotal(counts[o]) = 1
    THEN [counts EXCEPT ![o] = [u \in Types |-> 0]]
    ELSE [counts EXCEPT ![o][t] = @ - 1]

\* Mutant of Counted: a request is not counted in #origins.
CountedNever(counts, o, t) == counts

\* #addPendingApprovalOrigin
Counted(counts, o, t) ==
    [counts EXCEPT ![o][t] = @ + 1]

\* #delete(id)
Delete(id) ==
    /\ approvals' = approvals \ {id}
    /\ origins' = Uncounted(origins, pendingApprovals[id].origin,
                            pendingApprovals[id].type)
    /\ pendingApprovals' = [pendingApprovals EXCEPT ![id] = None]
    /\ pendingApprovalCount' = Cardinality(Pending(pendingApprovals'))

-----------------------------------------------------------------------------
(* Operations *)

NewRequest(o, t, e) ==
    [origin |-> o, type |-> t, expectsResult |-> e, requestState |-> InitialState]

\* Mutant of Add: the test for a request of the same origin and type is gone.
AddUnchecked(id, o, t, e) ==
    /\ promise[id] = "unmade"
    /\ approvals' = approvals \cup {id}
    /\ origins' = Counted(origins, o, t)
    /\ pendingApprovals' = [pendingApprovals EXCEPT ![id] = NewRequest(o, t, e)]
    /\ pendingApprovalCount' = Cardinality(Pending(pendingApprovals'))
    /\ promise' = [promise EXCEPT ![id] = "pending"]
    /\ UNCHANGED <<resultCallbacks, acceptCall>>

\* #add where no request is in the way: the type may have several, or has none.
Add(id, o, t, e) ==
    /\ promise[id] = "unmade"
    /\ t \in ExcludedTypes \/ origins[o][t] = 0
    /\ approvals' = approvals \cup {id}
    /\ origins' = Counted(origins, o, t)
    /\ pendingApprovals' = [pendingApprovals EXCEPT ![id] = NewRequest(o, t, e)]
    /\ pendingApprovalCount' = Cardinality(Pending(pendingApprovals'))
    /\ promise' = [promise EXCEPT ![id] = "pending"]
    /\ UNCHANGED <<resultCallbacks, acceptCall>>

\* Mutant of AddReplacing: typesExcludedFromRateLimiting is not consulted.
AddReplacingAnyType(id, old, o, t, e) ==
    /\ promise[id] = "unmade"
    /\ old \in PendingOf(pendingApprovals, o, t)
    /\ approvals' = (approvals \ {old}) \cup {id}
    /\ origins' = Counted(Uncounted(origins, o, t), o, t)
    /\ pendingApprovals' = [pendingApprovals EXCEPT ![old] = None,
                                                    ![id] = NewRequest(o, t, e)]
    /\ pendingApprovalCount' = Cardinality(Pending(pendingApprovals'))
    /\ promise' = [promise EXCEPT ![id] = "pending"]
    /\ UNCHANGED <<resultCallbacks, acceptCall>>

\* #add where the origin already has a request of the type: the older one is
\* deleted first, and nothing settles its promise.
AddReplacing(id, old, o, t, e) ==
    /\ promise[id] = "unmade"
    /\ t \notin ExcludedTypes /\ origins[o][t] > 0
    /\ old \in PendingOf(pendingApprovals, o, t)
    /\ approvals' = (approvals \ {old}) \cup {id}
    /\ origins' = Counted(Uncounted(origins, o, t), o, t)
    /\ pendingApprovals' = [pendingApprovals EXCEPT ![old] = None,
                                                    ![id] = NewRequest(o, t, e)]
    /\ pendingApprovalCount' = Cardinality(Pending(pendingApprovals'))
    /\ promise' = [promise EXCEPT ![id] = "pending"]
    /\ UNCHANGED <<resultCallbacks, acceptCall>>

\* Mutant of Settled: a later settlement overwrites the first.
SettledAgain(id, outcome) == [promise EXCEPT ![id] = outcome]

\* A promise takes only its first settlement.
Settled(id, outcome) ==
    [promise EXCEPT ![id] = IF @ = "pending" THEN outcome ELSE @]

\* accept without waitForResult: delete, resolve the requester, return.
AcceptNow(c, id) ==
    /\ acceptCall[c] = UnusedCall /\ id \in approvals
    /\ Delete(id)
    /\ promise' = Settled(id, "resolved")
    /\ acceptCall' = [acceptCall EXCEPT ![c] =
           [state |-> "resolved", id |-> id, deletes |-> FALSE, ok |-> TRUE]]
    /\ UNCHANGED resultCallbacks

\* accept with waitForResult.  Without deleteAfterResult the request is deleted
\* here, otherwise by the `.finally`.  The requester gets the result callbacks
\* with the value, unless its promise was already resolved.
AcceptAndWait(c, id, deleteAfterResult) ==
    /\ acceptCall[c] = UnusedCall /\ id \in approvals
    /\ pendingApprovals[id].expectsResult
    /\ IF deleteAfterResult THEN UNCHANGED registry ELSE Delete(id)
    /\ promise' = Settled(id, "resolved")
    /\ resultCallbacks' = [resultCallbacks EXCEPT ![id] =
                              IF promise[id] = "pending" THEN c ELSE @]
    /\ acceptCall' = [acceptCall EXCEPT ![c] =
           [state |-> "waiting", id |-> id, deletes |-> deleteAfterResult, ok |-> FALSE]]

\* accept with waitForResult of a request that gives no result: the call fails
\* (ApprovalRequestNoResultSupportError) and the requester hears nothing.
AcceptUnsupported(c, id, deleteAfterResult) ==
    /\ acceptCall[c] = UnusedCall /\ id \in approvals
    /\ ~pendingApprovals[id].expectsResult
    /\ IF deleteAfterResult THEN UNCHANGED registry ELSE Delete(id)
    /\ acceptCall' = [acceptCall EXCEPT ![c] =
           [state |-> IF deleteAfterResult THEN "settling" ELSE "rejected",
            id |-> id, deletes |-> deleteAfterResult, ok |-> FALSE]]
    /\ UNCHANGED <<promise, resultCallbacks>>

\* The requester calls resultCallbacks.success or .error.
ReportResult(id, ok) ==
    LET c == resultCallbacks[id]
        outcome == IF ok THEN "resolved" ELSE "rejected"
    IN  /\ c \in Calls
        /\ acceptCall[c].state = "waiting"
        /\ acceptCall' = [acceptCall EXCEPT ![c] =
               [state |-> IF acceptCall[c].deletes THEN "settling" ELSE outcome,
                id |-> id, deletes |-> acceptCall[c].deletes, ok |-> ok]]
        /\ UNCHANGED <<registry, promise, resultCallbacks>>

\* Mutant of FinallyDelete: a request that is already gone is not an error.
FinallyDeleteQuietly(c) ==
    LET id == acceptCall[c].id
    IN  /\ acceptCall[c].state = "settling"
        /\ IF id \in approvals THEN Delete(id) ELSE UNCHANGED registry
        /\ acceptCall' = [acceptCall EXCEPT ![c].state =
               IF acceptCall[c].ok THEN "resolved" ELSE "rejected"]
        /\ UNCHANGED <<promise, resultCallbacks>>

\* accept's `.finally`: delete the request now; if it has gone meanwhile the
\* NotFound error replaces the call's own outcome.
FinallyDelete(c) ==
    LET id == acceptCall[c].id
    IN  /\ acceptCall[c].state = "settling"
        /\ IF id \in approvals THEN Delete(id) ELSE UNCHANGED registry
        /\ acceptCall' = [acceptCall EXCEPT ![c].state =
               IF acceptCall[c].ok /\ id \in approvals THEN "resolved" ELSE "rejected"]
        /\ UNCHANGED <<promise, resultCallbacks>>

\* reject(id, error)
Reject(id) ==
    /\ id \in approvals
    /\ Delete(id)
    /\ promise' = Settled(id, "rejected")
    /\ UNCHANGED <<resultCallbacks, acceptCall>>

\* clear(error): rejects every request and empties the maps.
Clear ==
    /\ approvals # {}
    /\ approvals' = {}
    /\ origins' = [o \in Origins |-> [t \in Types |-> 0]]
    /\ pendingApprovals' = [id \in Ids |-> None]
    /\ pendingApprovalCount' = 0
    /\ promise' = [id \in Ids |-> IF id \in approvals /\ promise[id] = "pending"
                                  THEN "rejected" ELSE promise[id]]
    /\ UNCHANGED <<resultCallbacks, acceptCall>>

UpdateRequestState(id, s) ==
    /\ pendingApprovals[id] # None
    /\ pendingApprovals' = [pendingApprovals EXCEPT ![id].requestState = s]
    /\ UNCHANGED <<approvals, origins, pendingApprovalCount,
                   promise, resultCallbacks, acceptCall>>

Next ==
    \/ \E id \in Ids, o \in Origins, t \in Types, e \in BOOLEAN : Add(id, o, t, e)
    \/ \E id, old \in Ids, o \in Origins, t \in Types, e \in BOOLEAN :
           AddReplacing(id, old, o, t, e)
    \/ \E c \in Calls, id \in Ids : AcceptNow(c, id)
    \/ \E c \in Calls, id \in Ids, d \in BOOLEAN :
           AcceptAndWait(c, id, d) \/ AcceptUnsupported(c, id, d)
    \/ \E id \in Ids, ok \in BOOLEAN : ReportResult(id, ok)
    \/ \E c \in Calls : FinallyDelete(c)
    \/ \E id \in Ids : Reject(id)
    \/ Clear
    \/ \E id \in Ids, s \in RequestStates : UpdateRequestState(id, s)

Spec == Init /\ [][Next]_vars

-----------------------------------------------------------------------------
(* Properties *)

\* The three indexes #add and #delete maintain separately tell the same story:
\* whose callbacks are held, what the windows render, and how many requests
\* each origin has of each type (what `has` and the rate limit read).
RegistryConsistent ==
    /\ approvals = Pending(pendingApprovals)
    /\ pendingApprovalCount = Cardinality(approvals)
    /\ \A o \in Origins, t \in Types :
           origins[o][t] = Cardinality(PendingOf(pendingApprovals, o, t))

\* A site never has two open requests of a rate-limited type, whatever was
\* accepted, rejected or replaced before ("There can only be one approval per
\* origin and type", ApprovalController.tsx:441).
OneRequestPerOriginAndType ==
    \A a, b \in Pending(pendingApprovals) :
        /\ pendingApprovals[a].origin = pendingApprovals[b].origin
        /\ pendingApprovals[a].type = pendingApprovals[b].type
        /\ pendingApprovals[a].type \notin ExcludedTypes
        => a = b

\* Of several windows that accept the same request, at most one is told that
\* the acceptance succeeded.
AtMostOneAcceptSucceeds ==
    \A c, d \in Calls :
        /\ acceptCall[c].state = "resolved" /\ acceptCall[d].state = "resolved"
        /\ acceptCall[c].id = acceptCall[d].id
        => c = d

\* A request that leaves the registry undecided was pushed out by a newer one
\* of the same origin and rate-limited type, or was accepted in a way it does
\* not support.  A transaction or a signature (excluded types, expectsResult)
\* is therefore never lost.
LossOnlyByReplacement ==
    [][\A id \in approvals \ approvals' :
        promise'[id] = "pending" =>
            \/ ~pendingApprovals[id].expectsResult
            \/ \E j \in approvals' \ approvals :
                  /\ pendingApprovals'[j].origin = pendingApprovals[id].origin
                  /\ pendingApprovals'[j].type = pendingApprovals[id].type
                  /\ pendingApprovals[id].type \notin ExcludedTypes]_vars

\* What a requester observes of each request.
Observed ==
    [id \in Ids |->
        CASE promise[id] # "pending" -> promise[id]
          [] promise[id] = "pending" /\ id \in approvals -> "open"
          [] OTHER -> "abandoned"]

Promises == INSTANCE ApprovalPromise WITH status <- Observed

\* The registry implements the one-promise-per-request specification: a request
\* leaves "open" once, to one outcome, and several leave together only when
\* all are rejected.
ImplementsPromises == Promises!Spec

\* Contradicted by the code: "The first promise should reject when the second
\* add deletes it." (tests/controller/ApprovalController.test.tsx:134).
ReplacedPromiseSettles ==
    [][\A old \in approvals \ approvals' :
        approvals' \ approvals # {} => promise'[old] # "pending"]_vars
=============================================================================
