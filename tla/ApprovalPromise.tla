--------------------------- MODULE ApprovalPromise ---------------------------
(***************************************************************************)
(* What a controller that asks the user for approval may rely on, without  *)
(* the maps, counters and acceptance calls that ApprovalController keeps:  *)
(* each request has one promise, which leaves "open" at most once.         *)
(*                                                                         *)
(* "abandoned" is an outcome of its own: the request is no longer shown to *)
(* the user and its promise never settles.                                 *)
(***************************************************************************)
EXTENDS FiniteSets

CONSTANT Ids            \* identifiers of approval requests

VARIABLE status         \* what the requester can observe of each request

Status == {"unmade", "open", "resolved", "rejected", "abandoned"}

Init == status = [id \in Ids |-> "unmade"]

OpenIds == {id \in Ids : status[id] = "open"}

\* A request is made; it may push out at most one older open request.
Open(id, replaced) ==
    /\ status[id] = "unmade"
    /\ replaced \subseteq OpenIds
    /\ \A a, b \in replaced : a = b
    /\ status' = [i \in Ids |-> CASE i = id -> "open"
                                  [] i \in replaced -> "abandoned"
                                  [] OTHER -> status[i]]

Resolve(id) ==
    /\ status[id] = "open"
    /\ status' = [status EXCEPT ![id] = "resolved"]

\* The user rejects one request, or all open ones are cleared.
Reject(ids) ==
    /\ ids \subseteq OpenIds
    /\ status' = [i \in Ids |-> IF i \in ids THEN "rejected" ELSE status[i]]

\* An acceptance asks for a result that the requester never said it gives.
Abandon(id) ==
    /\ status[id] = "open"
    /\ status' = [status EXCEPT ![id] = "abandoned"]

Next ==
    \/ \E id \in Ids : \E replaced \in SUBSET OpenIds : Open(id, replaced)
    \/ \E id \in Ids : Resolve(id) \/ Abandon(id)
    \/ \E id \in Ids : Reject({id})
    \/ Reject(OpenIds)

Spec == Init /\ [][Next]_status
=============================================================================
