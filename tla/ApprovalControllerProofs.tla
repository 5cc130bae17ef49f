----------------------- MODULE ApprovalControllerProofs -----------------------
(***************************************************************************)
(* Theorems about ApprovalController, for every finite set of requests and *)
(* of types and every set of acceptances: the registry's indexes agree, an *)
(* origin has one open request of each rate-limited type, at most one      *)
(* acceptance of a request succeeds, requests are lost only by replacement,*)
(* and the registry implements ApprovalPromise.                            *)
(***************************************************************************)
EXTENDS ApprovalController, FiniteSetTheorems, TLAPS

-----------------------------------------------------------------------------
(* The counts of one origin *)

\* The pairs whose number OriginTotal is.
CountPairs(counts) == UNION {{<<t, n>> : n \in 1 .. counts[t]} : t \in Types}

LEMMA CountPairsFinite ==
    ASSUME NEW counts \in [Types -> Nat]
    PROVE  IsFiniteSet(CountPairs(counts))
<1> DEFINE pairs(t) == {<<t, n>> : n \in 1 .. counts[t]}
           sets == {pairs(t) : t \in Types}
           f == [t \in Types |-> pairs(t)]
<1>1. ASSUME NEW t \in Types
      PROVE  IsFiniteSet(pairs(t))
  <2> DEFINE g == [n \in 1 .. counts[t] |-> <<t, n>>]
  <2>1. g \in Surjection(1 .. counts[t], pairs(t))
    BY DEF Surjection
  <2>2. IsFiniteSet(1 .. counts[t])
    BY FS_Interval
  <2> QED BY <2>1, <2>2, FS_Surjection
<1>2. f \in Surjection(Types, sets)
  <2> HIDE DEF pairs
  <2>1. f \in [Types -> sets]
    OBVIOUS
  <2>2. \A p \in sets : \E t \in Types : f[t] = p
    OBVIOUS
  <2> QED BY <2>1, <2>2 DEF Surjection
<1>3. IsFiniteSet(sets)
  BY <1>2, ConstantsOK, FS_Surjection
<1>4. \A p \in sets : IsFiniteSet(p)
  BY <1>1
<1> QED
  BY <1>3, <1>4, FS_UNION DEF CountPairs

\* When an origin's total is one, its only request is of the type with a count.
LEMMA TotalOne ==
    ASSUME NEW counts \in [Types -> Nat], NEW t \in Types, counts[t] > 0,
           OriginTotal(counts) = 1
    PROVE  counts[t] = 1 /\ \A u \in Types \ {t} : counts[u] = 0
<1>1. PICK x : CountPairs(counts) = {x}
  BY CountPairsFinite, FS_Singleton DEF OriginTotal, CountPairs
<1>2. ASSUME NEW u \in Types, NEW n \in 1 .. counts[u]
      PROVE  <<u, n>> = x
  <2>1. <<u, n>> \in {<<u, k>> : k \in 1 .. counts[u]}
    OBVIOUS
  <2>2. <<u, n>> \in CountPairs(counts)
    BY <2>1, Zenon DEF CountPairs
  <2> QED BY <2>2, <1>1
<1>3. <<t, 1>> = x
  BY <1>2
<1>4. counts[t] = 1
  <2>1. SUFFICES ASSUME counts[t] # 1 PROVE FALSE
    OBVIOUS
  <2>2. 2 \in 1 .. counts[t]
    BY <2>1
  <2>3. <<t, 2>> = x
    BY <2>2, <1>2
  <2> QED BY <2>3, <1>3
<1>5. ASSUME NEW u \in Types \ {t}, counts[u] # 0
      PROVE  FALSE
  <2>1. 1 \in 1 .. counts[u]
    BY <1>5
  <2>2. <<u, 1>> = x
    BY <2>1, <1>2
  <2> QED BY <2>2, <1>3
<1> QED
  BY <1>4, <1>5

\* Whichever branch #delete takes, it takes one from the count of the type.
LEMMA UncountedIsOneLess ==
    ASSUME NEW counts \in [Origins -> [Types -> Nat]],
           NEW o \in Origins, NEW t \in Types, counts[o][t] > 0
    PROVE  /\ Uncounted(counts, o, t) \in [Origins -> [Types -> Nat]]
           /\ \A p \in Origins, u \in Types :
                  Uncounted(counts, o, t)[p][u] =
                      IF p = o /\ u = t THEN counts[p][u] - 1 ELSE counts[p][u]
<1>1. CASE OriginTotal(counts[o]) = 1
  <2> DEFINE row == [u \in Types |-> 0]
  <2>1. counts[o][t] = 1 /\ \A u \in Types \ {t} : counts[o][u] = 0
    BY <1>1, TotalOne
  <2>2. Uncounted(counts, o, t) = [counts EXCEPT ![o] = row]
    BY <1>1 DEF Uncounted
  <2>3. /\ row \in [Types -> Nat]
        /\ \A u \in Types : row[u] = IF u = t THEN counts[o][u] - 1 ELSE counts[o][u]
    BY <2>1
  <2> HIDE DEF row
  <2> QED BY <2>2, <2>3
<1>2. CASE OriginTotal(counts[o]) # 1
  <2> DEFINE row == [counts[o] EXCEPT ![t] = @ - 1]
  <2>1. Uncounted(counts, o, t) = [counts EXCEPT ![o] = row]
    BY <1>2 DEF Uncounted
  <2>2. /\ row \in [Types -> Nat]
        /\ \A u \in Types : row[u] = IF u = t THEN counts[o][u] - 1 ELSE counts[o][u]
    OBVIOUS
  <2> HIDE DEF row
  <2> QED BY <2>1, <2>2
<1> QED
  BY <1>1, <1>2

\* #addPendingApprovalOrigin adds one to the count of the type.
LEMMA CountedIsOneMore ==
    ASSUME NEW counts \in [Origins -> [Types -> Nat]],
           NEW o \in Origins, NEW t \in Types
    PROVE  /\ Counted(counts, o, t) \in [Origins -> [Types -> Nat]]
           /\ \A p \in Origins, u \in Types :
                  Counted(counts, o, t)[p][u] =
                      IF p = o /\ u = t THEN counts[p][u] + 1 ELSE counts[p][u]
<1> DEFINE row == [counts[o] EXCEPT ![t] = @ + 1]
<1>1. Counted(counts, o, t) = [counts EXCEPT ![o] = row]
  BY DEF Counted
<1>2. /\ row \in [Types -> Nat]
      /\ \A u \in Types : row[u] = IF u = t THEN counts[o][u] + 1 ELSE counts[o][u]
  OBVIOUS
<1> HIDE DEF row
<1> QED
  BY <1>1, <1>2

-----------------------------------------------------------------------------
(* The registry *)

Registered ==
    /\ approvals \in SUBSET Ids
    /\ origins \in [Origins -> [Types -> Nat]]
    /\ pendingApprovals \in [Ids -> Requests \cup {None}]
    /\ pendingApprovalCount \in Nat
    /\ RegistryConsistent

Stores == [Ids -> Requests \cup {None}]
Without(store, id) == [store EXCEPT ![id] = None]
With(store, id, o, t, e) == [store EXCEPT ![id] = NewRequest(o, t, e)]

LEMMA PendingIsFinite ==
    ASSUME NEW store
    PROVE  /\ IsFiniteSet(Pending(store)) /\ Cardinality(Pending(store)) \in Nat
           /\ \A o \in Origins, t \in Types :
                 /\ IsFiniteSet(PendingOf(store, o, t))
                 /\ Cardinality(PendingOf(store, o, t)) \in Nat
<1>1. Pending(store) \in SUBSET Ids
  BY DEF Pending
<1>2. \A o \in Origins, t \in Types : PendingOf(store, o, t) \in SUBSET Ids
  BY DEF Pending, PendingOf
<1> QED
  BY <1>1, <1>2, FS_Subset, FS_CardinalityType, ConstantsOK

\* Removing a request from the store lowers the one count #delete lowers.
LEMMA RemovedFromStore ==
    ASSUME NEW store \in Stores, NEW old \in Ids, store[old] # None
    PROVE  /\ Without(store, old) \in Stores
           /\ Pending(Without(store, old)) = Pending(store) \ {old}
           /\ \A o \in Origins, t \in Types :
                 Cardinality(PendingOf(Without(store, old), o, t)) =
                     IF o = store[old].origin /\ t = store[old].type
                     THEN Cardinality(PendingOf(store, o, t)) - 1
                     ELSE Cardinality(PendingOf(store, o, t))
<1> DEFINE rest == Without(store, old)
<1>1. rest \in Stores
  BY DEF Without, Stores
<1>2. Pending(rest) = Pending(store) \ {old}
  BY DEF Pending, Without, Stores
<1>3. ASSUME NEW o \in Origins, NEW t \in Types
      PROVE  Cardinality(PendingOf(rest, o, t)) =
                 IF o = store[old].origin /\ t = store[old].type
                 THEN Cardinality(PendingOf(store, o, t)) - 1
                 ELSE Cardinality(PendingOf(store, o, t))
  <2>1. PendingOf(rest, o, t) = PendingOf(store, o, t) \ {old}
    BY <1>2 DEF PendingOf, Pending, Without, Stores
  <2>2. old \in PendingOf(store, o, t) <=> o = store[old].origin /\ t = store[old].type
    BY DEF PendingOf, Pending
  <2> QED BY <2>1, <2>2, PendingIsFinite, FS_RemoveElement
<1> QED
  BY <1>1, <1>2, <1>3

\* Storing a new request raises the one count #addPendingApprovalOrigin raises.
LEMMA StoredRequest ==
    ASSUME NEW store \in Stores, NEW id \in Ids, store[id] = None,
           NEW p \in Origins, NEW u \in Types, NEW e \in BOOLEAN
    PROVE  /\ With(store, id, p, u, e) \in Stores
           /\ Pending(With(store, id, p, u, e)) = Pending(store) \cup {id}
           /\ \A o \in Origins, t \in Types :
                 Cardinality(PendingOf(With(store, id, p, u, e), o, t)) =
                     IF o = p /\ t = u
                     THEN Cardinality(PendingOf(store, o, t)) + 1
                     ELSE Cardinality(PendingOf(store, o, t))
<1> DEFINE req == NewRequest(p, u, e)
           more == With(store, id, p, u, e)
<1>0. more = [store EXCEPT ![id] = req]
  BY DEF With
<1>1. /\ req \in Requests /\ req.origin = p /\ req.type = u
      /\ req # None
  BY ConstantsOK DEF NewRequest, Requests
<1> HIDE DEF req, more
<1>2. more \in Stores
  BY <1>0, <1>1 DEF Stores
<1>3. Pending(more) = Pending(store) \cup {id}
  BY <1>0, <1>1 DEF Pending, Stores
<1>4. ASSUME NEW o \in Origins, NEW t \in Types
      PROVE  Cardinality(PendingOf(more, o, t)) =
                 IF o = p /\ t = u
                 THEN Cardinality(PendingOf(store, o, t)) + 1
                 ELSE Cardinality(PendingOf(store, o, t))
  <2>1. PendingOf(more, o, t) =
            IF o = p /\ t = u THEN PendingOf(store, o, t) \cup {id}
                              ELSE PendingOf(store, o, t)
    BY <1>0, <1>1 DEF PendingOf, Pending, Stores
  <2>2. id \notin PendingOf(store, o, t)
    BY DEF PendingOf, Pending
  <2> QED BY <2>1, <2>2, PendingIsFinite, FS_AddElement
<1> QED
  BY <1>2, <1>3, <1>4 DEF more

\* What a request that is in the registry looks like.
LEMMA InRegistry ==
    ASSUME Registered, NEW id \in approvals
    PROVE  /\ id \in Ids /\ pendingApprovals[id] \in Requests
           /\ pendingApprovals[id] # None
           /\ pendingApprovals[id].origin \in Origins
           /\ pendingApprovals[id].type \in Types
           /\ origins[pendingApprovals[id].origin][pendingApprovals[id].type] > 0
<1> DEFINE o == pendingApprovals[id].origin
           t == pendingApprovals[id].type
<1>1. id \in Ids /\ pendingApprovals[id] \in Requests /\ pendingApprovals[id] # None
  BY DEF Registered, RegistryConsistent, Pending
<1>2. o \in Origins /\ t \in Types
  BY <1>1 DEF Requests
<1>3. id \in PendingOf(pendingApprovals, o, t)
  BY <1>1 DEF PendingOf, Pending
<1>4. Cardinality(PendingOf(pendingApprovals, o, t)) > 0
  BY <1>2, <1>3, PendingIsFinite, FS_EmptySet
<1> QED
  BY <1>1, <1>2, <1>4 DEF Registered, RegistryConsistent

\* #delete keeps the indexes in agreement.
LEMMA DeleteStep ==
    ASSUME Registered, NEW id \in approvals, Delete(id)
    PROVE  Registered' /\ approvals' = approvals \ {id}
<1> DEFINE o == pendingApprovals[id].origin
           t == pendingApprovals[id].type
<1>1. /\ id \in Ids /\ pendingApprovals[id] # None
      /\ o \in Origins /\ t \in Types /\ origins[o][t] > 0
  BY InRegistry
<1>0. /\ pendingApprovals \in Stores
      /\ pendingApprovals' = Without(pendingApprovals, id)
  BY DEF Registered, Delete, Stores, Without
<1>2. /\ pendingApprovals' \in Stores
      /\ Pending(pendingApprovals') = Pending(pendingApprovals) \ {id}
      /\ \A p \in Origins, u \in Types :
            Cardinality(PendingOf(pendingApprovals', p, u)) =
                IF p = o /\ u = t
                THEN Cardinality(PendingOf(pendingApprovals, p, u)) - 1
                ELSE Cardinality(PendingOf(pendingApprovals, p, u))
  BY <1>0, <1>1, RemovedFromStore
<1>3. /\ origins' \in [Origins -> [Types -> Nat]]
      /\ \A p \in Origins, u \in Types :
            origins'[p][u] = IF p = o /\ u = t THEN origins[p][u] - 1 ELSE origins[p][u]
  BY <1>1, UncountedIsOneLess DEF Registered, Delete
<1>4. approvals' = approvals \ {id} /\ approvals' = Pending(pendingApprovals')
  BY <1>2 DEF Registered, RegistryConsistent, Delete
<1>5. /\ pendingApprovalCount' = Cardinality(approvals')
      /\ pendingApprovalCount' \in Nat
  BY <1>4, PendingIsFinite DEF Delete
<1>6. \A p \in Origins, u \in Types :
          origins'[p][u] = Cardinality(PendingOf(pendingApprovals', p, u))
  BY <1>2, <1>3 DEF Registered, RegistryConsistent
<1>7. approvals' \in SUBSET Ids
  BY <1>4 DEF Registered
<1> QED
  BY <1>2, <1>3, <1>4, <1>5, <1>6, <1>7 DEF Registered, RegistryConsistent, Stores

\* #add keeps them in agreement where nothing is in the way.
LEMMA AddStep ==
    ASSUME Registered, NEW id \in Ids \ approvals,
           NEW o \in Origins, NEW t \in Types, NEW e \in BOOLEAN, Add(id, o, t, e)
    PROVE  Registered'
<1>1. pendingApprovals[id] = None
  BY DEF Registered, RegistryConsistent, Pending
<1>0. /\ pendingApprovals \in Stores
      /\ pendingApprovals' = With(pendingApprovals, id, o, t, e)
  BY DEF Registered, Add, Stores, With
<1>2. /\ pendingApprovals' \in Stores
      /\ Pending(pendingApprovals') = Pending(pendingApprovals) \cup {id}
      /\ \A p \in Origins, u \in Types :
            Cardinality(PendingOf(pendingApprovals', p, u)) =
                IF p = o /\ u = t
                THEN Cardinality(PendingOf(pendingApprovals, p, u)) + 1
                ELSE Cardinality(PendingOf(pendingApprovals, p, u))
  BY <1>0, <1>1, StoredRequest
<1>3. /\ origins' \in [Origins -> [Types -> Nat]]
      /\ \A p \in Origins, u \in Types :
            origins'[p][u] = IF p = o /\ u = t THEN origins[p][u] + 1 ELSE origins[p][u]
  BY CountedIsOneMore DEF Registered, Add
<1>4. approvals' = Pending(pendingApprovals')
  BY <1>2 DEF Registered, RegistryConsistent, Add
<1>5. /\ pendingApprovalCount' = Cardinality(approvals')
      /\ pendingApprovalCount' \in Nat
  BY <1>4, PendingIsFinite DEF Add
<1>6. \A p \in Origins, u \in Types :
          origins'[p][u] = Cardinality(PendingOf(pendingApprovals', p, u))
  BY <1>2, <1>3 DEF Registered, RegistryConsistent
<1>7. approvals' \in SUBSET Ids
  BY <1>4 DEF Pending
<1> QED
  BY <1>2, <1>3, <1>4, <1>5, <1>6, <1>7 DEF Registered, RegistryConsistent, Stores

\* #add keeps them in agreement where it first deletes an older request.
LEMMA AddReplacingStep ==
    ASSUME Registered, NEW id \in Ids \ approvals, NEW old \in Ids,
           NEW o \in Origins, NEW t \in Types, NEW e \in BOOLEAN,
           AddReplacing(id, old, o, t, e)
    PROVE  Registered'
<1> DEFINE rest == Without(pendingApprovals, old)
           less == Uncounted(origins, o, t)
<1>1. /\ pendingApprovals[id] = None /\ pendingApprovals[old] # None
      /\ old \in approvals /\ old # id
      /\ pendingApprovals[old].origin = o /\ pendingApprovals[old].type = t
      /\ origins[o][t] > 0
  BY DEF Registered, RegistryConsistent, Pending, PendingOf, AddReplacing
<1>2. /\ rest \in Stores
      /\ Pending(rest) = Pending(pendingApprovals) \ {old}
      /\ \A p \in Origins, u \in Types :
            Cardinality(PendingOf(rest, p, u)) =
                IF p = o /\ u = t
                THEN Cardinality(PendingOf(pendingApprovals, p, u)) - 1
                ELSE Cardinality(PendingOf(pendingApprovals, p, u))
  <2>1. pendingApprovals \in Stores
    BY DEF Registered, Stores
  <2> QED BY <1>1, <2>1, RemovedFromStore
<1>3. /\ pendingApprovals' = With(rest, id, o, t, e)
      /\ rest[id] = None
  BY <1>1 DEF AddReplacing, Registered, With, Without
<1>4. /\ less \in [Origins -> [Types -> Nat]]
      /\ \A p \in Origins, u \in Types :
            less[p][u] = IF p = o /\ u = t THEN origins[p][u] - 1 ELSE origins[p][u]
  BY <1>1, UncountedIsOneLess DEF Registered
<1>5. origins' = Counted(less, o, t)
  BY DEF AddReplacing
<1> HIDE DEF rest, less
<1>6. /\ pendingApprovals' \in Stores
      /\ Pending(pendingApprovals') = Pending(rest) \cup {id}
      /\ \A p \in Origins, u \in Types :
            Cardinality(PendingOf(pendingApprovals', p, u)) =
                IF p = o /\ u = t
                THEN Cardinality(PendingOf(rest, p, u)) + 1
                ELSE Cardinality(PendingOf(rest, p, u))
  BY <1>2, <1>3, StoredRequest
<1>7. /\ origins' \in [Origins -> [Types -> Nat]]
      /\ \A p \in Origins, u \in Types :
            origins'[p][u] = IF p = o /\ u = t THEN less[p][u] + 1 ELSE less[p][u]
  BY <1>4, <1>5, CountedIsOneMore
<1>8. approvals' = Pending(pendingApprovals') /\ approvals' \in SUBSET Ids
  BY <1>2, <1>6 DEF Registered, RegistryConsistent, AddReplacing, Pending
<1>9. /\ pendingApprovalCount' = Cardinality(approvals')
      /\ pendingApprovalCount' \in Nat
  BY <1>8, PendingIsFinite DEF AddReplacing
<1>10. \A p \in Origins, u \in Types :
          origins'[p][u] = Cardinality(PendingOf(pendingApprovals', p, u))
  BY <1>2, <1>4, <1>6, <1>7 DEF Registered, RegistryConsistent
<1> QED
  BY <1>6, <1>7, <1>8, <1>9, <1>10 DEF Registered, RegistryConsistent, Stores

-----------------------------------------------------------------------------
(* The inductive invariant *)

\* A stored request was made: what makes the id of a new one free.
StoredWasMade == \A id \in approvals : promise[id] # "unmade"

IInv ==
    /\ TypeOK
    /\ RegistryConsistent
    /\ OneRequestPerOriginAndType
    /\ StoredWasMade

LEMMA IInvRegistered ==
    ASSUME IInv
    PROVE  Registered
BY DEF IInv, TypeOK, Registered

LEMMA InitIInv ==
    ASSUME Init
    PROVE  IInv
<1>1. TypeOK
  BY DEF Init, TypeOK, PromiseStates, AcceptCalls, CallStates, UnusedCall
<1>2. Pending(pendingApprovals) = {}
  BY DEF Init, Pending
<1>3. \A o \in Origins, t \in Types : PendingOf(pendingApprovals, o, t) = {}
  BY <1>2 DEF PendingOf
<1>4. RegistryConsistent
  BY <1>2, <1>3, FS_EmptySet DEF Init, RegistryConsistent
<1> QED
  BY <1>1, <1>2, <1>4 DEF Init, IInv, OneRequestPerOriginAndType, StoredWasMade

\* One request per origin and type survives when requests leave and those that
\* stay keep origin and type.
LEMMA OneRequestWhenFewer ==
    ASSUME OneRequestPerOriginAndType,
           \A id \in Pending(pendingApprovals') :
               /\ id \in Pending(pendingApprovals)
               /\ pendingApprovals'[id].origin = pendingApprovals[id].origin
               /\ pendingApprovals'[id].type = pendingApprovals[id].type
    PROVE  OneRequestPerOriginAndType'
BY DEF OneRequestPerOriginAndType

\* #delete, whatever calls it, keeps the registry's share of the invariant.
LEMMA DeleteKeeps ==
    ASSUME IInv, NEW id \in approvals, Delete(id)
    PROVE  Registered' /\ OneRequestPerOriginAndType' /\ approvals' = approvals \ {id}
<1>1. Registered' /\ approvals' = approvals \ {id}
  BY IInvRegistered, DeleteStep
<1>2. OneRequestPerOriginAndType'
  BY OneRequestWhenFewer DEF IInv, TypeOK, Delete, Pending
<1> QED
  BY <1>1, <1>2

\* A settlement gives every promise a state, and makes none unmade.
LEMMA SettledKeeps ==
    ASSUME IInv, NEW id \in Ids, NEW outcome \in {"resolved", "rejected"}
    PROVE  /\ Settled(id, outcome) \in [Ids -> PromiseStates]
           /\ \A i \in Ids : promise[i] # "unmade" => Settled(id, outcome)[i] # "unmade"
BY DEF IInv, TypeOK, Settled, PromiseStates

\* The registry's share, with the types of the rest, is the invariant.
LEMMA IInvFromParts ==
    ASSUME Registered', OneRequestPerOriginAndType',
           promise' \in [Ids -> PromiseStates],
           resultCallbacks' \in [Ids -> Calls \cup {None}],
           acceptCall' \in [Calls -> AcceptCalls],
           StoredWasMade'
    PROVE  IInv'
BY DEF Registered, IInv, TypeOK

LEMMA AddKeepsIInv ==
    ASSUME IInv, NEW id \in Ids, NEW o \in Origins, NEW t \in Types,
           NEW e \in BOOLEAN, Add(id, o, t, e)
    PROVE  IInv'
<1>1. id \in Ids \ approvals
  BY DEF IInv, StoredWasMade, Add
<1>2. Registered'
  BY <1>1, AddStep, IInvRegistered
<1>3. OneRequestPerOriginAndType'
  <2>1. t \notin ExcludedTypes => PendingOf(pendingApprovals, o, t) = {}
    <3>1. t \notin ExcludedTypes => Cardinality(PendingOf(pendingApprovals, o, t)) = 0
      BY DEF Add, IInv, RegistryConsistent
    <3> QED BY <3>1, PendingIsFinite, FS_EmptySet
  <2>2. pendingApprovals \in [Ids -> Requests \cup {None}]
    BY DEF IInv, TypeOK
  <2>3. /\ pendingApprovals'[id].origin = o /\ pendingApprovals'[id].type = t
        /\ \A i \in Ids \ {id} : pendingApprovals'[i] = pendingApprovals[i]
    BY <2>2 DEF Add, NewRequest
  <2>4. \A i \in Pending(pendingApprovals') \ {id} : i \in Pending(pendingApprovals)
    BY <2>3 DEF Pending
  <2>5. ASSUME NEW a \in Pending(pendingApprovals') \ {id},
               pendingApprovals'[a].origin = o, pendingApprovals'[a].type = t
        PROVE  t \in ExcludedTypes
    <3>1. a \in PendingOf(pendingApprovals, o, t)
      BY <2>3, <2>4, <2>5 DEF PendingOf, Pending
    <3> QED BY <3>1, <2>1
  <2>6. \A i \in Pending(pendingApprovals') : i \in Ids
    BY DEF Pending
  <2> QED
    BY <2>3, <2>4, <2>5, <2>6 DEF OneRequestPerOriginAndType, IInv
<1>4. /\ promise' \in [Ids -> PromiseStates]
      /\ resultCallbacks' \in [Ids -> Calls \cup {None}]
      /\ acceptCall' \in [Calls -> AcceptCalls]
      /\ StoredWasMade'
  BY DEF IInv, TypeOK, StoredWasMade, Add, PromiseStates
<1> QED
  BY <1>2, <1>3, <1>4, IInvFromParts

LEMMA AddReplacingKeepsIInv ==
    ASSUME IInv, NEW id \in Ids, NEW old \in Ids, NEW o \in Origins, NEW t \in Types,
           NEW e \in BOOLEAN, AddReplacing(id, old, o, t, e)
    PROVE  IInv'
<1>1. id \in Ids \ approvals
  BY DEF IInv, StoredWasMade, AddReplacing
<1>2. Registered'
  BY <1>1, AddReplacingStep, IInvRegistered
<1>3. OneRequestPerOriginAndType'
  <2>1. PendingOf(pendingApprovals, o, t) = {old}
    BY DEF AddReplacing, IInv, OneRequestPerOriginAndType, PendingOf, Pending
  <2>2. pendingApprovals \in [Ids -> Requests \cup {None}]
    BY DEF IInv, TypeOK
  <2>3. old # id
    BY <1>1, <2>1 DEF PendingOf, Pending, IInv, RegistryConsistent
  <2>4. /\ pendingApprovals'[id].origin = o /\ pendingApprovals'[id].type = t
        /\ pendingApprovals'[old] = None
        /\ \A i \in Ids \ {id, old} : pendingApprovals'[i] = pendingApprovals[i]
    BY <2>2, <2>3 DEF AddReplacing, NewRequest
  <2>5. \A i \in Pending(pendingApprovals') \ {id} :
            i \in Ids \ {id, old} /\ i \in Pending(pendingApprovals)
    BY <2>4 DEF Pending
  <2>6. ASSUME NEW a \in Pending(pendingApprovals') \ {id},
               pendingApprovals'[a].origin = o, pendingApprovals'[a].type = t
        PROVE  FALSE
    <3>1. a \in PendingOf(pendingApprovals, o, t)
      BY <2>4, <2>5, <2>6 DEF PendingOf, Pending
    <3> QED BY <3>1, <2>1, <2>5
  <2> QED
    BY <2>4, <2>5, <2>6 DEF OneRequestPerOriginAndType, IInv
<1>4. /\ promise' \in [Ids -> PromiseStates]
      /\ resultCallbacks' \in [Ids -> Calls \cup {None}]
      /\ acceptCall' \in [Calls -> AcceptCalls]
      /\ StoredWasMade'
  BY DEF IInv, TypeOK, StoredWasMade, AddReplacing, PromiseStates
<1> QED
  BY <1>2, <1>3, <1>4, IInvFromParts

LEMMA AcceptKeepsIInv ==
    ASSUME IInv, NEW c \in Calls, NEW id \in Ids, NEW d \in BOOLEAN,
           AcceptNow(c, id) \/ AcceptAndWait(c, id, d) \/ AcceptUnsupported(c, id, d)
    PROVE  IInv'
<1> DEFINE rest == /\ promise' \in [Ids -> PromiseStates]
                   /\ resultCallbacks' \in [Ids -> Calls \cup {None}]
                   /\ acceptCall' \in [Calls -> AcceptCalls]
                   /\ \A i \in Ids : promise[i] # "unmade" => promise'[i] # "unmade"
<1>1. id \in approvals
  BY DEF AcceptNow, AcceptAndWait, AcceptUnsupported
<1>2. rest
  <2>1. CASE AcceptNow(c, id)
    BY <2>1, SettledKeeps DEF AcceptNow, IInv, TypeOK, AcceptCalls, CallStates
  <2>2. CASE AcceptAndWait(c, id, d)
    <3>1. /\ promise' \in [Ids -> PromiseStates]
          /\ \A i \in Ids : promise[i] # "unmade" => promise'[i] # "unmade"
      BY <2>2, SettledKeeps DEF AcceptAndWait
    <3>2. /\ resultCallbacks' \in [Ids -> Calls \cup {None}]
          /\ acceptCall' \in [Calls -> AcceptCalls]
      BY <2>2 DEF AcceptAndWait, IInv, TypeOK, AcceptCalls, CallStates
    <3> QED BY <3>1, <3>2
  <2>3. CASE AcceptUnsupported(c, id, d)
    BY <2>3 DEF AcceptUnsupported, IInv, TypeOK, AcceptCalls, CallStates
  <2> QED BY <2>1, <2>2, <2>3
<1> HIDE DEF rest
<1>3. CASE Delete(id)
  <2>1. Registered' /\ OneRequestPerOriginAndType' /\ approvals' = approvals \ {id}
    BY <1>1, <1>3, DeleteKeeps
  <2>2. StoredWasMade'
    BY <1>2, <2>1 DEF rest, IInv, TypeOK, StoredWasMade
  <2> QED BY <1>2, <2>1, <2>2, IInvFromParts DEF rest
<1>4. CASE UNCHANGED registry
  <2>1. UNCHANGED <<approvals, origins, pendingApprovals, pendingApprovalCount>>
    BY <1>4 DEF registry
  <2>2. Registered' /\ OneRequestPerOriginAndType'
    BY <2>1, IInvRegistered
       DEF IInv, Registered, RegistryConsistent, OneRequestPerOriginAndType
  <2>3. StoredWasMade'
    BY <1>2, <2>1 DEF rest, IInv, TypeOK, StoredWasMade
  <2> QED BY <1>2, <2>2, <2>3, IInvFromParts DEF rest
<1> QED
  BY <1>3, <1>4 DEF AcceptNow, AcceptAndWait, AcceptUnsupported

LEMMA ReportResultKeepsIInv ==
    ASSUME IInv, NEW id \in Ids, NEW ok \in BOOLEAN, ReportResult(id, ok)
    PROVE  IInv'
<1>1. UNCHANGED <<approvals, origins, pendingApprovals, pendingApprovalCount,
                  promise, resultCallbacks>>
  BY DEF ReportResult, registry
<1>2. acceptCall' \in [Calls -> AcceptCalls]
  BY DEF ReportResult, IInv, TypeOK, AcceptCalls, CallStates
<1> QED
  BY <1>1, <1>2 DEF IInv, TypeOK, RegistryConsistent, OneRequestPerOriginAndType,
                    StoredWasMade

LEMMA FinallyDeleteKeepsIInv ==
    ASSUME IInv, NEW c \in Calls, FinallyDelete(c)
    PROVE  IInv'
<1> DEFINE id == acceptCall[c].id
<1>1. acceptCall' \in [Calls -> AcceptCalls]
  BY DEF FinallyDelete, IInv, TypeOK, AcceptCalls, CallStates
<1>2. UNCHANGED <<promise, resultCallbacks>>
  BY DEF FinallyDelete
<1>3. CASE id \in approvals
  <2>1. Delete(id)
    BY <1>3 DEF FinallyDelete
  <2>2. Registered' /\ OneRequestPerOriginAndType' /\ approvals' = approvals \ {id}
    BY <1>3, <2>1, DeleteKeeps
  <2> QED
    BY <1>1, <1>2, <2>2, IInvFromParts DEF IInv, TypeOK, StoredWasMade
<1>4. CASE id \notin approvals
  <2>1. UNCHANGED <<approvals, origins, pendingApprovals, pendingApprovalCount>>
    BY <1>4 DEF FinallyDelete, registry
  <2> QED
    BY <1>1, <1>2, <2>1 DEF IInv, TypeOK, RegistryConsistent,
                            OneRequestPerOriginAndType, StoredWasMade
<1> QED
  BY <1>3, <1>4

LEMMA RejectKeepsIInv ==
    ASSUME IInv, NEW id \in Ids, Reject(id)
    PROVE  IInv'
<1>1. id \in approvals /\ Delete(id)
  BY DEF Reject
<1>2. Registered' /\ OneRequestPerOriginAndType' /\ approvals' = approvals \ {id}
  BY <1>1, DeleteKeeps
<1>3. /\ promise' \in [Ids -> PromiseStates]
      /\ \A i \in Ids : promise[i] # "unmade" => promise'[i] # "unmade"
  BY SettledKeeps DEF Reject
<1>4. StoredWasMade'
  BY <1>2, <1>3 DEF IInv, TypeOK, StoredWasMade
<1> QED
  BY <1>2, <1>3, <1>4, IInvFromParts DEF Reject, IInv, TypeOK

LEMMA ClearKeepsIInv ==
    ASSUME IInv, Clear
    PROVE  IInv'
<1>1. Pending(pendingApprovals') = {}
  BY DEF Clear, Pending
<1>2. \A o \in Origins, t \in Types : PendingOf(pendingApprovals', o, t) = {}
  BY <1>1 DEF PendingOf
<1>3. RegistryConsistent'
  BY <1>1, <1>2, FS_EmptySet DEF Clear, RegistryConsistent
<1>4. OneRequestPerOriginAndType' /\ StoredWasMade'
  BY <1>1 DEF Clear, OneRequestPerOriginAndType, StoredWasMade
<1>5. TypeOK'
  BY DEF Clear, IInv, TypeOK, PromiseStates
<1> QED
  BY <1>3, <1>4, <1>5 DEF IInv

LEMMA UpdateRequestStateKeepsIInv ==
    ASSUME IInv, NEW id \in Ids, NEW s \in RequestStates, UpdateRequestState(id, s)
    PROVE  IInv'
<1> DEFINE req == [pendingApprovals[id] EXCEPT !.requestState = s]
<1>1. pendingApprovals \in [Ids -> Requests \cup {None}] /\ pendingApprovals[id] \in Requests
  BY DEF UpdateRequestState, IInv, TypeOK
<1>2. /\ req \in Requests /\ req # None
      /\ req.origin = pendingApprovals[id].origin /\ req.type = pendingApprovals[id].type
  BY <1>1, ConstantsOK DEF Requests
<1>3. pendingApprovals' = [pendingApprovals EXCEPT ![id] = req]
  BY DEF UpdateRequestState
<1> HIDE DEF req
<1>4. pendingApprovals' \in [Ids -> Requests \cup {None}]
  BY <1>1, <1>2, <1>3
<1>5. /\ Pending(pendingApprovals') = Pending(pendingApprovals)
      /\ \A i \in Ids : /\ pendingApprovals'[i].origin = pendingApprovals[i].origin
                        /\ pendingApprovals'[i].type = pendingApprovals[i].type
  BY <1>1, <1>2, <1>3 DEF Pending, UpdateRequestState
<1>6. \A o \in Origins, t \in Types :
          PendingOf(pendingApprovals', o, t) = PendingOf(pendingApprovals, o, t)
  BY <1>5 DEF PendingOf, Pending
<1>7. RegistryConsistent'
  BY <1>5, <1>6 DEF UpdateRequestState, IInv, RegistryConsistent
<1>8. OneRequestPerOriginAndType'
  BY <1>5, OneRequestWhenFewer DEF IInv, Pending
<1> QED
  BY <1>4, <1>7, <1>8 DEF UpdateRequestState, IInv, TypeOK, StoredWasMade

LEMMA NextIInv ==
    ASSUME IInv, [Next]_vars
    PROVE  IInv'
<1>1. CASE \E id \in Ids, o \in Origins, t \in Types, e \in BOOLEAN : Add(id, o, t, e)
  BY <1>1, AddKeepsIInv
<1>2. CASE \E id, old \in Ids, o \in Origins, t \in Types, e \in BOOLEAN :
               AddReplacing(id, old, o, t, e)
  BY <1>2, AddReplacingKeepsIInv
<1>3. CASE \E c \in Calls, id \in Ids : AcceptNow(c, id)
  BY <1>3, AcceptKeepsIInv
<1>4. CASE \E c \in Calls, id \in Ids, d \in BOOLEAN :
               AcceptAndWait(c, id, d) \/ AcceptUnsupported(c, id, d)
  BY <1>4, AcceptKeepsIInv
<1>5. CASE \E id \in Ids, ok \in BOOLEAN : ReportResult(id, ok)
  BY <1>5, ReportResultKeepsIInv
<1>6. CASE \E c \in Calls : FinallyDelete(c)
  BY <1>6, FinallyDeleteKeepsIInv
<1>7. CASE \E id \in Ids : Reject(id)
  BY <1>7, RejectKeepsIInv
<1>8. CASE Clear
  BY <1>8, ClearKeepsIInv
<1>9. CASE \E id \in Ids, s \in RequestStates : UpdateRequestState(id, s)
  BY <1>9, UpdateRequestStateKeepsIInv
<1>10. CASE UNCHANGED vars
  BY <1>10 DEF vars, registry, IInv, TypeOK, RegistryConsistent,
               OneRequestPerOriginAndType, StoredWasMade
<1> QED
  BY <1>1, <1>2, <1>3, <1>4, <1>5, <1>6, <1>7, <1>8, <1>9, <1>10 DEF Next

LEMMA Invariance == Spec => []IInv
<1> QED
  BY InitIInv, NextIInv, PTL DEF Spec

\* Every variable keeps its type.
THEOREM TypeCorrect == Spec => []TypeOK
<1>1. IInv => TypeOK
  BY DEF IInv
<1> QED
  BY <1>1, Invariance, PTL

\* The callbacks held, the requests rendered and the counts per origin and type
\* agree, however requests are added, replaced, accepted, rejected and cleared.
THEOREM IndexesAgree == Spec => []RegistryConsistent
<1>1. IInv => RegistryConsistent
  BY DEF IInv
<1> QED
  BY <1>1, Invariance, PTL

\* A site never has two open requests of a rate-limited type.
THEOREM OnePerOriginAndType == Spec => []OneRequestPerOriginAndType
<1>1. IInv => OneRequestPerOriginAndType
  BY DEF IInv
<1> QED
  BY <1>1, Invariance, PTL

-----------------------------------------------------------------------------
(* The refinement of ApprovalPromise *)

\* The request id leaves the registry and its promise takes an outcome, or it
\* stays there with its promise already settled.
LEMMA AcceptObserved ==
    ASSUME IInv, NEW id \in approvals,
           approvals' \in {approvals, approvals \ {id}},
           promise' = Settled(id, "resolved")
    PROVE  Promises!Resolve(id) \/ UNCHANGED Observed
<1>1. id \in Ids /\ promise \in [Ids -> PromiseStates] /\ promise[id] # "unmade"
  BY DEF IInv, TypeOK, StoredWasMade
<1>2. CASE promise[id] = "pending"
  <2>1. Observed[id] = "open"
    BY <1>1, <1>2 DEF Observed
  <2>2. Observed' = [Observed EXCEPT ![id] = "resolved"]
    BY <1>1, <1>2 DEF Observed, Settled
  <2> QED BY <2>1, <2>2 DEF Promises!Resolve
<1>3. CASE promise[id] # "pending"
  BY <1>1, <1>3 DEF Observed, Settled
<1> QED
  BY <1>2, <1>3

\* The request leaves the registry and its promise stays as it is.
LEMMA DropObserved ==
    ASSUME IInv, NEW id \in approvals,
           approvals' \in {approvals, approvals \ {id}}, promise' = promise
    PROVE  Promises!Abandon(id) \/ UNCHANGED Observed
<1>1. id \in Ids /\ promise \in [Ids -> PromiseStates]
  BY DEF IInv, TypeOK
<1>2. CASE promise[id] = "pending" /\ approvals' = approvals \ {id}
  <2>1. Observed[id] = "open"
    BY <1>1, <1>2 DEF Observed
  <2>2. Observed' = [Observed EXCEPT ![id] = "abandoned"]
    BY <1>1, <1>2 DEF Observed
  <2> QED BY <2>1, <2>2 DEF Promises!Abandon
<1>3. CASE promise[id] # "pending" \/ approvals' = approvals
  BY <1>1, <1>3 DEF Observed
<1> QED
  BY <1>2, <1>3

LEMMA RejectObserved ==
    ASSUME IInv, NEW id \in Ids, Reject(id)
    PROVE  Promises!Reject({id}) \/ UNCHANGED Observed
<1>1. /\ id \in approvals /\ approvals' = approvals \ {id}
      /\ promise' = Settled(id, "rejected")
      /\ promise \in [Ids -> PromiseStates]
  BY DEF Reject, Delete, IInv, TypeOK
<1>2. CASE promise[id] = "pending"
  <2>1. {id} \subseteq Promises!OpenIds
    BY <1>1, <1>2 DEF Observed, Promises!OpenIds
  <2>2. Observed' = [i \in Ids |-> IF i \in {id} THEN "rejected" ELSE Observed[i]]
    BY <1>1, <1>2 DEF Observed, Settled
  <2> QED BY <2>1, <2>2 DEF Promises!Reject
<1>3. CASE promise[id] # "pending"
  BY <1>1, <1>3 DEF Observed, Settled
<1> QED
  BY <1>2, <1>3

LEMMA ClearObserved ==
    ASSUME IInv, Clear
    PROVE  Promises!Reject(Promises!OpenIds)
<1>1. promise \in [Ids -> PromiseStates]
  BY DEF IInv, TypeOK
<1>2. \A i \in Ids : i \in Promises!OpenIds <=> i \in approvals /\ promise[i] = "pending"
  BY <1>1 DEF Observed, Promises!OpenIds, PromiseStates
<1>3. Observed' = [i \in Ids |-> IF i \in Promises!OpenIds THEN "rejected" ELSE Observed[i]]
  BY <1>1, <1>2 DEF Clear, Observed
<1> QED
  BY <1>3 DEF Promises!Reject

LEMMA AddObserved ==
    ASSUME IInv, NEW id \in Ids, NEW o \in Origins, NEW t \in Types,
           NEW e \in BOOLEAN, Add(id, o, t, e)
    PROVE  Promises!Open(id, {})
<1>1. /\ promise \in [Ids -> PromiseStates] /\ promise[id] = "unmade"
      /\ approvals' = approvals \cup {id}
      /\ promise' = [promise EXCEPT ![id] = "pending"]
  BY DEF IInv, TypeOK, Add
<1>2. Observed[id] = "unmade"
  BY <1>1 DEF Observed
<1>3. Observed' = [i \in Ids |-> CASE i = id -> "open"
                                   [] i \in {} -> "abandoned"
                                   [] OTHER -> Observed[i]]
  BY <1>1 DEF Observed
<1> QED
  BY <1>2, <1>3 DEF Promises!Open

\* The older request is abandoned, unless an accept call has already resolved it.
LEMMA AddReplacingObserved ==
    ASSUME IInv, NEW id \in Ids, NEW old \in Ids, NEW o \in Origins, NEW t \in Types,
           NEW e \in BOOLEAN, AddReplacing(id, old, o, t, e)
    PROVE  \E replaced \in SUBSET Promises!OpenIds : Promises!Open(id, replaced)
<1> DEFINE replaced == IF promise[old] = "pending" THEN {old} ELSE {}
<1>1. /\ promise \in [Ids -> PromiseStates] /\ promise[id] = "unmade"
      /\ approvals' = (approvals \ {old}) \cup {id}
      /\ promise' = [promise EXCEPT ![id] = "pending"]
  BY DEF IInv, TypeOK, AddReplacing
<1>2. old \in approvals /\ old # id
  BY <1>1 DEF AddReplacing, PendingOf, IInv, RegistryConsistent, StoredWasMade
<1>3. Observed[id] = "unmade"
  BY <1>1 DEF Observed
<1>4. replaced \subseteq Promises!OpenIds /\ \A a, b \in replaced : a = b
  BY <1>1, <1>2 DEF Observed, Promises!OpenIds
<1>5. Observed' = [i \in Ids |-> CASE i = id -> "open"
                                   [] i \in replaced -> "abandoned"
                                   [] OTHER -> Observed[i]]
  BY <1>1, <1>2 DEF Observed
<1> HIDE DEF replaced
<1>6. Promises!Open(id, replaced)
  BY <1>3, <1>4, <1>5 DEF Promises!Open
<1> QED
  BY <1>4, <1>6

LEMMA NextRefines ==
    ASSUME IInv, [Next]_vars
    PROVE  [Promises!Next]_Observed
<1>1. ASSUME NEW id \in Ids, NEW o \in Origins, NEW t \in Types, NEW e \in BOOLEAN,
             Add(id, o, t, e)
      PROVE  Promises!Next
  <2>1. Promises!Open(id, {})
    BY <1>1, AddObserved
  <2>2. {} \in SUBSET Promises!OpenIds
    OBVIOUS
  <2> QED BY <2>1, <2>2 DEF Promises!Next
<1>2. ASSUME NEW id \in Ids, NEW old \in Ids, NEW o \in Origins, NEW t \in Types,
             NEW e \in BOOLEAN, AddReplacing(id, old, o, t, e)
      PROVE  Promises!Next
  BY <1>2, AddReplacingObserved DEF Promises!Next
<1>3. ASSUME NEW c \in Calls, NEW id \in Ids, AcceptNow(c, id)
      PROVE  Promises!Next \/ UNCHANGED Observed
  <2>1. id \in approvals /\ approvals' = approvals \ {id} /\ promise' = Settled(id, "resolved")
    BY <1>3 DEF AcceptNow, Delete
  <2> QED BY <2>1, AcceptObserved DEF Promises!Next
<1>4. ASSUME NEW c \in Calls, NEW id \in Ids, NEW d \in BOOLEAN, AcceptAndWait(c, id, d)
      PROVE  Promises!Next \/ UNCHANGED Observed
  <2>1. /\ id \in approvals /\ approvals' \in {approvals, approvals \ {id}}
        /\ promise' = Settled(id, "resolved")
    BY <1>4 DEF AcceptAndWait, Delete, registry
  <2> QED BY <2>1, AcceptObserved DEF Promises!Next
<1>5. ASSUME NEW c \in Calls, NEW id \in Ids, NEW d \in BOOLEAN, AcceptUnsupported(c, id, d)
      PROVE  Promises!Next \/ UNCHANGED Observed
  <2>1. /\ id \in approvals /\ approvals' \in {approvals, approvals \ {id}}
        /\ promise' = promise
    BY <1>5 DEF AcceptUnsupported, Delete, registry
  <2> QED BY <2>1, DropObserved DEF Promises!Next
<1>6. ASSUME NEW id \in Ids, NEW ok \in BOOLEAN, ReportResult(id, ok)
      PROVE  UNCHANGED Observed
  BY <1>6 DEF ReportResult, registry, Observed
<1>7. ASSUME NEW c \in Calls, FinallyDelete(c)
      PROVE  Promises!Next \/ UNCHANGED Observed
  <2> DEFINE id == acceptCall[c].id
  <2>1. promise' = promise
    BY <1>7 DEF FinallyDelete
  <2>2. CASE id \in approvals
    <3>1. approvals' = approvals \ {id} /\ id \in Ids
      BY <1>7, <2>2 DEF FinallyDelete, Delete, IInv, TypeOK
    <3> QED BY <2>1, <2>2, <3>1, DropObserved DEF Promises!Next
  <2>3. CASE id \notin approvals
    BY <1>7, <2>3 DEF FinallyDelete, registry, Observed
  <2> QED BY <2>2, <2>3
<1>8. ASSUME NEW id \in Ids, Reject(id)
      PROVE  Promises!Next \/ UNCHANGED Observed
  BY <1>8, RejectObserved DEF Promises!Next
<1>9. ASSUME Clear
      PROVE  Promises!Next
  BY <1>9, ClearObserved DEF Promises!Next
<1>10. ASSUME NEW id \in Ids, NEW s \in RequestStates, UpdateRequestState(id, s)
       PROVE  UNCHANGED Observed
  BY <1>10 DEF UpdateRequestState, Observed
<1>11. CASE UNCHANGED vars
  BY <1>11 DEF vars, registry, Observed
<1> QED
  BY <1>1, <1>2, <1>3, <1>4, <1>5, <1>6, <1>7, <1>8, <1>9, <1>10, <1>11 DEF Next

\* The registry implements the one-promise-per-request specification.
THEOREM Refinement == Spec => ImplementsPromises
<1>1. Init => Promises!Init
  BY DEF Init, Promises!Init, Observed
<1>2. IInv /\ [Next]_vars => [Promises!Next]_Observed
  BY NextRefines
<1> QED
  BY <1>1, <1>2, Invariance, PTL DEF Spec, ImplementsPromises, Promises!Spec

-----------------------------------------------------------------------------
(* The calls of accept *)

\* A call that has succeeded, or that will if the requester says so: it took
\* the request off the registry, and was given the callbacks for its result.
Wins(c) ==
    \/ acceptCall[c].state = "resolved"
    \/ /\ acceptCall[c].state = "waiting" /\ ~acceptCall[c].deletes
       /\ resultCallbacks[acceptCall[c].id] = c

CallsAreOfMade ==
    \A c \in Calls : acceptCall[c].state # "unused" =>
        acceptCall[c].id \in Ids /\ promise[acceptCall[c].id] # "unmade"

\* A call that still runs has settled the promise, or the request, as long as
\* it is there, has no result to report.
RunningHasSettled ==
    \A c \in Calls : acceptCall[c].state \in {"waiting", "settling"} =>
        \/ promise[acceptCall[c].id] # "pending"
        \/ acceptCall[c].id \in approvals => ~pendingApprovals[acceptCall[c].id].expectsResult

CallbacksAreOfTheCall ==
    \A id \in Ids : resultCallbacks[id] # None =>
        /\ acceptCall[resultCallbacks[id]].id = id
        /\ acceptCall[resultCallbacks[id]].state # "unused"

WinnersAreDone == \A c \in Calls : Wins(c) => acceptCall[c].id \notin approvals

OneWinner ==
    \A c, d \in Calls : Wins(c) /\ Wins(d) /\ acceptCall[c].id = acceptCall[d].id => c = d

CallsInv ==
    /\ CallsAreOfMade /\ RunningHasSettled /\ CallbacksAreOfTheCall
    /\ WinnersAreDone /\ OneWinner

\* A request that was made is not made again, a settled promise stays settled,
\* and a request that stays says the same of its result.
MadeStays(i) ==
    /\ promise'[i] # "unmade" /\ (promise[i] # "pending" => promise'[i] # "pending")
    /\ i \in approvals' =>
          i \in approvals /\ pendingApprovals'[i].expectsResult = pendingApprovals[i].expectsResult

LEMMA DeleteStays ==
    ASSUME IInv, NEW id \in approvals, Delete(id) \/ UNCHANGED registry, NEW i \in Ids
    PROVE  i \in approvals' =>
              i \in approvals /\ pendingApprovals'[i].expectsResult = pendingApprovals[i].expectsResult
BY DEF IInv, TypeOK, Delete, registry

LEMMA SettledStays ==
    ASSUME IInv, NEW id \in Ids, NEW outcome \in {"resolved", "rejected"},
           promise' = Settled(id, outcome), NEW i \in Ids
    PROVE  /\ promise[i] # "unmade" => promise'[i] # "unmade"
           /\ promise[i] \notin {"unmade", "pending"} => promise'[i] # "pending"
           /\ promise'[id] # "pending"
BY DEF IInv, TypeOK, Settled

LEMMA MadeStep ==
    ASSUME IInv, [Next]_vars, NEW i \in Ids, promise[i] # "unmade"
    PROVE  MadeStays(i)
<1>0. TypeOK /\ \A j \in approvals : j \in Ids
  BY DEF IInv, TypeOK
<1>1. ASSUME NEW id \in Ids, NEW o \in Origins, NEW t \in Types, NEW e \in BOOLEAN, Add(id, o, t, e)
      PROVE  MadeStays(i)
  BY <1>0, <1>1 DEF Add, TypeOK, MadeStays
<1>2. ASSUME NEW id \in Ids, NEW old \in Ids, NEW o \in Origins, NEW t \in Types, NEW e \in BOOLEAN,
             AddReplacing(id, old, o, t, e)
      PROVE  MadeStays(i)
  BY <1>0, <1>2 DEF AddReplacing, TypeOK, MadeStays
<1>3. ASSUME NEW c \in Calls, NEW id \in Ids, AcceptNow(c, id)
      PROVE  MadeStays(i)
  <2>1. id \in approvals /\ Delete(id) /\ promise' = Settled(id, "resolved")
    BY <1>3 DEF AcceptNow
  <2> QED BY <2>1, DeleteStays, SettledStays DEF MadeStays
<1>4. ASSUME NEW c \in Calls, NEW id \in Ids, NEW d \in BOOLEAN, AcceptAndWait(c, id, d)
      PROVE  MadeStays(i)
  <2>1. id \in approvals /\ (Delete(id) \/ UNCHANGED registry) /\ promise' = Settled(id, "resolved")
    BY <1>4 DEF AcceptAndWait
  <2> QED BY <2>1, DeleteStays, SettledStays DEF MadeStays
<1>5. ASSUME NEW c \in Calls, NEW id \in Ids, NEW d \in BOOLEAN, AcceptUnsupported(c, id, d)
      PROVE  MadeStays(i)
  <2>1. id \in approvals /\ (Delete(id) \/ UNCHANGED registry) /\ promise' = promise
    BY <1>5 DEF AcceptUnsupported
  <2> QED BY <2>1, DeleteStays DEF MadeStays
<1>6. ASSUME NEW id \in Ids, NEW ok \in BOOLEAN, ReportResult(id, ok)
      PROVE  MadeStays(i)
  BY <1>6 DEF ReportResult, registry, MadeStays
<1>7. ASSUME NEW c \in Calls, FinallyDelete(c)
      PROVE  MadeStays(i)
  <2> DEFINE id == acceptCall[c].id
  <2>1. promise' = promise /\ IF id \in approvals THEN Delete(id) ELSE UNCHANGED registry
    BY <1>7 DEF FinallyDelete
  <2> HIDE DEF id
  <2>2. CASE id \in approvals
    BY <2>1, <2>2, DeleteStays DEF MadeStays
  <2>3. CASE id \notin approvals
    BY <2>1, <2>3 DEF MadeStays, registry
  <2> QED BY <2>2, <2>3
<1>8. ASSUME NEW id \in Ids, Reject(id)
      PROVE  MadeStays(i)
  <2>1. id \in approvals /\ Delete(id) /\ promise' = Settled(id, "rejected")
    BY <1>8 DEF Reject
  <2> QED BY <2>1, DeleteStays, SettledStays DEF MadeStays
<1>9. CASE Clear
  BY <1>0, <1>9 DEF Clear, TypeOK, MadeStays
<1>10. ASSUME NEW id \in Ids, NEW s \in RequestStates, UpdateRequestState(id, s)
       PROVE  MadeStays(i)
  <2>1. promise' = promise /\ approvals' = approvals /\ pendingApprovals[id] \in Requests
    BY <1>0, <1>10 DEF UpdateRequestState, TypeOK
  <2>2. pendingApprovals' = [pendingApprovals EXCEPT ![id].requestState = s]
    BY <1>10 DEF UpdateRequestState
  <2>3. pendingApprovals'[i].expectsResult = pendingApprovals[i].expectsResult
    BY <1>0, <2>1, <2>2 DEF TypeOK, Requests
  <2> QED BY <2>1, <2>3 DEF MadeStays
<1>11. CASE UNCHANGED vars
  BY <1>11 DEF vars, registry, MadeStays
<1> QED
  BY <1>1, <1>2, <1>3, <1>4, <1>5, <1>6, <1>7, <1>8, <1>9, <1>10, <1>11 DEF Next

\* What the steps of one call c leave to show: of the other calls nothing
\* changes, and they win only if they did before.
LEMMA OneCallStep ==
    ASSUME IInv, CallsInv, [Next]_vars, NEW c \in Calls, NEW k \in AcceptCalls,
           acceptCall' = [acceptCall EXCEPT ![c] = k],
           k.id \in Ids, promise[k.id] # "unmade",
           k.state \in {"waiting", "settling"} =>
               \/ promise'[k.id] # "pending"
               \/ k.id \in approvals' => ~pendingApprovals'[k.id].expectsResult,
           acceptCall[c].state = "unused" \/ acceptCall[c].id = k.id, k.state # "unused",
           \A i \in Ids : resultCallbacks'[i] = resultCallbacks[i] \/ (i = k.id /\ resultCallbacks'[i] = c),
           Wins(c)' => /\ k.id \notin approvals'
                       /\ k.id \in approvals \/ Wins(c)
    PROVE  CallsInv'
<1>1. /\ acceptCall \in [Calls -> AcceptCalls] /\ acceptCall'[c] = k
      /\ \A d \in Calls : d # c => acceptCall'[d] = acceptCall[d]
      /\ resultCallbacks \in [Ids -> Calls \cup {None}] /\ None \notin Calls
  BY ConstantsOK DEF IInv, TypeOK
<1>2. \A i \in Ids : promise[i] # "unmade" => MadeStays(i)
  BY MadeStep
<1>3. CallsAreOfMade'
  BY <1>1, <1>2 DEF CallsInv, CallsAreOfMade, MadeStays
<1>4. RunningHasSettled'
  <2> SUFFICES ASSUME NEW d \in Calls, acceptCall'[d].state \in {"waiting", "settling"}
               PROVE  \/ promise'[acceptCall'[d].id] # "pending"
                      \/ acceptCall'[d].id \in approvals' => ~pendingApprovals'[acceptCall'[d].id].expectsResult
    BY DEF RunningHasSettled
  <2>1. CASE d = c
    BY <1>1, <2>1
  <2>2. CASE d # c
    <3>1. acceptCall'[d] = acceptCall[d] /\ acceptCall[d].state \in {"waiting", "settling"}
      BY <1>1, <2>2
    <3> DEFINE i == acceptCall[d].id
    <3>2. i \in Ids /\ promise[i] # "unmade"
      BY <3>1 DEF CallsInv, CallsAreOfMade
    <3>3. promise[i] # "pending" \/ (i \in approvals => ~pendingApprovals[i].expectsResult)
      BY <3>1 DEF CallsInv, RunningHasSettled
    <3> HIDE DEF i
    <3>4. promise'[i] # "pending" \/ (i \in approvals' => ~pendingApprovals'[i].expectsResult)
      BY <1>2, <3>2, <3>3 DEF MadeStays
    <3> QED BY <3>1, <3>4 DEF i
  <2> QED BY <2>1, <2>2
<1>5. CallbacksAreOfTheCall'
  <2> SUFFICES ASSUME NEW i \in Ids, resultCallbacks'[i] # None
               PROVE  /\ acceptCall'[resultCallbacks'[i]].id = i
                      /\ acceptCall'[resultCallbacks'[i]].state # "unused"
    BY DEF CallbacksAreOfTheCall
  <2>1. CASE i = k.id /\ resultCallbacks'[i] = c
    BY <1>1, <2>1
  <2>2. CASE resultCallbacks'[i] = resultCallbacks[i]
    <3> DEFINE d == resultCallbacks[i]
    <3>1. d \in Calls /\ acceptCall[d].id = i /\ acceptCall[d].state # "unused"
      BY <1>1, <2>2 DEF CallsInv, CallbacksAreOfTheCall
    <3> HIDE DEF d
    <3>2. acceptCall'[d].id = i /\ acceptCall'[d].state # "unused"
      BY <1>1, <3>1
    <3> QED BY <2>2, <3>2 DEF d
  <2> QED BY <2>1, <2>2
<1>6. ASSUME NEW d \in Calls, d # c, Wins(d)'
      PROVE  /\ Wins(d) /\ acceptCall'[d].id = acceptCall[d].id
             /\ acceptCall[d].id \in Ids /\ promise[acceptCall[d].id] # "unmade"
             /\ acceptCall[d].id \notin approvals /\ acceptCall[d].id \notin approvals'
  <2>1. acceptCall'[d] = acceptCall[d] /\ acceptCall[d].state \in {"resolved", "waiting"}
    BY <1>1, <1>6 DEF Wins
  <2> DEFINE i == acceptCall[d].id
  <2>2. i \in Ids /\ promise[i] # "unmade"
    BY <2>1 DEF CallsInv, CallsAreOfMade
  <2>3. Wins(d)
    BY <1>6, <2>1, <2>2 DEF Wins
  <2>4. i \notin approvals
    BY <2>3 DEF CallsInv, WinnersAreDone
  <2>5. i \notin approvals'
    BY <1>2, <2>2, <2>4 DEF MadeStays
  <2> QED BY <2>1, <2>2, <2>3, <2>4, <2>5
<1>7. WinnersAreDone'
  BY <1>1, <1>6 DEF WinnersAreDone
<1>8. ASSUME NEW d \in Calls, d # c, Wins(d)', Wins(c)', acceptCall'[d].id = acceptCall'[c].id
      PROVE  FALSE
  <2>1. Wins(d) /\ acceptCall[d].id = k.id /\ k.id \notin approvals
    BY <1>1, <1>6, <1>8
  <2>2. Wins(c) /\ acceptCall[c].state # "unused"
    BY <1>8, <2>1 DEF Wins
  <2>3. acceptCall[c].id = acceptCall[d].id
    BY <2>1, <2>2
  <2> QED BY <1>8, <2>1, <2>2, <2>3 DEF CallsInv, OneWinner
<1>9. OneWinner'
  <2> SUFFICES ASSUME NEW d \in Calls, NEW e \in Calls,
                      Wins(d)', Wins(e)', acceptCall'[d].id = acceptCall'[e].id
               PROVE  d = e
    BY DEF OneWinner
  <2>1. CASE d = c \/ e = c
    BY <1>8, <2>1
  <2>2. CASE d # c /\ e # c
    BY <1>6, <2>2 DEF CallsInv, OneWinner
  <2> QED BY <2>1, <2>2
<1> QED
  BY <1>3, <1>4, <1>5, <1>7, <1>9 DEF CallsInv

LEMMA NoCallStep ==
    ASSUME IInv, CallsInv, [Next]_vars, UNCHANGED <<acceptCall, resultCallbacks>>
    PROVE  CallsInv'
<1>1. \A i \in Ids : promise[i] # "unmade" => MadeStays(i)
  BY MadeStep
<1>2. CallsAreOfMade'
  BY <1>1 DEF CallsInv, CallsAreOfMade, MadeStays
<1>3. RunningHasSettled'
  <2> SUFFICES ASSUME NEW d \in Calls, acceptCall[d].state \in {"waiting", "settling"}
               PROVE  \/ promise'[acceptCall[d].id] # "pending"
                      \/ acceptCall[d].id \in approvals' => ~pendingApprovals'[acceptCall[d].id].expectsResult
    BY DEF RunningHasSettled
  <2> DEFINE i == acceptCall[d].id
  <2>1. i \in Ids /\ promise[i] # "unmade"
    BY DEF CallsInv, CallsAreOfMade
  <2>2. promise[i] # "pending" \/ (i \in approvals => ~pendingApprovals[i].expectsResult)
    BY DEF CallsInv, RunningHasSettled
  <2> HIDE DEF i
  <2>3. promise'[i] # "pending" \/ (i \in approvals' => ~pendingApprovals'[i].expectsResult)
    BY <1>1, <2>1, <2>2 DEF MadeStays
  <2> QED BY <2>3 DEF i
<1>4. CallbacksAreOfTheCall'
  BY DEF CallsInv, CallbacksAreOfTheCall
<1>5. \A d \in Calls : Wins(d)' <=> Wins(d)
  BY DEF Wins
<1>6. OneWinner'
  BY <1>5 DEF CallsInv, OneWinner
<1>7. WinnersAreDone'
  <2> SUFFICES ASSUME NEW d \in Calls, Wins(d) PROVE acceptCall[d].id \notin approvals'
    BY <1>5 DEF WinnersAreDone
  <2> DEFINE i == acceptCall[d].id
  <2>1. acceptCall[d].state # "unused" /\ i \notin approvals
    BY DEF Wins, CallsInv, WinnersAreDone
  <2>2. i \in Ids /\ promise[i] # "unmade"
    BY <2>1 DEF CallsInv, CallsAreOfMade
  <2> HIDE DEF i
  <2>3. i \notin approvals'
    BY <1>1, <2>1, <2>2 DEF MadeStays
  <2> QED BY <2>3 DEF i
<1> QED
  BY <1>2, <1>3, <1>4, <1>6, <1>7 DEF CallsInv

LEMMA NextCallsInv ==
    ASSUME IInv, CallsInv, [Next]_vars
    PROVE  CallsInv'
<1>0. /\ TypeOK /\ approvals \subseteq Ids /\ StoredWasMade
      /\ acceptCall \in [Calls -> AcceptCalls]
      /\ \A i \in approvals : promise[i] # "unmade"
  BY DEF IInv, TypeOK, StoredWasMade
<1>1. CASE UNCHANGED <<acceptCall, resultCallbacks>>
  BY <1>1, NoCallStep
<1>2. ASSUME NEW c \in Calls, NEW id \in Ids, AcceptNow(c, id)
      PROVE  CallsInv'
  <2> DEFINE k == [state |-> "resolved", id |-> id, deletes |-> FALSE, ok |-> TRUE]
  <2>1. /\ acceptCall' = [acceptCall EXCEPT ![c] = k] /\ id \in approvals /\ id \notin approvals'
        /\ resultCallbacks' = resultCallbacks /\ acceptCall[c].state = "unused"
    BY <1>2 DEF AcceptNow, Delete, UnusedCall
  <2>2. k \in AcceptCalls /\ k.id = id /\ k.state = "resolved"
    BY DEF AcceptCalls, CallStates
  <2> HIDE DEF k
  <2> QED BY <1>0, <2>1, <2>2, OneCallStep
<1>3. ASSUME NEW c \in Calls, NEW id \in Ids, NEW d \in BOOLEAN, AcceptAndWait(c, id, d)
      PROVE  CallsInv'
  <2> DEFINE k == [state |-> "waiting", id |-> id, deletes |-> d, ok |-> FALSE]
  <2>1. /\ acceptCall' = [acceptCall EXCEPT ![c] = k] /\ id \in approvals
        /\ acceptCall[c].state = "unused"
        /\ ~d => id \notin approvals'
        /\ promise' = Settled(id, "resolved")
    BY <1>3 DEF AcceptAndWait, Delete, UnusedCall
  <2>2. \A i \in Ids : resultCallbacks'[i] = resultCallbacks[i] \/ (i = id /\ resultCallbacks'[i] = c)
    BY <1>0, <1>3 DEF AcceptAndWait, TypeOK
  <2>3. k \in AcceptCalls /\ k.id = id /\ k.state = "waiting" /\ k.deletes = d
    BY DEF AcceptCalls, CallStates
  <2> HIDE DEF k
  <2>4. promise'[id] # "pending"
    BY <2>1, SettledStays
  <2>5. acceptCall'[c] = k
    BY <1>0, <2>1
  <2>6. Wins(c)' => ~d
    BY <2>3, <2>5 DEF Wins
  <2> QED BY <1>0, <2>1, <2>2, <2>3, <2>4, <2>6, OneCallStep
<1>4. ASSUME NEW c \in Calls, NEW id \in Ids, NEW d \in BOOLEAN, AcceptUnsupported(c, id, d)
      PROVE  CallsInv'
  <2> DEFINE k == [state |-> IF d THEN "settling" ELSE "rejected", id |-> id, deletes |-> d, ok |-> FALSE]
  <2>1. /\ acceptCall' = [acceptCall EXCEPT ![c] = k] /\ id \in approvals
        /\ acceptCall[c].state = "unused" /\ resultCallbacks' = resultCallbacks
        /\ ~pendingApprovals[id].expectsResult
        /\ d => UNCHANGED registry
    BY <1>4 DEF AcceptUnsupported, UnusedCall
  <2>2. /\ k \in AcceptCalls /\ k.id = id /\ k.state \in {"settling", "rejected"}
        /\ k.state = "settling" => d
    BY DEF AcceptCalls, CallStates
  <2> HIDE DEF k
  <2>3. k.state = "settling" => ~pendingApprovals'[id].expectsResult
    BY <2>1, <2>2 DEF registry
  <2>4. acceptCall'[c] = k
    BY <1>0, <2>1
  <2>5. ~Wins(c)'
    BY <2>2, <2>4 DEF Wins
  <2> QED BY <1>0, <2>1, <2>2, <2>3, <2>5, OneCallStep
<1>5. ASSUME NEW id \in Ids, NEW ok \in BOOLEAN, ReportResult(id, ok)
      PROVE  CallsInv'
  <2>0. PICK c \in Calls : c = resultCallbacks[id]
    BY <1>5 DEF ReportResult
  <2> DEFINE d == acceptCall[c].deletes
             k == [state |-> IF d THEN "settling" ELSE IF ok THEN "resolved" ELSE "rejected",
                   id |-> id, deletes |-> d, ok |-> ok]
  <2>1. /\ acceptCall' = [acceptCall EXCEPT ![c] = k]
        /\ acceptCall[c].state = "waiting"
        /\ UNCHANGED <<registry, promise, resultCallbacks>>
    BY <1>5, <2>0 DEF ReportResult
  <2>2. acceptCall[c].id = id
    BY <2>0, ConstantsOK DEF CallsInv, CallbacksAreOfTheCall
  <2>3. /\ k \in AcceptCalls /\ k.id = id /\ k.state \in {"settling", "resolved", "rejected"}
        /\ k.state = "resolved" => ~d
    BY <1>0 DEF AcceptCalls, CallStates
  <2> HIDE DEF k
  <2>5. acceptCall'[c] = k /\ UNCHANGED <<approvals, pendingApprovals>>
    BY <1>0, <2>1 DEF registry
  <2>6. promise[id] # "unmade"
    BY <2>1, <2>2 DEF CallsInv, CallsAreOfMade
  <2>7. promise'[id] # "pending" \/ (id \in approvals' => ~pendingApprovals'[id].expectsResult)
    BY <2>1, <2>2, <2>5 DEF CallsInv, RunningHasSettled
  <2>8. Wins(c)' => Wins(c)
    <3>1. Wins(c)' => k.state = "resolved"
      BY <2>3, <2>5 DEF Wins
    <3>2. ~d => Wins(c)
      BY <2>0, <2>1, <2>2 DEF Wins
    <3> QED BY <2>3, <3>1, <3>2
  <2>9. Wins(c) => id \notin approvals'
    BY <2>1, <2>2, <2>5 DEF CallsInv, WinnersAreDone
  <2> QED BY <2>1, <2>2, <2>3, <2>6, <2>7, <2>8, <2>9, OneCallStep
<1>6. ASSUME NEW c \in Calls, FinallyDelete(c)
      PROVE  CallsInv'
  <2> DEFINE id == acceptCall[c].id
             s == IF acceptCall[c].ok /\ id \in approvals THEN "resolved" ELSE "rejected"
             k == [acceptCall[c] EXCEPT !.state = s]
  <2>1. /\ acceptCall' = [acceptCall EXCEPT ![c].state = s] /\ acceptCall[c].state = "settling"
        /\ IF id \in approvals THEN Delete(id) ELSE UNCHANGED registry
        /\ UNCHANGED <<promise, resultCallbacks>>
    BY <1>6 DEF FinallyDelete
  <2>2. acceptCall' = [acceptCall EXCEPT ![c] = k]
    BY <1>0, <2>1
  <2>3. k \in AcceptCalls /\ k.id = id /\ k.state \in {"resolved", "rejected"}
    BY <1>0 DEF AcceptCalls, CallStates
  <2>4. k.state = "resolved" => id \in approvals
    BY <1>0 DEF AcceptCalls
  <2>5. id \in Ids /\ promise[id] # "unmade"
    BY <2>1 DEF CallsInv, CallsAreOfMade
  <2>6. acceptCall[c].id = id
    OBVIOUS
  <2> HIDE DEF k, s, id
  <2>7. id \notin approvals'
    <3>1. id \in approvals => id \notin approvals'
      BY <2>1 DEF Delete
    <3>2. id \notin approvals => id \notin approvals'
      BY <2>1 DEF registry
    <3> QED BY <3>1, <3>2
  <2>8. Wins(c)' => id \in approvals
    <3>1. acceptCall'[c] = k
      BY <1>0, <2>2
    <3> QED BY <2>3, <2>4, <3>1 DEF Wins
  <2> QED BY <2>1, <2>2, <2>3, <2>5, <2>6, <2>7, <2>8, OneCallStep
<1>7. \/ UNCHANGED <<acceptCall, resultCallbacks>>
      \/ \E c \in Calls, id \in Ids : AcceptNow(c, id)
      \/ \E c \in Calls, id \in Ids, d \in BOOLEAN : AcceptAndWait(c, id, d) \/ AcceptUnsupported(c, id, d)
      \/ \E id \in Ids, ok \in BOOLEAN : ReportResult(id, ok)
      \/ \E c \in Calls : FinallyDelete(c)
  BY DEF Next, vars, Add, AddReplacing, Reject, Clear, UpdateRequestState
<1> QED
  BY <1>1, <1>2, <1>3, <1>4, <1>5, <1>6, <1>7

LEMMA InitCallsInv == Init => CallsInv
BY DEF Init, CallsInv, CallsAreOfMade, RunningHasSettled, CallbacksAreOfTheCall,
       WinnersAreDone, OneWinner, Wins, UnusedCall

LEMMA CallsInvariance == Spec => []CallsInv
<1>1. IInv /\ CallsInv /\ [Next]_vars => CallsInv'
  BY NextCallsInv
<1> QED
  BY <1>1, InitCallsInv, Invariance, PTL DEF Spec

\* However many windows accept a request, and whichever way, at most one of
\* their calls succeeds.
THEOREM OneAcceptSucceeds == Spec => []AtMostOneAcceptSucceeds
<1>1. CallsInv => AtMostOneAcceptSucceeds
  BY DEF CallsInv, OneWinner, Wins, AtMostOneAcceptSucceeds
<1> QED
  BY <1>1, CallsInvariance, PTL

\* A request leaves the registry with its promise open only when its requester
\* cannot be given a result, or a newer request of its kind replaces it.
THEOREM NoOtherLoss == Spec => LossOnlyByReplacement
<1> DEFINE lost(id) ==
        promise'[id] = "pending" =>
            \/ ~pendingApprovals[id].expectsResult
            \/ \E j \in approvals' \ approvals :
                  /\ pendingApprovals'[j].origin = pendingApprovals[id].origin
                  /\ pendingApprovals'[j].type = pendingApprovals[id].type
                  /\ pendingApprovals[id].type \notin ExcludedTypes
<1>1. ASSUME IInv, CallsInv, Next, NEW i \in approvals, i \notin approvals'
      PROVE  lost(i)
  <2>0. TypeOK /\ i \in Ids /\ StoredWasMade /\ pendingApprovals \in [Ids -> Requests \cup {None}]
    BY <1>1 DEF IInv, TypeOK
  <2>1. ASSUME NEW id \in Ids, NEW o \in Origins, NEW t \in Types, NEW e \in BOOLEAN, Add(id, o, t, e)
        PROVE  lost(i)
    BY <1>1, <2>1 DEF Add
  <2>2. ASSUME NEW id \in Ids, NEW old \in Ids, NEW o \in Origins, NEW t \in Types, NEW e \in BOOLEAN,
               AddReplacing(id, old, o, t, e)
        PROVE  lost(i)
    <3>1. /\ i = old /\ id \in approvals' \ approvals
      BY <1>1, <2>0, <2>2 DEF AddReplacing, StoredWasMade
    <3>2. pendingApprovals[i].origin = o /\ pendingApprovals[i].type = t /\ t \notin ExcludedTypes
      BY <2>2, <3>1 DEF AddReplacing, PendingOf
    <3>3. pendingApprovals'[id].origin = o /\ pendingApprovals'[id].type = t
      BY <2>0, <2>2 DEF AddReplacing, NewRequest
    <3> QED BY <3>1, <3>2, <3>3
  <2>3. ASSUME NEW c \in Calls, NEW id \in Ids, AcceptNow(c, id)
        PROVE  lost(i)
    <3>1. i = id /\ promise' = Settled(id, "resolved")
      BY <1>1, <2>3 DEF AcceptNow, Delete
    <3> QED BY <1>1, <3>1, SettledStays
  <2>4. ASSUME NEW c \in Calls, NEW id \in Ids, NEW d \in BOOLEAN, AcceptAndWait(c, id, d)
        PROVE  lost(i)
    <3>1. i = id /\ promise' = Settled(id, "resolved")
      BY <1>1, <2>4 DEF AcceptAndWait, Delete, registry
    <3> QED BY <1>1, <3>1, SettledStays
  <2>5. ASSUME NEW c \in Calls, NEW id \in Ids, NEW d \in BOOLEAN, AcceptUnsupported(c, id, d)
        PROVE  lost(i)
    BY <1>1, <2>5 DEF AcceptUnsupported, Delete, registry
  <2>6. ASSUME NEW c \in Calls, FinallyDelete(c)
        PROVE  lost(i)
    <3>1. i = acceptCall[c].id /\ acceptCall[c].state = "settling" /\ promise' = promise
      BY <1>1, <2>6 DEF FinallyDelete, Delete, registry
    <3>2. promise[i] # "pending" \/ ~pendingApprovals[i].expectsResult
      BY <1>1, <3>1 DEF CallsInv, RunningHasSettled
    <3> QED BY <3>1, <3>2
  <2>7. ASSUME NEW id \in Ids, Reject(id)
        PROVE  lost(i)
    <3>1. i = id /\ promise' = Settled(id, "rejected")
      BY <1>1, <2>7 DEF Reject, Delete
    <3> QED BY <1>1, <3>1, SettledStays
  <2>8. CASE Clear
    BY <1>1, <2>0, <2>8 DEF Clear
  <2>9. CASE \/ \E id \in Ids, ok \in BOOLEAN : ReportResult(id, ok)
             \/ \E id \in Ids, s \in RequestStates : UpdateRequestState(id, s)
    BY <1>1, <2>9 DEF ReportResult, UpdateRequestState, registry
  <2> QED
    BY <1>1, <2>1, <2>2, <2>3, <2>4, <2>5, <2>6, <2>7, <2>8, <2>9 DEF Next
<1>2. IInv /\ CallsInv /\ [Next]_vars => [\A id \in approvals \ approvals' : lost(id)]_vars
  BY <1>1
<1> QED
  BY <1>2, Invariance, CallsInvariance, PTL DEF Spec, LossOnlyByReplacement
=============================================================================
