----------------------- MODULE KeyringControllerProofs -----------------------
(***************************************************************************)
(* Theorems about KeyringController, for all wallets, passwords and bounds.*)
(***************************************************************************)
EXTENDS KeyringController, FilterProofs

-----------------------------------------------------------------------------
(* The inductive invariant *)

\* A keyring in memory has an account; an HD keyring has no more accounts than
\* its seed derives, though perhaps others.
Live == {k \in Keyring :
            /\ k.accounts # <<>>
            /\ Type[k.wallet] = "hd" => Len(k.accounts) <= Len(Derived[k.wallet])}

\* What is stored, or put aside, was serialized: it is what it restores to.
Canonical == {k \in Live : Serialized(k) = k}

Shapes ==
    /\ keyrings \in Seq(Live) /\ mirror \in Seq(Live) /\ unsupported \in Seq(Canonical)
    /\ vault.keyrings \in Seq(Canonical) /\ disk.keyrings \in Seq(Canonical)
    /\ op.keyrings \in Seq(Canonical) /\ op.unsupported \in Seq(Canonical)

Stages ==
    /\ op.stage = "none" <=> op = Free
    /\ op.kind = "removeAccount" => removing # <<>>
    /\ op # Free => op.unsupported = unsupported

\* What saving the keyrings would write, or the rollback starts from.
Session == ToSet(IF op = Free THEN GetSerializedKeyrings ELSE op.keyrings \o op.unsupported)

\* A session would save nothing the vault has not, an open one all of it.
SessionFits ==
    /\ Session \subseteq ToSet(vault.keyrings)
    /\ Committed /\ vault # NoVault => Session = ToSet(vault.keyrings)

\* The operation that opens the wallet can save, or there is no vault.
Opens ==
    op # Free =>
        /\ op.isUnlocked => isUnlocked
        /\ isUnlocked /\ ~op.isUnlocked =>
              IF op.stage = "save" THEN CanSave ELSE vault = NoVault

NoKeyWithoutVault == vault = NoVault => encryptionKey = None

\* What the rollback restores are credentials that fit; of a password that is
\* being changed it is certain that it will be saved.
CredentialsAfter ==
    op # Free /\ op.isUnlocked /\ vault # NoVault =>
        /\ op.password # None
        /\ \/ encryptionKey = vault.key
           \/ op.kind = "changePassword" /\ op.stage = "save" /\ CanSave

Saving ==
    op.stage = "save" =>
        /\ isUnlocked /\ vault # NoVault => password # None
        /\ op.kind = "changePassword" => encryptionKey = None /\ password = op.subject

WalletsOf(ks) == {k.wallet : k \in ToSet(ks)}

WalletsStay ==
    op.stage = "save" /\ op.kind # "createNewVault" /\ isUnlocked =>
        \A w \in WalletsIn(vault) :
            \/ w \in WalletsOf(GetSerializedKeyrings)
            \/ op.kind = "removeAccount" /\ op.subject = w

IInv ==
    /\ TypeOK /\ Shapes /\ Stages
    /\ SessionFits /\ Opens
    /\ NoKeyWithoutVault /\ CredentialsFitVault /\ CredentialsAfter /\ Saving
    /\ WalletsStay

-----------------------------------------------------------------------------
(* Keyrings *)

LEMMA KeyringFields ==
    \A k \in Live : /\ k = [wallet |-> k.wallet, accounts |-> k.accounts]
                    /\ k.wallet \in Wallets
                    /\ k.accounts \in Seq(ToSet(Derived[k.wallet]))
                    /\ k.accounts # <<>>
                    /\ Type[k.wallet] = "hd" => Len(k.accounts) <= Len(Derived[k.wallet])
BY DEF Live, Keyring

LEMMA IsLive ==
    ASSUME NEW w \in Wallets, NEW s \in Seq(ToSet(Derived[w])), s # <<>>,
           Type[w] = "hd" => Len(s) <= Len(Derived[w])
    PROVE  [wallet |-> w, accounts |-> s] \in Live
<1>1. ToSet(Derived[w]) \subseteq Addresses
  BY DEF Addresses
<1>2. s \in Seq(Addresses)
  BY <1>1, SeqMonotonic
<1> QED BY <1>2 DEF Live, Keyring

\* Serializing loses no keyring and no wallet, and a second time nothing.
LEMMA SerializedIsCanonical ==
    ASSUME NEW k \in Live
    PROVE  Serialized(k) \in Canonical /\ Serialized(k).wallet = k.wallet
<1> DEFINE w == k.wallet
           D == Derived[w]
           s == SubSeq(D, 1, Len(k.accounts))
<1>1. CASE Type[w] # "hd"
  BY <1>1 DEF Serialized, Canonical
<1>2. CASE Type[w] = "hd"
  <2>1. D \in Seq(ToSet(D)) /\ k.accounts \in Seq(ToSet(D)) /\ k.accounts # <<>>
        /\ Len(k.accounts) \in Nat /\ Len(k.accounts) <= Len(D) /\ w \in Wallets
    BY <1>2, KeyringFields, WalletsOK, LenProperties
  <2>2. Len(k.accounts) \in 1 .. Len(D) /\ Len(D) \in Nat
    BY <2>1, EmptySeq, LenProperties
  <2>3. s \in Seq(ToSet(D)) /\ Len(s) = Len(k.accounts)
    <3> HIDE DEF D, w
    <3> QED BY <2>1, <2>2, SubSeqProperties
  <2>4. s # <<>>
    BY <2>2, <2>3, EmptySeq
  <2>5. Serialized(k) = [wallet |-> w, accounts |-> s]
    BY <1>2, KeyringFields DEF Serialized
  <2>6. Serialized(k) \in Live
    <3> HIDE DEF s
    <3> QED BY <1>2, <2>1, <2>3, <2>4, <2>5, IsLive
  <2>7. Serialized(Serialized(k)) = Serialized(k)
    BY <1>2, <2>3, <2>5 DEF Serialized
  <2> QED BY <2>5, <2>6, <2>7 DEF Canonical
<1> QED BY <1>1, <1>2

LEMMA SerializedSeq ==
    ASSUME NEW ks \in Seq(Live)
    PROVE  /\ SerializedOf(ks) \in Seq(Canonical)
           /\ ks # <<>> => SerializedOf(ks) # <<>>
           /\ WalletsOf(SerializedOf(ks)) = WalletsOf(ks)
<1> DEFINE t == SerializedOf(ks)
<1>1. DOMAIN ks = 1 .. Len(ks) /\ Len(ks) \in Nat /\ \A i \in DOMAIN ks : ks[i] \in Live
  BY LenProperties, ElementOfSeq
<1>2. t = [i \in 1 .. Len(ks) |-> Serialized(ks[i])]
  BY <1>1 DEF SerializedOf
<1>3. \A i \in DOMAIN ks : t[i] = Serialized(ks[i]) /\ t[i] \in Canonical /\ t[i].wallet = ks[i].wallet
  BY <1>1, <1>2, SerializedIsCanonical
<1>4. t \in Seq(Canonical) /\ Len(t) = Len(ks) /\ DOMAIN t = DOMAIN ks
  BY <1>1, <1>2, <1>3, IsASeq, LenProperties
<1> HIDE DEF t
<1>5. ks # <<>> => t # <<>>
  BY <1>4, EmptySeq
<1>6. WalletsOf(t) = WalletsOf(ks)
  BY <1>3, <1>4 DEF WalletsOf, ToSet
<1> QED BY <1>4, <1>5, <1>6 DEF t

LEMMA CanonicalSeq ==
    ASSUME NEW ks \in Seq(Canonical)
    PROVE  SerializedOf(ks) = ks /\ ks \in Seq(Live) /\ ks \in Seq(Keyring)
<1>1. \A i \in DOMAIN ks : Serialized(ks[i]) = ks[i]
  BY ElementOfSeq, LenProperties DEF Canonical
<1>2. ks = [i \in DOMAIN ks |-> ks[i]]
  BY LenProperties
<1>3. SerializedOf(ks) = ks
  BY <1>1, <1>2 DEF SerializedOf
<1>4. ks \in Seq(Live) /\ ks \in Seq(Keyring)
  BY SeqMonotonic, Zenon DEF Canonical, Live
<1> QED BY <1>3, <1>4

-----------------------------------------------------------------------------
(* Restoring *)

\* The recursive function exists, and so has the values its equation says.
LEMMA RestoredOfSteps ==
    ASSUME NEW aside, NEW stored, Len(stored) \in Nat
    PROVE  /\ RestoredOf(aside, stored)[0] = [keyrings |-> <<>>, unsupported |-> aside]
           /\ \A i \in 1 .. Len(stored) :
                 RestoredOf(aside, stored)[i] =
                     RestoreKeyring(RestoredOf(aside, stored)[i - 1], stored[i])
<1> DEFINE Step(g, i) == IF i = 0 THEN [keyrings |-> <<>>, unsupported |-> aside]
                         ELSE RestoreKeyring(g[i - 1], stored[i])
           Good(n) == \E g : g = [i \in 0 .. n |-> Step(g, i)]
           P == {n \in Nat : Good(n)}
<1>1. 0 \in P
  <2> DEFINE e == [keyrings |-> <<>>, unsupported |-> aside]
  <2>1. [i \in {0} |-> e] = [i \in 0 .. 0 |-> Step([j \in {0} |-> e], i)]
    OBVIOUS
  <2> QED BY <2>1
<1>2. ASSUME NEW n \in P
      PROVE  n + 1 \in P
  <2>0. n \in Nat
    OBVIOUS
  <2>1. PICK g : g = [i \in 0 .. n |-> Step(g, i)]
    OBVIOUS
  <2> DEFINE h == [i \in 0 .. n + 1 |-> IF i = n + 1 THEN Step(g, i) ELSE g[i]]
  <2>2. ASSUME NEW i \in 0 .. n
        PROVE  h[i] = Step(g, i)
    <3>1. g[i] = Step(g, i)
      <4> HIDE DEF Step, h
      <4> QED BY <2>1, Zenon
    <3>2. i \in 0 .. n + 1 /\ i # n + 1
      BY <2>0
    <3> HIDE DEF Step
    <3> QED BY <3>1, <3>2
  <2>3. h[n + 1] = Step(g, n + 1)
    <3>1. n + 1 \in 0 .. n + 1
      BY <2>0
    <3> HIDE DEF Step
    <3> QED BY <3>1
  <2>4. ASSUME NEW i \in 0 .. n + 1
        PROVE  Step(h, i) = Step(g, i)
    <3>1. CASE i = 0
      BY <3>1
    <3>2. CASE i # 0
      <4>1. i - 1 \in 0 .. n /\ (i - 1) \in 0 .. n + 1 /\ i - 1 # n + 1
        BY <2>0, <3>2
      <4>2. h[i - 1] = g[i - 1]
        <5> HIDE DEF Step
        <5> QED BY <4>1
      <4> HIDE DEF h
      <4> QED BY <3>2, <4>2
    <3> QED BY <3>1, <3>2
  <2>5. \A i \in 0 .. n + 1 : i = n + 1 \/ i \in 0 .. n
    BY <2>0
  <2>6. h = [i \in 0 .. n + 1 |-> h[i]]
    OBVIOUS
  <2> HIDE DEF Step, h
  <2>7. h = [i \in 0 .. n + 1 |-> Step(h, i)]
    BY <2>2, <2>3, <2>4, <2>5, <2>6
  <2> QED BY <2>7
<1> HIDE DEF Good
<1>3. P = Nat
  BY <1>1, <1>2, NaturalsInduct
<1>4. Good(Len(stored))
  BY <1>3
<1>5. RestoredOf(aside, stored) = CHOOSE g : g = [i \in 0 .. Len(stored) |-> Step(g, i)]
  BY Zenon DEF RestoredOf
<1> HIDE DEF Step
<1>6. RestoredOf(aside, stored)
         = [i \in 0 .. Len(stored) |-> Step(RestoredOf(aside, stored), i)]
  BY <1>4, <1>5, Zenon DEF Good
<1>7. \A i \in 0 .. Len(stored) :
         RestoredOf(aside, stored)[i] = Step(RestoredOf(aside, stored), i)
  BY <1>6, Zenon
<1>8. 0 \in 0 .. Len(stored) /\ \A i \in 1 .. Len(stored) : i \in 0 .. Len(stored) /\ i # 0
  OBVIOUS
<1> QED BY <1>7, <1>8, Zenon DEF Step

\* Restoring loses nothing: what is not among the keyrings is put aside.
LEMMA RestoredKeepsAll ==
    ASSUME NEW S, NEW aside \in Seq(S), NEW stored \in Seq(S)
    PROVE  LET r == RestoredOf(aside, stored)[Len(stored)]
           IN  /\ r.keyrings \in Seq(S) /\ r.unsupported \in Seq(S)
               /\ ToSet(r.keyrings) \cup ToSet(r.unsupported) = ToSet(aside) \cup ToSet(stored)
<1> DEFINE R == RestoredOf(aside, stored)
           Good(n) ==
               /\ R[n] = [keyrings |-> R[n].keyrings, unsupported |-> R[n].unsupported]
               /\ R[n].keyrings \in Seq(S) /\ R[n].unsupported \in Seq(S)
               /\ ToSet(R[n].keyrings) \cup ToSet(R[n].unsupported)
                      = ToSet(aside) \cup {stored[i] : i \in 1 .. n}
           P == {n \in Nat : n <= Len(stored) => Good(n)}
<1>0. Len(stored) \in Nat /\ DOMAIN stored = 1 .. Len(stored)
  BY LenProperties
<1>1. /\ R[0] = [keyrings |-> <<>>, unsupported |-> aside]
      /\ \A i \in 1 .. Len(stored) : R[i] = RestoreKeyring(R[i - 1], stored[i])
  BY <1>0, RestoredOfSteps
<1> HIDE DEF R, Good
<1>2. 0 \in P
  <2>1. R[0].keyrings = <<>> /\ R[0].unsupported = aside /\ <<>> \in Seq(S) /\ ToSet(<<>>) = {}
    BY <1>1, EmptySeq DEF ToSet
  <2>2. {stored[i] : i \in 1 .. 0} = {}
    OBVIOUS
  <2>3. Good(0)
    BY <1>1, <2>1, <2>2 DEF Good
  <2> QED BY <2>3
<1>3. ASSUME NEW n \in P
      PROVE  n + 1 \in P
  <2>1. SUFFICES ASSUME n + 1 <= Len(stored) PROVE Good(n + 1)
    OBVIOUS
  <2>2. n \in Nat /\ n + 1 \in 1 .. Len(stored) /\ (n + 1) - 1 = n /\ n <= Len(stored)
    BY <1>0, <2>1
  <2>3. Good(n)
    BY <2>2
  <2> DEFINE k == stored[n + 1]
  <2>4. k \in S
    BY <2>2, ElementOfSeq
  <2>5. {stored[i] : i \in 1 .. n + 1} = {stored[i] : i \in 1 .. n} \cup {k}
    BY <2>2
  <2>6. R[n + 1] = RestoreKeyring(R[n], k)
    BY <1>1, <2>2
  <2> HIDE DEF k
  <2>7. CASE IsDuplicate(k, R[n].keyrings)
    <3>1. R[n + 1] = [keyrings |-> R[n].keyrings, unsupported |-> Append(R[n].unsupported, k)]
      BY <2>3, <2>6, <2>7 DEF RestoreKeyring, Good
    <3>2. /\ Append(R[n].unsupported, k) \in Seq(S)
          /\ ToSet(Append(R[n].unsupported, k)) = ToSet(R[n].unsupported) \cup {k}
      BY <2>3, <2>4, AppendElements DEF Good
    <3>3. /\ R[n].keyrings \in Seq(S) /\ R[n].unsupported \in Seq(S)
          /\ ToSet(R[n].keyrings) \cup ToSet(R[n].unsupported)
                 = ToSet(aside) \cup {stored[i] : i \in 1 .. n}
      BY <2>3 DEF Good
    <3>4. /\ R[n + 1] = [keyrings |-> R[n + 1].keyrings, unsupported |-> R[n + 1].unsupported]
          /\ R[n + 1].keyrings \in Seq(S) /\ R[n + 1].unsupported \in Seq(S)
          /\ ToSet(R[n + 1].keyrings) \cup ToSet(R[n + 1].unsupported)
                 = ToSet(R[n].keyrings) \cup ToSet(R[n].unsupported) \cup {k}
      BY <3>1, <3>2, <3>3
    <3>5. ToSet(R[n + 1].keyrings) \cup ToSet(R[n + 1].unsupported)
             = ToSet(aside) \cup {stored[i] : i \in 1 .. n + 1}
      <4> DEFINE before == {stored[i] : i \in 1 .. n}
                 after == {stored[i] : i \in 1 .. n + 1}
      <4>1. after = before \cup {k}
        BY <2>5
      <4>2. ToSet(R[n].keyrings) \cup ToSet(R[n].unsupported) = ToSet(aside) \cup before
        BY <3>3
      <4> HIDE DEF before, after
      <4>3. ToSet(R[n + 1].keyrings) \cup ToSet(R[n + 1].unsupported) = ToSet(aside) \cup after
        BY <3>4, <4>1, <4>2
      <4> QED BY <4>3 DEF after
    <3> QED BY <3>4, <3>5 DEF Good
  <2>8. CASE ~IsDuplicate(k, R[n].keyrings)
    <3>1. R[n + 1] = [keyrings |-> Append(R[n].keyrings, k), unsupported |-> R[n].unsupported]
      BY <2>3, <2>6, <2>8 DEF RestoreKeyring, Good
    <3>2. /\ Append(R[n].keyrings, k) \in Seq(S)
          /\ ToSet(Append(R[n].keyrings, k)) = ToSet(R[n].keyrings) \cup {k}
      BY <2>3, <2>4, AppendElements DEF Good
    <3>3. /\ R[n].keyrings \in Seq(S) /\ R[n].unsupported \in Seq(S)
          /\ ToSet(R[n].keyrings) \cup ToSet(R[n].unsupported)
                 = ToSet(aside) \cup {stored[i] : i \in 1 .. n}
      BY <2>3 DEF Good
    <3>4. /\ R[n + 1] = [keyrings |-> R[n + 1].keyrings, unsupported |-> R[n + 1].unsupported]
          /\ R[n + 1].keyrings \in Seq(S) /\ R[n + 1].unsupported \in Seq(S)
          /\ ToSet(R[n + 1].keyrings) \cup ToSet(R[n + 1].unsupported)
                 = ToSet(R[n].keyrings) \cup ToSet(R[n].unsupported) \cup {k}
      BY <3>1, <3>2, <3>3
    <3>5. ToSet(R[n + 1].keyrings) \cup ToSet(R[n + 1].unsupported)
             = ToSet(aside) \cup {stored[i] : i \in 1 .. n + 1}
      <4> DEFINE before == {stored[i] : i \in 1 .. n}
                 after == {stored[i] : i \in 1 .. n + 1}
      <4>1. after = before \cup {k}
        BY <2>5
      <4>2. ToSet(R[n].keyrings) \cup ToSet(R[n].unsupported) = ToSet(aside) \cup before
        BY <3>3
      <4> HIDE DEF before, after
      <4>3. ToSet(R[n + 1].keyrings) \cup ToSet(R[n + 1].unsupported) = ToSet(aside) \cup after
        BY <3>4, <4>1, <4>2
      <4> QED BY <4>3 DEF after
    <3> QED BY <3>4, <3>5 DEF Good
  <2> QED BY <2>7, <2>8
<1>4. P = Nat
  BY <1>2, <1>3, NaturalsInduct
<1>5. Good(Len(stored))
  BY <1>0, <1>4
<1>6. ToSet(stored) = {stored[i] : i \in 1 .. Len(stored)}
  BY <1>0 DEF ToSet
<1> QED BY <1>5, <1>6 DEF Good, R

-----------------------------------------------------------------------------
(* Changes of the keyrings in memory *)

\* In t the i-th of the keyrings ks is k, of the same wallet.
Replaces(t, ks, i, k) ==
    i \in DOMAIN ks /\ t = [ks EXCEPT ![i] = k] /\ k.wallet = ks[i].wallet

\* A keyring that gets accounts keeps its wallet in the list.
LEMMA KeyringReplaced ==
    ASSUME NEW ks \in Seq(Live), NEW k \in Live, NEW i, NEW t, Replaces(t, ks, i, k)
    PROVE  t \in Seq(Live) /\ t # <<>> /\ WalletsOf(t) = WalletsOf(ks)
<1>1. /\ i \in 1 .. Len(ks) /\ Len(ks) \in Nat /\ DOMAIN ks = 1 .. Len(ks)
      /\ t = [ks EXCEPT ![i] = k] /\ k.wallet = ks[i].wallet
  BY LenProperties DEF Replaces
<1>2. /\ t \in Seq(Live) /\ Len(t) = Len(ks)
      /\ \A j \in 1 .. Len(ks) : t[j] = IF j = i THEN k ELSE ks[j]
  BY <1>1, ExceptSeq
<1>3. DOMAIN t = DOMAIN ks
  BY <1>1, <1>2, LenProperties
<1>4. \A j \in DOMAIN ks : t[j].wallet = ks[j].wallet
  BY <1>1, <1>2
<1>5. WalletsOf(t) = WalletsOf(ks)
  BY <1>3, <1>4 DEF WalletsOf, ToSet
<1>6. t # <<>>
  BY <1>1, <1>2, EmptySeq
<1> QED BY <1>2, <1>5, <1>6

LEMMA KeyringAdded ==
    ASSUME NEW ks \in Seq(Live), NEW k \in Live
    PROVE  /\ Append(ks, k) \in Seq(Live) /\ Append(ks, k) # <<>>
           /\ WalletsOf(ks) \subseteq WalletsOf(Append(ks, k))
BY AppendElements, AppendProperties DEF WalletsOf

\* Of the wallets only that of the shortened keyring can go.
LEMMA KeyringShortened ==
    ASSUME NEW ks \in Seq(Live), NEW i \in DOMAIN ks, NEW A, NEW t,
           t = WithoutEmpty([ks EXCEPT ![i].accounts = Filtered(@, A)])
    PROVE  t \in Seq(Live) /\ WalletsOf(ks) \subseteq WalletsOf(t) \cup {ks[i].wallet}
<1> DEFINE k == [ks[i] EXCEPT !.accounts = Filtered(ks[i].accounts, A)]
           u == [ks EXCEPT ![i] = k]
           Q == {q \in Keyring : q.accounts # <<>>}
           D == Derived[ks[i].wallet]
<1>1. /\ i \in 1 .. Len(ks) /\ Len(ks) \in Nat /\ DOMAIN ks = 1 .. Len(ks)
      /\ ks[i] \in Live /\ \A j \in DOMAIN ks : ks[j] \in Live
  BY LenProperties, ElementOfSeq
<1>2. /\ Filtered(ks[i].accounts, A) \in Seq(ToSet(D))
      /\ Len(Filtered(ks[i].accounts, A)) <= Len(ks[i].accounts)
      /\ Len(ks[i].accounts) \in Nat /\ Len(D) \in Nat
      /\ Len(Filtered(ks[i].accounts, A)) \in Nat
  <2>1. ks[i].accounts \in Seq(ToSet(D)) /\ D \in Seq(ToSet(D))
    BY <1>1, KeyringFields, WalletsOK
  <2> HIDE DEF D
  <2> QED BY <2>1, FilteredProperties, LenProperties
<1>3. /\ k = [wallet |-> ks[i].wallet, accounts |-> Filtered(ks[i].accounts, A)]
      /\ k.wallet = ks[i].wallet
  BY <1>1, KeyringFields
<1>4. Type[ks[i].wallet] = "hd" => Len(Filtered(ks[i].accounts, A)) <= Len(D)
  BY <1>1, <1>2, KeyringFields
<1>5. k \in Keyring
  <2>1. ToSet(D) \subseteq Addresses /\ ks[i].wallet \in Wallets
    BY <1>1, KeyringFields DEF Addresses
  <2>2. Filtered(ks[i].accounts, A) \in Seq(Addresses)
    BY <1>2, <2>1, SeqMonotonic
  <2> QED BY <1>2, <1>3, <2>1, <2>2 DEF Keyring
<1>6. k \in Q => k \in Live
  BY <1>2, <1>3, <1>4, <1>5 DEF Live
<1> HIDE DEF k
<1>7. Live \subseteq Keyring /\ Live \subseteq Q
  BY DEF Live
<1>8. ks \in Seq(Keyring)
  BY <1>7, SeqMonotonic
<1>9. /\ u \in Seq(Keyring) /\ Len(u) = Len(ks)
      /\ \A j \in 1 .. Len(ks) : u[j] = IF j = i THEN k ELSE ks[j]
  BY <1>1, <1>5, <1>8, ExceptSeq
<1>10. DOMAIN u = DOMAIN ks
  BY <1>1, <1>9, LenProperties
<1> HIDE DEF u, Q
<1>11. ToSet(u) \cap Q \subseteq Live
  BY <1>1, <1>6, <1>9, <1>10 DEF ToSet
<1>12. t = Filtered(u, Q)
  BY DEF WithoutEmpty, u, k, Q
<1>13. t \in Seq(Keyring) /\ ToSet(t) = ToSet(u) \cap Q
  <2>1. u \in Seq(Keyring)
    BY <1>9
  <2>2. Filtered(u, Q) \in Seq(Keyring) /\ ToSet(Filtered(u, Q)) = ToSet(u) \cap Q
    BY <2>1, FilteredProperties
  <2> QED BY <1>12, <2>2
<1>14. t \in Seq(Live)
  <2>1. \A j \in 1 .. Len(t) : t[j] \in Live
    BY <1>11, <1>13, LenProperties DEF ToSet
  <2>2. Len(t) \in Nat /\ t \in [1 .. Len(t) -> Keyring]
    BY <1>13, LenProperties
  <2>3. t \in [1 .. Len(t) -> Live]
    BY <2>1, <2>2
  <2>4. \A n \in Nat : [1 .. n -> Live] \subseteq Seq(Live)
    BY SeqDef
  <2> QED BY <2>2, <2>3, <2>4
<1>15. ASSUME NEW w \in WalletsOf(ks), w # ks[i].wallet
       PROVE  w \in WalletsOf(t)
  <2>1. PICK j \in DOMAIN ks : w = ks[j].wallet
    BY <1>15 DEF WalletsOf, ToSet
  <2>2. u[j] = ks[j] /\ ks[j] \in Q
    BY <1>1, <1>7, <1>9, <1>15, <2>1
  <2>3. ks[j] \in ToSet(t)
    BY <1>10, <1>13, <2>2 DEF ToSet
  <2> QED BY <2>1, <2>3 DEF WalletsOf
<1> QED BY <1>14, <1>15

\* What #updateVault would write of the keyrings ks with us put aside.
LEMMA SerializedWith ==
    ASSUME NEW ks \in Seq(Live), NEW us \in Seq(Canonical), NEW s, s = SerializedOf(ks) \o us
    PROVE  /\ s \in Seq(Canonical)
           /\ WalletsOf(s) = WalletsOf(ks) \cup WalletsOf(us)
           /\ ToSet(s) = ToSet(SerializedOf(ks)) \cup ToSet(us)
           /\ ks # <<>> => s # <<>>
<1>1. /\ SerializedOf(ks) \in Seq(Canonical)
      /\ ks # <<>> => SerializedOf(ks) # <<>>
      /\ WalletsOf(SerializedOf(ks)) = WalletsOf(ks)
  BY SerializedSeq
<1>2. s \in Seq(Canonical) /\ ToSet(s) = ToSet(SerializedOf(ks)) \cup ToSet(us)
  BY <1>1, ConcatElements
<1>3. ks # <<>> => s # <<>>
  BY <1>1, ConcatEqualIffEmpty, ConcatSimplifications
<1>4. WalletsOf(s) = WalletsOf(ks) \cup WalletsOf(us)
  BY <1>1, <1>2 DEF WalletsOf
<1> QED BY <1>1, <1>2, <1>3, <1>4

-----------------------------------------------------------------------------
(* The beginning of an operation *)

LEMMA InitIInv == Init => IInv
<1> SUFFICES ASSUME Init PROVE IInv
  OBVIOUS
<1>1. \A S : <<>> \in Seq(S)
  BY EmptySeq
<1>2. Free \in Operation
  BY <1>1 DEF Free, Operation
<1>3. TypeOK /\ Shapes
  BY <1>1, <1>2 DEF Init, TypeOK, Shapes, Vault, NoVault, Free
<1>4. Session = {} /\ ~Committed
  <2>1. SerializedOf(<<>>) = <<>>
    BY <1>1, CanonicalSeq
  <2>2. Session = ToSet(<<>> \o <<>>)
    BY <2>1 DEF Init, Session, GetSerializedKeyrings
  <2>3. ToSet(<<>> \o <<>>) = ToSet(<<>>)
    BY <1>1, ConcatEmptySeq
  <2> QED BY <2>2, <2>3 DEF ToSet, Init, Committed
<1>5. Stages /\ SessionFits /\ Opens /\ CredentialsAfter /\ Saving /\ WalletsStay
  BY <1>4 DEF Init, Free, Stages, SessionFits, Opens, CredentialsAfter, Saving, WalletsStay
<1> QED BY <1>3, <1>5 DEF IInv, Init, NoKeyWithoutVault, CredentialsFitVault

\* What an operation finds in an open wallet is what the vault holds.
LEMMA OpenSession ==
    ASSUME IInv, op = Free
    PROVE  /\ GetSerializedKeyrings \in Seq(Canonical)
           /\ ToSet(GetSerializedKeyrings) \subseteq ToSet(vault.keyrings)
           /\ isUnlocked /\ vault # NoVault =>
                 /\ ToSet(GetSerializedKeyrings) = ToSet(vault.keyrings)
                 /\ WalletsIn(vault) = WalletsOf(keyrings) \cup WalletsOf(unsupported)
                 /\ GetSerializedKeyrings # <<>>
<1>1. /\ GetSerializedKeyrings \in Seq(Canonical)
      /\ WalletsOf(GetSerializedKeyrings) = WalletsOf(keyrings) \cup WalletsOf(unsupported)
  <2>1. keyrings \in Seq(Live) /\ unsupported \in Seq(Canonical)
    BY DEF IInv, Shapes
  <2>2. GetSerializedKeyrings = SerializedOf(keyrings) \o unsupported
    BY DEF GetSerializedKeyrings
  <2> QED BY <2>1, <2>2, SerializedWith
<1>2. /\ ToSet(GetSerializedKeyrings) \subseteq ToSet(vault.keyrings)
      /\ isUnlocked /\ vault # NoVault => ToSet(GetSerializedKeyrings) = ToSet(vault.keyrings)
  BY DEF IInv, SessionFits, Session, Committed
<1>3. vault # NoVault => ToSet(vault.keyrings) # {}
  <2> SUFFICES ASSUME vault # NoVault PROVE ToSet(vault.keyrings) # {}
    OBVIOUS
  <2>1. vault.keyrings \in Seq(Keyring) /\ vault.keyrings # <<>>
    BY DEF IInv, TypeOK, Vault
  <2>2. 1 \in DOMAIN vault.keyrings
    BY <2>1, EmptySeq, LenProperties
  <2> QED BY <2>2 DEF ToSet
<1>4. ToSet(<<>>) = {}
  BY DEF ToSet
<1>5. WalletsIn(vault) = WalletsOf(vault.keyrings)
  BY DEF WalletsIn, WalletsOf
<1> QED BY <1>1, <1>2, <1>3, <1>4, <1>5 DEF WalletsOf

\* The snapshot shows the session as it was.
LEMMA AcquireKeepsSession ==
    ASSUME IInv, NEW kind \in Kinds, NEW subject \in Wallets \cup Passwords \cup {None},
           NEW threw \in BOOLEAN, Acquire(kind, subject, threw),
           keyrings' \in Seq(Live), UNCHANGED <<unsupported, mirror, vault, disk, removing>>,
           kind = "removeAccount" => removing # <<>>
    PROVE  /\ op' \in Operation /\ op' # Free /\ op.stage = "none"
           /\ Shapes' /\ Stages' /\ SessionFits' /\ CredentialsFitVault'
<1>1. /\ op = Free
      /\ op' = [kind |-> kind, stage |-> IF threw THEN "undo" ELSE "save",
                subject |-> subject, keyrings |-> SerializedOf(keyrings),
                unsupported |-> unsupported, password |-> password, isUnlocked |-> isUnlocked]
  BY DEF Acquire
<1>2. /\ SerializedOf(keyrings) \in Seq(Canonical) /\ unsupported \in Seq(Canonical)
      /\ SerializedOf(keyrings) \in Seq(Keyring) /\ unsupported \in Seq(Keyring)
  <2>1. SerializedOf(keyrings) \in Seq(Canonical) /\ unsupported \in Seq(Canonical)
    BY SerializedSeq DEF IInv, Shapes
  <2> QED BY <2>1, CanonicalSeq
<1>3. op' \in Operation
  BY <1>1, <1>2 DEF IInv, TypeOK, Operation
<1>4. op'.stage \in {"undo", "save"} /\ op' # Free
  BY <1>1 DEF Free
<1>5. Shapes'
  BY <1>1, <1>2 DEF IInv, Shapes
<1>6. Stages'
  BY <1>1, <1>4 DEF Stages
<1>7. SessionFits'
  <2>1. op'.keyrings \o op'.unsupported = GetSerializedKeyrings
    BY <1>1 DEF GetSerializedKeyrings
  <2>2. Session' = Session /\ Committed' = Committed
    BY <1>1, <1>4, <2>1 DEF Session, Committed
  <2> QED BY <2>2 DEF IInv, SessionFits
<1>8. CredentialsFitVault'
  BY <1>4 DEF CredentialsFitVault
<1> QED BY <1>1, <1>3, <1>4, <1>5, <1>6, <1>7, <1>8 DEF Free

\* An operation whose body changes the keyrings and nothing else.
LEMMA QuietKeepsIInv ==
    ASSUME IInv, NEW kind \in Kinds \ {"changePassword"},
           NEW subject \in Wallets \cup Passwords \cup {None},
           NEW threw \in BOOLEAN, Acquire(kind, subject, threw),
           keyrings' \in Seq(Live), UNCHANGED <<unsupported, mirror, vault, disk, removing>>,
           kind = "removeAccount" => removing # <<>>,
           UNCHANGED <<password, encryptionKey, isUnlocked>>, preview' \in BOOLEAN,
           ~threw => \A w \in WalletsOf(keyrings) :
                        w \in WalletsOf(keyrings') \/ (kind = "removeAccount" /\ subject = w)
    PROVE  IInv'
<1>1. /\ op' \in Operation /\ op' # Free
      /\ Shapes' /\ Stages' /\ SessionFits' /\ CredentialsFitVault'
  BY AcquireKeepsSession
<1>2. /\ op = Free /\ op'.stage = IF threw THEN "undo" ELSE "save"
      /\ op'.kind = kind /\ op'.subject = subject
      /\ op'.password = password /\ op'.isUnlocked = isUnlocked
  BY DEF Acquire
<1>3. TypeOK'
  <2>1. Live \subseteq Keyring
    BY DEF Live
  <2>2. keyrings' \in Seq(Keyring)
    BY <2>1, SeqMonotonic
  <2> QED BY <1>1, <2>2 DEF IInv, TypeOK
<1>4. Opens' /\ NoKeyWithoutVault'
  BY <1>2 DEF Opens, IInv, NoKeyWithoutVault
<1>5. CredentialsAfter' /\ Saving'
  BY <1>2 DEF IInv, CredentialsFitVault, CredentialsAfter, Saving
<1>6. WalletsStay'
  <2>1. SUFFICES ASSUME ~threw, isUnlocked, NEW w \in WalletsIn(vault)
                 PROVE  w \in WalletsOf(GetSerializedKeyrings') \/ (kind = "removeAccount" /\ subject = w)
    BY <1>2 DEF WalletsStay, WalletsIn
  <2>2. vault # NoVault
    BY <2>1 DEF WalletsIn, NoVault, ToSet
  <2>3. w \in WalletsOf(keyrings) \cup WalletsOf(unsupported)
    BY <1>2, <2>1, <2>2, OpenSession
  <2>4. WalletsOf(GetSerializedKeyrings') = WalletsOf(keyrings') \cup WalletsOf(unsupported)
    <3>1. keyrings' \in Seq(Live) /\ unsupported \in Seq(Canonical)
      BY DEF IInv, Shapes
    <3>2. GetSerializedKeyrings' = SerializedOf(keyrings') \o unsupported
      BY DEF GetSerializedKeyrings
    <3> QED BY <3>1, <3>2, SerializedWith
  <2> QED BY <2>1, <2>3, <2>4
<1> QED BY <1>1, <1>3, <1>4, <1>5, <1>6 DEF IInv

-----------------------------------------------------------------------------
(* Operations that change the keyrings and nothing else *)

LEMMA FirstAccountIsLive ==
    ASSUME NEW w \in Wallets
    PROVE  FirstAccount(w) \in Live /\ <<FirstAccount(w)>> \in Seq(Live)
<1>1. Derived[w] \in Seq(ToSet(Derived[w])) /\ Derived[w] # <<>>
  BY WalletsOK
<1>2. Len(Derived[w]) \in Nat \ {0} /\ Derived[w][1] \in ToSet(Derived[w])
  BY <1>1, EmptySeq, LenProperties DEF ToSet
<1>3. <<Derived[w][1]>> \in Seq(ToSet(Derived[w])) /\ <<Derived[w][1]>> # <<>>
      /\ Len(<<Derived[w][1]>>) = 1
  BY <1>2
<1>4. FirstAccount(w) \in Live
  <2>1. Len(<<Derived[w][1]>>) <= Len(Derived[w])
    BY <1>2, <1>3
  <2> DEFINE s == <<Derived[w][1]>>
  <2>2. s \in Seq(ToSet(Derived[w])) /\ s # <<>> /\ Len(s) <= Len(Derived[w])
    BY <1>3, <2>1
  <2>3. FirstAccount(w) = [wallet |-> w, accounts |-> s]
    BY DEF FirstAccount
  <2> HIDE DEF s
  <2> QED BY <2>2, <2>3, IsLive
<1> QED BY <1>4

\* One more account of a keyring.
LEMMA ExtendedIsLive ==
    ASSUME NEW k \in Live, NEW a \in ToSet(Derived[k.wallet]),
           Type[k.wallet] = "hd" => Len(k.accounts) < Len(Derived[k.wallet]),
           NEW e, e = [k EXCEPT !.accounts = Append(@, a)]
    PROVE  e \in Live /\ e.wallet = k.wallet
<1> DEFINE w == k.wallet
           s == Append(k.accounts, a)
<1>1. /\ k = [wallet |-> w, accounts |-> k.accounts] /\ w \in Wallets
      /\ k.accounts \in Seq(ToSet(Derived[w])) /\ Derived[w] \in Seq(ToSet(Derived[w]))
  BY KeyringFields, WalletsOK
<1>2. e = [wallet |-> w, accounts |-> s]
  BY <1>1
<1>3. s \in Seq(ToSet(Derived[w])) /\ s # <<>> /\ Len(s) = Len(k.accounts) + 1
  <2> HIDE DEF w
  <2> QED BY <1>1, AppendProperties DEF w
<1>4. Type[w] = "hd" => Len(s) <= Len(Derived[w])
  BY <1>1, <1>3, LenProperties
<1> HIDE DEF w, s
<1>5. e \in Live
  BY <1>1, <1>2, <1>3, <1>4, IsLive
<1> QED BY <1>2, <1>5 DEF w

LEMMA HdPositionFound ==
    ASSUME IInv, NEW w, HdPosition(w) # 0
    PROVE  /\ HdPosition(w) \in DOMAIN keyrings /\ keyrings[HdPosition(w)].wallet = w
           /\ Type[w] = "hd"
BY FirstInFound DEF HdPosition, KeyringsOf, IInv, TypeOK

\* A body that changes nothing, or throws before it does.
LEMMA UnchangedKeepsIInv ==
    ASSUME IInv, NEW kind \in Kinds \ {"changePassword", "removeAccount"},
           NEW subject \in Wallets \cup Passwords \cup {None}, NEW threw \in BOOLEAN,
           Acquire(kind, subject, threw),
           UNCHANGED <<Elsewhere, keyrings, unsupported, password, isUnlocked, preview>>
    PROVE  IInv'
<1>1. keyrings' \in Seq(Live) /\ preview' \in BOOLEAN
  BY DEF IInv, Shapes, TypeOK
<1>2. \A v \in WalletsOf(keyrings) : v \in WalletsOf(keyrings')
  OBVIOUS
<1> QED BY <1>1, <1>2, QuietKeepsIInv DEF Elsewhere

LEMMA ThrowsKeepIInv ==
    ASSUME IInv,
           \/ \E w \in Wallets : ImportHardwareThrows(w)
           \/ \E w \in Wallets, n \in Nat : AddNewAccountThrows(w, n) \/ AddNewAccountAgain(w, n)
           \/ CreateKeychainAgain
           \/ \E p \in Passwords : SubmitWrongPassword(p)
    PROVE  IInv'
<1>1. PICK kind \in Kinds \ {"changePassword", "removeAccount"},
           subject \in Wallets \cup Passwords \cup {None}, threw \in BOOLEAN :
         /\ Acquire(kind, subject, threw)
         /\ UNCHANGED <<Elsewhere, keyrings, unsupported, password, isUnlocked, preview>>
  BY DEF AddNewAccountThrows, AddNewAccountAgain, CreateKeychainAgain, ImportHardwareThrows,
         SubmitWrongPassword, Kinds
<1> QED BY <1>1, UnchangedKeepsIInv

LEMMA AddNewAccountKeepsIInv ==
    ASSUME IInv, NEW w \in Wallets, NEW n \in Nat, AddNewAccount(w, n)
    PROVE  IInv'
<1> DEFINE i == HdPosition(w)
           k == [keyrings[i] EXCEPT !.accounts = Append(@, Derived[w][n + 1])]
<1>1. /\ i # 0 /\ n = Len(keyrings[i].accounts) /\ n < Len(Derived[w])
      /\ keyrings' = [keyrings EXCEPT ![i] = k]
      /\ Acquire("addNewAccount", w, k # Serialized(k))
      /\ UNCHANGED <<Elsewhere, unsupported, password, isUnlocked, preview>>
  BY DEF AddNewAccount
<1>2. i \in DOMAIN keyrings /\ keyrings[i].wallet = w /\ keyrings \in Seq(Live)
  BY <1>1, HdPositionFound DEF IInv, Shapes
<1>3. Derived[w][n + 1] \in ToSet(Derived[w])
  <2>1. Derived[w] \in Seq(ToSet(Derived[w]))
    BY WalletsOK
  <2>2. n + 1 \in 1 .. Len(Derived[w])
    BY <1>1, <2>1, LenProperties
  <2> QED BY <2>1, <2>2, ElementOfSeq
<1>4. keyrings' \in Seq(Live) /\ WalletsOf(keyrings') = WalletsOf(keyrings)
  <2>1. keyrings[i] \in Live /\ Len(keyrings[i].accounts) < Len(Derived[w])
    BY <1>1, <1>2, LenProperties, ElementOfSeq
  <2> HIDE DEF i
  <2>2. k \in Live /\ k.wallet = keyrings[i].wallet
    BY <1>2, <1>3, <2>1, ExtendedIsLive
  <2>3. Replaces(keyrings', keyrings, i, k)
    BY <1>1, <1>2, <2>2 DEF Replaces
  <2> HIDE DEF k
  <2> QED BY <1>2, <2>2, <2>3, KeyringReplaced
<1>5. preview' \in BOOLEAN /\ "addNewAccount" \in Kinds \ {"changePassword"}
  BY <1>1 DEF IInv, TypeOK, Kinds
<1> HIDE DEF i, k
<1> QED BY <1>1, <1>4, <1>5, QuietKeepsIInv DEF Elsewhere

LEMMA AddNewWalletKeepsIInv ==
    ASSUME IInv, NEW w \in Wallets, AddNewWallet(w)
    PROVE  IInv'
<1>1. PICK threw \in BOOLEAN :
         /\ Acquire("addNewWallet", w, threw)
         /\ keyrings' = IF threw THEN keyrings ELSE Append(keyrings, FirstAccount(w))
         /\ UNCHANGED <<Elsewhere, unsupported, password, isUnlocked, preview>>
  BY DEF AddNewWallet
<1>2. keyrings' \in Seq(Live) /\ \A v \in WalletsOf(keyrings) : v \in WalletsOf(keyrings')
  BY <1>1, KeyringAdded, FirstAccountIsLive DEF IInv, Shapes
<1>3. preview' \in BOOLEAN /\ "addNewWallet" \in Kinds \ {"changePassword"}
  BY <1>1 DEF IInv, TypeOK, Kinds
<1> QED BY <1>1, <1>2, <1>3, QuietKeepsIInv DEF Elsewhere

LEMMA ImportMoreKeepsIInv ==
    ASSUME IInv, NEW w \in Wallets, NEW a \in ToSet(Derived[w]), ImportMore(w, a)
    PROVE  IInv'
<1> DEFINE i == FirstIn(keyrings, KeyringsOf(w))
<1>1. PICK threw \in BOOLEAN :
         /\ Type[w] = "hardware" /\ i # 0
         /\ Acquire("importHardware", w, threw)
         /\ \/ keyrings' = keyrings
            \/ keyrings' = [keyrings EXCEPT ![i].accounts = Append(@, a)]
         /\ preview' = FALSE
         /\ UNCHANGED <<Elsewhere, unsupported, password, isUnlocked>>
  <2> DEFINE known == ToSet(keyrings[i].accounts)
  <2>1. (a \in AccountsOf(keyrings) \ known) \in BOOLEAN
    OBVIOUS
  <2> QED BY <2>1 DEF ImportMore
<1>2. keyrings \in Seq(Live) /\ i \in DOMAIN keyrings /\ keyrings[i].wallet = w
  BY <1>1, FirstInFound DEF KeyringsOf, IInv, Shapes
<1>3. keyrings' \in Seq(Live) /\ WalletsOf(keyrings') = WalletsOf(keyrings)
  <2>1. CASE keyrings' = keyrings
    BY <1>2, <2>1
  <2>2. CASE keyrings' = [keyrings EXCEPT ![i].accounts = Append(@, a)]
    <3> DEFINE k == [keyrings[i] EXCEPT !.accounts = Append(@, a)]
    <3>1. keyrings' = [keyrings EXCEPT ![i] = k]
      BY <2>2
    <3>2. keyrings[i] \in Live /\ Type[w] # "hd"
      BY <1>1, <1>2, LenProperties, ElementOfSeq
    <3> HIDE DEF i
    <3>3. k \in Live /\ k.wallet = keyrings[i].wallet
      BY <1>2, <3>2, ExtendedIsLive
    <3>4. Replaces(keyrings', keyrings, i, k)
      BY <1>2, <3>1, <3>3 DEF Replaces
    <3> HIDE DEF k
    <3> QED BY <1>2, <3>3, <3>4, KeyringReplaced
  <2> QED BY <1>1, <2>1, <2>2
<1>4. preview' \in BOOLEAN /\ "importHardware" \in Kinds \ {"changePassword"}
  BY <1>1 DEF Kinds
<1> QED BY <1>1, <1>3, <1>4, QuietKeepsIInv DEF Elsewhere

LEMMA RemoveAccountKeepsIInv ==
    ASSUME IInv, RemoveAccount
    PROVE  IInv'
<1> DEFINE a == Head(removing).account
           i == FirstIn(keyrings, {k \in Keyring : a \in ToSet(k.accounts)})
<1>1. /\ removing # <<>>
      /\ UNCHANGED <<Elsewhere, unsupported, password, isUnlocked, preview>>
      /\ preview' \in BOOLEAN /\ "removeAccount" \in Kinds \ {"changePassword"}
      /\ keyrings \in Seq(Live)
  BY DEF RemoveAccount, IInv, TypeOK, Shapes, Kinds
<1>2. CASE i = 0
  <2>1. Acquire("removeAccount", None, TRUE) /\ UNCHANGED keyrings
    BY <1>2 DEF RemoveAccount
  <2> QED BY <1>1, <2>1, QuietKeepsIInv DEF Elsewhere
<1>3. CASE i # 0
  <2>1. /\ Acquire("removeAccount", keyrings[i].wallet, FALSE)
        /\ keyrings' = WithoutEmpty([keyrings EXCEPT ![i].accounts = Filtered(@, Addresses \ {a})])
    BY <1>3 DEF RemoveAccount
  <2>2. i \in DOMAIN keyrings
    BY <1>1, <1>3, FirstInFound
  <2>3. keyrings[i].wallet \in Wallets
    BY <1>1, <2>2, LenProperties, ElementOfSeq, KeyringFields
  <2> HIDE DEF i
  <2>4. /\ keyrings' \in Seq(Live)
        /\ WalletsOf(keyrings) \subseteq WalletsOf(keyrings') \cup {keyrings[i].wallet}
    BY <1>1, <2>1, <2>2, KeyringShortened
  <2> QED BY <1>1, <2>1, <2>3, <2>4, QuietKeepsIInv DEF Elsewhere
<1> QED BY <1>2, <1>3

-----------------------------------------------------------------------------
(* Operations that change password or lock state *)

LEMMA AcquireKeepsTypes ==
    ASSUME IInv, op' \in Operation, keyrings' \in Seq(Live),
           UNCHANGED <<unsupported, mirror, vault, disk, removing>>,
           password' \in Passwords \cup {None}, encryptionKey' \in Passwords \cup {None},
           isUnlocked' \in BOOLEAN, preview' \in BOOLEAN
    PROVE  TypeOK'
<1>1. keyrings' \in Seq(Keyring)
  BY SeqMonotonic DEF Live
<1> QED BY <1>1 DEF IInv, TypeOK

LEMMA PasswordsAreSome == \A p \in Passwords : p # None
BY WalletsOK

LEMMA CanSaveWith ==
    ASSUME keyrings' \in Seq(Live), keyrings' # <<>>, unsupported' \in Seq(Canonical),
           password' \in Passwords
    PROVE  CanSave'
<1>1. GetSerializedKeyrings' = SerializedOf(keyrings') \o unsupported'
  BY DEF GetSerializedKeyrings
<1>2. GetSerializedKeyrings' # <<>>
  BY <1>1, SerializedWith
<1> QED BY <1>2, PasswordsAreSome DEF CanSave

LEMMA CreateNewVaultKeepsIInv ==
    ASSUME IInv, NEW w \in Wallets, NEW p \in Passwords, CreateNewVault(w, p)
    PROVE  IInv'
<1>1. /\ Acquire("createNewVault", w, FALSE)
      /\ password' = p /\ keyrings' = <<FirstAccount(w)>> /\ isUnlocked' = TRUE
      /\ UNCHANGED <<unsupported, mirror, vault, disk, removing, encryptionKey, preview>>
      /\ "createNewVault" \in Kinds
  BY DEF CreateNewVault, Elsewhere, Kinds
<1>2. keyrings' \in Seq(Live) /\ keyrings' # <<>>
  BY <1>1, FirstAccountIsLive
<1>3. /\ op' \in Operation /\ op' # Free
      /\ Shapes' /\ Stages' /\ SessionFits' /\ CredentialsFitVault'
  BY <1>1, <1>2, AcquireKeepsSession
<1>4. TypeOK'
  BY <1>1, <1>2, <1>3, AcquireKeepsTypes DEF IInv, TypeOK
<1>5. /\ op = Free /\ op'.stage = "save" /\ op'.kind = "createNewVault"
      /\ op'.password = password /\ op'.isUnlocked = isUnlocked
  BY <1>1 DEF Acquire
<1>6. CanSave'
  BY <1>1, <1>2, <1>3, CanSaveWith DEF Shapes
<1>7. Opens' /\ NoKeyWithoutVault'
  BY <1>1, <1>5, <1>6 DEF Opens, IInv, NoKeyWithoutVault
<1>8. CredentialsAfter' /\ Saving' /\ WalletsStay'
  BY <1>1, <1>5, PasswordsAreSome
     DEF IInv, CredentialsFitVault, CredentialsAfter, Saving, WalletsStay
<1> QED BY <1>3, <1>4, <1>7, <1>8 DEF IInv

LEMMA CreateNewVaultInvalidKeepsIInv ==
    ASSUME IInv, NEW w \in Wallets, NEW p \in Passwords, CreateNewVaultInvalid(w, p)
    PROVE  IInv'
<1>1. /\ Acquire("createNewVault", w, TRUE)
      /\ password' = p /\ keyrings' = <<>>
      /\ UNCHANGED <<unsupported, mirror, vault, disk, removing, encryptionKey, preview, isUnlocked>>
      /\ "createNewVault" \in Kinds
  BY DEF CreateNewVaultInvalid, Elsewhere, Kinds
<1>2. keyrings' \in Seq(Live)
  BY <1>1, EmptySeq
<1>3. /\ op' \in Operation /\ op' # Free
      /\ Shapes' /\ Stages' /\ SessionFits' /\ CredentialsFitVault'
  BY <1>1, <1>2, AcquireKeepsSession
<1>4. TypeOK'
  BY <1>1, <1>2, <1>3, AcquireKeepsTypes DEF IInv, TypeOK
<1>5. /\ op = Free /\ op'.stage = "undo" /\ op'.kind = "createNewVault"
      /\ op'.password = password /\ op'.isUnlocked = isUnlocked
  BY <1>1 DEF Acquire
<1>6. Opens' /\ NoKeyWithoutVault'
  BY <1>1, <1>5 DEF Opens, IInv, NoKeyWithoutVault
<1>7. CredentialsAfter' /\ Saving' /\ WalletsStay'
  BY <1>1, <1>5 DEF IInv, CredentialsFitVault, CredentialsAfter, Saving, WalletsStay
<1> QED BY <1>3, <1>4, <1>6, <1>7 DEF IInv

LEMMA HardwareIsLive ==
    ASSUME NEW w \in Wallets, NEW a \in ToSet(Derived[w]), Type[w] = "hardware"
    PROVE  [wallet |-> w, accounts |-> <<a>>] \in Live
<1> DEFINE s == <<a>>
<1>1. s \in Seq(ToSet(Derived[w])) /\ s # <<>>
  OBVIOUS
<1> HIDE DEF s
<1>2. [wallet |-> w, accounts |-> s] \in Live
  BY <1>1, IsLive
<1> QED BY <1>2 DEF s

LEMMA ImportHardwareKeepsIInv ==
    ASSUME IInv, NEW w \in Wallets, NEW a \in ToSet(Derived[w]),
           NEW p \in Passwords \cup {None}, NEW fails \in BOOLEAN, ImportHardware(w, a, p, fails)
    PROVE  IInv'
<1> DEFINE first == vault = NoVault /\ p # None
           kept == IF first THEN <<>> ELSE keyrings
           new == [wallet |-> w, accounts |-> <<a>>]
<1>1. PICK threw \in BOOLEAN :
         /\ Type[w] = "hardware" /\ Acquire("importHardware", w, threw)
         /\ keyrings' = Append(kept, new)
         /\ password' = IF first THEN p ELSE password
         /\ isUnlocked' = (first \/ isUnlocked)
         /\ preview' = FALSE
         /\ UNCHANGED <<unsupported, mirror, vault, disk, removing, encryptionKey>>
         /\ "importHardware" \in Kinds
  <2>1. (fails \/ a \in AccountsOf(kept)) \in BOOLEAN
    OBVIOUS
  <2> QED BY <2>1 DEF ImportHardware, Elsewhere, Kinds
<1>2. /\ keyrings' \in Seq(Live) /\ keyrings' # <<>>
      /\ ~first => WalletsOf(keyrings) \subseteq WalletsOf(keyrings')
  <2>1. kept \in Seq(Live) /\ (~first => kept = keyrings)
    BY EmptySeq DEF IInv, Shapes
  <2>2. new \in Live
    BY <1>1, HardwareIsLive
  <2> HIDE DEF kept, new
  <2> QED BY <1>1, <2>1, <2>2, KeyringAdded
<1>3. first \in BOOLEAN /\ (first => vault = NoVault /\ p \in Passwords)
  OBVIOUS
<1> HIDE DEF first, kept, new
<1>4. /\ op' \in Operation /\ op' # Free
      /\ Shapes' /\ Stages' /\ SessionFits' /\ CredentialsFitVault'
  BY <1>1, <1>2, AcquireKeepsSession
<1>5. TypeOK'
  BY <1>1, <1>2, <1>3, <1>4, AcquireKeepsTypes DEF IInv, TypeOK
<1>6. /\ op = Free /\ op'.stage = (IF threw THEN "undo" ELSE "save") /\ op'.kind = "importHardware"
      /\ op'.password = password /\ op'.isUnlocked = isUnlocked
  BY <1>1 DEF Acquire
<1>7. first => CanSave'
  BY <1>1, <1>2, <1>3, <1>4, CanSaveWith DEF Shapes
<1>8. Opens' /\ NoKeyWithoutVault'
  BY <1>1, <1>3, <1>6, <1>7 DEF Opens, IInv, NoKeyWithoutVault
<1>9. CredentialsAfter' /\ Saving'
  BY <1>1, <1>3, <1>6 DEF IInv, CredentialsFitVault, CredentialsAfter, Saving
<1>10. WalletsStay'
  <2>1. SUFFICES ASSUME isUnlocked', NEW v \in WalletsIn(vault)
                 PROVE  v \in WalletsOf(GetSerializedKeyrings')
    BY <1>1, <1>6 DEF WalletsStay, WalletsIn
  <2>2. vault # NoVault
    BY <2>1 DEF WalletsIn, NoVault, ToSet
  <2>3. v \in WalletsOf(keyrings) \cup WalletsOf(unsupported)
    BY <1>1, <1>3, <1>6, <2>1, <2>2, OpenSession
  <2>4. WalletsOf(GetSerializedKeyrings') = WalletsOf(keyrings') \cup WalletsOf(unsupported)
    <3>1. unsupported \in Seq(Canonical)
      BY DEF IInv, Shapes
    <3>2. GetSerializedKeyrings' = SerializedOf(keyrings') \o unsupported
      BY <1>1 DEF GetSerializedKeyrings
    <3>3. keyrings' \in Seq(Live)
      BY <1>2
    <3> QED BY <3>1, <3>2, <3>3, SerializedWith
  <2> QED BY <1>2, <1>3, <2>2, <2>3, <2>4
<1> QED BY <1>4, <1>5, <1>8, <1>9, <1>10 DEF IInv

LEMMA ChangePasswordKeepsIInv ==
    ASSUME IInv, NEW p \in Passwords, ChangePassword(p)
    PROVE  IInv'
<1>1. /\ Acquire("changePassword", p, ~isUnlocked)
      /\ password' = IF isUnlocked THEN p ELSE password
      /\ encryptionKey' = IF isUnlocked THEN None ELSE encryptionKey
      /\ UNCHANGED <<keyrings, unsupported, isUnlocked, mirror, vault, preview, removing, disk>>
      /\ "changePassword" \in Kinds /\ (~isUnlocked) \in BOOLEAN
  BY DEF ChangePassword, Kinds
<1>2. keyrings' \in Seq(Live)
  BY <1>1 DEF IInv, Shapes
<1>3. /\ op' \in Operation /\ op' # Free
      /\ Shapes' /\ Stages' /\ SessionFits' /\ CredentialsFitVault'
  BY <1>1, <1>2, AcquireKeepsSession
<1>4. TypeOK'
  <2>1. /\ password' \in Passwords \cup {None} /\ encryptionKey' \in Passwords \cup {None}
        /\ isUnlocked' \in BOOLEAN /\ preview' \in BOOLEAN
    BY <1>1 DEF IInv, TypeOK
  <2> QED BY <1>1, <1>2, <1>3, <2>1, AcquireKeepsTypes
<1>5. /\ op = Free /\ op'.stage = (IF isUnlocked THEN "save" ELSE "undo")
      /\ op'.kind = "changePassword" /\ op'.subject = p
      /\ op'.password = password /\ op'.isUnlocked = isUnlocked
  BY <1>1 DEF Acquire
<1>6. /\ isUnlocked /\ vault # NoVault => CanSave'
      /\ GetSerializedKeyrings' = GetSerializedKeyrings
  BY <1>1, <1>5, OpenSession, PasswordsAreSome DEF CanSave, GetSerializedKeyrings
<1>7. Opens' /\ NoKeyWithoutVault'
  BY <1>1, <1>5 DEF Opens, IInv, NoKeyWithoutVault
<1>8. CredentialsAfter' /\ Saving'
  BY <1>1, <1>5, <1>6, PasswordsAreSome DEF IInv, CredentialsFitVault, CredentialsAfter, Saving
<1>9. WalletsStay'
  <2>1. SUFFICES ASSUME isUnlocked, NEW v \in WalletsIn(vault)
                 PROVE  v \in WalletsOf(GetSerializedKeyrings)
    BY <1>1, <1>6 DEF WalletsStay, WalletsIn
  <2>2. vault # NoVault
    BY <2>1 DEF WalletsIn, NoVault, ToSet
  <2> QED BY <1>5, <2>1, <2>2, OpenSession DEF WalletsIn, WalletsOf
<1> QED BY <1>3, <1>4, <1>7, <1>8, <1>9 DEF IInv

-----------------------------------------------------------------------------
(* The end of an operation *)

LEMMA UpdateVaultKeepsIInv ==
    ASSUME IInv, UpdateVault
    PROVE  IInv'
<1>1. /\ op.stage = "save" /\ CanSave /\ op # Free
      /\ vault' = [key |-> VaultKey, keyrings |-> GetSerializedKeyrings]
      /\ encryptionKey' = VaultKey
      /\ mirror' = keyrings /\ op' = Free
      /\ UNCHANGED <<keyrings, unsupported, password, isUnlocked, preview, disk>>
  BY DEF UpdateVault, Free, VaultKey
<1>2. removing' \in Seq([wallet : Wallets, account : Addresses])
  BY HeadTailProperties DEF UpdateVault, IInv, TypeOK, Stages
<1>3. /\ GetSerializedKeyrings \in Seq(Canonical) /\ GetSerializedKeyrings # <<>>
      /\ GetSerializedKeyrings \in Seq(Keyring)
  <2>1. keyrings \in Seq(Live) /\ unsupported \in Seq(Canonical)
    BY DEF IInv, Shapes
  <2>2. GetSerializedKeyrings \in Seq(Canonical)
    BY <2>1, SerializedWith DEF GetSerializedKeyrings
  <2> QED BY <1>1, <2>2, CanonicalSeq DEF CanSave
<1>4. VaultKey \in Passwords /\ (encryptionKey = None => VaultKey = password)
  BY <1>1 DEF CanSave, VaultKey, IInv, TypeOK
<1>5. vault' \in Vault /\ vault' # NoVault
  BY <1>1, <1>3, <1>4, PasswordsAreSome DEF Vault, NoVault
<1>6. Free \in Operation /\ Free.keyrings \in Seq(Canonical) /\ Free.unsupported \in Seq(Canonical)
  BY EmptySeq DEF Free, Operation
<1>7. TypeOK' /\ Shapes'
  <2>1. mirror' \in Seq(Live) /\ mirror' \in Seq(Keyring)
    BY <1>1 DEF IInv, Shapes, TypeOK
  <2> QED BY <1>1, <1>2, <1>3, <1>4, <1>5, <1>6, <2>1 DEF IInv, TypeOK, Shapes
<1>8. Stages' /\ Opens' /\ CredentialsAfter' /\ Saving' /\ WalletsStay'
  BY <1>1 DEF Free, Stages, Opens, CredentialsAfter, Saving, WalletsStay
<1>9. SessionFits'
  <2>1. GetSerializedKeyrings' = GetSerializedKeyrings
    BY <1>1 DEF GetSerializedKeyrings
  <2>2. Session' = ToSet(vault.keyrings)'
    BY <1>1, <2>1 DEF Session
  <2> QED BY <2>2 DEF SessionFits
<1>10. CredentialsFitVault' /\ NoKeyWithoutVault'
  <2>1. isUnlocked => password # None
    <3>1. CASE vault = NoVault
      BY <1>1, <3>1 DEF IInv, NoKeyWithoutVault, CanSave
    <3>2. CASE vault # NoVault
      BY <1>1, <3>2 DEF IInv, Saving
    <3> QED BY <3>1, <3>2
  <2> QED BY <1>1, <1>5, <2>1 DEF CredentialsFitVault, NoKeyWithoutVault
<1> QED BY <1>7, <1>8, <1>9, <1>10 DEF IInv

LEMMA UpdateVaultFailsKeepsIInv ==
    ASSUME IInv, UpdateVaultFails
    PROVE  IInv'
<1>1. /\ op.stage = "save" /\ ~CanSave /\ op # Free
      /\ UNCHANGED <<memory, vault, preview, removing, disk>>
      /\ op' = [op EXCEPT !.stage = "undo"]
  BY DEF UpdateVaultFails, Free
<1>2. /\ op'.stage = "undo" /\ op'.kind = op.kind /\ op'.subject = op.subject
      /\ op'.keyrings = op.keyrings /\ op'.unsupported = op.unsupported
      /\ op'.password = op.password /\ op'.isUnlocked = op.isUnlocked
      /\ op' \in Operation /\ op' # Free
  BY <1>1 DEF IInv, TypeOK, Operation, Free
<1>3. TypeOK' /\ Shapes' /\ Stages'
  BY <1>1, <1>2 DEF IInv, TypeOK, Shapes, Stages, memory
<1>4. SessionFits'
  <2>1. Session' = Session /\ Committed' = Committed
    BY <1>1, <1>2 DEF Session, Committed
  <2> QED BY <1>1, <2>1 DEF IInv, SessionFits
<1>5. Opens' /\ CredentialsAfter' /\ NoKeyWithoutVault' /\ CredentialsFitVault'
  BY <1>1, <1>2
     DEF IInv, Opens, CredentialsAfter, NoKeyWithoutVault, CredentialsFitVault, memory
<1>6. Saving' /\ WalletsStay'
  BY <1>2 DEF Saving, WalletsStay
<1> QED BY <1>3, <1>4, <1>5, <1>6 DEF IInv

\* What is restored, or put aside once more, makes a session of all that was
\* stored.
LEMMA RestoredSession ==
    ASSUME unsupported \in Seq(Canonical), NEW stored \in Seq(Canonical),
           ToSet(unsupported) \subseteq ToSet(stored),
           keyrings' = Restored(stored).keyrings, unsupported' = Restored(stored).unsupported
    PROVE  /\ keyrings' \in Seq(Canonical) /\ unsupported' \in Seq(Canonical)
           /\ ToSet(GetSerializedKeyrings') = ToSet(stored)
<1> DEFINE r == RestoredOf(unsupported, stored)[Len(stored)]
<1>1. keyrings' = r.keyrings /\ unsupported' = r.unsupported
  BY DEF Restored
<1>2. /\ r.keyrings \in Seq(Canonical) /\ r.unsupported \in Seq(Canonical)
      /\ ToSet(r.keyrings) \cup ToSet(r.unsupported) = ToSet(unsupported) \cup ToSet(stored)
  BY RestoredKeepsAll
<1> HIDE DEF r
<1>3. GetSerializedKeyrings' = keyrings' \o unsupported'
  BY <1>1, <1>2, CanonicalSeq DEF GetSerializedKeyrings
<1>4. ToSet(GetSerializedKeyrings') = ToSet(stored)
  <2>1. keyrings' \in Seq(Canonical) /\ unsupported' \in Seq(Canonical)
    BY <1>1, <1>2
  <2>2. ToSet(keyrings' \o unsupported') = ToSet(keyrings') \cup ToSet(unsupported')
    BY <2>1, ConcatElements
  <2> QED BY <1>1, <1>2, <1>3, <2>2
<1> QED BY <1>1, <1>2, <1>4

LEMMA RollbackRestores ==
    ASSUME IInv, Rollback
    PROVE  /\ keyrings' \in Seq(Canonical) /\ unsupported' \in Seq(Canonical)
           /\ ToSet(GetSerializedKeyrings') = Session
<1> DEFINE stored == op.keyrings \o op.unsupported
<1>1. op # Free /\ op.unsupported = unsupported
  BY DEF Rollback, Free, IInv, Stages
<1>2. /\ unsupported \in Seq(Canonical) /\ stored \in Seq(Canonical)
      /\ ToSet(unsupported) \subseteq ToSet(stored)
  <2>1. /\ op.keyrings \in Seq(Canonical) /\ op.unsupported \in Seq(Canonical)
        /\ unsupported \in Seq(Canonical)
    BY DEF IInv, Shapes
  <2> QED BY <1>1, <2>1, ConcatElements
<1>3. keyrings' = Restored(stored).keyrings /\ unsupported' = Restored(stored).unsupported
  BY DEF Rollback
<1>4. Session = ToSet(stored)
  BY <1>1 DEF Session
<1> HIDE DEF stored
<1> QED BY <1>2, <1>3, <1>4, RestoredSession

LEMMA RollbackKeepsIInv ==
    ASSUME IInv, Rollback
    PROVE  IInv'
<1>1. /\ op.stage = "undo" /\ op # Free /\ op' = Free /\ password' = op.password
      /\ UNCHANGED <<encryptionKey, isUnlocked, mirror, vault, preview, disk>>
  BY DEF Rollback, Free
<1>2. /\ keyrings' \in Seq(Canonical) /\ unsupported' \in Seq(Canonical)
      /\ ToSet(GetSerializedKeyrings') = Session
      /\ keyrings' \in Seq(Live)
      /\ keyrings' \in Seq(Keyring) /\ unsupported' \in Seq(Keyring)
  BY RollbackRestores, CanonicalSeq
<1>3. removing' \in Seq([wallet : Wallets, account : Addresses])
  BY EmptySeq DEF Rollback, IInv, TypeOK
<1>4. Free \in Operation /\ Free.keyrings \in Seq(Canonical) /\ Free.unsupported \in Seq(Canonical)
  BY EmptySeq DEF Free, Operation
<1>5. TypeOK' /\ Shapes'
  BY <1>1, <1>2, <1>3, <1>4 DEF IInv, TypeOK, Shapes, Operation
<1>6. Stages' /\ Opens' /\ CredentialsAfter' /\ Saving' /\ WalletsStay'
  BY <1>1 DEF Free, Stages, Opens, CredentialsAfter, Saving, WalletsStay
<1>7. isUnlocked /\ vault # NoVault => op.isUnlocked
  BY <1>1 DEF IInv, Opens
<1>8. SessionFits'
  <2>1. Session' = ToSet(GetSerializedKeyrings') /\ Committed' = isUnlocked
    BY <1>1 DEF Session, Committed
  <2> QED BY <1>1, <1>2, <1>7, <2>1 DEF IInv, SessionFits, Committed
<1>9. CredentialsFitVault' /\ NoKeyWithoutVault'
  BY <1>1, <1>7 DEF IInv, CredentialsAfter, CredentialsFitVault, NoKeyWithoutVault
<1> QED BY <1>5, <1>6, <1>8, <1>9 DEF IInv

-----------------------------------------------------------------------------
(* Lock, unlock, storage and restart *)

LEMMA SetLockedKeepsIInv ==
    ASSUME IInv, SetLocked
    PROVE  IInv'
<1>1. /\ op = Free /\ op' = Free /\ preview' = FALSE /\ password' = None
      /\ keyrings' = <<>> /\ mirror' = <<>> /\ isUnlocked' = FALSE
      /\ UNCHANGED <<unsupported, encryptionKey, vault, removing, disk>>
  BY DEF SetLocked, AcquireAndEnd
<1>2. \A S : <<>> \in Seq(S)
  BY EmptySeq
<1>3. TypeOK' /\ Shapes' /\ Stages'
  BY <1>1, <1>2 DEF IInv, TypeOK, Shapes, Stages
<1>4. Opens' /\ CredentialsAfter' /\ Saving' /\ WalletsStay'
  BY <1>1 DEF Free, Opens, CredentialsAfter, Saving, WalletsStay
<1>5. SessionFits'
  <2>1. /\ unsupported \in Seq(Canonical) /\ <<>> \in Seq(Canonical) /\ keyrings \in Seq(Live)
        /\ <<>> \in Seq(Live)
    BY <1>2 DEF IInv, Shapes
  <2>2. /\ GetSerializedKeyrings' = SerializedOf(<<>>) \o unsupported
        /\ GetSerializedKeyrings = SerializedOf(keyrings) \o unsupported
    BY <1>1 DEF GetSerializedKeyrings
  <2>3. /\ ToSet(GetSerializedKeyrings') = ToSet(SerializedOf(<<>>)) \cup ToSet(unsupported)
        /\ ToSet(GetSerializedKeyrings) = ToSet(SerializedOf(keyrings)) \cup ToSet(unsupported)
    BY <2>1, <2>2, SerializedWith
  <2>4. ToSet(SerializedOf(<<>>)) = {}
    <3>1. SerializedOf(<<>>) = <<>>
      BY <2>1, CanonicalSeq
    <3> QED BY <3>1 DEF ToSet
  <2>5. ToSet(GetSerializedKeyrings') \subseteq ToSet(vault.keyrings)
    BY <1>1, <2>3, <2>4, OpenSession
  <2>6. Session' = ToSet(GetSerializedKeyrings') /\ ~Committed'
    BY <1>1 DEF Session, Committed
  <2> QED BY <1>1, <2>5, <2>6 DEF SessionFits
<1>6. CredentialsFitVault' /\ NoKeyWithoutVault'
  BY <1>1 DEF IInv, CredentialsFitVault, NoKeyWithoutVault
<1> QED BY <1>3, <1>4, <1>5, <1>6 DEF IInv

\* An unlock restores all of the vault.
LEMMA SubmitRestores ==
    ASSUME IInv, NEW p, SubmitPassword(p)
    PROVE  /\ keyrings' \in Seq(Canonical) /\ unsupported' \in Seq(Canonical)
           /\ ToSet(GetSerializedKeyrings') = ToSet(vault.keyrings)
<1> DEFINE stored == vault.keyrings
<1>1. op = Free
  BY DEF SubmitPassword, AcquireAndEnd
<1>2. unsupported \in Seq(Canonical) /\ stored \in Seq(Canonical) /\ keyrings \in Seq(Live)
  BY DEF IInv, Shapes
<1>3. ToSet(unsupported) \subseteq ToSet(stored)
  <2>1. ToSet(GetSerializedKeyrings) \subseteq ToSet(stored)
    BY <1>1, OpenSession
  <2>2. GetSerializedKeyrings = SerializedOf(keyrings) \o unsupported
    BY DEF GetSerializedKeyrings
  <2>3. ToSet(GetSerializedKeyrings) = ToSet(SerializedOf(keyrings)) \cup ToSet(unsupported)
    BY <1>2, <2>2, SerializedWith
  <2> QED BY <2>1, <2>3
<1>4. keyrings' = Restored(stored).keyrings /\ unsupported' = Restored(stored).unsupported
  BY DEF SubmitPassword
<1> HIDE DEF stored
<1>5. /\ keyrings' \in Seq(Canonical) /\ unsupported' \in Seq(Canonical)
      /\ ToSet(GetSerializedKeyrings') = ToSet(stored)
  BY <1>2, <1>3, <1>4, RestoredSession
<1> QED BY <1>5 DEF stored

LEMMA SubmitPasswordKeepsIInv ==
    ASSUME IInv, NEW p \in Passwords, SubmitPassword(p)
    PROVE  IInv'
<1>1. /\ op = Free /\ op' = Free /\ vault # NoVault /\ p = vault.key
      /\ password' = p /\ encryptionKey' = p /\ isUnlocked' = TRUE /\ mirror' = keyrings'
      /\ UNCHANGED <<vault, preview, removing, disk>>
  BY DEF SubmitPassword, AcquireAndEnd
<1>2. /\ keyrings' \in Seq(Canonical) /\ unsupported' \in Seq(Canonical)
      /\ ToSet(GetSerializedKeyrings') = ToSet(vault.keyrings)
      /\ keyrings' \in Seq(Live)
      /\ keyrings' \in Seq(Keyring) /\ unsupported' \in Seq(Keyring)
  BY SubmitRestores, CanonicalSeq
<1>3. TypeOK' /\ Shapes' /\ Stages'
  BY <1>1, <1>2 DEF IInv, TypeOK, Shapes, Stages, Free
<1>4. Opens' /\ CredentialsAfter' /\ Saving' /\ WalletsStay'
  BY <1>1 DEF Free, Opens, CredentialsAfter, Saving, WalletsStay
<1>5. SessionFits'
  <2>1. Session' = ToSet(GetSerializedKeyrings')
    BY <1>1 DEF Session
  <2> QED BY <1>1, <1>2, <2>1 DEF SessionFits
<1>6. CredentialsFitVault' /\ NoKeyWithoutVault'
  BY <1>1, PasswordsAreSome DEF CredentialsFitVault, NoKeyWithoutVault
<1> QED BY <1>3, <1>4, <1>5, <1>6 DEF IInv

\* Steps outside the mutex touch neither memory, vault nor operation.
LEMMA OutsideKeepsIInv ==
    ASSUME IInv, UNCHANGED <<memory, vault, op>>, TypeOK',
           disk'.keyrings \in Seq(Canonical), op.kind = "removeAccount" => removing' # <<>>
    PROVE  IInv'
<1>1. UNCHANGED <<keyrings, unsupported, password, encryptionKey, isUnlocked, mirror>>
  BY DEF memory
<1>2. Shapes' /\ Stages'
  BY <1>1 DEF IInv, Shapes, Stages
<1>3. GetSerializedKeyrings' = GetSerializedKeyrings /\ CanSave' = CanSave
  BY <1>1 DEF GetSerializedKeyrings, CanSave
<1>4. SessionFits' /\ Opens' /\ CredentialsAfter'
  BY <1>1, <1>3 DEF IInv, SessionFits, Session, Committed, Opens, CredentialsAfter
<1>5. NoKeyWithoutVault' /\ CredentialsFitVault' /\ Saving' /\ WalletsStay'
  BY <1>1, <1>3
     DEF IInv, NoKeyWithoutVault, CredentialsFitVault, Saving, WalletsStay, WalletsIn
<1> QED BY <1>2, <1>4, <1>5 DEF IInv

LEMMA RemoveWalletKeepsIInv ==
    ASSUME IInv, NEW w \in Wallets, RemoveWallet(w)
    PROVE  IInv'
<1> DEFINE i == FirstIn(mirror, KeyringsOf(w))
           as == mirror[i].accounts
<1>1. /\ removing = <<>> /\ i # 0
      /\ removing' = [j \in DOMAIN as |-> [wallet |-> w, account |-> as[j]]]
      /\ UNCHANGED <<memory, vault, preview, op, disk>>
  BY DEF RemoveWallet
<1>2. i \in DOMAIN mirror /\ mirror[i] \in Keyring
  BY <1>1, FirstInFound DEF IInv, TypeOK, KeyringsOf
<1>3. as \in Seq(Addresses)
  BY <1>2 DEF Keyring
<1> HIDE DEF as
<1>4. removing' \in Seq([wallet : Wallets, account : Addresses])
  <2> DEFINE e(j) == [wallet |-> w, account |-> as[j]]
             n == Len(as)
  <2>1. n \in Nat /\ DOMAIN as = 1 .. n /\ \A j \in 1 .. n : as[j] \in Addresses
    BY <1>3, LenProperties, ElementOfSeq
  <2>2. \A j \in 1 .. n : e(j) \in [wallet : Wallets, account : Addresses]
    BY <2>1
  <2>3. removing' = [j \in 1 .. n |-> e(j)]
    BY <1>1, <2>1
  <2> HIDE DEF e, n
  <2>4. removing' \in [1 .. n -> [wallet : Wallets, account : Addresses]]
    BY <2>2, <2>3
  <2> QED BY <2>1, <2>4, SeqDef
<1>5. TypeOK'
  BY <1>1, <1>4 DEF IInv, TypeOK, memory
<1>6. op.kind # "removeAccount"
  BY <1>1 DEF IInv, Stages
<1> QED BY <1>1, <1>5, <1>6, OutsideKeepsIInv DEF IInv, Shapes

LEMMA StorageKeepsIInv ==
    ASSUME IInv, GetHardwareAddressPage \/ ClearPreview \/ Persist
    PROVE  IInv'
<1>1. /\ UNCHANGED <<memory, vault, op, removing>> /\ disk' \in {disk, vault}
      /\ preview' \in BOOLEAN
  BY DEF GetHardwareAddressPage, ClearPreview, Persist, IInv, TypeOK
<1>2. TypeOK' /\ disk'.keyrings \in Seq(Canonical)
  BY <1>1 DEF IInv, TypeOK, Shapes, memory
<1> QED BY <1>1, <1>2, OutsideKeepsIInv DEF IInv, Stages

LEMMA RestartKeepsIInv ==
    ASSUME IInv, Restart
    PROVE  IInv'
<1>1. /\ vault' = disk /\ disk' = disk
      /\ keyrings' = <<>> /\ unsupported' = <<>> /\ mirror' = <<>>
      /\ password' = None /\ encryptionKey' = None /\ isUnlocked' = FALSE
      /\ preview' = FALSE /\ op' = Free /\ removing' = <<>>
  BY DEF Restart
<1>2. \A S : <<>> \in Seq(S)
  BY EmptySeq
<1>3. Free \in Operation
  BY <1>2 DEF Free, Operation
<1>4. TypeOK' /\ Shapes' /\ Stages'
  BY <1>1, <1>2, <1>3 DEF IInv, TypeOK, Shapes, Stages, Free
<1>5. Opens' /\ CredentialsAfter' /\ Saving' /\ WalletsStay'
  BY <1>1 DEF Free, Opens, CredentialsAfter, Saving, WalletsStay
<1>6. SessionFits'
  <2>1. GetSerializedKeyrings' = SerializedOf(<<>>) \o <<>>
    BY <1>1 DEF GetSerializedKeyrings
  <2>2. GetSerializedKeyrings' = <<>>
    BY <1>2, <2>1, CanonicalSeq, ConcatEmptySeq
  <2>3. Session' = {} /\ ~Committed'
    BY <1>1, <2>2 DEF Session, Committed, ToSet
  <2> QED BY <2>3 DEF SessionFits
<1>7. CredentialsFitVault' /\ NoKeyWithoutVault'
  BY <1>1 DEF CredentialsFitVault, NoKeyWithoutVault
<1> QED BY <1>4, <1>5, <1>6, <1>7 DEF IInv

-----------------------------------------------------------------------------
(* Every step keeps the invariant *)

LEMMA StepInv == IInv /\ [Next]_vars => IInv'
<1> SUFFICES ASSUME IInv, [Next]_vars PROVE IInv'
  OBVIOUS
<1>1. CASE UpdateVault \/ UpdateVaultFails \/ Rollback
  BY <1>1, UpdateVaultKeepsIInv, UpdateVaultFailsKeepsIInv, RollbackKeepsIInv
<1>2. ASSUME NEW w \in Wallets, NEW n \in 1 .. Len(Derived[w]),
             AddNewAccountThrows(w, n) \/ AddNewAccountAgain(w, n) \/ AddNewAccount(w, n)
      PROVE  IInv'
  BY <1>2, ThrowsKeepIInv, AddNewAccountKeepsIInv
<1>3. ASSUME NEW w \in Wallets, AddNewWallet(w)
      PROVE  IInv'
  BY <1>3, AddNewWalletKeepsIInv
<1>4. ASSUME NEW w \in Wallets, NEW p \in Passwords,
             CreateNewVault(w, p) \/ CreateNewVaultInvalid(w, p)
      PROVE  IInv'
  BY <1>4, CreateNewVaultKeepsIInv, CreateNewVaultInvalidKeepsIInv
<1>5. CASE Adding
  BY <1>2, <1>3, <1>4, <1>5 DEF Adding
<1>6. ASSUME NEW w \in Wallets, NEW a \in ToSet(Derived[w]),
             \/ ImportMore(w, a)
             \/ \E p \in Passwords \cup {None}, fails \in BOOLEAN : ImportHardware(w, a, p, fails)
      PROVE  IInv'
  BY <1>6, ImportHardwareKeepsIInv, ImportMoreKeepsIInv
<1>7. CASE Hardware
  BY <1>6, <1>7, ThrowsKeepIInv, StorageKeepsIInv DEF Hardware
<1>8. ASSUME NEW p \in Passwords, SubmitPassword(p) \/ SubmitWrongPassword(p) \/ ChangePassword(p)
      PROVE  IInv'
  BY <1>8, SubmitPasswordKeepsIInv, ThrowsKeepIInv, ChangePasswordKeepsIInv
<1>9. CASE CreateKeychainAgain \/ RemoveAccount \/ \E w \in Wallets : RemoveWallet(w)
  BY <1>9, ThrowsKeepIInv, RemoveAccountKeepsIInv, RemoveWalletKeepsIInv
<1>10. CASE SetLocked \/ Persist \/ Restart
  BY <1>10, SetLockedKeepsIInv, StorageKeepsIInv, RestartKeepsIInv
<1>11. CASE UNCHANGED vars
  <2>1. UNCHANGED <<memory, vault, op>> /\ TypeOK' /\ disk' = disk /\ removing' = removing
    BY <1>11 DEF vars, memory, IInv, TypeOK
  <2> QED BY <2>1, OutsideKeepsIInv DEF IInv, Shapes, Stages
<1> QED BY <1>1, <1>5, <1>7, <1>8, <1>9, <1>10, <1>11 DEF Next

LEMMA Invariance == Spec => []IInv
BY InitIInv, StepInv, PTL DEF Spec

-----------------------------------------------------------------------------
(* Which steps touch the vault *)

\* Of the steps that take the mutex, those that go on to save or undo.
Acquires ==
    \E kind, subject, threw : Acquire(kind, subject, threw) /\ UNCHANGED <<mirror, vault, disk>>

\* Steps that touch neither keyrings nor vault.
Outside ==
    UNCHANGED <<keyrings, unsupported, isUnlocked, mirror, vault, disk, op>>

LEMMA StepKinds ==
    ASSUME [Next]_vars
    PROVE  \/ UpdateVault \/ UpdateVaultFails \/ Rollback
           \/ Acquires \/ Outside
           \/ SetLocked \/ Persist \/ Restart
           \/ \E p \in Passwords : SubmitPassword(p)
<1>1. CASE UpdateVault \/ UpdateVaultFails \/ Rollback
  BY <1>1
<1>2. CASE Adding \/ CreateKeychainAgain \/ RemoveAccount
  BY <1>2 DEF Adding, AddNewAccountThrows, AddNewAccountAgain, AddNewAccount, AddNewWallet,
              CreateNewVault, CreateNewVaultInvalid, CreateKeychainAgain, RemoveAccount,
              Elsewhere, Acquires
<1>3. CASE Hardware
  <2>1. CASE GetHardwareAddressPage \/ ClearPreview
    BY <2>1 DEF GetHardwareAddressPage, ClearPreview, memory, Outside
  <2>2. ASSUME NEW w \in Wallets, NEW a \in ToSet(Derived[w]), NEW p \in Passwords \cup {None},
               NEW fails \in BOOLEAN, ImportHardware(w, a, p, fails)
        PROVE  Acquires
    BY <2>2 DEF ImportHardware, Elsewhere, Acquires
  <2>3. ASSUME NEW w \in Wallets, NEW a \in ToSet(Derived[w]), ImportMore(w, a)
        PROVE  Acquires
    BY <2>3 DEF ImportMore, Elsewhere, Acquires
  <2>4. ASSUME NEW w \in Wallets, ImportHardwareThrows(w)
        PROVE  Acquires
    BY <2>4 DEF ImportHardwareThrows, Elsewhere, Acquires
  <2> QED BY <1>3, <2>1, <2>2, <2>3, <2>4 DEF Hardware
<1>4. ASSUME NEW w \in Wallets, RemoveWallet(w)
      PROVE  Outside
  BY <1>4 DEF RemoveWallet, memory, Outside
<1>5. ASSUME NEW p \in Passwords, SubmitWrongPassword(p) \/ ChangePassword(p)
      PROVE  Acquires
  BY <1>5 DEF SubmitWrongPassword, ChangePassword, Elsewhere, Acquires
<1>6. CASE UNCHANGED vars
  BY <1>6 DEF vars, memory, Outside
<1> QED BY <1>1, <1>2, <1>3, <1>4, <1>5, <1>6 DEF Next

-----------------------------------------------------------------------------
(* What the next unlock restores *)

\* t begins with s: IsPrefix, element by element.
BeginsWith(t, s) == Len(s) <= Len(t) /\ \A i \in 1 .. Len(s) : t[i] = s[i]

LEMMA BeginsWithPrefix ==
    ASSUME NEW S, NEW s \in Seq(S), NEW t \in Seq(S), BeginsWith(t, s)
    PROVE  IsPrefix(s, t)
<1>1. Len(s) \in Nat /\ Len(t) \in Nat /\ Len(s) <= Len(t)
  BY LenProperties DEF BeginsWith
<1>2. \A i \in 1 .. Len(s) : s[i] \in S /\ t[i] \in S
  BY <1>1, ElementOfSeq
<1> DEFINE u == SubSeq(s, 1, Len(s))
           v == SubSeq(t, 1, Len(s))
<1>3. /\ u \in Seq(S) /\ Len(u) = Len(s) /\ \A i \in 1 .. Len(s) : u[i] = s[i]
      /\ v \in Seq(S) /\ Len(v) = Len(s) /\ \A i \in 1 .. Len(s) : v[i] = t[i]
  BY <1>1, <1>2, SubSeqProperties
<1> HIDE DEF u, v
<1>4. u = v
  BY <1>3, SeqEqual DEF BeginsWith
<1> QED BY <1>1, <1>4 DEF IsPrefix, u, v

\* The keyrings that stored keyrings restore.
RestoredFrom(stored) == RestoredOf(<<>>, stored)[Len(stored)].keyrings

\* What was put aside before has no influence on them.
LEMMA AsideIsLeft ==
    ASSUME NEW S, NEW aside, NEW stored \in Seq(S)
    PROVE  RestoredOf(aside, stored)[Len(stored)].keyrings = RestoredFrom(stored)
<1> DEFINE A == RestoredOf(aside, stored)
           B == RestoredOf(<<>>, stored)
           Good(n) ==
               /\ A[n] = [keyrings |-> A[n].keyrings, unsupported |-> A[n].unsupported]
               /\ B[n] = [keyrings |-> A[n].keyrings, unsupported |-> B[n].unsupported]
           P == {n \in Nat : n <= Len(stored) => Good(n)}
<1>0. Len(stored) \in Nat
  BY LenProperties
<1>1. /\ A[0] = [keyrings |-> <<>>, unsupported |-> aside]
      /\ \A i \in 1 .. Len(stored) : A[i] = RestoreKeyring(A[i - 1], stored[i])
  BY <1>0, RestoredOfSteps
<1>2. /\ B[0] = [keyrings |-> <<>>, unsupported |-> <<>>]
      /\ \A i \in 1 .. Len(stored) : B[i] = RestoreKeyring(B[i - 1], stored[i])
  BY <1>0, RestoredOfSteps
<1> HIDE DEF A, B
<1>3. 0 \in P
  BY <1>1, <1>2
<1>4. ASSUME NEW n \in P
      PROVE  n + 1 \in P
  <2>1. SUFFICES ASSUME n + 1 <= Len(stored) PROVE Good(n + 1)
    OBVIOUS
  <2>2. n \in Nat /\ n + 1 \in 1 .. Len(stored) /\ (n + 1) - 1 = n /\ n <= Len(stored)
    BY <1>0, <2>1
  <2>3. Good(n)
    BY <2>2
  <2> DEFINE k == stored[n + 1]
             ks == A[n].keyrings
  <2>4. A[n + 1] = RestoreKeyring(A[n], k) /\ B[n + 1] = RestoreKeyring(B[n], k)
    BY <1>1, <1>2, <2>2
  <2>5. /\ A[n] = [keyrings |-> ks, unsupported |-> A[n].unsupported]
        /\ B[n] = [keyrings |-> ks, unsupported |-> B[n].unsupported]
        /\ B[n].keyrings = ks
    BY <2>3
  <2> HIDE DEF k, ks
  <2>6. CASE IsDuplicate(k, ks)
    <3>1. /\ A[n + 1] = [keyrings |-> ks, unsupported |-> Append(A[n].unsupported, k)]
          /\ B[n + 1] = [keyrings |-> ks, unsupported |-> Append(B[n].unsupported, k)]
      BY <2>4, <2>5, <2>6 DEF RestoreKeyring, ks
    <3> QED BY <3>1
  <2>7. CASE ~IsDuplicate(k, ks)
    <3>1. /\ A[n + 1] = [keyrings |-> Append(ks, k), unsupported |-> A[n].unsupported]
          /\ B[n + 1] = [keyrings |-> Append(ks, k), unsupported |-> B[n].unsupported]
      BY <2>4, <2>5, <2>7 DEF RestoreKeyring, ks
    <3> QED BY <3>1
  <2> QED BY <2>6, <2>7
<1> HIDE DEF Good
<1>5. P = Nat
  BY <1>3, <1>4, NaturalsInduct
<1>6. Good(Len(stored))
  BY <1>0, <1>5
<1>7. A[Len(stored)].keyrings = B[Len(stored)].keyrings
  BY <1>6 DEF Good
<1> QED BY <1>7 DEF A, B, RestoredFrom

\* Stored keyrings that begin with faithful ones restore these first.
LEMMA FaithfulAreRestored ==
    ASSUME NEW S, NEW ks \in Seq(S), NEW stored \in Seq(S), Faithful(ks), BeginsWith(stored, ks)
    PROVE  RestoredFrom(stored) \in Seq(S) /\ BeginsWith(RestoredFrom(stored), ks)
<1> DEFINE R == RestoredOf(<<>>, stored)
           Shape(n) ==
               /\ R[n] = [keyrings |-> R[n].keyrings, unsupported |-> R[n].unsupported]
               /\ R[n].keyrings \in Seq(S)
           Good(n) ==
               /\ n <= Len(ks) => R[n].keyrings = SubSeq(ks, 1, n)
               /\ Len(ks) <= n => BeginsWith(R[n].keyrings, ks)
           P == {n \in Nat : n <= Len(stored) => Shape(n) /\ Good(n)}
<1>0. /\ Len(stored) \in Nat /\ Len(ks) \in Nat /\ Len(ks) <= Len(stored)
      /\ \A i \in 1 .. Len(ks) : stored[i] = ks[i] /\ ks[i] \in S /\ i \in DOMAIN ks
  BY LenProperties, ElementOfSeq DEF BeginsWith
<1>1. /\ R[0] = [keyrings |-> <<>>, unsupported |-> <<>>]
      /\ \A i \in 1 .. Len(stored) : R[i] = RestoreKeyring(R[i - 1], stored[i])
  BY <1>0, RestoredOfSteps
<1> HIDE DEF R
\* The first n of ks, up to all of them.
<1>2. ASSUME NEW n \in 0 .. Len(ks)
      PROVE  /\ SubSeq(ks, 1, n) \in Seq(S) /\ Len(SubSeq(ks, 1, n)) = n
             /\ \A i \in 1 .. n : SubSeq(ks, 1, n)[i] = ks[i]
  <2>1. n \in Int /\ 1 \in Int /\ \A i \in 1 .. n : ks[i] \in S
    BY <1>0, <1>2
  <2>2. /\ SubSeq(ks, 1, n) \in Seq(S)
        /\ Len(SubSeq(ks, 1, n)) = IF 1 <= n THEN n - 1 + 1 ELSE 0
        /\ \A i \in 1 .. n - 1 + 1 : SubSeq(ks, 1, n)[i] = ks[1 + i - 1]
    BY <2>1, SubSeqProperties
  <2> QED BY <1>2, <2>2
<1>3. BeginsWith(SubSeq(ks, 1, Len(ks)), ks)
  BY <1>0, <1>2 DEF BeginsWith
<1>4. 0 \in P
  <2>1. <<>> \in Seq(S) /\ SubSeq(ks, 1, 0) = <<>>
    BY <1>0, <1>2, EmptySeq
  <2>2. Shape(0) /\ R[0].keyrings = SubSeq(ks, 1, 0)
    BY <1>1, <2>1
  <2>3. Good(0)
    BY <1>0, <1>3, <2>2
  <2> QED BY <2>2, <2>3
<1>5. ASSUME NEW n \in P
      PROVE  n + 1 \in P
  <2>1. SUFFICES ASSUME n + 1 <= Len(stored) PROVE Shape(n + 1) /\ Good(n + 1)
    OBVIOUS
  <2>2. n \in Nat /\ n + 1 \in 1 .. Len(stored) /\ (n + 1) - 1 = n /\ n <= Len(stored)
    BY <1>0, <2>1
  <2>3. Shape(n) /\ Good(n)
    BY <2>2
  <2> DEFINE k == stored[n + 1]
  <2>4. k \in S
    BY <2>2, ElementOfSeq
  <2>5. R[n + 1] = RestoreKeyring(R[n], k)
    BY <1>1, <2>2
  <2> HIDE DEF k
  <2>6. Append(R[n].keyrings, k) \in Seq(S)
    BY <2>3, <2>4, AppendElements
  <2>7. CASE n < Len(ks)
    <3>1. k = ks[n + 1] /\ n + 1 \in DOMAIN ks /\ n \in 0 .. Len(ks) /\ n + 1 \in 0 .. Len(ks)
      BY <1>0, <2>2, <2>7 DEF k
    <3>2. R[n].keyrings = SubSeq(ks, 1, n)
      BY <2>2, <2>3, <2>7
    <3>3. ~IsDuplicate(k, R[n].keyrings)
      BY <2>2, <3>1, <3>2 DEF Faithful
    <3>4. R[n + 1] = [keyrings |-> Append(R[n].keyrings, k), unsupported |-> R[n].unsupported]
      BY <2>3, <2>5, <3>3 DEF RestoreKeyring
    <3>5. Append(SubSeq(ks, 1, n), k) = SubSeq(ks, 1, n + 1)
      <4> DEFINE t == SubSeq(ks, 1, n)
                 u == SubSeq(ks, 1, n + 1)
                 v == Append(t, k)
      <4>1. /\ t \in Seq(S) /\ Len(t) = n /\ \A i \in 1 .. n : t[i] = ks[i]
            /\ u \in Seq(S) /\ Len(u) = n + 1 /\ \A i \in 1 .. n + 1 : u[i] = ks[i]
        BY <1>2, <3>1
      <4> HIDE DEF t, u
      <4>2. /\ v \in Seq(S) /\ Len(v) = n + 1 /\ v[n + 1] = k
            /\ \A i \in 1 .. n : v[i] = t[i]
        BY <2>4, <4>1, AppendProperties
      <4> HIDE DEF v
      <4>3. \A i \in 1 .. n + 1 : v[i] = u[i]
        <5>1. \A i \in 1 .. n + 1 : i \in 1 .. n \/ i = n + 1
          BY <2>2
        <5> QED BY <3>1, <4>1, <4>2, <5>1
      <4>4. v = u
        BY <4>1, <4>2, <4>3, SeqEqual
      <4> QED BY <4>4 DEF t, u, v
    <3>6. R[n + 1].keyrings = SubSeq(ks, 1, n + 1)
      BY <3>2, <3>4, <3>5
    <3>7. Shape(n + 1)
      BY <2>6, <3>4
    <3>8. Len(ks) <= n + 1 => n + 1 = Len(ks)
      BY <1>0, <2>2, <2>7
    <3> QED BY <1>3, <3>6, <3>7, <3>8
  <2>8. CASE ~(n < Len(ks))
    <3>1. Len(ks) <= n /\ ~(n + 1 <= Len(ks))
      BY <1>0, <2>2, <2>8
    <3>2. BeginsWith(R[n].keyrings, ks)
      BY <2>3, <3>1
    <3>3. CASE IsDuplicate(k, R[n].keyrings)
      <4>1. R[n + 1] = [keyrings |-> R[n].keyrings, unsupported |-> Append(R[n].unsupported, k)]
        BY <2>3, <2>5, <3>3 DEF RestoreKeyring
      <4> QED BY <2>3, <3>1, <3>2, <4>1
    <3>4. CASE ~IsDuplicate(k, R[n].keyrings)
      <4>1. R[n + 1] = [keyrings |-> Append(R[n].keyrings, k), unsupported |-> R[n].unsupported]
        BY <2>3, <2>5, <3>4 DEF RestoreKeyring
      <4> DEFINE t == R[n].keyrings
                 v == Append(t, k)
      <4>2. t \in Seq(S) /\ Len(t) \in Nat /\ Len(ks) <= Len(t) /\ \A i \in 1 .. Len(ks) : t[i] = ks[i]
        BY <2>3, <3>2, LenProperties DEF BeginsWith
      <4> HIDE DEF t
      <4>3. Len(v) = Len(t) + 1 /\ \A i \in 1 .. Len(t) : v[i] = t[i]
        BY <2>4, <4>2, AppendProperties
      <4> HIDE DEF v
      <4>4. BeginsWith(v, ks)
        BY <1>0, <4>2, <4>3 DEF BeginsWith
      <4>5. R[n + 1].keyrings = v
        BY <4>1 DEF v, t
      <4>6. Shape(n + 1)
        BY <2>6, <4>1
      <4>7. Good(n + 1)
        <5>1. BeginsWith(R[n + 1].keyrings, ks)
          BY <4>4, <4>5
        <5> QED BY <3>1, <5>1
      <4> QED BY <4>6, <4>7
    <3> QED BY <3>3, <3>4
  <2> QED BY <2>7, <2>8
<1> HIDE DEF Shape, Good
<1>6. P = Nat
  BY <1>4, <1>5, NaturalsInduct
<1>7. Shape(Len(stored)) /\ Good(Len(stored))
  BY <1>0, <1>6
<1> QED BY <1>0, <1>7 DEF Shape, Good, RestoredFrom, R

\* What would be saved of keyrings that begin with faithful ones does, too.
LEMMA FaithfulAreSaved ==
    ASSUME NEW m \in Seq(Live), NEW ks \in Seq(Live), NEW us \in Seq(Canonical),
           Faithful(m), BeginsWith(ks, m)
    PROVE  BeginsWith(SerializedOf(ks) \o us, m)
<1> DEFINE s == SerializedOf(ks)
           t == s \o us
<1>1. s \in Seq(Canonical)
  BY SerializedSeq
<1>2. /\ DOMAIN ks = 1 .. Len(ks) /\ Len(ks) \in Nat
      /\ DOMAIN m = 1 .. Len(m) /\ Len(m) \in Nat
  BY LenProperties
<1>3. DOMAIN s = DOMAIN ks /\ \A i \in DOMAIN ks : s[i] = Serialized(ks[i])
  BY DEF SerializedOf
<1> HIDE DEF s
<1>4. Len(s) = Len(ks) /\ Len(us) \in Nat
  BY <1>1, <1>2, <1>3, LenProperties
<1>5. Len(t) = Len(s) + Len(us) /\ \A i \in 1 .. Len(s) : t[i] = s[i]
  <2>1. /\ Len(t) = Len(s) + Len(us)
        /\ \A i \in 1 .. Len(s) + Len(us) : t[i] = IF i <= Len(s) THEN s[i] ELSE us[i - Len(s)]
    BY <1>1, ConcatProperties
  <2> HIDE DEF t
  <2> QED BY <1>2, <1>4, <2>1
<1> HIDE DEF t
<1>6. Len(m) <= Len(ks) /\ \A i \in 1 .. Len(m) : ks[i] = m[i] /\ Serialized(m[i]) = m[i]
  BY <1>2 DEF BeginsWith, Faithful
<1>7. BeginsWith(t, m)
  BY <1>2, <1>3, <1>4, <1>5, <1>6 DEF BeginsWith
<1> QED BY <1>7 DEF t, s

\* The keyrings displayed begin those that memory, the vault and the rollback
\* of a running operation restore.
DisplayLasts ==
    Faithful(mirror) =>
        /\ BeginsWith(RestoredFrom(vault.keyrings), mirror)
        /\ op = Free => BeginsWith(keyrings, mirror)
        /\ op # Free => BeginsWith(RestoredFrom(op.keyrings \o op.unsupported), mirror)

LEMMA NothingDisplayed ==
    ASSUME NEW t, Len(t) \in Nat
    PROVE  BeginsWith(t, <<>>)
BY EmptySeq DEF BeginsWith

LEMMA RestoredIsSeq ==
    ASSUME NEW S, NEW stored \in Seq(S)
    PROVE  RestoredFrom(stored) \in Seq(S)
<1>1. <<>> \in Seq(S)
  BY EmptySeq
<1> QED BY <1>1, RestoredKeepsAll DEF RestoredFrom

LEMMA SameBegins ==
    ASSUME NEW S, NEW s \in Seq(S)
    PROVE  BeginsWith(s, s)
BY LenProperties DEF BeginsWith

LEMMA InitDisplayLasts == Init => DisplayLasts
<1>1. SUFFICES ASSUME Init PROVE DisplayLasts
  OBVIOUS
<1>2. mirror = <<>> /\ vault.keyrings = <<>> /\ op = Free /\ keyrings = <<>> /\ <<>> \in Seq({})
  BY <1>1, EmptySeq DEF Init, NoVault
<1>3. Len(RestoredFrom(<<>>)) \in Nat /\ Len(<<>>) \in Nat
  BY <1>2, RestoredIsSeq, LenProperties
<1> QED BY <1>2, <1>3, NothingDisplayed DEF DisplayLasts

LEMMA UpdateVaultKeepsDisplay ==
    ASSUME IInv, UpdateVault
    PROVE  DisplayLasts'
<1>1. /\ vault'.keyrings = SerializedOf(keyrings) \o unsupported
      /\ mirror' = keyrings /\ keyrings' = keyrings /\ op' = Free
  BY DEF UpdateVault, GetSerializedKeyrings
<1>2. keyrings \in Seq(Live) /\ unsupported \in Seq(Canonical)
  BY DEF IInv, Shapes
<1>3. BeginsWith(keyrings, keyrings)
  BY <1>2, SameBegins
<1>4. ASSUME Faithful(keyrings)
      PROVE  BeginsWith(RestoredFrom(vault'.keyrings), keyrings)
  <2> DEFINE s == SerializedOf(keyrings) \o unsupported
  <2>1. BeginsWith(s, keyrings)
    BY <1>2, <1>3, <1>4, FaithfulAreSaved
  <2>2. s \in Seq(Live)
    BY <1>2, SerializedWith, CanonicalSeq
  <2> HIDE DEF s
  <2>3. BeginsWith(RestoredFrom(s), keyrings)
    BY <1>2, <1>4, <2>1, <2>2, FaithfulAreRestored
  <2> QED BY <1>1, <2>3 DEF s
<1> QED BY <1>1, <1>3, <1>4 DEF DisplayLasts

LEMMA AcquiresKeepDisplay ==
    ASSUME IInv, DisplayLasts, Acquires
    PROVE  DisplayLasts'
<1>1. /\ op = Free /\ op' # Free
      /\ op'.keyrings = SerializedOf(keyrings) /\ op'.unsupported = unsupported
      /\ UNCHANGED <<vault, mirror>>
  BY DEF Acquires, Acquire, Free
<1>2. mirror \in Seq(Live) /\ keyrings \in Seq(Live) /\ unsupported \in Seq(Canonical)
  BY DEF IInv, Shapes
<1>3. ASSUME Faithful(mirror)
      PROVE  /\ BeginsWith(RestoredFrom(vault.keyrings), mirror)
             /\ BeginsWith(RestoredFrom(SerializedOf(keyrings) \o unsupported), mirror)
  <2> DEFINE s == SerializedOf(keyrings) \o unsupported
  <2>1. BeginsWith(keyrings, mirror) /\ BeginsWith(RestoredFrom(vault.keyrings), mirror)
    BY <1>1, <1>3 DEF DisplayLasts
  <2>2. BeginsWith(s, mirror)
    BY <1>2, <1>3, <2>1, FaithfulAreSaved
  <2>3. s \in Seq(Live)
    BY <1>2, SerializedWith, CanonicalSeq
  <2> HIDE DEF s
  <2>4. BeginsWith(RestoredFrom(s), mirror)
    BY <1>2, <1>3, <2>2, <2>3, FaithfulAreRestored
  <2> QED BY <2>1, <2>4 DEF s
<1> QED BY <1>1, <1>3 DEF DisplayLasts

LEMMA RollbackKeepsDisplay ==
    ASSUME IInv, DisplayLasts, Rollback
    PROVE  DisplayLasts'
<1> DEFINE s == op.keyrings \o op.unsupported
<1>1. op # Free /\ op' = Free /\ UNCHANGED <<vault, mirror>>
  BY DEF Rollback, Free
<1>2. s \in Seq(Canonical)
  BY ConcatElements DEF IInv, Shapes
<1>3. keyrings' = RestoredOf(unsupported, s)[Len(s)].keyrings
  BY DEF Rollback, Restored
<1>4. Faithful(mirror) =>
        BeginsWith(RestoredFrom(vault.keyrings), mirror) /\ BeginsWith(RestoredFrom(s), mirror)
  BY <1>1 DEF DisplayLasts
<1> HIDE DEF s
<1>5. keyrings' = RestoredFrom(s)
  BY <1>2, <1>3, AsideIsLeft
<1> QED BY <1>1, <1>4, <1>5 DEF DisplayLasts

LEMMA SubmitPasswordKeepsDisplay ==
    ASSUME IInv, NEW p, SubmitPassword(p)
    PROVE  DisplayLasts'
<1> DEFINE s == vault.keyrings
<1>1. /\ op' = Free /\ vault' = vault /\ mirror' = keyrings'
      /\ keyrings' = RestoredOf(unsupported, s)[Len(s)].keyrings
  BY DEF SubmitPassword, AcquireAndEnd, Restored
<1>2. s \in Seq(Canonical)
  BY DEF IInv, Shapes
<1> HIDE DEF s
<1>3. keyrings' = RestoredFrom(s) /\ RestoredFrom(s) \in Seq(Canonical)
  BY <1>1, <1>2, AsideIsLeft, RestoredIsSeq
<1>4. BeginsWith(keyrings', keyrings')
  BY <1>3, SameBegins
<1> QED BY <1>1, <1>3, <1>4 DEF DisplayLasts, s

LEMMA ClearedKeepsDisplay ==
    ASSUME IInv, SetLocked \/ Restart
    PROVE  DisplayLasts'
<1>1. mirror' = <<>> /\ keyrings' = <<>> /\ op' = Free
  BY DEF SetLocked, AcquireAndEnd, Restart
<1>2. vault'.keyrings \in Seq(Canonical)
  BY DEF SetLocked, Restart, IInv, Shapes
<1>3. Len(RestoredFrom(vault'.keyrings)) \in Nat /\ Len(<<>>) \in Nat
  BY <1>2, RestoredIsSeq, LenProperties, EmptySeq
<1> QED BY <1>1, <1>3, NothingDisplayed DEF DisplayLasts

LEMMA StepKeepsDisplay ==
    ASSUME IInv, DisplayLasts, [Next]_vars
    PROVE  DisplayLasts'
<1>1. CASE UpdateVaultFails
  <2>1. /\ op # Free /\ op' # Free /\ UNCHANGED <<vault, mirror>>
        /\ op'.keyrings = op.keyrings /\ op'.unsupported = op.unsupported
    BY <1>1 DEF UpdateVaultFails, memory, Free, IInv, TypeOK, Operation
  <2> QED BY <2>1 DEF DisplayLasts
<1>2. CASE Outside \/ Persist
  <2>1. UNCHANGED <<keyrings, mirror, vault, op>>
    BY <1>2 DEF Outside, Persist, memory
  <2> QED BY <2>1 DEF DisplayLasts
<1> QED BY <1>1, <1>2, StepKinds, UpdateVaultKeepsDisplay, AcquiresKeepDisplay,
           RollbackKeepsDisplay, SubmitPasswordKeepsDisplay, ClearedKeepsDisplay

-----------------------------------------------------------------------------
(* Theorems *)

\* Every variable keeps its type; a vault has a key and a keyring.
THEOREM TypeCorrect == Spec => []TypeOK
<1>1. IInv => TypeOK
  BY DEF IInv
<1> QED BY <1>1, Invariance, PTL

\* An unlocked wallet with a vault knows a password and caches the vault's key,
\* after whatever operations, failures, rollbacks and restarts.
THEOREM OpenWalletCanSave == Spec => []CredentialsFitVault
<1>1. IInv => CredentialsFitVault
  BY DEF IInv
<1> QED BY <1>1, Invariance, PTL

\* Keyrings that their serialized form restores at all are displayed, in memory
\* and what the next unlock restores first, after whatever operations,
\* failures, rollbacks and restarts.
THEOREM DisplayIsRestored == Spec => []SessionIsRestored
<1>1. IInv /\ DisplayLasts /\ [Next]_vars => DisplayLasts'
  BY StepKeepsDisplay
<1>2. IInv /\ DisplayLasts => SessionIsRestored
  <2>1. SUFFICES ASSUME IInv, DisplayLasts, op = Free, Faithful(mirror)
                 PROVE  /\ IsPrefix(mirror, keyrings)
                        /\ IsPrefix(mirror, Restored(vault.keyrings).keyrings)
    BY DEF SessionIsRestored
  <2>2. /\ mirror \in Seq(Live) /\ keyrings \in Seq(Live)
        /\ vault.keyrings \in Seq(Canonical) /\ vault.keyrings \in Seq(Live)
    BY <2>1, CanonicalSeq DEF IInv, Shapes
  <2>3. Restored(vault.keyrings).keyrings = RestoredFrom(vault.keyrings)
    BY <2>2, AsideIsLeft DEF Restored
  <2>4. RestoredFrom(vault.keyrings) \in Seq(Live)
    BY <2>2, RestoredIsSeq
  <2>5. BeginsWith(keyrings, mirror) /\ BeginsWith(RestoredFrom(vault.keyrings), mirror)
    BY <2>1 DEF DisplayLasts
  <2> QED BY <2>2, <2>3, <2>4, <2>5, BeginsWithPrefix
<1> QED BY <1>1, <1>2, InitDisplayLasts, Invariance, PTL DEF Spec

\* The vault that changePassword saves opens with the new password: the cached
\* key is gone when #updateVault looks for one.
THEOREM NewPasswordOpensVault == Spec => ChangedPasswordOpensVault
<1>1. ASSUME IInv, UpdateVault, op.kind = "changePassword"
      PROVE  vault'.key = op.subject
  <2>1. encryptionKey = None /\ password = op.subject
    BY <1>1 DEF UpdateVault, IInv, Saving
  <2> QED BY <1>1, <2>1 DEF UpdateVault, VaultKey
<1>2. IInv /\ [Next]_vars =>
        [UpdateVault /\ op.kind = "changePassword" => vault'.key = op.subject]_vars
  BY <1>1
<1> QED BY <1>2, Invariance, PTL DEF Spec, ChangedPasswordOpensVault

\* While the wallet is unlocked no operation drops a wallet from the vault but
\* the removal of one of its accounts and a new vault.
THEOREM NoWalletIsLost == Spec => WalletsLeaveOnlyOnRequest
<1>1. ASSUME IInv, [Next]_vars, isUnlocked, NEW w \in WalletsIn(vault), w \notin WalletsIn(vault)',
             ~Restart
      PROVE  (op.kind = "removeAccount" /\ op.subject = w) \/ op.kind = "createNewVault"
  <2>1. vault' # vault
    BY <1>1 DEF WalletsIn
  <2>2. UpdateVault
    BY <1>1, <2>1, StepKinds
       DEF UpdateVaultFails, Rollback, Acquires, Outside, SetLocked, Persist, SubmitPassword
  <2>3. WalletsIn(vault)' = WalletsOf(GetSerializedKeyrings)
    BY <2>2 DEF UpdateVault, WalletsIn, WalletsOf
  <2> QED BY <1>1, <2>2, <2>3 DEF UpdateVault, IInv, WalletsStay
<1>2. IInv /\ [Next]_vars =>
        [isUnlocked =>
            \A w \in WalletsIn(vault) \ WalletsIn(vault)' :
                \/ op.kind = "removeAccount" /\ op.subject = w
                \/ op.kind = "createNewVault"
                \/ Restart]_vars
  BY <1>1
<1> QED BY <1>2, Invariance, PTL DEF Spec, WalletsLeaveOnlyOnRequest

-----------------------------------------------------------------------------
(* The refinement of VaultPromise *)

Held == IF ~Committed THEN {} ELSE Session

LEMMA InitRefines == Init => Promise!Init
BY DEF Init, Promise!Init, Committed, NoVault, ToSet

\* A step as it looks to the user.
LEMMA StepRefines ==
    ASSUME IInv, [Next]_vars
    PROVE  \/ ToSet(vault'.keyrings) # {} /\ Held' = ToSet(vault'.keyrings) /\ Committed'
                 /\ ToSet(disk'.keyrings) = ToSet(disk.keyrings)
           \/ ~Committed /\ ToSet(vault'.keyrings) # {} /\ Held' = Held /\ Committed' = Committed
                 /\ ToSet(disk'.keyrings) = ToSet(disk.keyrings)
           \/ Held' = {} /\ ~Committed' /\ UNCHANGED <<vault, disk>>
           \/ ToSet(vault.keyrings) = {} /\ Held' = {} /\ Committed' /\ UNCHANGED <<vault, disk>>
           \/ disk' = vault /\ vault' = vault /\ Held' = Held /\ Committed' = Committed
           \/ vault' = disk /\ Held' = {} /\ ~Committed' /\ disk' = disk
           \/ UNCHANGED <<vault, disk>> /\ Held' = Held /\ Committed' = Committed
<1>1. CASE UpdateVault
  <2>1. /\ vault'.keyrings = GetSerializedKeyrings /\ disk' = disk /\ op' = Free /\ op # Free
        /\ isUnlocked' = isUnlocked /\ vault' # NoVault /\ vault' \in Vault
        /\ GetSerializedKeyrings' = GetSerializedKeyrings
    <3>1. vault' \in Vault
      BY <1>1, UpdateVaultKeepsIInv DEF IInv, TypeOK
    <3>2. vault' # NoVault
      BY <1>1 DEF UpdateVault, CanSave, NoVault
    <3>3. GetSerializedKeyrings' = GetSerializedKeyrings
      BY <1>1 DEF UpdateVault, GetSerializedKeyrings
    <3>4. op # Free
      BY <1>1 DEF UpdateVault, Free
    <3> QED BY <1>1, <3>1, <3>2, <3>3, <3>4 DEF UpdateVault
  <2>2. ToSet(vault'.keyrings) # {}
    <3>1. vault'.keyrings \in Seq(Keyring) /\ vault'.keyrings # <<>>
      BY <2>1 DEF Vault
    <3>2. 1 \in DOMAIN vault'.keyrings
      BY <3>1, EmptySeq, LenProperties
    <3> QED BY <3>2 DEF ToSet
  <2>3. CASE isUnlocked
    BY <2>1, <2>2, <2>3 DEF Held, Session, Committed
  <2>4. CASE ~isUnlocked
    <3>1. ~Committed /\ ~Committed'
      BY <2>1, <2>4 DEF IInv, Opens, Committed
    <3>2. Committed' = Committed
      BY <2>1, <2>4, <3>1 DEF IInv, TypeOK, Operation, Committed
    <3> QED BY <2>1, <2>2, <3>1, <3>2 DEF Held
  <2> QED BY <2>3, <2>4
<1>2. CASE UpdateVaultFails
  <2>1. /\ op # Free /\ op'.keyrings = op.keyrings /\ op'.unsupported = op.unsupported
        /\ op'.isUnlocked = op.isUnlocked /\ op' # Free /\ UNCHANGED <<vault, disk>>
    BY <1>2 DEF UpdateVaultFails, Free, IInv, TypeOK, Operation
  <2> QED BY <2>1 DEF Held, Session, Committed
<1>3. CASE Rollback
  <2>1. /\ op # Free /\ op' = Free /\ UNCHANGED <<vault, disk, isUnlocked>>
        /\ op.stage = "undo"
    BY <1>3 DEF Rollback, Free
  <2>2. Session' = Session /\ Committed' = isUnlocked /\ Committed = op.isUnlocked
    BY <1>3, <2>1, RollbackRestores DEF Session, Committed
  <2>3. CASE op.isUnlocked
    BY <2>1, <2>2, <2>3 DEF IInv, Opens, Held
  <2>4. CASE ~op.isUnlocked /\ ~isUnlocked
    BY <2>1, <2>2, <2>4 DEF Held
  <2>5. CASE ~op.isUnlocked /\ isUnlocked
    <3>1. ToSet(vault.keyrings) = {}
      BY <2>1, <2>5 DEF IInv, Opens, NoVault, ToSet
    <3>2. Session = {}
      BY <3>1 DEF IInv, SessionFits
    <3> QED BY <2>1, <2>2, <2>5, <3>1, <3>2 DEF Held
  <2> QED BY <2>3, <2>4, <2>5
<1>4. CASE Acquires
  <2>1. PICK kind, subject, threw :
          Acquire(kind, subject, threw) /\ UNCHANGED <<mirror, vault, disk>>
    BY <1>4 DEF Acquires
  <2>2. /\ op = Free /\ op' # Free
        /\ op'.keyrings = SerializedOf(keyrings) /\ op'.unsupported = unsupported
        /\ op'.isUnlocked = isUnlocked
    BY <2>1 DEF Acquire, Free
  <2>3. op'.keyrings \o op'.unsupported = GetSerializedKeyrings
    BY <2>2 DEF GetSerializedKeyrings
  <2> QED BY <2>1, <2>2, <2>3 DEF Held, Session, Committed
<1>5. CASE Outside
  <2>1. GetSerializedKeyrings' = GetSerializedKeyrings
    BY <1>5 DEF Outside, GetSerializedKeyrings
  <2> QED BY <1>5, <2>1 DEF Outside, Held, Session, Committed
<1>6. CASE SetLocked
  BY <1>6 DEF SetLocked, AcquireAndEnd, Held, Committed
<1>7. ASSUME NEW p \in Passwords, SubmitPassword(p)
      PROVE  /\ ToSet(vault'.keyrings) # {} /\ Held' = ToSet(vault'.keyrings) /\ Committed'
             /\ ToSet(disk'.keyrings) = ToSet(disk.keyrings)
  <2>1. /\ op' = Free /\ isUnlocked' = TRUE /\ vault # NoVault /\ UNCHANGED <<vault, disk>>
    BY <1>7 DEF SubmitPassword, AcquireAndEnd
  <2>2. ToSet(GetSerializedKeyrings') = ToSet(vault.keyrings)
    BY <1>7, SubmitRestores
  <2>3. ToSet(vault.keyrings) # {}
    <3>1. vault.keyrings \in Seq(Keyring) /\ vault.keyrings # <<>>
      BY <2>1 DEF IInv, TypeOK, Vault
    <3>2. 1 \in DOMAIN vault.keyrings
      BY <3>1, EmptySeq, LenProperties
    <3> QED BY <3>2 DEF ToSet
  <2> QED BY <2>1, <2>2, <2>3 DEF Held, Session, Committed
<1>8. CASE Persist
  <2>1. GetSerializedKeyrings' = GetSerializedKeyrings /\ op' = op /\ isUnlocked' = isUnlocked
    BY <1>8 DEF Persist, memory, GetSerializedKeyrings
  <2> QED BY <1>8, <2>1 DEF Persist, Held, Session, Committed
<1>9. CASE Restart
  BY <1>9 DEF Restart, Held, Committed
<1> QED BY <1>1, <1>2, <1>3, <1>4, <1>5, <1>6, <1>7, <1>8, <1>9, StepKinds

LEMMA NextRefines ==
    IInv /\ [Next]_vars =>
        [Promise!Next]_<<ToSet(vault.keyrings), ToSet(disk.keyrings),
                         IF ~Committed THEN {}
                         ELSE ToSet(IF op = Free THEN GetSerializedKeyrings
                                    ELSE op.keyrings \o op.unsupported),
                         Committed>>
BY StepRefines
   DEF Held, Session, Promise!Next, Promise!Commit, Promise!CommitLocked, Promise!Lock,
       Promise!Unlock, Promise!OpenWithoutVault, Promise!Save, Promise!Restart

\* An operation reaches what the open session would save and the vault together
\* or not at all, whatever fails, and a restart goes back to what was saved.
THEOREM Refinement == Spec => VaultIsAtomic
<1> QED BY InitRefines, NextRefines, Invariance, PTL DEF Spec, VaultIsAtomic, Promise!Spec
=============================================================================
