-------------------------- MODULE SiteAccountsProofs --------------------------
(***************************************************************************)
(* Theorems about SiteAccounts, for all wallets, accounts and sites.       *)
(***************************************************************************)
EXTENDS SiteAccounts, FilterProofs, FiniteSetTheorems

-----------------------------------------------------------------------------
(* AccountsController's state, and the keyrings it follows *)

KeyringsOK(ks) ==
    /\ DOMAIN ks \subseteq Wallets
    /\ \A w \in DOMAIN ks :
          /\ ks[w] # <<>> /\ ks[w] \in Seq(ToSet(Derived[w]))
          /\ Len(ks[w]) <= Len(Derived[w])

AccountsOK(s) == AccountsTypeOK(s, Wallets, Accounts)

Follows(s, ks) == s.wallets = DOMAIN ks /\ s.accounts = AccountsIn(ks)

Lists(s, ks) == \A w \in DOMAIN ks : ToSet(ks[w]) \cap listAccounts(s) # {}

SelectedIn(s) == s.account \in listAccounts(s) /\ s.wallet \in s.wallets

\* Only the selection differs.
SameAccounts(s, r) == r.wallets = s.wallets /\ r.accounts = s.accounts /\ r.deleted = s.deleted

LEMMA KeyringsInAccounts ==
    ASSUME NEW ks, KeyringsOK(ks)
    PROVE  /\ AccountsIn(ks) \subseteq Accounts
           /\ \A w \in DOMAIN ks : ks[w] \in Seq(Accounts)
<1>1. \A w \in DOMAIN ks : w \in Wallets /\ ks[w] \in Seq(ToSet(Derived[w]))
  BY DEF KeyringsOK
<1>2. \A w \in Wallets : ToSet(Derived[w]) \subseteq Accounts
  BY DEF Accounts
<1>3. ASSUME NEW w \in DOMAIN ks
      PROVE  ks[w] \in Seq(Accounts) /\ ToSet(ks[w]) \subseteq Accounts
  <2> DEFINE D == ToSet(Derived[w])
  <2>1. ks[w] \in Seq(D) /\ D \subseteq Accounts
    BY <1>1, <1>2
  <2> HIDE DEF D
  <2>2. ks[w] \in Seq(Accounts)
    BY <2>1
  <2>3. ToSet(ks[w]) \subseteq D
    BY <2>1, LenProperties DEF ToSet
  <2> QED BY <2>1, <2>2, <2>3
<1> QED BY <1>3 DEF AccountsIn

\* The accounts of s that are first and listed.
LEMMA FirstListedFound ==
    ASSUME NEW ks, KeyringsOK(ks), NEW s, NEW w \in DOMAIN ks
    PROVE  \/ FirstListed(s, w, ks) = 0 /\ ToSet(ks[w]) \cap listAccounts(s) = {}
           \/ FirstListed(s, w, ks) # 0 /\ ks[w][FirstListed(s, w, ks)] \in listAccounts(s)
<1> DEFINE l == ks[w]
           Q == listAccounts(s)
<1>1. l \in Seq(Accounts)
  BY KeyringsInAccounts
<1> HIDE DEF l, Q
<1>2. \/ FirstIn(l, Q) = 0 /\ ToSet(l) \cap Q = {}
      \/ FirstIn(l, Q) # 0 /\ l[FirstIn(l, Q)] \in Q
  BY <1>1, FirstInCases
<1> QED BY <1>2 DEF l, Q, FirstListed

LEMMA SelectAccountEffect ==
    ASSUME NEW s, AccountsOK(s), NEW a \in Accounts \cup {None}, NEW r, r = [s EXCEPT !.account = a]
    PROVE  AccountsOK(r) /\ SameAccounts(s, r) /\ r.account = a /\ r.wallet = s.wallet
BY DEF AccountsOK, AccountsTypeOK, SameAccounts

LEMMA AnnouncedEffect ==
    ASSUME NEW s, AccountsOK(s), NEW a \in Accounts, NEW r, r = setSelectedAccount(s, a)
    PROVE  AccountsOK(r) /\ SameAccounts(s, r) /\ r.account = a /\ r.wallet = s.wallet
<1>1. /\ s \in [wallets : SUBSET Wallets, accounts : SUBSET Accounts, deleted : SUBSET Accounts,
                wallet : Wallets \cup {None}, account : Accounts \cup {None}, announced : Seq(Accounts)]
      /\ s.deleted \subseteq s.accounts
  BY DEF AccountsOK, AccountsTypeOK
<1> DEFINE l == Append(s.announced, a)
<1>2. l \in Seq(Accounts)
  BY <1>1, AppendProperties
<1>3. r = [s EXCEPT !.account = a, !.announced = l]
  BY DEF setSelectedAccount
<1> HIDE DEF l
<1> QED BY <1>1, <1>2, <1>3 DEF AccountsOK, AccountsTypeOK, SameAccounts

\* setSelectedWallet selects the wallet and, when it selects an account, a
\* listed one.
LEMMA SelectWalletEffect ==
    ASSUME NEW s, AccountsOK(s), NEW ks, KeyringsOK(ks), NEW w \in DOMAIN ks,
           NEW r, r = setSelectedWallet(s, w, ks)
    PROVE  /\ AccountsOK(r) /\ SameAccounts(s, r) /\ r.wallet = w
           /\ r.account = s.account \/ r.account \in listAccounts(r)
           /\ ToSet(ks[w]) \cap listAccounts(s) # {} =>
                 \/ r.account \in listAccounts(r)
                 \/ r.account = s.account /\ ToSet(ks[w]) = {s.account}
<1> DEFINE i == FirstListed(s, w, ks)
           a == ks[w][i]
<1>1. \/ i = 0 /\ ToSet(ks[w]) \cap listAccounts(s) = {}
      \/ i # 0 /\ a \in listAccounts(s)
  BY FirstListedFound
<1>2. w \in Wallets
  BY DEF KeyringsOK
<1>3. r = IF i # 0 /\ ToSet(ks[w]) # {s.account}
          THEN setSelectedAccount([s EXCEPT !.wallet = w], a) ELSE [s EXCEPT !.wallet = w]
  BY DEF setSelectedWallet, SelectsAccount
<1>4. /\ s \in [wallets : SUBSET Wallets, accounts : SUBSET Accounts, deleted : SUBSET Accounts,
                wallet : Wallets \cup {None}, account : Accounts \cup {None}, announced : Seq(Accounts)]
      /\ s.deleted \subseteq s.accounts
  BY DEF AccountsOK, AccountsTypeOK
<1> HIDE DEF i, a
<1>5. CASE i # 0 /\ ToSet(ks[w]) # {s.account}
  <2> DEFINE t == [s EXCEPT !.wallet = w]
  <2>1. r = setSelectedAccount(t, a) /\ a \in listAccounts(s)
    BY <1>1, <1>3, <1>5
  <2>2. a \in Accounts
    BY <1>4, <2>1 DEF listAccounts
  <2>5. AccountsOK(t) /\ SameAccounts(s, t) /\ t.wallet = w
    BY <1>2, <1>4 DEF AccountsOK, AccountsTypeOK, SameAccounts
  <2> HIDE DEF t
  <2>3. AccountsOK(r) /\ SameAccounts(s, r) /\ r.wallet = w /\ r.account = a
    BY <2>1, <2>2, <2>5, AnnouncedEffect DEF SameAccounts
  <2>4. listAccounts(r) = listAccounts(s)
    BY <2>3 DEF SameAccounts, listAccounts
  <2> QED BY <2>1, <2>3, <2>4
<1>6. CASE ~(i # 0 /\ ToSet(ks[w]) # {s.account})
  <2>1. r = [s EXCEPT !.wallet = w]
    BY <1>3, <1>6
  <2>2. AccountsOK(r) /\ SameAccounts(s, r) /\ r.wallet = w /\ r.account = s.account
    BY <1>2, <1>4, <2>1 DEF AccountsOK, AccountsTypeOK, SameAccounts
  <2> QED BY <1>1, <1>6, <2>2
<1> QED BY <1>5, <1>6

\* What SelectionStaysListed needs of a state before it is repaired.
NotDeleted(s) == s.account \in s.accounts => s.account \in listAccounts(s)

LEMMA RepairedEffect ==
    ASSUME NEW s, AccountsOK(s), NEW ks, KeyringsOK(ks), Follows(s, ks), NEW r \in Repaired(s, ks)
    PROVE  /\ AccountsOK(r) /\ SameAccounts(s, r)
           /\ NotDeleted(s) /\ Lists(s, ks) => SelectedIn(r)
<1>0. s.accounts \subseteq Accounts
  BY DEF AccountsOK, AccountsTypeOK
<1>1. CASE s.wallet \notin s.wallets
  <2>1. PICK w \in s.wallets : r = setSelectedWallet(s, w, ks)
    BY <1>1 DEF Repaired
  <2>2. w \in DOMAIN ks
    BY DEF Follows
  <2>3. /\ AccountsOK(r) /\ SameAccounts(s, r) /\ r.wallet = w
        /\ ToSet(ks[w]) \cap listAccounts(s) # {} =>
                 \/ r.account \in listAccounts(r)
                 \/ r.account = s.account /\ ToSet(ks[w]) = {s.account}
    <3> DEFINE q == setSelectedWallet(s, w, ks)
    <3>1. /\ AccountsOK(q) /\ SameAccounts(s, q) /\ q.wallet = w
          /\ ToSet(ks[w]) \cap listAccounts(s) # {} =>
                 \/ q.account \in listAccounts(q)
                 \/ q.account = s.account /\ ToSet(ks[w]) = {s.account}
      BY <2>2, SelectWalletEffect
    <3> HIDE DEF q
    <3> QED BY <2>1, <3>1 DEF q
  <2>4. listAccounts(r) = listAccounts(s)
    BY <2>3 DEF SameAccounts, listAccounts
  <2>5. ASSUME Lists(s, ks) PROVE SelectedIn(r)
    <3>1. ToSet(ks[w]) \cap listAccounts(s) # {}
      BY <2>2, <2>5 DEF Lists
    <3>2. r.account \in listAccounts(r)
      BY <2>3, <2>4, <3>1
    <3>3. r.wallet \in r.wallets
      BY <2>1, <2>3 DEF SameAccounts
    <3> QED BY <3>2, <3>3 DEF SelectedIn
  <2> QED BY <2>3, <2>5
<1>2. CASE s.wallet \in s.wallets /\ s.account \notin s.accounts /\ listAccounts(s) # {}
  <2>1. PICK a \in listAccounts(s) : r = setSelectedAccount(s, a)
    BY <1>2 DEF Repaired
  <2>2. a \in Accounts
    BY <1>0 DEF listAccounts
  <2>3. AccountsOK(r) /\ SameAccounts(s, r) /\ r.account = a /\ r.wallet = s.wallet
    BY <2>1, <2>2, AnnouncedEffect
  <2>4. SelectedIn(r)
    BY <1>2, <2>3 DEF SelectedIn, SameAccounts, listAccounts
  <2> QED BY <2>3, <2>4
<1>3. CASE s.wallet \in s.wallets /\ s.account \notin s.accounts /\ listAccounts(s) = {}
  <2>1. r = [s EXCEPT !.account = None]
    BY <1>3 DEF Repaired
  <2>2. AccountsOK(r) /\ SameAccounts(s, r)
    BY <2>1, SelectAccountEffect
  <2>3. ~Lists(s, ks)
    BY <1>3 DEF Lists, Follows
  <2> QED BY <2>2, <2>3
<1>4. CASE s.wallet \in s.wallets /\ s.account \in s.accounts
  <2>1. r = s
    BY <1>4 DEF Repaired
  <2> QED BY <1>4, <2>1 DEF SameAccounts, NotDeleted, SelectedIn
<1> QED BY <1>1, <1>2, <1>3, <1>4

\* The accounts and wallets of s become those of the keyrings.
Synced(s, ks) == [s EXCEPT !.wallets = DOMAIN ks, !.accounts = AccountsIn(ks),
                           !.deleted = @ \cap AccountsIn(ks)]

LEMMA SyncedEffect ==
    ASSUME NEW s, AccountsOK(s), NEW ks, KeyringsOK(ks), NEW t, t = Synced(s, ks)
    PROVE  /\ AccountsOK(t) /\ Follows(t, ks) /\ t.deleted = s.deleted \cap AccountsIn(ks)
           /\ t.account = s.account /\ t.wallet = s.wallet
           /\ s.account \in listAccounts(s) => NotDeleted(t)
<1>1. AccountsIn(ks) \subseteq Accounts /\ DOMAIN ks \subseteq Wallets
  BY KeyringsInAccounts DEF KeyringsOK
<1>2. /\ s \in [wallets : SUBSET Wallets, accounts : SUBSET Accounts, deleted : SUBSET Accounts,
                wallet : Wallets \cup {None}, account : Accounts \cup {None}, announced : Seq(Accounts)]
      /\ s.deleted \subseteq s.accounts
  BY DEF AccountsOK, AccountsTypeOK
<1>3. /\ t.wallets = DOMAIN ks /\ t.accounts = AccountsIn(ks) /\ t.deleted = s.deleted \cap AccountsIn(ks)
      /\ t.account = s.account /\ t.wallet = s.wallet
  BY <1>2 DEF Synced
<1>4. AccountsOK(t)
  BY <1>1, <1>2, <1>3 DEF Synced, AccountsOK, AccountsTypeOK
<1>5. s.account \in listAccounts(s) => NotDeleted(t)
  BY <1>3 DEF listAccounts, NotDeleted
<1> QED BY <1>3, <1>4, <1>5 DEF Follows

\* What a state that follows the keyrings keeps when only its selection
\* changes.
LEMMA SameFollows ==
    ASSUME NEW s, NEW r, NEW ks, SameAccounts(s, r)
    PROVE  /\ listAccounts(r) = listAccounts(s)
           /\ Follows(s, ks) => Follows(r, ks)
           /\ Lists(r, ks) <=> Lists(s, ks)
BY DEF SameAccounts, listAccounts, Follows, Lists

LEMMA HandleEffect ==
    ASSUME NEW s, AccountsOK(s), NEW ks, KeyringsOK(ks), NEW r \in handleOnKeyringStateChange(s, ks)
    PROVE  /\ AccountsOK(r) /\ Follows(r, ks) /\ r.deleted \subseteq s.deleted
           /\ SelectedIn(s) /\ Lists(r, ks) => SelectedIn(r)
<1> DEFINE t == Synced(s, ks)
           newWallets == DOMAIN ks \ s.wallets
           newAccounts == AccountsIn(ks) \ s.accounts
<1>1. /\ AccountsOK(t) /\ Follows(t, ks) /\ t.deleted = s.deleted \cap AccountsIn(ks)
      /\ t.account = s.account /\ t.wallet = s.wallet
      /\ s.account \in listAccounts(s) => NotDeleted(t)
  BY SyncedEffect
<1>2. handleOnKeyringStateChange(s, ks) =
        CASE newWallets # {} ->
                 UNION {{setSelectedWallet(q, w, ks) : q \in Repaired([t EXCEPT !.wallet = w], ks)} :
                           w \in newWallets}
          [] newWallets = {} /\ newAccounts # {} ->
                 UNION {Repaired(setSelectedAccount(t, a), ks) : a \in newAccounts}
          [] OTHER -> Repaired(t, ks)
  BY DEF handleOnKeyringStateChange, Synced
<1> HIDE DEF t
<1>3. /\ newWallets # {} => \E w \in newWallets : \E q \in Repaired([t EXCEPT !.wallet = w], ks) :
                                r = setSelectedWallet(q, w, ks)
      /\ newWallets = {} /\ newAccounts # {} =>
            \E a \in newAccounts : r \in Repaired(setSelectedAccount(t, a), ks)
      /\ newWallets = {} /\ newAccounts = {} => r \in Repaired(t, ks)
  <2> DEFINE H == handleOnKeyringStateChange(s, ks)
  <2>1. r \in H
    OBVIOUS
  <2>2. /\ newWallets # {} =>
              H = UNION {{setSelectedWallet(q, w, ks) : q \in Repaired([t EXCEPT !.wallet = w], ks)} :
                           w \in newWallets}
        /\ newWallets = {} /\ newAccounts # {} =>
              H = UNION {Repaired(setSelectedAccount(t, a), ks) : a \in newAccounts}
        /\ newWallets = {} /\ newAccounts = {} => H = Repaired(t, ks)
    <3> HIDE DEF newWallets, newAccounts
    <3> QED BY <1>2
  <2> HIDE DEF newWallets, newAccounts, H
  <2>3. CASE newWallets # {}
    <3>1. r \in UNION {{setSelectedWallet(q, w, ks) : q \in Repaired([t EXCEPT !.wallet = w], ks)} :
                           w \in newWallets}
      BY <2>1, <2>2, <2>3
    <3> QED BY <2>3, <3>1
  <2>4. CASE newWallets = {} /\ newAccounts # {}
    BY <2>1, <2>2, <2>4
  <2>5. CASE newWallets = {} /\ newAccounts = {}
    BY <2>1, <2>2, <2>5
  <2> QED BY <2>3, <2>4, <2>5
<1>4. s.deleted \subseteq s.accounts /\ DOMAIN ks \subseteq Wallets /\ AccountsIn(ks) \subseteq Accounts
  BY KeyringsInAccounts DEF AccountsOK, AccountsTypeOK, KeyringsOK
<1>5. CASE newWallets # {}
  <2>1. PICK w \in newWallets : \E q \in Repaired([t EXCEPT !.wallet = w], ks) :
                                   r = setSelectedWallet(q, w, ks)
    BY <1>3, <1>5
  <2> DEFINE u == [t EXCEPT !.wallet = w]
  <2>2. w \in DOMAIN ks /\ w \in Wallets
    BY <1>4
  <2>3. AccountsOK(u) /\ SameAccounts(t, u) /\ u.account = t.account
    BY <1>1, <2>2 DEF AccountsOK, AccountsTypeOK, SameAccounts
  <2>4. PICK q \in Repaired(u, ks) : r = setSelectedWallet(q, w, ks)
    BY <2>1
  <2> HIDE DEF u
  <2>5. Follows(u, ks)
    BY <1>1, <2>3, SameFollows
  <2>6. AccountsOK(q) /\ SameAccounts(u, q) /\ (NotDeleted(u) /\ Lists(u, ks) => SelectedIn(q))
    BY <2>3, <2>4, <2>5, RepairedEffect
  <2>7. /\ AccountsOK(r) /\ SameAccounts(q, r) /\ r.wallet = w
        /\ r.account = q.account \/ r.account \in listAccounts(r)
    BY <2>2, <2>4, <2>6, SelectWalletEffect
  <2>8. Follows(r, ks) /\ r.deleted = t.deleted
    BY <2>3, <2>5, <2>6, <2>7, SameFollows DEF SameAccounts
  <2>9. ASSUME SelectedIn(s), Lists(r, ks) PROVE SelectedIn(r)
    <3>1. NotDeleted(u)
      BY <1>1, <2>3, <2>9 DEF SelectedIn, NotDeleted, SameAccounts, listAccounts
    <3>2. Lists(u, ks)
      BY <2>6, <2>7, <2>9, SameFollows
    <3>3. q.account \in listAccounts(q)
      BY <2>6, <3>1, <3>2 DEF SelectedIn
    <3>4. r.account \in listAccounts(r)
      BY <2>7, <3>3 DEF SameAccounts, listAccounts
    <3>5. r.wallet \in r.wallets
      BY <2>2, <2>7, <2>8 DEF Follows
    <3> QED BY <3>4, <3>5 DEF SelectedIn
  <2> QED BY <1>1, <2>7, <2>8, <2>9
<1>6. CASE newWallets = {} /\ newAccounts # {}
  <2>1. PICK a \in newAccounts : r \in Repaired(setSelectedAccount(t, a), ks)
    BY <1>3, <1>6
  <2> DEFINE u == setSelectedAccount(t, a)
  <2>2. a \in Accounts
    BY <1>4
  <2>3. AccountsOK(u) /\ SameAccounts(t, u) /\ u.account = a
    BY <1>1, <2>2, AnnouncedEffect
  <2>4. r \in Repaired(u, ks)
    BY <2>1
  <2> HIDE DEF u
  <2>5. Follows(u, ks)
    BY <1>1, <2>3, SameFollows
  <2>6. AccountsOK(r) /\ SameAccounts(u, r) /\ (NotDeleted(u) /\ Lists(u, ks) => SelectedIn(r))
    BY <2>3, <2>4, <2>5, RepairedEffect
  <2>7. Follows(r, ks) /\ r.deleted = t.deleted /\ (Lists(r, ks) => Lists(u, ks))
    BY <2>3, <2>5, <2>6, SameFollows DEF SameAccounts
  <2>8. NotDeleted(u)
    BY <1>1, <1>4, <2>3 DEF NotDeleted, SameAccounts, listAccounts
  <2> QED BY <1>1, <2>6, <2>7, <2>8
<1>7. CASE newWallets = {} /\ newAccounts = {}
  <2>1. r \in Repaired(t, ks)
    BY <1>3, <1>7
  <2>2. AccountsOK(r) /\ SameAccounts(t, r) /\ (NotDeleted(t) /\ Lists(t, ks) => SelectedIn(r))
    BY <1>1, <2>1, RepairedEffect
  <2>3. Follows(r, ks) /\ r.deleted = t.deleted /\ (Lists(r, ks) => Lists(t, ks))
    BY <1>1, <2>2, SameFollows DEF SameAccounts
  <2> QED BY <1>1, <2>2, <2>3 DEF SelectedIn
<1> QED BY <1>5, <1>6, <1>7

\* softDeleteAccountByAddress marks the account, and the selection leaves it.
LEMMA SoftDeleteEffect ==
    ASSUME NEW s, AccountsOK(s), NEW a \in listAccounts(s), NEW r \in softDeleteAccountByAddress(s, a)
    PROVE  /\ AccountsOK(r) /\ r.wallets = s.wallets /\ r.accounts = s.accounts
           /\ r.deleted = s.deleted \cup {a} /\ r.wallet = s.wallet
           /\ s.account \in listAccounts(s) /\ listAccounts(r) # {} => r.account \in listAccounts(r)
<1> DEFINE m == [s EXCEPT !.deleted = @ \cup {a}]
<1>1. /\ s \in [wallets : SUBSET Wallets, accounts : SUBSET Accounts, deleted : SUBSET Accounts,
                wallet : Wallets \cup {None}, account : Accounts \cup {None}, announced : Seq(Accounts)]
      /\ s.deleted \subseteq s.accounts /\ a \in s.accounts /\ a \notin s.deleted
  BY DEF AccountsOK, AccountsTypeOK, listAccounts
<1>2. /\ AccountsOK(m) /\ m.wallets = s.wallets /\ m.accounts = s.accounts
      /\ m.deleted = s.deleted \cup {a} /\ m.wallet = s.wallet /\ m.account = s.account
  BY <1>1 DEF AccountsOK, AccountsTypeOK
<1>3. \/ s.account # a /\ r = m
      \/ s.account = a /\ \E b \in listAccounts(m) : r = setSelectedAccount(m, b)
      \/ s.account = a /\ listAccounts(m) = {} /\ r = [m EXCEPT !.account = None]
  BY DEF softDeleteAccountByAddress
<1> HIDE DEF m
<1>4. CASE s.account # a /\ r = m
  BY <1>2, <1>4 DEF listAccounts
<1>5. CASE s.account = a /\ \E b \in listAccounts(m) : r = setSelectedAccount(m, b)
  <2>1. PICK b \in listAccounts(m) : r = setSelectedAccount(m, b)
    BY <1>5
  <2>2. b \in Accounts
    BY <1>1, <1>2 DEF listAccounts
  <2>3. AccountsOK(r) /\ SameAccounts(m, r) /\ r.account = b /\ r.wallet = m.wallet
    BY <1>2, <2>1, <2>2, AnnouncedEffect
  <2>4. r.account \in listAccounts(r)
    BY <2>3 DEF SameAccounts, listAccounts
  <2> QED BY <1>2, <2>3, <2>4 DEF SameAccounts
<1>6. CASE listAccounts(m) = {} /\ r = [m EXCEPT !.account = None]
  <2>1. AccountsOK(r) /\ SameAccounts(m, r) /\ r.account = None /\ r.wallet = m.wallet
    BY <1>2, <1>6, SelectAccountEffect
  <2>2. listAccounts(r) = {}
    BY <1>6, <2>1 DEF SameAccounts, listAccounts
  <2> QED BY <1>2, <2>1, <2>2 DEF SameAccounts
<1> QED BY <1>3, <1>4, <1>5, <1>6

-----------------------------------------------------------------------------
(* Permissions and pages *)

AccountLists == {l \in Seq(Accounts) : IsInjective(l)}

\* A page that has not asked is sent nothing.
SiteOK(site) ==
    /\ site \in [permission : [Origins -> AccountLists], page : [Origins -> AccountLists \cup {None}],
                 notices : [Origins -> Seq(AccountLists)]]
    /\ \A o \in Origins : site.page[o] = None => site.notices[o] = <<>>

Calm(site) == \A o \in Origins : site.notices[o] = <<>>

\* What is on its way to a page are lists of the accounts of its permission,
\* more than one, in some order: the accounts have not changed since.
Later(l) == {m \in AccountLists : ToSet(m) = ToSet(l) /\ Len(m) >= 2}

Fresh(site) == \A o \in Origins : site.notices[o] \in Seq(Later(site.permission[o]))

\* No site got an account.
Fewer(site, r) == \A o \in Origins : ToSet(r.permission[o]) \subseteq ToSet(site.permission[o])

LastOf(site, o) == IF site.notices[o] = <<>> THEN site.page[o] ELSE Last(site.notices[o])

\* A site whose permission, or whose page's last list, is another one now has a
\* page that is told the permission.
Told(site, r) ==
    \A o \in Origins : \/ r.permission[o] = site.permission[o] /\ LastOf(r, o) = LastOf(site, o)
                       \/ LastOf(r, o) \in {None, r.permission[o]}

LEMMA WithoutElements ==
    ASSUME NEW l \in AccountLists, NEW a
    PROVE  Without(l, a) \in AccountLists /\ ToSet(Without(l, a)) = ToSet(l) \ {a}
<1> DEFINE Q == Accounts \ {a}
<1>1. l \in Seq(Accounts) /\ IsInjective(l)
  BY DEF AccountLists
<1>2. ToSet(l) \subseteq Accounts
  BY <1>1, LenProperties DEF ToSet
<1>3. ToSet(l) \cap Q = ToSet(l) \ {a}
  BY <1>2
<1> HIDE DEF Q
<1>4. /\ Filtered(l, Q) \in Seq(Accounts) /\ IsInjective(Filtered(l, Q))
      /\ ToSet(Filtered(l, Q)) = ToSet(l) \cap Q
  BY <1>1, FilteredProperties
<1> QED BY <1>3, <1>4 DEF Without, AccountLists, Q

LEMMA ContainsIsIn ==
    ASSUME NEW l \in Seq(Accounts), NEW a
    PROVE  Contains(l, a) <=> a \in ToSet(l)
BY LenProperties DEF Contains, ToSet

LEMMA InFrontOfList ==
    ASSUME NEW l \in AccountLists, NEW a
    PROVE  InFront(l, a) \in AccountLists /\ ToSet(InFront(l, a)) = ToSet(l)
<1>1. l \in Seq(Accounts)
  BY DEF AccountLists
<1>2. CASE Contains(l, a)
  <2> DEFINE r == Without(l, a)
  <2>1. a \in ToSet(l) /\ a \in Accounts
    BY <1>1, <1>2, ContainsIsIn, LenProperties DEF ToSet
  <2>2. r \in Seq(Accounts) /\ IsInjective(r) /\ ToSet(r) = ToSet(l) \ {a}
    BY WithoutElements DEF AccountLists
  <2>3. InFront(l, a) = <<a>> \o r
    BY <1>2 DEF InFront
  <2> HIDE DEF r
  <2>4. a \notin ToSet(r)
    BY <2>2
  <2>5. <<a>> \o r \in Seq(Accounts) /\ ToSet(<<a>> \o r) = ToSet(r) \cup {a} /\ IsInjective(<<a>> \o r)
    BY <2>1, <2>2, <2>4, InFrontElements
  <2> QED BY <2>1, <2>2, <2>3, <2>5 DEF AccountLists
<1>3. CASE ~Contains(l, a)
  BY <1>3 DEF InFront
<1> QED BY <1>2, <1>3

LEMMA LastAppended ==
    ASSUME NEW S, NEW s \in Seq(S), NEW e \in S
    PROVE  Append(s, e) # <<>> /\ Last(Append(s, e)) = e
<1> DEFINE t == Append(s, e)
<1>1. t \in Seq(S) /\ Len(t) = Len(s) + 1 /\ Len(s) \in Nat /\ t[Len(s) + 1] = e
  BY AppendProperties, LenProperties
<1> HIDE DEF t
<1>2. t # <<>>
  BY <1>1, EmptySeq
<1>3. Last(t) = e
  BY <1>1 DEF Last
<1> QED BY <1>2, <1>3 DEF t

\* Of the lists of one set of accounts, all have more than one or none has.
LEMMA ShortLists ==
    ASSUME NEW l \in AccountLists, NEW m \in AccountLists, ToSet(l) = ToSet(m), ~(Len(l) >= 2)
    PROVE  ~(Len(m) >= 2) /\ l = m
<1>1. /\ l \in Seq(Accounts) /\ Len(l) \in Nat /\ DOMAIN l = 1 .. Len(l)
      /\ m \in Seq(Accounts) /\ Len(m) \in Nat /\ DOMAIN m = 1 .. Len(m)
  BY LenProperties DEF AccountLists
<1>2. \A i, j \in 1 .. Len(m) : i # j => m[i] # m[j]
  BY <1>1 DEF AccountLists, IsInjective
<1>3. \A i \in 1 .. Len(m) : \E j \in 1 .. Len(l) : m[i] = l[j]
  BY <1>1 DEF ToSet
<1>4. \A i \in 1 .. Len(l) : \E j \in 1 .. Len(m) : l[i] = m[j]
  BY <1>1 DEF ToSet
<1>5. \A i \in 1 .. Len(l) : i = 1
  BY <1>1
<1>6. \A i \in 1 .. Len(m) : m[i] = l[1]
  BY <1>3, <1>5
<1>7. ~(Len(m) >= 2)
  <2> SUFFICES ASSUME Len(m) >= 2 PROVE FALSE
    OBVIOUS
  <2>1. 1 \in 1 .. Len(m) /\ 2 \in 1 .. Len(m)
    BY <1>1
  <2> QED BY <1>2, <1>6, <2>1
<1>8. Len(l) = Len(m)
  <2>1. Len(l) = 0 => Len(m) = 0
    BY <1>1, <1>3
  <2>2. Len(m) = 0 => Len(l) = 0
    BY <1>1, <1>4
  <2>3. \A k, n \in Nat : ~(k >= 2) /\ ~(n >= 2) /\ (k = 0 <=> n = 0) => k = n
    OBVIOUS
  <2> QED BY <1>1, <1>7, <2>1, <2>2, <2>3
<1>9. \A i \in 1 .. Len(l) : l[i] = m[i]
  BY <1>5, <1>6, <1>8
<1>10. l = m
  BY <1>1, <1>8, <1>9, SeqEqual
<1> QED BY <1>7, <1>10

ListsOf(R, lists) == \A o \in R : lists[o] \in AccountLists

\* r is site after the notification of R: who was told at once, who is later.
IsNotified(site, R, lists, r) ==
    /\ SiteOK(r) /\ r.permission = site.permission
    /\ \A o \in Origins :
          /\ ~(o \in R /\ isUnlocked /\ site.page[o] # None) =>
                r.page[o] = site.page[o] /\ r.notices[o] = site.notices[o]
          /\ o \in R /\ isUnlocked /\ site.page[o] # None /\ ~(Len(lists[o]) >= 2) =>
                r.page[o] = lists[o] /\ r.notices[o] = site.notices[o]
          /\ o \in R /\ isUnlocked /\ site.page[o] # None /\ Len(lists[o]) >= 2 =>
                /\ r.page[o] = site.page[o]
                /\ r.notices[o] = Append(site.notices[o], site.permission[o])

LEMMA NotifiedEffect ==
    ASSUME NEW site, SiteOK(site), NEW R, R \subseteq Origins, NEW lists, ListsOf(R, lists),
           NEW r, r = Notified(site, R, lists)
    PROVE  IsNotified(site, R, lists, r)
<1> DEFINE told == {o \in R : isUnlocked /\ site.page[o] # None}
           later == {o \in told : Len(lists[o]) >= 2}
           p == [o \in Origins |-> IF o \in told \ later THEN lists[o] ELSE site.page[o]]
           n == [o \in Origins |-> IF o \in later THEN Append(site.notices[o], site.permission[o])
                                   ELSE site.notices[o]]
<1>1. r = [site EXCEPT !.page = p, !.notices = n]
  BY DEF Notified
<1>2. /\ site \in [permission : [Origins -> AccountLists], page : [Origins -> AccountLists \cup {None}],
                    notices : [Origins -> Seq(AccountLists)]]
      /\ \A o \in Origins : site.page[o] = None => site.notices[o] = <<>>
  BY DEF SiteOK
<1>3. p \in [Origins -> AccountLists \cup {None}]
  BY <1>2 DEF ListsOf
<1>4. \A o \in Origins : Append(site.notices[o], site.permission[o]) \in Seq(AccountLists)
  <2> TAKE o \in Origins
  <2>1. site.notices[o] \in Seq(AccountLists) /\ site.permission[o] \in AccountLists
    BY <1>2
  <2> QED BY <2>1, AppendProperties
<1>5. n \in [Origins -> Seq(AccountLists)]
  BY <1>2, <1>4
<1>6. \A o \in Origins : /\ p[o] = IF o \in told \ later THEN lists[o] ELSE site.page[o]
                         /\ n[o] = IF o \in later THEN Append(site.notices[o], site.permission[o])
                                   ELSE site.notices[o]
  OBVIOUS
<1>7. \A o \in Origins : p[o] = None => n[o] = <<>>
  <2> TAKE o \in Origins
  <2>1. o \in told => p[o] # None
    <3>1. None \notin AccountLists
      BY SiteAccountsOK DEF AccountLists
    <3> QED BY <1>6, <3>1 DEF ListsOf
  <2>2. o \notin told => p[o] = site.page[o] /\ n[o] = site.notices[o]
    BY <1>6
  <2> QED BY <1>2, <2>1, <2>2
<1> HIDE DEF p, n
<1>8. r.page = p /\ r.notices = n /\ r.permission = site.permission
  BY <1>1, <1>2
<1>9. SiteOK(r)
  BY <1>1, <1>2, <1>3, <1>5, <1>7, <1>8 DEF SiteOK
<1> QED BY <1>6, <1>8, <1>9 DEF IsNotified

\* The stateChange event: of an unlocked wallet, every site whose accounts
\* have changed is told.
LEMMA GrantedEffect ==
    ASSUME NEW site, SiteOK(site), NEW lists \in [Origins -> AccountLists], NEW r, r = Granted(site, lists)
    PROVE  /\ SiteOK(r) /\ r.permission = lists
           /\ Calm(site) => Fresh(r) /\ (isUnlocked => Told(site, r))
           /\ Calm(r) => Calm(site)
<1> DEFINE set == [site EXCEPT !.permission = lists]
           changed == {o \in Origins : lists[o] # site.permission[o]}
<1>1. SiteOK(set) /\ set.permission = lists /\ set.page = site.page /\ set.notices = site.notices
  BY DEF SiteOK
<1>2. r = Notified(set, changed, lists)
  BY DEF Granted
<1>3. \A o \in Origins : o \notin changed => lists[o] = site.permission[o]
  OBVIOUS
<1>4. changed \in SUBSET Origins /\ \A o \in changed : lists[o] \in AccountLists
  OBVIOUS
<1> HIDE DEF set, changed
<1>5. /\ SiteOK(r) /\ r.permission = lists
      /\ \A o \in Origins :
            /\ ~(o \in changed /\ isUnlocked /\ site.page[o] # None) =>
                  r.page[o] = site.page[o] /\ r.notices[o] = site.notices[o]
            /\ o \in changed /\ isUnlocked /\ site.page[o] # None /\ ~(Len(lists[o]) >= 2) =>
                  r.page[o] = lists[o] /\ r.notices[o] = site.notices[o]
            /\ o \in changed /\ isUnlocked /\ site.page[o] # None /\ Len(lists[o]) >= 2 =>
                  r.page[o] = site.page[o] /\ r.notices[o] = Append(site.notices[o], lists[o])
  <2>1. changed \subseteq Origins /\ ListsOf(changed, lists)
    BY <1>4 DEF ListsOf
  <2>2. IsNotified(set, changed, lists, r)
    BY <1>1, <1>2, <2>1, NotifiedEffect
  <2> QED BY <1>1, <2>2 DEF IsNotified
<1>6. \A o \in Origins : /\ lists[o] \in AccountLists /\ site.notices[o] \in Seq(AccountLists)
                         /\ Append(site.notices[o], lists[o]) # <<>>
                         /\ Last(Append(site.notices[o], lists[o])) = lists[o]
  <2> TAKE o \in Origins
  <2>1. lists[o] \in AccountLists /\ site.notices[o] \in Seq(AccountLists)
    BY DEF SiteOK
  <2> QED BY <2>1, LastAppended
<1>7. Calm(r) => Calm(site)
  BY <1>5, <1>6 DEF Calm
<1>8. ASSUME Calm(site) PROVE Fresh(r)
  <2> SUFFICES ASSUME NEW o \in Origins PROVE r.notices[o] \in Seq(Later(lists[o]))
    BY <1>5 DEF Fresh
  <2> DEFINE S == Later(lists[o])
  <2>1. <<>> \in Seq(S)
    BY EmptySeq
  <2>2. Len(lists[o]) >= 2 => lists[o] \in S
    BY <1>6 DEF Later
  <2>3. r.notices[o] = <<>> \/ (Len(lists[o]) >= 2 /\ r.notices[o] = Append(<<>>, lists[o]))
    BY <1>5, <1>8 DEF Calm
  <2> HIDE DEF S
  <2>4. Len(lists[o]) >= 2 => Append(<<>>, lists[o]) \in Seq(S)
    BY <2>1, <2>2, AppendProperties
  <2>5. r.notices[o] \in Seq(S)
    BY <2>1, <2>3, <2>4
  <2> QED BY <2>5 DEF S
<1>9. ASSUME Calm(site), isUnlocked PROVE Told(site, r)
  <2> SUFFICES ASSUME NEW o \in Origins
               PROVE  \/ r.permission[o] = site.permission[o] /\ LastOf(r, o) = LastOf(site, o)
                      \/ LastOf(r, o) \in {None, r.permission[o]}
    BY DEF Told
  <2>1. site.notices[o] = <<>>
    BY <1>9 DEF Calm
  <2>2. CASE o \notin changed
    BY <1>3, <1>5, <2>2 DEF LastOf
  <2>3. CASE o \in changed /\ site.page[o] = None
    BY <1>5, <2>1, <2>3 DEF LastOf
  <2>4. CASE o \in changed /\ site.page[o] # None /\ ~(Len(lists[o]) >= 2)
    BY <1>5, <1>9, <2>1, <2>4 DEF LastOf
  <2>5. CASE o \in changed /\ site.page[o] # None /\ Len(lists[o]) >= 2
    BY <1>5, <1>6, <1>9, <2>5 DEF LastOf
  <2> QED BY <2>2, <2>3, <2>4, <2>5
<1> QED BY <1>5, <1>7, <1>8, <1>9

LEMMA WithoutAccountEffect ==
    ASSUME NEW site, SiteOK(site), NEW a, NEW r, r = WithoutAccount(site, a)
    PROVE  /\ SiteOK(r) /\ Fewer(site, r)
           /\ Calm(site) => Fresh(r) /\ (isUnlocked => Told(site, r))
           /\ Calm(r) => Calm(site)
           /\ \A o \in Origins : a \notin ToSet(r.permission[o])
<1> DEFINE lists == [o \in Origins |-> Without(site.permission[o], a)]
<1>1. \A o \in Origins : /\ Without(site.permission[o], a) \in AccountLists
                         /\ ToSet(Without(site.permission[o], a)) = ToSet(site.permission[o]) \ {a}
  <2> TAKE o \in Origins
  <2> DEFINE l == site.permission[o]
  <2>1. l \in AccountLists
    BY DEF SiteOK
  <2> HIDE DEF l
  <2>2. Without(l, a) \in AccountLists /\ ToSet(Without(l, a)) = ToSet(l) \ {a}
    BY <2>1, WithoutElements
  <2> QED BY <2>2 DEF l
<1>2. lists \in [Origins -> AccountLists] /\ \A o \in Origins : ToSet(lists[o]) = ToSet(site.permission[o]) \ {a}
  BY <1>1
<1>3. r = Granted(site, lists)
  BY DEF WithoutAccount
<1> HIDE DEF lists
<1>4. /\ SiteOK(r) /\ r.permission = lists
      /\ Calm(site) => Fresh(r) /\ (isUnlocked => Told(site, r))
      /\ Calm(r) => Calm(site)
  BY <1>2, <1>3, GrantedEffect
<1> QED BY <1>2, <1>4 DEF Fewer

-----------------------------------------------------------------------------
(* Loops, and sequences of them *)

LEMMA ReplacedSeq ==
    ASSUME NEW S, NEW s \in Seq(S), NEW i \in DOMAIN s, NEW e \in S
    PROVE  [s EXCEPT ![i] = e] \in Seq(S)
<1>1. i \in 1 .. Len(s)
  BY LenProperties
<1> QED BY <1>1, ExceptSeq

LEMMA RemovedSeq ==
    ASSUME NEW S, NEW s \in Seq(S), NEW i \in DOMAIN s
    PROVE  RemoveAt(s, i) \in Seq(S)
<1>1. Len(s) \in Nat /\ i \in 1 .. Len(s) /\ \A j \in 1 .. Len(s) : s[j] \in S
  BY LenProperties, ElementOfSeq
<1> DEFINE n == Len(s)
           t == SubSeq(s, 1, i - 1)
           u == SubSeq(s, i + 1, n)
<1>2. t \in Seq(S)
  <2>1. 1 \in Int /\ i - 1 \in Int /\ \A j \in 1 .. i - 1 : s[j] \in S
    BY <1>1
  <2> QED BY <2>1, SubSeqProperties
<1>3. u \in Seq(S)
  <2>1. i + 1 \in Int /\ n \in Int /\ \A j \in i + 1 .. n : s[j] \in S
    BY <1>1
  <2> HIDE DEF n
  <2> QED BY <2>1, SubSeqProperties
<1> HIDE DEF t, u
<1>4. t \o u \in Seq(S)
  BY <1>2, <1>3, ConcatProperties
<1> QED BY <1>4 DEF RemoveAt, t, u

LEMMA HeadAndTail ==
    ASSUME NEW S, NEW s \in Seq(S), s # <<>>
    PROVE  /\ Head(s) \in S /\ Tail(s) \in Seq(S)
           /\ Last(s) = IF Tail(s) = <<>> THEN Head(s) ELSE Last(Tail(s))
<1> DEFINE t == Tail(s)
           n == Len(s)
           h == Head(s)
<1>1. /\ h \in S /\ t \in Seq(S) /\ Len(t) = n - 1 /\ n \in Nat \ {0} /\ h = s[1]
      /\ \A i \in 1 .. Len(t) : t[i] = s[i + 1]
  BY HeadTailProperties, EmptySeq
<1> HIDE DEF t, n, h
<1>2. t = <<>> => n = 1
  BY <1>1, EmptySeq
<1>3. t # <<>> => n - 1 \in 1 .. Len(t) /\ (n - 1) + 1 = n
  BY <1>1, EmptySeq
<1>4. Last(s) = s[n] /\ Last(t) = t[n - 1]
  BY <1>1 DEF Last, n
<1>5. Last(s) = IF t = <<>> THEN h ELSE Last(t)
  BY <1>1, <1>2, <1>3, <1>4
<1> QED BY <1>1, <1>5 DEF t, h

NewLoop == {l \in Loop : l.at = None /\ l.list = <<>>}

\* The list that a loop has read names no deleted account.
LoopWithout(D) == {l \in Loop : IsInjective(l.list) /\ ToSet(l.list) \cap D = {}}

\* And has the accounts of the site's permission.
FreshLoop(p) == {l \in Loop : l.at # None => ToSet(l.list) = ToSet(p[l.at])}

LEMMA NewLoops ==
    ASSUME NEW l \in Seq(NewLoop), NEW D, NEW p
    PROVE  l \in Seq(LoopWithout(D)) /\ l \in Seq(FreshLoop(p))
<1>1. IsInjective(<<>>) /\ ToSet(<<>>) = {}
  BY DEF IsInjective, ToSet
<1>2. NewLoop \subseteq LoopWithout(D) /\ NewLoop \subseteq FreshLoop(p)
  BY <1>1 DEF NewLoop, LoopWithout, FreshLoop
<1> HIDE DEF NewLoop
<1>3. l \in Seq(LoopWithout(D))
  BY <1>2, SeqMonotonic
<1>4. l \in Seq(FreshLoop(p))
  BY <1>2, SeqMonotonic
<1> QED BY <1>3, <1>4

LEMMA StartedLoops ==
    ASSUME NEW announced \in Seq(Accounts), NEW site
    PROVE  Started(announced, site) \in Seq(NewLoop)
<1> DEFINE C == {o \in Origins : site.permission[o] # <<>>}
           e(i) == [account |-> announced[i], sites |-> C, at |-> None, list |-> <<>>]
           n == Len(announced)
           l == [i \in 1 .. n |-> e(i)]
<1>1. n \in Nat /\ DOMAIN announced = 1 .. n /\ \A i \in 1 .. n : announced[i] \in Accounts
  BY LenProperties, ElementOfSeq
<1>2. Started(announced, site) = IF C = {} THEN <<>> ELSE l
  BY <1>1 DEF Started
<1>3. <<>> \in Seq(Accounts) /\ <<>> \in Seq(NewLoop) /\ C \subseteq Origins
  BY EmptySeq
<1> HIDE DEF C, n
<1>4. \A i \in 1 .. n : e(i) \in NewLoop
  BY <1>1, <1>3 DEF NewLoop, Loop
<1>5. l \in [1 .. n -> NewLoop]
  BY <1>4
<1>6. l \in Seq(NewLoop)
  <2> HIDE DEF l
  <2> QED BY <1>1, <1>5
<1> QED BY <1>2, <1>3, <1>6

\* AccountsController takes on a state of next without its announcements.
LEMMA BecomesEffect ==
    ASSUME NEW next, NEW site, Becomes(next, site), \A s \in next : AccountsOK(s)
    PROVE  /\ SiteBecomes(site) /\ loops' \in Seq(NewLoop) /\ AccountsOK(ac')
           /\ \E s \in next : /\ AccountsOK(s) /\ SameAccounts(s, ac')
                              /\ ac'.account = s.account /\ ac'.wallet = s.wallet
<1>1. PICK s \in next : /\ ac' = [s EXCEPT !.announced = <<>>]
                        /\ SiteBecomes(site) /\ loops' = Started(s.announced, site)
  BY DEF Becomes
<1>2. /\ s \in [wallets : SUBSET Wallets, accounts : SUBSET Accounts, deleted : SUBSET Accounts,
                wallet : Wallets \cup {None}, account : Accounts \cup {None}, announced : Seq(Accounts)]
      /\ s.deleted \subseteq s.accounts
  BY DEF AccountsOK, AccountsTypeOK
<1>3. <<>> \in Seq(Accounts)
  BY EmptySeq
<1>4. AccountsOK(ac') /\ SameAccounts(s, ac') /\ ac'.account = s.account /\ ac'.wallet = s.wallet
  BY <1>1, <1>2, <1>3 DEF AccountsOK, AccountsTypeOK, SameAccounts
<1>5. loops' \in Seq(NewLoop)
  BY <1>1, <1>2, StartedLoops
<1> QED BY <1>1, <1>4, <1>5

-----------------------------------------------------------------------------
(* The inductive invariant: TypeOK in parts, with what lets a keyring be     *)
(* restored by its seed, that it is no longer than what the seed derives,    *)
(* and what is known of a turn: nothing that is on its way to a page or has  *)
(* been read by a loop names a deleted account and, until removeWallet goes  *)
(* on, it has the accounts of the site's permission.                         *)

IInv ==
    /\ isUnlocked \in BOOLEAN /\ removing \in Seq(Accounts) /\ operation \in Operation
    /\ KeyringsOK(keyrings) /\ AccountsOK(ac) /\ SiteOK(Now)
    /\ isUnlocked => Follows(ac, keyrings)
    /\ loops \in Seq(LoopWithout(ac.deleted))
    /\ operation # "done" => Fresh(Now) /\ loops \in Seq(FreshLoop(permission))
    /\ DeletedAreNotPermitted

\* What a step does, as the action properties say it.
SelectionStays == isUnlocked /\ isUnlocked' /\ Selected /\ EveryWalletLists' => Selected'

PagesKnow == operation # "done" /\ operation' # "done" => \A o \in Origins : PageKeepsUp(o)

StepOK == IInv' /\ SelectionStays /\ PagesKnow

LEMMA NowBecomes ==
    ASSUME NEW r, SiteOK(r), SiteBecomes(r)
    PROVE  /\ Now' = r /\ permission' = r.permission /\ SiteOK(Now)' /\ (Fresh(r) => Fresh(Now)')
           /\ \A o \in Origins : LastTold(o)' = LastOf(r, o) /\ LastTold(o) = LastOf(Now, o)
<1>1. permission' = r.permission /\ page' = r.page /\ notices' = r.notices
  BY DEF SiteBecomes
<1>2. r = [permission |-> r.permission, page |-> r.page, notices |-> r.notices]
  BY DEF SiteOK
<1>3. Now' = r
  BY <1>1, <1>2 DEF Now
<1>4. SiteOK(Now)' /\ (Fresh(r) => Fresh(Now)')
  BY <1>3 DEF SiteOK, Fresh
<1>5. \A o \in Origins : LastTold(o)' = LastOf(r, o) /\ LastTold(o) = LastOf(Now, o)
  BY <1>1 DEF LastTold, LastOf, Now
<1> QED BY <1>1, <1>3, <1>4, <1>5

LEMMA ToldKeepsUp ==
    ASSUME NEW r, SiteOK(r), SiteBecomes(r), Told(Now, r), NEW o \in Origins
    PROVE  PageKeepsUp(o)
<1>1. permission' = r.permission /\ LastTold(o)' = LastOf(r, o) /\ LastTold(o) = LastOf(Now, o)
  BY NowBecomes
<1>2. Now.permission = permission
  BY DEF Now
<1>3. \/ permission'[o] = permission[o] /\ LastTold(o)' = LastTold(o)
      \/ LastTold(o)' \in {None, permission'[o]}
  BY <1>1, <1>2 DEF Told
<1> QED BY <1>3 DEF PageKeepsUp, KnowsItsAccounts

\* What every step ends with.
LEMMA AnyStep ==
    ASSUME IInv, isUnlocked' \in BOOLEAN, removing' \in Seq(Accounts), operation' \in Operation,
           KeyringsOK(keyrings'), AccountsOK(ac'),
           isUnlocked' => Follows(ac', keyrings'),
           loops' \in Seq(LoopWithout(ac'.deleted)),
           SelectedIn(ac) /\ Lists(ac', keyrings') /\ isUnlocked /\ isUnlocked' => SelectedIn(ac'),
           NEW r, SiteOK(r), SiteBecomes(r),
           \A o \in Origins : ToSet(r.permission[o]) \cap ac'.deleted = {},
           operation' # "done" => Fresh(r) /\ loops' \in Seq(FreshLoop(r.permission)),
           operation # "done" /\ operation' # "done" /\ isUnlocked /\ isUnlocked' => Told(Now, r)
    PROVE  StepOK
<1>1. permission' = r.permission /\ SiteOK(Now)' /\ (Fresh(r) => Fresh(Now)')
  BY NowBecomes
<1>2. DeletedAreNotPermitted'
  BY <1>1 DEF DeletedAreNotPermitted
<1>3. SelectionStays
  BY DEF SelectionStays, Selected, SelectedIn, EveryWalletLists, Lists
<1>4. PagesKnow
  <2> SUFFICES ASSUME operation # "done", operation' # "done", NEW o \in Origins
               PROVE  PageKeepsUp(o)
    BY DEF PagesKnow
  <2>1. CASE isUnlocked /\ isUnlocked'
    BY <2>1, ToldKeepsUp
  <2>2. CASE ~(isUnlocked /\ isUnlocked')
    BY <2>2 DEF PageKeepsUp
  <2> QED BY <2>1, <2>2
<1>5. operation' # "done" => Fresh(Now)' /\ loops' \in Seq(FreshLoop(permission'))
  BY <1>1
<1>6. IInv'
  BY <1>1, <1>2, <1>5 DEF IInv, FreshLoop, LoopWithout
<1> QED BY <1>3, <1>4, <1>6 DEF StepOK

LEMMA SameSite ==
    ASSUME SiteOK(Now)
    PROVE  /\ Fewer(Now, Now) /\ Told(Now, Now) /\ Now.permission = permission
           /\ UNCHANGED <<permission, page, notices>> => SiteBecomes(Now)
BY DEF SiteBecomes, Now, Fewer, Told

LEMMA FewerAreNotDeleted ==
    ASSUME NEW r, Fewer(Now, r), DeletedAreNotPermitted, NEW D, D \subseteq ac.deleted
    PROVE  \A o \in Origins : ToSet(r.permission[o]) \cap D = {}
<1> TAKE o \in Origins
<1>1. ToSet(r.permission[o]) \subseteq ToSet(permission[o])
  BY DEF Fewer, Now
<1>2. ToSet(permission[o]) \cap ac.deleted = {}
  BY DEF DeletedAreNotPermitted
<1> QED BY <1>1, <1>2

LEMMA QuietIsCalm ==
    ASSUME Quiet
    PROVE  Calm(Now) /\ loops = <<>> /\ operation # "due"
BY DEF Quiet, Settled, Calm, Now

\* A site that becomes r in the first stretch of a turn.
Begins(r) ==
    SiteOK(r) /\ SiteBecomes(r) /\ (Calm(Now) => Fresh(r) /\ (isUnlocked => Told(Now, r)))

LEMMA NowBegins ==
    ASSUME IInv, SiteBecomes(Now)
    PROVE  Begins(Now)
<1>1. SiteOK(Now) /\ Told(Now, Now)
  BY SameSite DEF IInv
<1>2. Calm(Now) => Fresh(Now)
  BY EmptySeq DEF Calm, Fresh
<1> QED BY <1>1, <1>2 DEF Begins

\* The first stretch of a turn.
LEMMA BeginStep ==
    ASSUME IInv, Quiet, isUnlocked' \in BOOLEAN, removing' \in Seq(Accounts), operation' \in Operation,
           KeyringsOK(keyrings'), AccountsOK(ac'),
           isUnlocked' => Follows(ac', keyrings'),
           SelectedIn(ac) /\ Lists(ac', keyrings') /\ isUnlocked => SelectedIn(ac'),
           NEW r, Begins(r), loops' \in Seq(NewLoop),
           \A o \in Origins : ToSet(r.permission[o]) \cap ac'.deleted = {}
    PROVE  StepOK
<1>1. loops' \in Seq(LoopWithout(ac'.deleted)) /\ loops' \in Seq(FreshLoop(r.permission))
  BY NewLoops
<1>2. SiteOK(r) /\ SiteBecomes(r) /\ Fresh(r) /\ (isUnlocked => Told(Now, r))
  BY QuietIsCalm DEF Begins
<1> QED BY <1>1, <1>2, AnyStep

\* The same, of a site that gets no account.
LEMMA SelectionStep ==
    ASSUME IInv, Quiet, isUnlocked' \in BOOLEAN, removing' \in Seq(Accounts), operation' \in Operation,
           KeyringsOK(keyrings'), AccountsOK(ac'),
           isUnlocked' => Follows(ac', keyrings'),
           ac'.deleted \subseteq ac.deleted,
           SelectedIn(ac) /\ Lists(ac', keyrings') /\ isUnlocked => SelectedIn(ac'),
           NEW r, Begins(r), Fewer(Now, r), loops' \in Seq(NewLoop)
    PROVE  StepOK
<1>1. \A o \in Origins : ToSet(r.permission[o]) \cap ac'.deleted = {}
  BY FewerAreNotDeleted DEF IInv
<1> QED BY <1>1, BeginStep

\* A keyring operation whose new keyrings AccountsController follows.
LEMMA HandledStep ==
    ASSUME IInv, Quiet, isUnlocked' \in BOOLEAN, removing' \in Seq(Accounts), operation' \in Operation,
           KeyringsOK(keyrings'), Becomes(handleOnKeyringStateChange(ac, keyrings'), Now)
    PROVE  StepOK
<1> DEFINE next == handleOnKeyringStateChange(ac, keyrings')
<1>1. AccountsOK(ac)
  BY DEF IInv
<1>2. \A s \in next : /\ AccountsOK(s) /\ Follows(s, keyrings') /\ s.deleted \subseteq ac.deleted
                      /\ SelectedIn(ac) /\ Lists(s, keyrings') => SelectedIn(s)
  BY <1>1, HandleEffect
<1>3. Becomes(next, Now)
  OBVIOUS
<1> HIDE DEF next
<1>4. SiteBecomes(Now) /\ loops' \in Seq(NewLoop) /\ AccountsOK(ac')
  BY <1>2, <1>3, BecomesEffect
<1>5. PICK s \in next : SameAccounts(s, ac') /\ ac'.account = s.account /\ ac'.wallet = s.wallet
  BY <1>2, <1>3, BecomesEffect
<1>6. /\ Follows(ac', keyrings') /\ (Lists(ac', keyrings') <=> Lists(s, keyrings'))
      /\ ac'.deleted \subseteq ac.deleted
  BY <1>2, <1>5, SameFollows DEF SameAccounts
<1>7. SelectedIn(s) => SelectedIn(ac')
  BY <1>5 DEF SelectedIn, SameAccounts, listAccounts
<1>8. SelectedIn(ac) /\ Lists(ac', keyrings') /\ isUnlocked => SelectedIn(ac')
  BY <1>2, <1>6, <1>7
<1>9. Begins(Now) /\ Fewer(Now, Now)
  BY <1>4, NowBegins, SameSite DEF IInv
<1> QED BY <1>4, <1>6, <1>8, <1>9, SelectionStep

\* A keyring operation of an unlocked wallet, or the unlocking one.
LEMMA UnlockedStep ==
    ASSUME IInv, Quiet, Unlocked(keyrings'), KeyringsOK(keyrings'), removing' = removing
    PROVE  StepOK
<1>1. isUnlocked' = TRUE /\ Becomes(handleOnKeyringStateChange(ac, keyrings'), Now)
  BY DEF Unlocked
<1>2. operation' \in Operation
  BY DEF Unlocked, Operation
<1>3. isUnlocked' \in BOOLEAN /\ removing' \in Seq(Accounts)
  BY <1>1 DEF IInv
<1> QED BY <1>1, <1>2, <1>3, HandledStep

-----------------------------------------------------------------------------
(* The steps of the keyrings *)

LEMMA DerivedAccounts ==
    ASSUME NEW w \in Wallets
    PROVE  /\ Derived[w] \in Seq(ToSet(Derived[w])) /\ Len(Derived[w]) \in Nat \ {0}
           /\ \A n \in 1 .. Len(Derived[w]) : Derived[w][n] \in ToSet(Derived[w])
<1> DEFINE d == Derived[w]
           S == ToSet(d)
<1>1. d \in Seq(S) /\ d # <<>>
  BY SiteAccountsOK
<1> HIDE DEF d
<1>2. DOMAIN d = 1 .. Len(d)
  <2> HIDE DEF S
  <2> QED BY <1>1, LenProperties
<1>3. \A n \in 1 .. Len(d) : d[n] \in S
  BY <1>2 DEF ToSet
<1>4. Len(d) \in Nat \ {0}
  <2> HIDE DEF S
  <2> QED BY <1>1, LenProperties, EmptySeq
<1> QED BY <1>1, <1>3, <1>4 DEF d

\* The first accounts of a seed are a keyring of it.
LEMMA FirstAccounts ==
    ASSUME NEW w \in Wallets, NEW n \in 1 .. Len(Derived[w])
    PROVE  /\ SubSeq(Derived[w], 1, n) \in Seq(ToSet(Derived[w])) /\ SubSeq(Derived[w], 1, n) # <<>>
           /\ Len(SubSeq(Derived[w], 1, n)) <= Len(Derived[w])
<1> DEFINE d == Derived[w]
           S == ToSet(d)
           f == SubSeq(d, 1, n)
<1>1. d \in Seq(S) /\ n \in 1 .. Len(d) /\ \A i \in 1 .. Len(d) : d[i] \in S
  BY DerivedAccounts
<1> HIDE DEF d, S
<1>2. f \in Seq(S) /\ Len(f) = n
  BY <1>1, SubSeqProperties, LenProperties
<1>3. f # <<>> /\ n <= Len(d)
  <2> HIDE DEF f
  <2> QED BY <1>1, <1>2, LenProperties, EmptySeq
<1> QED BY <1>2, <1>3 DEF d, S

LEMMA OneAccount ==
    ASSUME NEW w \in Wallets
    PROVE  /\ <<Derived[w][1]>> \in Seq(ToSet(Derived[w])) /\ <<Derived[w][1]>> # <<>>
           /\ Len(<<Derived[w][1]>>) <= Len(Derived[w])
<1> DEFINE S == ToSet(Derived[w])
           a == Derived[w][1]
           n == Len(Derived[w])
<1>1. a \in S /\ n \in Nat \ {0}
  BY DerivedAccounts
<1> HIDE DEF S, a, n
<1>2. <<a>> \in Seq(S) /\ <<a>> # <<>> /\ Len(<<a>>) <= n
  BY <1>1
<1> QED BY <1>2 DEF S, a, n

LEMMA UnlockStep ==
    ASSUME IInv, Unlock
    PROVE  StepOK
<1>1. keyrings' = [w \in DOMAIN keyrings |-> SubSeq(Derived[w], 1, Len(keyrings[w]))]
  BY DEF Unlock, Unlocked
<1>2. ASSUME NEW w \in DOMAIN keyrings
      PROVE  w \in Wallets /\ Len(keyrings[w]) \in 1 .. Len(Derived[w])
  <2> DEFINE l == keyrings[w]
             S == ToSet(Derived[w])
             n == Len(Derived[w])
  <2>1. w \in Wallets /\ l # <<>> /\ l \in Seq(S) /\ Len(l) <= n
    BY DEF IInv, KeyringsOK
  <2>2. n \in Nat
    BY <2>1, DerivedAccounts
  <2> HIDE DEF l, S, n
  <2>3. Len(l) \in 1 .. n
    BY <2>1, <2>2, LenProperties, EmptySeq
  <2> QED BY <2>1, <2>3 DEF l, n
<1>3. ASSUME NEW w \in DOMAIN keyrings'
      PROVE  /\ w \in Wallets
             /\ keyrings'[w] # <<>> /\ keyrings'[w] \in Seq(ToSet(Derived[w]))
             /\ Len(keyrings'[w]) <= Len(Derived[w])
  <2>1. w \in DOMAIN keyrings /\ keyrings'[w] = SubSeq(Derived[w], 1, Len(keyrings[w]))
    BY <1>1
  <2> DEFINE n == Len(keyrings[w])
  <2>2. w \in Wallets /\ n \in 1 .. Len(Derived[w])
    BY <1>2, <2>1
  <2> HIDE DEF n
  <2>3. /\ SubSeq(Derived[w], 1, n) \in Seq(ToSet(Derived[w])) /\ SubSeq(Derived[w], 1, n) # <<>>
        /\ Len(SubSeq(Derived[w], 1, n)) <= Len(Derived[w])
    BY <2>2, FirstAccounts
  <2> QED BY <2>1, <2>2, <2>3 DEF n
<1>4. KeyringsOK(keyrings')
  BY <1>3 DEF KeyringsOK
<1>5. Quiet /\ Unlocked(keyrings') /\ removing' = removing
  BY DEF Unlock, Unlocked
<1> QED BY <1>4, <1>5, UnlockedStep

LEMMA CreateNewVaultStep ==
    ASSUME IInv, NEW w \in Wallets, CreateNewVault(w)
    PROVE  StepOK
<1>1. keyrings' = [v \in {w} |-> <<Derived[w][1]>>]
  BY DEF CreateNewVault, Unlocked
<1>2. DOMAIN keyrings' = {w} /\ keyrings'[w] = <<Derived[w][1]>>
  BY <1>1
<1>3. KeyringsOK(keyrings')
  BY <1>2, OneAccount DEF KeyringsOK
<1>4. Quiet /\ Unlocked(keyrings') /\ removing' = removing
  BY DEF CreateNewVault, Unlocked
<1> QED BY <1>3, <1>4, UnlockedStep

LEMMA AddNewWalletStep ==
    ASSUME IInv, NEW w \in Wallets, AddNewWallet(w)
    PROVE  StepOK
<1>1. keyrings' = [v \in DOMAIN keyrings \cup {w} |-> IF v = w THEN <<Derived[w][1]>> ELSE keyrings[v]]
  BY DEF AddNewWallet, Unlocked
<1>2. /\ DOMAIN keyrings' = DOMAIN keyrings \cup {w} /\ keyrings'[w] = <<Derived[w][1]>>
      /\ \A v \in DOMAIN keyrings' : v # w => v \in DOMAIN keyrings /\ keyrings'[v] = keyrings[v]
  BY <1>1
<1>3. KeyringsOK(keyrings)
  BY DEF IInv
<1>4. KeyringsOK(keyrings')
  BY <1>2, <1>3, OneAccount DEF KeyringsOK
<1>5. Quiet /\ Unlocked(keyrings') /\ removing' = removing
  BY DEF AddNewWallet, Unlocked
<1> QED BY <1>4, <1>5, UnlockedStep

LEMMA AddNewAccountStep ==
    ASSUME IInv, NEW w \in Wallets, AddNewAccount(w)
    PROVE  StepOK
<1> DEFINE l == keyrings[w]
           S == ToSet(Derived[w])
           N == Len(Derived[w])
           a == Derived[w][Len(l) + 1]
           m == Append(l, a)
<1>1. /\ w \in DOMAIN keyrings /\ Len(l) < N
      /\ keyrings' = [keyrings EXCEPT ![w] = m]
  BY DEF AddNewAccount, Unlocked
<1>2. KeyringsOK(keyrings) /\ l \in Seq(S) /\ N \in Nat
  BY <1>1, DerivedAccounts DEF IInv, KeyringsOK
<1>3. Len(l) + 1 \in 1 .. N
  <2> HIDE DEF l, S, N
  <2> QED BY <1>1, <1>2, LenProperties
<1>4. a \in S
  BY <1>3, DerivedAccounts
<1>5. m \in Seq(S) /\ m # <<>> /\ Len(m) <= N
  <2> HIDE DEF l, S, N, a
  <2> QED BY <1>1, <1>2, <1>3, <1>4, AppendProperties
<1> HIDE DEF m
<1>6. /\ DOMAIN keyrings' = DOMAIN keyrings /\ keyrings'[w] = m
      /\ \A v \in DOMAIN keyrings : v # w => keyrings'[v] = keyrings[v]
  BY <1>1
<1>7. KeyringsOK(keyrings')
  BY <1>2, <1>5, <1>6 DEF KeyringsOK
<1>8. Quiet /\ Unlocked(keyrings') /\ removing' = removing
  BY DEF AddNewAccount, Unlocked
<1> QED BY <1>7, <1>8, UnlockedStep

\* setLocked may come in the middle of a turn.
LEMMA LockStep ==
    ASSUME IInv, Lock
    PROVE  StepOK
<1>1. /\ isUnlocked' = FALSE /\ (removing' = removing \/ removing' = <<>>)
      /\ UNCHANGED <<permission, page, notices>>
      /\ keyrings' = keyrings /\ ac' = ac /\ loops' = loops /\ operation' = operation
  BY DEF Lock
<1>2. /\ KeyringsOK(keyrings') /\ AccountsOK(ac') /\ operation' \in Operation
      /\ loops' \in Seq(LoopWithout(ac'.deleted))
  BY <1>1 DEF IInv
<1>3. removing' \in Seq(Accounts) /\ isUnlocked' \in BOOLEAN
  BY <1>1, EmptySeq DEF IInv
<1>4. SiteOK(Now) /\ Fewer(Now, Now) /\ Now.permission = permission /\ SiteBecomes(Now)
  BY <1>1, SameSite DEF IInv
<1>5. \A o \in Origins : ToSet(Now.permission[o]) \cap ac'.deleted = {}
  BY <1>1, <1>4, FewerAreNotDeleted DEF IInv
<1>6. operation' # "done" => Fresh(Now) /\ loops' \in Seq(FreshLoop(Now.permission))
  BY <1>1, <1>4 DEF IInv
<1> QED BY <1>1, <1>2, <1>3, <1>4, <1>5, <1>6, AnyStep

\* A restart may, too.  Nothing of the turn is left.
LEMMA RestartStep ==
    ASSUME IInv, Restart
    PROVE  StepOK
<1> DEFINE none == [o \in Origins |-> <<>>]
           r == [Now EXCEPT !.notices = none]
<1>1. /\ isUnlocked' = FALSE /\ removing' = <<>> /\ operation' = "none" /\ loops' = <<>>
      /\ notices' = none /\ UNCHANGED <<keyrings, ac, permission, page>>
  BY DEF Restart
<1>2. /\ removing' \in Seq(Accounts) /\ isUnlocked' \in BOOLEAN /\ operation' \in Operation
      /\ loops' \in Seq(NewLoop)
  BY <1>1, EmptySeq DEF Operation
<1>3. KeyringsOK(keyrings') /\ AccountsOK(ac')
  BY <1>1 DEF IInv
<1>4. SiteOK(Now) /\ Fewer(Now, Now) /\ Now.permission = permission
  BY SameSite DEF IInv
<1>5. none \in [Origins -> Seq(AccountLists)] /\ \A o \in Origins : none[o] = <<>>
  BY EmptySeq
<1> HIDE DEF none
<1>6. SiteOK(r) /\ r.notices = none /\ r.permission = permission /\ r.page = page
  BY <1>4, <1>5 DEF SiteOK, Now
<1>7. SiteBecomes(r)
  BY <1>1, <1>6 DEF SiteBecomes
<1>8. Fresh(r)
  BY <1>5, <1>6, EmptySeq DEF Fresh
<1> HIDE DEF r
<1>9. \A o \in Origins : ToSet(r.permission[o]) \cap ac'.deleted = {}
  BY <1>1, <1>4, <1>6, FewerAreNotDeleted DEF IInv, Fewer
<1>10. loops' \in Seq(LoopWithout(ac'.deleted)) /\ loops' \in Seq(FreshLoop(r.permission))
  BY <1>2, NewLoops
<1> QED BY <1>1, <1>2, <1>3, <1>6, <1>7, <1>8, <1>9, <1>10, AnyStep

LEMMA RestoreAccountStep ==
    ASSUME IInv, NEW w \in Wallets, RestoreAccount(w)
    PROVE  StepOK
<1>1. PICK a : ac' = [ac EXCEPT !.deleted = @ \ {a}]
  BY DEF RestoreAccount, restoreDeletedAccountByAddress
<1>2. AccountsOK(ac) /\ (isUnlocked => Follows(ac, keyrings)) /\ KeyringsOK(keyrings)
  BY DEF IInv
<1>3. /\ AccountsOK(ac') /\ ac'.deleted \subseteq ac.deleted
      /\ ac'.wallets = ac.wallets /\ ac'.accounts = ac.accounts
      /\ ac'.wallet = ac.wallet /\ ac'.account = ac.account
  BY <1>1, <1>2 DEF AccountsOK, AccountsTypeOK
<1>4. SelectedIn(ac) => SelectedIn(ac')
  BY <1>3 DEF SelectedIn, listAccounts
<1>5. /\ Quiet /\ UNCHANGED <<permission, page, notices>>
      /\ isUnlocked' = isUnlocked /\ removing' = removing /\ keyrings' = keyrings
      /\ operation' = operation /\ loops' = loops
  BY DEF RestoreAccount
<1>6. KeyringsOK(keyrings') /\ (isUnlocked' => Follows(ac', keyrings'))
  BY <1>2, <1>3, <1>5 DEF Follows
<1>7. isUnlocked' \in BOOLEAN /\ removing' \in Seq(Accounts) /\ operation' \in Operation
  BY <1>5 DEF IInv
<1>8. Begins(Now) /\ Fewer(Now, Now)
  BY <1>5, SameSite, NowBegins DEF IInv
<1>9. loops' \in Seq(NewLoop)
  BY <1>5, QuietIsCalm, EmptySeq
<1> QED BY <1>3, <1>4, <1>5, <1>6, <1>7, <1>8, <1>9, SelectionStep

-----------------------------------------------------------------------------
(* The steps of the account menu *)

\* A selection among the accounts as they are.
LEMMA SelectedStep ==
    ASSUME IInv, Quiet, NEW s, AccountsOK(s), SameAccounts(ac, s), Becomes({s}, Now),
           SelectedIn(ac) /\ isUnlocked => SelectedIn(s),
           UNCHANGED <<isUnlocked, keyrings, removing, operation>>
    PROVE  StepOK
<1>1. /\ SiteBecomes(Now) /\ loops' \in Seq(NewLoop) /\ AccountsOK(ac')
      /\ SameAccounts(s, ac') /\ ac'.account = s.account /\ ac'.wallet = s.wallet
  <2>1. \A t \in {s} : AccountsOK(t)
    OBVIOUS
  <2> DEFINE next == {s}
  <2>2. Becomes(next, Now) /\ \A t \in next : AccountsOK(t)
    BY <2>1
  <2>3. \A t \in next : t = s
    OBVIOUS
  <2> HIDE DEF next
  <2>4. /\ SiteBecomes(Now) /\ loops' \in Seq(NewLoop) /\ AccountsOK(ac')
        /\ \E t \in next : /\ AccountsOK(t) /\ SameAccounts(t, ac')
                           /\ ac'.account = t.account /\ ac'.wallet = t.wallet
    BY <2>2, BecomesEffect
  <2> QED BY <2>3, <2>4
<1>2. ac'.wallets = ac.wallets /\ ac'.accounts = ac.accounts /\ ac'.deleted = ac.deleted
  BY <1>1 DEF SameAccounts
<1>3. SelectedIn(ac) /\ isUnlocked => SelectedIn(ac')
  BY <1>1 DEF SelectedIn, SameAccounts, listAccounts
<1>4. isUnlocked' => Follows(ac', keyrings')
  BY <1>2 DEF IInv, Follows
<1>5. /\ isUnlocked' \in BOOLEAN /\ removing' \in Seq(Accounts) /\ operation' \in Operation
      /\ KeyringsOK(keyrings') /\ ac'.deleted \subseteq ac.deleted
  BY <1>2 DEF IInv
<1>6. Begins(Now) /\ Fewer(Now, Now)
  BY <1>1, SameSite, NowBegins DEF IInv
<1> QED BY <1>1, <1>3, <1>4, <1>5, <1>6, SelectionStep

LEMMA SelectAccountStep ==
    ASSUME IInv, NEW a \in Accounts, SelectAccount(a)
    PROVE  StepOK
<1> DEFINE s == setSelectedAccount(ac, a)
<1>1. /\ Quiet /\ a \in listAccounts(ac) /\ Becomes({s}, Now)
      /\ UNCHANGED <<isUnlocked, keyrings, removing, operation>>
  BY DEF SelectAccount
<1>2. AccountsOK(s) /\ SameAccounts(ac, s) /\ s.account = a /\ s.wallet = ac.wallet
  BY AnnouncedEffect DEF IInv
<1> HIDE DEF s
<1>3. SelectedIn(ac) => SelectedIn(s)
  BY <1>1, <1>2 DEF SelectedIn, SameAccounts, listAccounts
<1> QED BY <1>1, <1>2, <1>3, SelectedStep

LEMMA SelectWalletStep ==
    ASSUME IInv, NEW w \in Wallets, SelectWallet(w)
    PROVE  StepOK
<1> DEFINE s == setSelectedWallet(ac, w, keyrings)
<1>1. /\ Quiet /\ isUnlocked /\ w \in DOMAIN keyrings /\ Becomes({s}, Now)
      /\ UNCHANGED <<isUnlocked, keyrings, removing, operation>>
  BY DEF SelectWallet
<1>2. AccountsOK(ac) /\ KeyringsOK(keyrings) /\ Follows(ac, keyrings)
  BY <1>1 DEF IInv
<1>3. /\ AccountsOK(s) /\ SameAccounts(ac, s) /\ s.wallet = w
      /\ s.account = ac.account \/ s.account \in listAccounts(s)
  BY <1>1, <1>2, SelectWalletEffect
<1> HIDE DEF s
<1>4. SelectedIn(ac) => SelectedIn(s)
  BY <1>1, <1>2, <1>3 DEF SelectedIn, SameAccounts, listAccounts, Follows
<1> QED BY <1>1, <1>3, <1>4, SelectedStep

\* The permissions of the account are gone when it is marked deleted.
LEMMA RemoveAccountStep ==
    ASSUME IInv, NEW a \in Accounts, RemoveAccount(a)
    PROVE  StepOK
<1> DEFINE r == WithoutAccount(Now, a)
           next == softDeleteAccountByAddress(ac, a)
<1>1. /\ Quiet /\ isUnlocked /\ a \in listAccounts(ac) /\ DOMAIN keyrings # {}
      /\ Becomes(next, r)
      /\ isUnlocked' = isUnlocked /\ keyrings' = keyrings /\ removing' = removing
      /\ operation' = operation
  BY DEF RemoveAccount
<1>2. /\ SiteOK(Now) /\ AccountsOK(ac) /\ KeyringsOK(keyrings) /\ Follows(ac, keyrings)
      /\ removing \in Seq(Accounts) /\ isUnlocked \in BOOLEAN /\ operation \in Operation
      /\ DeletedAreNotPermitted
  BY <1>1 DEF IInv
<1>3. /\ SiteOK(r) /\ Fewer(Now, r)
      /\ Calm(Now) => Fresh(r) /\ (isUnlocked => Told(Now, r))
      /\ \A o \in Origins : a \notin ToSet(r.permission[o])
  BY <1>2, WithoutAccountEffect
<1>4. \A s \in next :
        /\ AccountsOK(s) /\ s.wallets = ac.wallets /\ s.accounts = ac.accounts
        /\ s.deleted = ac.deleted \cup {a} /\ s.wallet = ac.wallet
        /\ ac.account \in listAccounts(ac) /\ listAccounts(s) # {} => s.account \in listAccounts(s)
  BY <1>1, <1>2, SoftDeleteEffect
<1> HIDE DEF r, next
<1>5. SiteBecomes(r) /\ loops' \in Seq(NewLoop) /\ AccountsOK(ac')
  BY <1>1, <1>4, BecomesEffect
<1>6. PICK s \in next : SameAccounts(s, ac') /\ ac'.account = s.account /\ ac'.wallet = s.wallet
  BY <1>1, <1>4, BecomesEffect
<1>7. /\ ac'.wallets = ac.wallets /\ ac'.accounts = ac.accounts
      /\ ac'.deleted = ac.deleted \cup {a} /\ ac'.wallet = ac.wallet
      /\ ac.account \in listAccounts(ac) /\ listAccounts(ac') # {} => ac'.account \in listAccounts(ac')
  BY <1>4, <1>6 DEF SameAccounts, listAccounts
<1>8. \A o \in Origins : ToSet(r.permission[o]) \cap ac'.deleted = {}
  <2>1. \A o \in Origins : ToSet(r.permission[o]) \cap ac.deleted = {}
    BY <1>2, <1>3, FewerAreNotDeleted
  <2> QED BY <1>3, <1>7, <2>1
<1>9. Follows(ac', keyrings')
  BY <1>1, <1>2, <1>7 DEF Follows
<1>10. SelectedIn(ac) /\ Lists(ac', keyrings') => SelectedIn(ac')
  <2>1. Lists(ac', keyrings') => listAccounts(ac') # {}
    BY <1>1 DEF Lists
  <2> QED BY <1>7, <2>1 DEF SelectedIn
<1>11. Begins(r)
  BY <1>3, <1>5 DEF Begins
<1>12. /\ isUnlocked' \in BOOLEAN /\ removing' \in Seq(Accounts) /\ operation' \in Operation
       /\ KeyringsOK(keyrings')
  BY <1>1, <1>2
<1> QED BY <1>1, <1>5, <1>8, <1>9, <1>10, <1>11, <1>12, BeginStep

LEMMA RemoveWalletStep ==
    ASSUME IInv, NEW w \in Wallets, RemoveWallet(w)
    PROVE  StepOK
<1> DEFINE r == WithoutAccount(Now, Head(keyrings[w]))
<1>1. /\ Quiet /\ w \in DOMAIN keyrings /\ removing' = keyrings[w] /\ SiteBecomes(r)
      /\ isUnlocked' = isUnlocked /\ keyrings' = keyrings /\ ac' = ac
      /\ loops' = loops /\ operation' = operation
  BY DEF RemoveWallet
<1>2. /\ SiteOK(Now) /\ AccountsOK(ac) /\ KeyringsOK(keyrings) /\ (isUnlocked => Follows(ac, keyrings))
      /\ isUnlocked \in BOOLEAN /\ operation \in Operation
  BY DEF IInv
<1>3. SiteOK(r) /\ Fewer(Now, r) /\ (Calm(Now) => Fresh(r) /\ (isUnlocked => Told(Now, r)))
  BY <1>2, WithoutAccountEffect
<1> HIDE DEF r
<1>4. removing' \in Seq(Accounts)
  BY <1>1, <1>2, KeyringsInAccounts
<1>5. /\ isUnlocked' \in BOOLEAN /\ KeyringsOK(keyrings') /\ AccountsOK(ac') /\ operation' \in Operation
      /\ (isUnlocked' => Follows(ac', keyrings')) /\ ac'.deleted \subseteq ac.deleted
      /\ (SelectedIn(ac) => SelectedIn(ac'))
  BY <1>1, <1>2
<1>6. Begins(r) /\ loops' \in Seq(NewLoop)
  BY <1>1, <1>3, QuietIsCalm, EmptySeq DEF Begins
<1> QED BY <1>1, <1>3, <1>4, <1>5, <1>6, SelectionStep

LEMMA RemovedKeyrings ==
    ASSUME NEW ks, KeyringsOK(ks), NEW a, NEW left, left = RemovedFrom(ks, a)
    PROVE  KeyringsOK(left)
<1> DEFINE L == {w \in DOMAIN ks : Without(ks[w], a) # <<>>}
<1>1. left = [w \in L |-> Without(ks[w], a)]
  BY DEF RemovedFrom
<1>2. ASSUME NEW w \in DOMAIN ks
      PROVE  /\ Without(ks[w], a) \in Seq(ToSet(Derived[w]))
             /\ Len(Without(ks[w], a)) <= Len(Derived[w])
  <2> DEFINE l == ks[w]
             S == ToSet(Derived[w])
             N == Len(Derived[w])
             Q == Accounts \ {a}
  <2>1. l \in Seq(S) /\ Len(l) <= N /\ N \in Nat
    BY DerivedAccounts DEF KeyringsOK
  <2> HIDE DEF l, S, N, Q
  <2>2. Filtered(l, Q) \in Seq(S) /\ Len(Filtered(l, Q)) <= Len(l)
    BY <2>1, FilteredProperties
  <2>3. Len(Filtered(l, Q)) <= N
    BY <2>1, <2>2, LenProperties
  <2> QED BY <2>2, <2>3 DEF Without, l, S, N, Q
<1>3. /\ DOMAIN left \subseteq DOMAIN ks
      /\ \A w \in DOMAIN left : left[w] = Without(ks[w], a) /\ left[w] # <<>>
  BY <1>1
<1> QED BY <1>2, <1>3 DEF KeyringsOK

LEMMA RemoveNextStep ==
    ASSUME IInv, RemoveNext
    PROVE  StepOK
<1>1. /\ Quiet /\ removing # <<>> /\ keyrings' = RemovedFrom(keyrings, Head(removing))
      /\ Becomes(handleOnKeyringStateChange(ac, keyrings'), Now)
      /\ removing' = Tail(removing) /\ isUnlocked' = isUnlocked
  BY DEF RemoveNext
<1>2. KeyringsOK(keyrings')
  BY <1>1, RemovedKeyrings DEF IInv
<1>3. isUnlocked' \in BOOLEAN /\ removing' \in Seq(Accounts)
  BY <1>1, HeadTailProperties DEF IInv
<1>4. operation' \in Operation
  BY DEF RemoveNext, Operation
<1> QED BY <1>1, <1>2, <1>3, <1>4, HandledStep

-----------------------------------------------------------------------------
(* The rest of a turn *)

\* What loops, notifications and removeWallet leave alone in a turn.
LEMMA TurnStep ==
    ASSUME IInv, UNCHANGED <<isUnlocked, keyrings, ac>>,
           removing' \in Seq(Accounts), operation' \in Operation,
           loops' \in Seq(LoopWithout(ac.deleted)),
           NEW r, SiteOK(r), SiteBecomes(r),
           \A o \in Origins : ToSet(r.permission[o]) \cap ac.deleted = {},
           operation' # "done" => Fresh(r) /\ loops' \in Seq(FreshLoop(r.permission)),
           operation # "done" /\ operation' # "done" /\ isUnlocked => Told(Now, r)
    PROVE  StepOK
<1>1. /\ isUnlocked' \in BOOLEAN /\ KeyringsOK(keyrings') /\ AccountsOK(ac')
      /\ isUnlocked' => Follows(ac', keyrings')
      /\ SelectedIn(ac) => SelectedIn(ac')
      /\ loops' \in Seq(LoopWithout(ac'.deleted))
      /\ \A o \in Origins : ToSet(r.permission[o]) \cap ac'.deleted = {}
  BY DEF IInv
<1> QED BY <1>1, AnyStep

\* removeWallet goes on.  Afterwards nothing is promised until the turn ends,
\* unless nothing is left of it.
LEMMA GoOnStep ==
    ASSUME IInv, GoOn
    PROVE  StepOK
<1> DEFINE site == WithoutAccount(Now, Head(removing))
<1>1. PICK r : /\ SiteBecomes(r) /\ (r = Now \/ r = site)
               /\ removing' = removing \/ removing' = <<>>
  BY DEF GoOn
<1>2. /\ operation = "due" /\ operation' = IF Settled(loops, notices') THEN "none" ELSE "done"
      /\ UNCHANGED <<isUnlocked, keyrings, ac, loops>>
  BY DEF GoOn
<1>3. SiteOK(Now) /\ Fewer(Now, Now) /\ Told(Now, Now) /\ (Calm(Now) => Fresh(Now))
  BY SameSite, EmptySeq DEF IInv, Calm, Fresh
<1>4. /\ SiteOK(site) /\ Fewer(Now, site)
      /\ Calm(Now) => Fresh(site) /\ (isUnlocked => Told(Now, site))
      /\ Calm(site) => Calm(Now)
  BY <1>3, WithoutAccountEffect
<1> HIDE DEF site
<1>5. /\ SiteOK(r) /\ Fewer(Now, r)
      /\ Calm(r) => Fresh(r) /\ (isUnlocked => Told(Now, r))
  BY <1>1, <1>3, <1>4
<1>6. operation' \in Operation /\ removing' \in Seq(Accounts)
  BY <1>1, <1>2, EmptySeq DEF IInv, Operation
<1>7. loops' \in Seq(LoopWithout(ac.deleted)) /\ loops' = loops
  BY <1>2 DEF IInv
<1>8. \A o \in Origins : ToSet(r.permission[o]) \cap ac.deleted = {}
  BY <1>5, FewerAreNotDeleted DEF IInv
<1>9. operation' # "done" => loops = <<>> /\ Calm(r)
  BY <1>1, <1>2 DEF Settled, SiteBecomes, Calm
<1>10. operation' # "done" => loops' \in Seq(FreshLoop(r.permission))
  BY <1>7, <1>9, EmptySeq
<1> QED BY <1>1, <1>2, <1>5, <1>6, <1>7, <1>8, <1>9, <1>10, TurnStep

\* A loop that reads has read the permission.
LEMMA LoopReadsStep ==
    ASSUME IInv, NEW i \in DOMAIN loops, LoopReads(i)
    PROVE  StepOK
<1>1. PICK o \in loops[i].sites :
         loops' = [loops EXCEPT ![i] = [loops[i] EXCEPT !.at = o, !.sites = @ \ {o}, !.list = permission[o]]]
  BY DEF LoopReads
<1> DEFINE e == [loops[i] EXCEPT !.at = o, !.sites = @ \ {o}, !.list = permission[o]]
<1>2. /\ UNCHANGED <<isUnlocked, keyrings, ac, permission, page, notices, removing>>
      /\ operation' = operation
  BY DEF LoopReads
<1>3. SiteOK(Now) /\ Told(Now, Now) /\ Fewer(Now, Now) /\ SiteBecomes(Now) /\ Now.permission = permission
  BY <1>2, SameSite DEF IInv
<1>4. loops' = [loops EXCEPT ![i] = e]
  BY <1>1
<1>5. loops[i] \in Loop
  <2> DEFINE S == LoopWithout(ac.deleted)
  <2>1. loops \in Seq(S)
    BY DEF IInv
  <2> HIDE DEF S
  <2>2. loops[i] \in S
    BY <2>1, LenProperties, ElementOfSeq
  <2> QED BY <2>2 DEF S, LoopWithout
<1>6. o \in Origins /\ permission[o] \in AccountLists /\ ToSet(permission[o]) \cap ac.deleted = {}
  <2>1. o \in Origins
    BY <1>5 DEF Loop
  <2> QED BY <2>1 DEF IInv, SiteOK, Now, DeletedAreNotPermitted
<1>7. e \in Loop /\ e.at = o /\ e.list = permission[o]
  BY <1>5, <1>6 DEF Loop, AccountLists
<1> HIDE DEF e
<1>8. e \in LoopWithout(ac.deleted) /\ e \in FreshLoop(permission)
  BY <1>6, <1>7 DEF LoopWithout, FreshLoop, AccountLists
<1>9. loops' \in Seq(LoopWithout(ac.deleted))
  BY <1>4, <1>8, ReplacedSeq DEF IInv
<1>10. operation' # "done" => Fresh(Now) /\ loops' \in Seq(FreshLoop(Now.permission))
  BY <1>2, <1>3, <1>4, <1>8, ReplacedSeq DEF IInv
<1>11. removing' \in Seq(Accounts) /\ operation' \in Operation
  BY <1>2 DEF IInv
<1>12. \A p \in Origins : ToSet(Now.permission[p]) \cap ac.deleted = {}
  BY <1>3, FewerAreNotDeleted DEF IInv
<1> QED BY <1>2, <1>3, <1>9, <1>10, <1>11, <1>12, TurnStep

\* What a loop writes: of a list with the accounts of the permission, it is the
\* permission afterwards, or the page is told the permission later.
LEMMA WrittenEffect ==
    ASSUME SiteOK(Now), NEW loop \in LoopWithout(ac.deleted), loop.at # None,
           NEW r, r = Written(loop)
    PROVE  /\ SiteOK(r)
           /\ DeletedAreNotPermitted => \A o \in Origins : ToSet(r.permission[o]) \cap ac.deleted = {}
           /\ Fresh(Now) /\ loop \in FreshLoop(permission) =>
                 /\ Fresh(r) /\ (isUnlocked => Told(Now, r))
                 /\ \A o \in Origins : ToSet(r.permission[o]) = ToSet(permission[o])
<1> DEFINE at == loop.at
           list == InFront(loop.list, loop.account)
           contains == Contains(list, loop.account)
           site == IF contains THEN [Now EXCEPT !.permission[at] = list] ELSE Now
           lists == [o \in {at} |-> list]
<1>1. /\ at \in Origins /\ loop.list \in AccountLists /\ loop.account \in Accounts
      /\ ToSet(loop.list) \cap ac.deleted = {}
  BY DEF LoopWithout, Loop, AccountLists
<1>2. list \in AccountLists /\ ToSet(list) = ToSet(loop.list)
  BY <1>1, InFrontOfList
<1>3. r = IF list = <<>> THEN Now ELSE Notified(site, {at}, lists)
  BY DEF Written
<1>4. lists[at] = list /\ ListsOf({at}, lists)
  BY <1>2 DEF ListsOf
<1>5. loop \in FreshLoop(permission) => ToSet(list) = ToSet(permission[at])
  BY <1>2 DEF FreshLoop
<1>6. /\ SiteOK(site) /\ site.page = page /\ site.notices = notices
      /\ site.permission[at] = IF contains THEN list ELSE permission[at]
      /\ \A o \in Origins : o # at => site.permission[o] = permission[o]
  <2> HIDE DEF at, list, contains
  <2>1. CASE contains
    <3>1. site = [Now EXCEPT !.permission[at] = list]
      BY <2>1
    <3> HIDE DEF site
    <3>2. /\ Now \in [permission : [Origins -> AccountLists], page : [Origins -> AccountLists \cup {None}],
                      notices : [Origins -> Seq(AccountLists)]]
          /\ \A o \in Origins : Now.page[o] = None => Now.notices[o] = <<>>
          /\ Now.page = page /\ Now.notices = notices /\ Now.permission = permission
      BY DEF SiteOK, Now
    <3>3. /\ site.page = page /\ site.notices = notices
          /\ site.permission = [permission EXCEPT ![at] = list]
      BY <3>1, <3>2
    <3>4. /\ [permission EXCEPT ![at] = list] \in [Origins -> AccountLists]
          /\ [permission EXCEPT ![at] = list][at] = list
          /\ \A o \in Origins : o # at => [permission EXCEPT ![at] = list][o] = permission[o]
      BY <1>1, <1>2, <3>2
    <3>5. site = [permission |-> [permission EXCEPT ![at] = list], page |-> page, notices |-> notices]
      BY <3>1 DEF Now
    <3> QED BY <2>1, <3>2, <3>3, <3>4, <3>5 DEF SiteOK
  <2>2. CASE ~contains
    BY <2>2 DEF Now
  <2> QED BY <2>1, <2>2
<1> HIDE DEF at, list, contains, site, lists
<1>7. permission[at] \in AccountLists /\ \A o \in Origins : permission[o] \in AccountLists
  BY <1>1 DEF SiteOK, Now
<1>8. CASE list = <<>>
  BY <1>3, <1>8, SameSite, FewerAreNotDeleted DEF Fewer
<1>9. CASE list # <<>>
  <2>1. IsNotified(site, {at}, lists, r)
    <3>1. {at} \subseteq Origins
      BY <1>1
    <3> QED BY <1>3, <1>4, <1>6, <1>9, <3>1, NotifiedEffect
  <2>2. /\ SiteOK(r) /\ r.permission = site.permission
        /\ \A o \in Origins :
              ~(o = at /\ isUnlocked /\ page[o] # None) => r.page[o] = page[o] /\ r.notices[o] = notices[o]
        /\ isUnlocked /\ page[at] # None /\ ~(Len(list) >= 2) =>
              r.page[at] = list /\ r.notices[at] = notices[at]
        /\ isUnlocked /\ page[at] # None /\ Len(list) >= 2 =>
              r.page[at] = page[at] /\ r.notices[at] = Append(notices[at], site.permission[at])
    BY <1>1, <1>4, <1>6, <2>1 DEF IsNotified
  <2>3. DeletedAreNotPermitted => \A o \in Origins : ToSet(r.permission[o]) \cap ac.deleted = {}
    BY <1>1, <1>2, <1>6, <2>2 DEF DeletedAreNotPermitted
  <2>4. ASSUME Fresh(Now), loop \in FreshLoop(permission)
        PROVE  /\ Fresh(r) /\ (isUnlocked => Told(Now, r))
               /\ \A o \in Origins : ToSet(r.permission[o]) = ToSet(permission[o])
    <3>1. ToSet(list) = ToSet(permission[at])
      BY <1>5, <2>4
    <3>2. \A o \in Origins : ToSet(r.permission[o]) = ToSet(permission[o])
      BY <1>6, <2>2, <3>1
    <3>3. \A o \in Origins : Later(r.permission[o]) = Later(permission[o])
      BY <3>2 DEF Later
    <3>4. \A o \in Origins : notices[o] \in Seq(Later(permission[o]))
      BY <2>4 DEF Fresh, Now
    <3>5. r.permission[at] \in AccountLists /\ ToSet(r.permission[at]) = ToSet(list)
      BY <1>1, <3>1, <3>2, <2>2 DEF SiteOK
    <3>6. Len(list) >= 2 => Len(r.permission[at]) >= 2
      BY <1>2, <3>5, ShortLists
    <3>7. ~(Len(list) >= 2) => list = r.permission[at] /\ notices[at] = <<>>
      <4> SUFFICES ASSUME ~(Len(list) >= 2) PROVE list = r.permission[at] /\ notices[at] = <<>>
        OBVIOUS
      <4>1. list = r.permission[at]
        BY <1>2, <3>5, ShortLists
      <4>2. ASSUME NEW m \in Later(permission[at]) PROVE FALSE
        <5>1. m \in AccountLists /\ ToSet(m) = ToSet(list) /\ Len(m) >= 2
          BY <3>1, <4>2 DEF Later
        <5> QED BY <1>2, <5>1, ShortLists
      <4>3. Later(permission[at]) = {}
        BY <4>2
      <4>4. notices[at] \in Seq({})
        BY <1>1, <3>4, <4>3
      <4>5. notices[at] = <<>>
        BY <4>4, EmptySeq, HeadTailProperties
      <4> QED BY <4>1, <4>5
    <3>8. Fresh(r)
      <4> SUFFICES ASSUME NEW o \in Origins PROVE r.notices[o] \in Seq(Later(r.permission[o]))
        BY DEF Fresh
      <4>1. CASE r.notices[o] = notices[o]
        BY <3>3, <3>4, <4>1
      <4>2. CASE o = at /\ Len(list) >= 2 /\ r.notices[at] = Append(notices[at], site.permission[at])
        <5> DEFINE S == Later(permission[at])
        <5>1. r.permission[at] \in S
          BY <3>1, <3>5, <3>6, <4>2 DEF Later
        <5>2. notices[at] \in Seq(S)
          BY <1>1, <3>4
        <5> HIDE DEF S
        <5>3. Append(notices[at], r.permission[at]) \in Seq(S)
          BY <5>1, <5>2, AppendProperties
        <5> QED BY <1>1, <2>2, <3>3, <4>2, <5>3 DEF S
      <4> QED BY <2>2, <4>1, <4>2
    <3>9. ASSUME isUnlocked PROVE Told(Now, r)
      <4> SUFFICES ASSUME NEW o \in Origins
                   PROVE  \/ r.permission[o] = permission[o] /\ LastOf(r, o) = LastOf(Now, o)
                          \/ LastOf(r, o) \in {None, r.permission[o]}
        BY DEF Told, Now
      <4>1. CASE o # at
        BY <1>6, <2>2, <4>1 DEF LastOf, Now
      <4>2. CASE o = at /\ page[at] = None
        <5>1. notices[at] = <<>>
          BY <1>1, <4>2 DEF SiteOK, Now
        <5> QED BY <2>2, <4>2, <5>1 DEF LastOf
      <4>3. CASE o = at /\ page[at] # None /\ ~(Len(list) >= 2)
        BY <2>2, <3>7, <3>9, <4>3 DEF LastOf
      <4>4. CASE o = at /\ page[at] # None /\ Len(list) >= 2
        <5>1. notices[at] \in Seq(AccountLists) /\ r.notices[at] = Append(notices[at], r.permission[at])
          BY <1>1, <2>2, <3>9, <4>4 DEF SiteOK, Now
        <5>2. r.notices[at] # <<>> /\ Last(r.notices[at]) = r.permission[at]
          BY <3>5, <5>1, LastAppended
        <5> QED BY <4>4, <5>2 DEF LastOf
      <4> QED BY <4>1, <4>2, <4>3, <4>4
    <3> QED BY <3>2, <3>8, <3>9
  <2> QED BY <2>2, <2>3, <2>4
<1> QED BY <1>8, <1>9

LEMMA LoopWritesStep ==
    ASSUME IInv, NEW i \in DOMAIN loops, LoopWrites(i)
    PROVE  StepOK
<1> DEFINE loop == loops[i]
           e == [loops[i] EXCEPT !.at = None, !.list = <<>>]
<1>1. /\ loop.at # None /\ UNCHANGED <<isUnlocked, keyrings, ac, removing>>
      /\ loops' = RemoveAt(loops, i) \/ loops' = [loops EXCEPT ![i] = e]
  BY DEF LoopWrites
<1>2. operation' = IF operation # "due" /\ Settled(loops', notices') THEN "none" ELSE operation
  BY DEF LoopWrites, TurnGoesOn
<1>3. PICK r : SiteBecomes(r) /\ (r = Now \/ r = Written(loop))
  BY DEF LoopWrites
<1>4. SiteOK(Now) /\ Fewer(Now, Now) /\ Told(Now, Now) /\ Now.permission = permission
  BY SameSite DEF IInv
<1>5. /\ loops \in Seq(LoopWithout(ac.deleted))
      /\ operation # "done" => Fresh(Now) /\ loops \in Seq(FreshLoop(permission))
  BY DEF IInv
<1>6. loop \in LoopWithout(ac.deleted)
  <2> DEFINE S == LoopWithout(ac.deleted)
  <2> HIDE DEF S
  <2>1. loops \in Seq(S)
    BY <1>5 DEF S
  <2>2. loop \in S
    BY <2>1, LenProperties, ElementOfSeq
  <2> QED BY <2>2 DEF S
<1>7. operation # "done" => loop \in FreshLoop(permission)
  <2> SUFFICES ASSUME operation # "done" PROVE loop \in FreshLoop(permission)
    OBVIOUS
  <2> DEFINE S == FreshLoop(permission)
  <2> HIDE DEF S
  <2>1. loops \in Seq(S)
    BY <1>5 DEF S
  <2>2. loop \in S
    BY <2>1, LenProperties, ElementOfSeq
  <2> QED BY <2>2 DEF S
<1>8. e \in NewLoop
  BY <1>6, EmptySeq DEF LoopWithout, Loop, NewLoop
<1> HIDE DEF loop, e
<1>9. \A D, p : e \in LoopWithout(D) /\ e \in FreshLoop(p)
  <2>1. IsInjective(<<>>) /\ ToSet(<<>>) = {}
    BY DEF IsInjective, ToSet
  <2> QED BY <1>8, <2>1 DEF NewLoop, LoopWithout, FreshLoop
<1>10. loops' \in Seq(LoopWithout(ac.deleted))
  <2> DEFINE S == LoopWithout(ac.deleted)
  <2>1. loops \in Seq(S) /\ e \in S
    BY <1>5, <1>9
  <2> HIDE DEF S
  <2>2. RemoveAt(loops, i) \in Seq(S)
    BY <2>1, RemovedSeq
  <2>3. [loops EXCEPT ![i] = e] \in Seq(S)
    BY <2>1, ReplacedSeq
  <2> QED BY <1>1, <2>2, <2>3 DEF S
<1>11. operation # "done" => loops' \in Seq(FreshLoop(permission))
  <2> DEFINE S == FreshLoop(permission)
  <2>1. operation # "done" => loops \in Seq(S) /\ e \in S
    BY <1>5, <1>9
  <2> HIDE DEF S
  <2>2. operation # "done" => RemoveAt(loops, i) \in Seq(S) /\ [loops EXCEPT ![i] = e] \in Seq(S)
    BY <2>1, RemovedSeq, ReplacedSeq
  <2> QED BY <1>1, <2>2 DEF S
<1>12. /\ SiteOK(r)
       /\ \A o \in Origins : ToSet(r.permission[o]) \cap ac.deleted = {}
       /\ operation # "done" => /\ Fresh(r) /\ (isUnlocked => Told(Now, r))
                                /\ \A o \in Origins : ToSet(r.permission[o]) = ToSet(permission[o])
  <2>1. CASE r = Now
    BY <1>4, <1>5, <2>1, FewerAreNotDeleted DEF IInv
  <2>2. CASE r = Written(loop)
    BY <1>1, <1>4, <1>5, <1>6, <1>7, <2>2, WrittenEffect DEF IInv
  <2> QED BY <1>3, <2>1, <2>2
<1>13. operation # "done" => FreshLoop(r.permission) = FreshLoop(permission)
  BY <1>12 DEF FreshLoop, Loop
<1>14. ASSUME operation = "done", operation' # "done"
       PROVE  Fresh(r) /\ loops' \in Seq(FreshLoop(r.permission))
  <2>1. loops' = <<>> /\ \A o \in Origins : notices'[o] = <<>>
    BY <1>2, <1>14 DEF Settled
  <2>2. \A o \in Origins : r.notices[o] = <<>>
    BY <1>3, <2>1 DEF SiteBecomes
  <2> QED BY <2>1, <2>2, EmptySeq DEF Fresh
<1>15. operation' # "done" => Fresh(r) /\ loops' \in Seq(FreshLoop(r.permission))
  BY <1>11, <1>12, <1>13, <1>14
<1>16. removing' \in Seq(Accounts) /\ operation' \in Operation
  BY <1>1, <1>2 DEF IInv, Operation
<1> QED BY <1>1, <1>3, <1>10, <1>12, <1>15, <1>16, TurnStep

\* The page is told the first of the lists on their way.
LEMMA NotifyStep ==
    ASSUME IInv, NEW o \in Origins, Notify(o)
    PROVE  StepOK
<1> DEFINE n == notices[o]
           r == [permission |-> permission, page |-> page', notices |-> notices']
<1>1. /\ n # <<>> /\ page' = [page EXCEPT ![o] = Head(n)] /\ notices' = [notices EXCEPT ![o] = Tail(n)]
      /\ UNCHANGED <<isUnlocked, keyrings, ac, permission, loops, removing>>
  BY DEF Notify
<1>2. operation' = IF operation # "due" /\ Settled(loops', notices') THEN "none" ELSE operation
  BY DEF Notify, TurnGoesOn
<1>3. /\ permission \in [Origins -> AccountLists] /\ page \in [Origins -> AccountLists \cup {None}]
      /\ notices \in [Origins -> Seq(AccountLists)]
      /\ \A p \in Origins : page[p] = None => notices[p] = <<>>
  BY DEF IInv, SiteOK, Now
<1>4. n \in Seq(AccountLists)
  BY <1>3
<1>5. /\ \A p \in Origins : page'[p] = IF p = o THEN Head(n) ELSE page[p]
      /\ \A p \in Origins : notices'[p] = IF p = o THEN Tail(n) ELSE notices[p]
  BY <1>1, <1>3
<1> HIDE DEF n
<1>6. /\ Head(n) \in AccountLists /\ Tail(n) \in Seq(AccountLists)
      /\ Last(n) = IF Tail(n) = <<>> THEN Head(n) ELSE Last(Tail(n))
  BY <1>1, <1>4, HeadAndTail
<1>7. None \notin AccountLists
  BY SiteAccountsOK DEF AccountLists
<1>8. SiteOK(r)
  <2>1. page' \in [Origins -> AccountLists \cup {None}] /\ notices' \in [Origins -> Seq(AccountLists)]
    BY <1>1, <1>3, <1>6
  <2>2. \A p \in Origins : page'[p] = None => notices'[p] = <<>>
    BY <1>3, <1>5, <1>6, <1>7
  <2> QED BY <1>3, <2>1, <2>2 DEF SiteOK
<1>9. SiteBecomes(r)
  BY <1>1 DEF SiteBecomes
<1>10. Told(Now, r)
  <2>1. \A p \in Origins : LastOf(r, p) = LastOf(Now, p)
    <3> TAKE p \in Origins
    <3>1. CASE p = o
      BY <1>1, <1>5, <1>6, <3>1 DEF LastOf, Now, n
    <3>2. CASE p # o
      BY <1>5, <3>2 DEF LastOf, Now
    <3> QED BY <3>1, <3>2
  <2> QED BY <2>1 DEF Told, Now
<1>11. operation # "done" => Fresh(r)
  <2> SUFFICES ASSUME operation # "done", NEW p \in Origins PROVE notices'[p] \in Seq(Later(permission[p]))
    BY DEF Fresh
  <2> DEFINE S == Later(permission[p])
  <2>1. notices[p] \in Seq(S)
    BY DEF IInv, Fresh, Now
  <2> HIDE DEF S
  <2>2. ASSUME p = o PROVE notices'[p] \in Seq(S)
    BY <1>1, <1>5, <2>1, <2>2, HeadAndTail DEF n
  <2>3. ASSUME p # o PROVE notices'[p] \in Seq(S)
    BY <1>5, <2>1, <2>3
  <2>4. notices'[p] \in Seq(S)
    BY <2>2, <2>3
  <2> QED BY <2>4 DEF S
<1>12. ASSUME operation = "done", operation' # "done" PROVE Fresh(r) /\ loops' = <<>>
  BY <1>2, <1>12, EmptySeq DEF Settled, Fresh
<1>13. operation' # "done" => Fresh(r) /\ loops' \in Seq(FreshLoop(r.permission))
  <2>1. r.permission = permission /\ loops' = loops
    BY <1>1
  <2> QED BY <1>11, <1>12, <2>1, EmptySeq DEF IInv
<1>14. \A p \in Origins : ToSet(r.permission[p]) \cap ac.deleted = {}
  BY DEF IInv, DeletedAreNotPermitted
<1>15. /\ removing' \in Seq(Accounts) /\ operation' \in Operation
       /\ loops' \in Seq(LoopWithout(ac.deleted))
  BY <1>1, <1>2 DEF IInv, Operation
<1> HIDE DEF r
<1> QED BY <1>1, <1>8, <1>9, <1>10, <1>13, <1>14, <1>15, TurnStep

-----------------------------------------------------------------------------
(* The steps of the sites *)

\* A caveat is written: no site is left with an account that is deleted.
LEMMA GrantedStep ==
    ASSUME IInv, Quiet, NEW lists \in [Origins -> AccountLists],
           NEW r, r = Granted(Now, lists), SiteBecomes(r),
           UNCHANGED <<isUnlocked, keyrings, ac, loops, removing, operation>>,
           \A o \in Origins : ToSet(lists[o]) \cap ac.deleted = {}
    PROVE  StepOK
<1>1. SiteOK(Now)
  BY DEF IInv
<1>2. SiteOK(r) /\ r.permission = lists /\ (Calm(Now) => Fresh(r) /\ (isUnlocked => Told(Now, r)))
  BY <1>1, GrantedEffect
<1>3. Begins(r)
  BY <1>2 DEF Begins
<1>4. loops' \in Seq(NewLoop)
  BY QuietIsCalm, EmptySeq
<1>5. /\ isUnlocked' \in BOOLEAN /\ removing' \in Seq(Accounts) /\ operation' \in Operation
      /\ KeyringsOK(keyrings') /\ AccountsOK(ac') /\ (isUnlocked' => Follows(ac', keyrings'))
      /\ (SelectedIn(ac) => SelectedIn(ac'))
  BY DEF IInv
<1>6. \A o \in Origins : ToSet(r.permission[o]) \cap ac'.deleted = {}
  BY <1>2
<1> QED BY <1>3, <1>4, <1>5, <1>6, BeginStep

LEMMA PermissionTypes ==
    ASSUME IInv
    PROVE  /\ permission \in [Origins -> AccountLists] /\ page \in [Origins -> AccountLists \cup {None}]
           /\ notices \in [Origins -> Seq(AccountLists)]
           /\ \A o \in Origins : permission[o] \in AccountLists
BY DEF IInv, SiteOK, Now

\* One site's caveat is written, with accounts that are not deleted.
LEMMA OneGrantedStep ==
    ASSUME IInv, Quiet, NEW o \in Origins, NEW l \in AccountLists, ToSet(l) \cap ac.deleted = {},
           NEW r, r = Granted(Now, [permission EXCEPT ![o] = l]), SiteBecomes(r),
           UNCHANGED <<isUnlocked, keyrings, ac, loops, removing, operation>>
    PROVE  StepOK
<1> DEFINE lists == [permission EXCEPT ![o] = l]
<1>1. /\ lists \in [Origins -> AccountLists]
      /\ \A p \in Origins : lists[p] = IF p = o THEN l ELSE permission[p]
  BY PermissionTypes
<1>2. r = Granted(Now, lists)
  OBVIOUS
<1> HIDE DEF lists
<1>3. \A p \in Origins : ToSet(lists[p]) \cap ac.deleted = {}
  BY <1>1 DEF IInv, DeletedAreNotPermitted
<1> QED BY <1>1, <1>2, <1>3, GrantedStep

LEMMA GrantStep ==
    ASSUME IInv, NEW o \in Origins, NEW S \in SUBSET Accounts, NEW l \in SetToSeqs(S), Grant(o, l)
    PROVE  StepOK
<1> DEFINE r == Granted(Now, [permission EXCEPT ![o] = l])
<1>1. /\ Quiet /\ SiteBecomes(r) /\ UNCHANGED <<isUnlocked, keyrings, ac, loops, removing, operation>>
      /\ ToSet(l) \subseteq listAccounts(ac)
  BY DEF Grant, Valid
<1>2. l \in AccountLists
  <2>1. IsFiniteSet(S)
    BY SiteAccountsOK, FS_Subset
  <2> DEFINE n == Cardinality(S)
  <2>2. n \in Nat
    BY <2>1, FS_CardinalityType
  <2>3. l \in [1 .. n -> S] /\ \A i, j \in 1 .. n : i # j => l[i] # l[j]
    BY DEF SetToSeqs
  <2> HIDE DEF n
  <2>4. l \in [1 .. n -> Accounts]
    BY <2>3
  <2>5. l \in Seq(Accounts)
    BY <2>2, <2>4
  <2>6. IsInjective(l)
    BY <2>3 DEF IsInjective
  <2> QED BY <2>5, <2>6 DEF AccountLists
<1>3. ToSet(l) \cap ac.deleted = {}
  BY <1>1 DEF listAccounts
<1> QED BY <1>1, <1>2, <1>3, OneGrantedStep

LEMMA AddPermittedAccountStep ==
    ASSUME IInv, NEW o \in Origins, AddPermittedAccount(o)
    PROVE  StepOK
<1> DEFINE p == permission[o]
           a == ac.account
           l == Append(p, a)
           r == Granted(Now, [permission EXCEPT ![o] = l])
<1>1. /\ Quiet /\ a # None /\ ~Contains(p, a) /\ ToSet(l) \subseteq listAccounts(ac)
      /\ SiteBecomes(r) /\ UNCHANGED <<isUnlocked, keyrings, ac, loops, removing, operation>>
  BY DEF AddPermittedAccount, Valid
<1>2. p \in Seq(Accounts) /\ IsInjective(p)
  BY PermissionTypes DEF AccountLists
<1>3. a \in Accounts
  BY <1>1 DEF IInv, AccountsOK, AccountsTypeOK
<1>4. l \in AccountLists
  <2> HIDE DEF p, a
  <2>1. a \notin ToSet(p)
    BY <1>1, <1>2, ContainsIsIn
  <2> QED BY <1>2, <1>3, <2>1, AppendElements DEF AccountLists
<1>5. ToSet(l) \cap ac.deleted = {}
  BY <1>1 DEF listAccounts
<1> HIDE DEF l
<1> QED BY <1>1, <1>4, <1>5, OneGrantedStep

LEMMA RemovePermittedAccountStep ==
    ASSUME IInv, NEW o \in Origins, RemovePermittedAccount(o)
    PROVE  StepOK
<1> DEFINE p == permission[o]
           a == ac.account
           l == Without(p, a)
           r == Granted(Now, [permission EXCEPT ![o] = l])
<1>1. Quiet /\ SiteBecomes(r) /\ UNCHANGED <<isUnlocked, keyrings, ac, loops, removing, operation>>
  BY DEF RemovePermittedAccount
<1>2. p \in AccountLists /\ ToSet(p) \cap ac.deleted = {}
  BY PermissionTypes DEF IInv, DeletedAreNotPermitted
<1>3. l \in AccountLists /\ ToSet(l) \cap ac.deleted = {}
  <2> HIDE DEF p, a
  <2>1. l \in AccountLists /\ ToSet(l) = ToSet(p) \ {a}
    BY <1>2, WithoutElements
  <2> QED BY <1>2, <2>1
<1> HIDE DEF l
<1> QED BY <1>1, <1>3, OneGrantedStep

LEMMA RevokePermissionsStep ==
    ASSUME IInv, NEW o \in Origins, RevokePermissions(o)
    PROVE  StepOK
<1> DEFINE l == <<>>
           r == Granted(Now, [permission EXCEPT ![o] = l])
<1>1. Quiet /\ SiteBecomes(r) /\ UNCHANGED <<isUnlocked, keyrings, ac, loops, removing, operation>>
  BY DEF RevokePermissions
<1>2. l \in Seq(Accounts) /\ ToSet(l) = {} /\ IsInjective(l)
  BY EmptySeq DEF ToSet, IsInjective
<1>3. l \in AccountLists /\ ToSet(l) \cap ac.deleted = {}
  BY <1>2 DEF AccountLists
<1> HIDE DEF l
<1> QED BY <1>1, <1>3, OneGrantedStep

LEMMA PageAsksStep ==
    ASSUME IInv, NEW o \in Origins, PageAsks(o)
    PROVE  StepOK
<1> DEFINE r == [Now EXCEPT !.page = [page EXCEPT ![o] = permission[o]]]
<1>1. /\ Quiet /\ page' = [page EXCEPT ![o] = permission[o]]
      /\ UNCHANGED <<isUnlocked, keyrings, ac, permission, notices, loops, removing, operation>>
  BY DEF PageAsks
<1>2. /\ permission \in [Origins -> AccountLists] /\ page \in [Origins -> AccountLists \cup {None}]
      /\ notices \in [Origins -> Seq(AccountLists)] /\ permission[o] \in AccountLists
  BY PermissionTypes
<1>3. page' \in [Origins -> AccountLists \cup {None}] /\ \A p \in Origins : page'[p] = IF p = o THEN permission[p] ELSE page[p]
  BY <1>1, <1>2
<1>4. r = [permission |-> permission, page |-> page', notices |-> notices]
  BY <1>1 DEF Now
<1> HIDE DEF r
<1>5. Calm(Now) /\ loops' \in Seq(NewLoop)
  BY <1>1, QuietIsCalm, EmptySeq
<1>6. \A p \in Origins : notices[p] = <<>>
  BY <1>5 DEF Calm, Now
<1>7. SiteOK(r) /\ SiteBecomes(r)
  BY <1>1, <1>2, <1>3, <1>4, <1>6 DEF SiteOK, SiteBecomes
<1>8. Fresh(r)
  BY <1>4, <1>6, EmptySeq DEF Fresh
<1>9. Told(Now, r)
  BY <1>3, <1>4, <1>6 DEF Told, Now, LastOf
<1>10. Fewer(Now, r)
  BY <1>4 DEF Fewer, Now
<1>11. /\ isUnlocked' \in BOOLEAN /\ removing' \in Seq(Accounts) /\ operation' \in Operation
       /\ KeyringsOK(keyrings') /\ AccountsOK(ac') /\ (isUnlocked' => Follows(ac', keyrings'))
       /\ (SelectedIn(ac) => SelectedIn(ac')) /\ ac'.deleted \subseteq ac.deleted
  BY <1>1 DEF IInv
<1> QED BY <1>1, <1>5, <1>7, <1>8, <1>9, <1>10, <1>11, SelectionStep DEF Begins

-----------------------------------------------------------------------------
(* The theorems *)

LEMMA IInvInit == Init => IInv
<1> SUFFICES ASSUME Init PROVE IInv
  OBVIOUS
<1>1. <<>> \in Seq(Accounts) /\ IsInjective(<<>>) /\ ToSet(<<>>) = {}
  BY EmptySeq DEF IsInjective, ToSet
<1>2. KeyringsOK(keyrings)
  BY DEF Init, KeyringsOK
<1>3. AccountsOK(ac)
  BY <1>1 DEF Init, NoAccounts, AccountsOK, AccountsTypeOK
<1>4. SiteOK(Now)
  <2>1. <<>> \in Seq(AccountLists) /\ <<>> \in AccountLists
    BY <1>1, EmptySeq DEF AccountLists
  <2>2. /\ permission \in [Origins -> AccountLists] /\ page \in [Origins -> AccountLists \cup {None}]
        /\ notices \in [Origins -> Seq(AccountLists)] /\ \A o \in Origins : notices[o] = <<>>
    BY <2>1 DEF Init
  <2> QED BY <2>2 DEF SiteOK, Now
<1>5. DeletedAreNotPermitted
  BY DEF Init, NoAccounts, DeletedAreNotPermitted
<1>6. Fresh(Now)
  BY EmptySeq DEF Init, Now, Fresh
<1>7. loops \in Seq(LoopWithout(ac.deleted)) /\ loops \in Seq(FreshLoop(permission))
  BY EmptySeq DEF Init
<1> QED BY <1>1, <1>2, <1>3, <1>4, <1>5, <1>6, <1>7 DEF Init, IInv, Operation

LEMMA NextStep == IInv /\ [Next]_vars => StepOK
<1> SUFFICES ASSUME IInv, [Next]_vars PROVE StepOK
  OBVIOUS
<1>1. CASE Unlock
  BY <1>1, UnlockStep
<1>2. CASE Lock \/ Restart
  BY <1>2, LockStep, RestartStep
<1>3. ASSUME NEW w \in Wallets,
             \/ CreateNewVault(w) \/ AddNewWallet(w) \/ RestoreAccount(w)
             \/ AddNewAccount(w) \/ SelectWallet(w) \/ RemoveWallet(w)
      PROVE  StepOK
  BY <1>3, CreateNewVaultStep, AddNewWalletStep, RestoreAccountStep, AddNewAccountStep,
     SelectWalletStep, RemoveWalletStep
<1>4. ASSUME NEW a \in Accounts, SelectAccount(a) \/ RemoveAccount(a) PROVE StepOK
  BY <1>4, SelectAccountStep, RemoveAccountStep
<1>5. CASE RemoveNext \/ GoOn
  BY <1>5, RemoveNextStep, GoOnStep
<1>6. ASSUME NEW o \in Origins, NEW S \in SUBSET Accounts, NEW l \in SetToSeqs(S), Grant(o, l)
      PROVE  StepOK
  BY <1>6, GrantStep
<1>7. ASSUME NEW o \in Origins,
             \/ AddPermittedAccount(o) \/ RemovePermittedAccount(o)
             \/ RevokePermissions(o) \/ PageAsks(o) \/ Notify(o)
      PROVE  StepOK
  BY <1>7, AddPermittedAccountStep, RemovePermittedAccountStep, RevokePermissionsStep, PageAsksStep,
     NotifyStep
<1>8. ASSUME NEW i \in DOMAIN loops, LoopReads(i) \/ LoopWrites(i) PROVE StepOK
  BY <1>8, LoopReadsStep, LoopWritesStep
<1>9. CASE UNCHANGED vars
  <2>1. /\ UNCHANGED <<isUnlocked, keyrings, ac, permission, page, notices, loops, removing>>
        /\ operation' = operation
    BY <1>9 DEF vars
  <2>2. SiteOK(Now) /\ Fewer(Now, Now) /\ Told(Now, Now) /\ Now.permission = permission /\ SiteBecomes(Now)
    BY <2>1, SameSite DEF IInv
  <2>3. \A o \in Origins : ToSet(Now.permission[o]) \cap ac.deleted = {}
    BY <2>2, FewerAreNotDeleted DEF IInv
  <2>4. /\ removing' \in Seq(Accounts) /\ operation' \in Operation
        /\ loops' \in Seq(LoopWithout(ac.deleted))
        /\ operation' # "done" => Fresh(Now) /\ loops' \in Seq(FreshLoop(Now.permission))
    BY <2>1, <2>2 DEF IInv
  <2> QED BY <2>1, <2>2, <2>3, <2>4, TurnStep
<1> QED BY <1>1, <1>2, <1>3, <1>4, <1>5, <1>6, <1>7, <1>8, <1>9 DEF Next

LEMMA Invariance == Spec => []IInv
<1>1. IInv /\ [Next]_vars => IInv'
  BY NextStep DEF StepOK
<1> QED BY <1>1, IInvInit, PTL DEF Spec

\* Every variable keeps its type: no list of a site names an account twice,
\* neither its permission's nor its page's, whatever loop writes or tells it,
\* and while the wallet is unlocked the accounts and wallets the user sees are
\* those of the keyrings.
THEOREM TypeCorrect == Spec => []TypeOK
<1>1. ASSUME IInv PROVE TypeOK
  <2>1. /\ DOMAIN keyrings \subseteq Wallets
        /\ \A w \in DOMAIN keyrings : keyrings[w] # <<>> /\ keyrings[w] \in Seq(ToSet(Derived[w]))
    BY <1>1 DEF IInv, KeyringsOK
  <2>2. /\ permission \in [Origins -> Seq(Accounts)] /\ page \in [Origins -> {None} \cup Seq(Accounts)]
        /\ \A o \in Origins : IsInjective(permission[o]) /\ (page[o] # None => IsInjective(page[o]))
    BY <1>1, PermissionTypes DEF AccountLists
  <2>3. notices \in [Origins -> Seq(Seq(Accounts))]
    <3>1. AccountLists \subseteq Seq(Accounts)
      BY DEF AccountLists
    <3>2. \A l \in Seq(AccountLists) : l \in Seq(Seq(Accounts))
      BY <3>1, SeqMonotonic
    <3> QED BY <1>1, <3>2, PermissionTypes
  <2>4. loops \in Seq(Loop)
    <3> DEFINE S == LoopWithout(ac.deleted)
    <3>1. S \subseteq Loop /\ loops \in Seq(S)
      BY <1>1 DEF IInv, LoopWithout
    <3> HIDE DEF S
    <3> QED BY <3>1, SeqMonotonic
  <2> QED BY <1>1, <2>1, <2>2, <2>3, <2>4 DEF IInv, AccountsOK, Follows, TypeOK
<1> QED BY <1>1, Invariance, PTL

\* No site has the permission to see an account the user has deleted, whatever
\* request, list or keyring operation comes after the deletion.
THEOREM DeletedIsNotPermitted == Spec => []DeletedAreNotPermitted
<1>1. IInv => DeletedAreNotPermitted
  BY DEF IInv
<1> QED BY <1>1, Invariance, PTL

\* The selection stays a listed account and a wallet that is there, through
\* every step of an unlocked wallet that leaves each wallet a listed account.
THEOREM SelectionIsListed == Spec => SelectionStaysListed
<1>1. IInv /\ [Next]_vars =>
         (isUnlocked /\ isUnlocked' /\ Selected /\ EveryWalletLists' => Selected')
  BY NextStep DEF StepOK, SelectionStays
<1>2. IInv /\ [Next]_vars =>
         [isUnlocked /\ isUnlocked' /\ Selected /\ EveryWalletLists' => Selected']_vars
  BY <1>1
<1> QED BY <1>2, Invariance, PTL DEF Spec, SelectionStaysListed

\* Of an unlocked wallet, a page that knew its site's accounts, or is about to,
\* does so after every step, and so does one whose site's accounts change: for
\* any number of sites, with the account-change loops between any two of them.
\* The turn in which removeWallet goes on to its next account is excepted.
THEOREM PagesAreTold == Spec => PagesKnowTheirAccounts
<1>1. IInv /\ [Next]_vars =>
         [operation # "done" /\ operation' # "done" => \A o \in Origins : PageKeepsUp(o)]_vars
  BY NextStep DEF StepOK, PagesKnow
<1> QED BY <1>1, Invariance, PTL DEF Spec, PagesKnowTheirAccounts

\* What runs in the rest of a turn gives no site an account.
LEMMA RestOfTurn ==
    ASSUME IInv, [Next]_vars, ~Quiet, operation # "done"
    PROVE  \A o \in Origins : ToSet(permission'[o]) \subseteq ToSet(permission[o])
<1>1. SiteOK(Now) /\ Fewer(Now, Now)
  BY SameSite DEF IInv
<1>2. ASSUME NEW r, SiteBecomes(r), Fewer(Now, r)
      PROVE  \A o \in Origins : ToSet(permission'[o]) \subseteq ToSet(permission[o])
  BY <1>2 DEF SiteBecomes, Fewer, Now
<1>3. CASE permission' = permission
  BY <1>3
<1>4. CASE GoOn
  <2>1. PICK r : SiteBecomes(r) /\ (r = Now \/ r = WithoutAccount(Now, Head(removing)))
    BY <1>4 DEF GoOn
  <2>2. Fewer(Now, r)
    BY <1>1, <2>1, WithoutAccountEffect
  <2> QED BY <1>2, <2>1, <2>2
<1>5. ASSUME NEW i \in DOMAIN loops, LoopWrites(i)
      PROVE  \A o \in Origins : ToSet(permission'[o]) \subseteq ToSet(permission[o])
  <2>1. PICK r : SiteBecomes(r) /\ (r = Now \/ r = Written(loops[i]))
    BY <1>5 DEF LoopWrites
  <2>2. loops[i].at # None
    BY <1>5 DEF LoopWrites
  <2>3. loops[i] \in LoopWithout(ac.deleted)
    <3> DEFINE S == LoopWithout(ac.deleted)
    <3>1. loops \in Seq(S)
      BY DEF IInv
    <3> HIDE DEF S
    <3>2. loops[i] \in S
      BY <1>5, <3>1, LenProperties, ElementOfSeq
    <3> QED BY <3>2 DEF S
  <2>4. Fresh(Now) /\ loops[i] \in FreshLoop(permission)
    <3> DEFINE S == FreshLoop(permission)
    <3>1. Fresh(Now) /\ loops \in Seq(S)
      BY DEF IInv
    <3> HIDE DEF S
    <3>2. loops[i] \in S
      BY <1>5, <3>1, LenProperties, ElementOfSeq
    <3> QED BY <3>1, <3>2 DEF S
  <2>5. CASE r = Written(loops[i])
    <3>1. \A o \in Origins : ToSet(r.permission[o]) = ToSet(permission[o])
      BY <1>1, <2>2, <2>3, <2>4, <2>5, WrittenEffect
    <3>2. Fewer(Now, r)
      BY <3>1 DEF Fewer, Now
    <3> QED BY <1>2, <2>1, <3>2
  <2> QED BY <1>1, <1>2, <2>1, <2>5
<1>6. [Next]_vars => \/ permission' = permission \/ GoOn \/ Quiet
                     \/ \E i \in DOMAIN loops : LoopWrites(i)
  BY DEF Next, vars, Unlock, Lock, Restart, CreateNewVault, AddNewWallet, RestoreAccount,
     AddNewAccount, SelectWallet, RemoveWallet, SelectAccount, RemoveAccount, RemoveNext,
     LoopReads, Grant, AddPermittedAccount, RemovePermittedAccount, RevokePermissions,
     PageAsks, Notify
<1> QED BY <1>3, <1>4, <1>5, <1>6

\* Neither loops nor notifications, nor removeWallet when it goes on, give a site
\* an account, for any number of sites: only the stretch that an event begins
\* does, and what is left of a turn in which removeWallet has gone on.
THEOREM OnlyTheUserGivesAccounts == Spec => OnlyTheUserExposes
<1>1. IInv /\ [Next]_vars =>
         [~Quiet /\ operation # "done"
              => \A o \in Origins : ToSet(permission'[o]) \subseteq ToSet(permission[o])]_vars
  BY RestOfTurn
<1> QED BY <1>1, Invariance, PTL DEF Spec, OnlyTheUserExposes
=============================================================================
