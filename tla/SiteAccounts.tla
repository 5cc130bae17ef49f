----------------------------- MODULE SiteAccounts -----------------------------
(***************************************************************************)
(* Which accounts a site may see, and which its page believes it sees:     *)
(* AccountsController composed with the published state of                 *)
(* KeyringController, the permissions (PermissionController with           *)
(* src/lib/permissions/), AppController's notifications of accountsChanged *)
(* and the account list of the page's provider.                            *)
(*                                                                         *)
(* A turn is what runs after one event (a call of a window or a page, the  *)
(* end of an encryption) until nothing is left to run without another one. *)
(* It begins with the stretch of code up to the first await.  What goes on *)
(* after its awaits, with whatever the others do in between, are the       *)
(* account-change loops of AppController, the notifications whose list is  *)
(* awaited, and removeWallet after a keyring operation of its.  Which of   *)
(* them is resumed next is left open; a site's notifications keep their    *)
(* order.  The next event waits for the end of the turn.                   *)
(*                                                                         *)
(* Stored state is always saved in time here (what a restart loses is in   *)
(* KeyringController and TransactionController).                           *)
(***************************************************************************)
EXTENDS AccountsController, FiniteSets, Naturals

CONSTANTS
    Wallets,        \* HD wallets
    Derived,        \* their addresses, in the order of derivation
    Origins,        \* sites, with one page each
    MaxPermitted    \* bound: how many accounts a user lets a site see

Accounts == UNION {ToSet(Derived[w]) : w \in Wallets}

ASSUME SiteAccountsOK ==
    /\ \A w \in Wallets : Derived[w] \in Seq(ToSet(Derived[w])) /\ Derived[w] # <<>>
    /\ IsFiniteSet(Accounts) /\ MaxPermitted \in Nat
    /\ \A v, w \in Wallets : v # w => ToSet(Derived[v]) \cap ToSet(Derived[w]) = {}
    /\ None \notin Accounts \cup Wallets \cup Origins /\ None \notin Seq(Accounts)

VARIABLES
    isUnlocked,     \* KeyringController's state
    keyrings,       \* the keyrings: accounts of each wallet
    ac,             \* AccountsController's state
    permission,     \* the accounts in each site's eth_accounts caveat
    page,           \* the accounts a page was told, None before it asked
    notices,        \* lists on their way to each site's page
    loops,          \* account-change loops that have not ended
    removing,       \* accounts AppController.removeWallet has yet to remove
    operation       \* whether this is the turn of a keyring operation

vars == <<isUnlocked, keyrings, ac, permission, page, notices, loops, removing, operation>>

\* An operation that is over; or removeWallet's, which it is due to go on after,
\* or has gone on after.
Operation == {"none", "over", "due", "done"}

\* A loop awaits a list of site at, or is between two sites.
Loop == [account : Accounts, sites : SUBSET Origins, at : Origins \cup {None}, list : Seq(Accounts)]

TypeOK ==
    /\ isUnlocked \in BOOLEAN
    /\ DOMAIN keyrings \subseteq Wallets
    /\ \A w \in DOMAIN keyrings : keyrings[w] # <<>> /\ keyrings[w] \in Seq(ToSet(Derived[w]))
    /\ AccountsTypeOK(ac, Wallets, Accounts)
    /\ permission \in [Origins -> Seq(Accounts)] /\ page \in [Origins -> {None} \cup Seq(Accounts)]
    /\ \A o \in Origins : IsInjective(permission[o]) /\ (page[o] # None => IsInjective(page[o]))
    /\ notices \in [Origins -> Seq(Seq(Accounts))] /\ loops \in Seq(Loop)
    /\ removing \in Seq(Accounts) /\ operation \in Operation
    /\ isUnlocked => ac.wallets = DOMAIN keyrings /\ ac.accounts = AccountsIn(keyrings)

Init ==
    /\ isUnlocked = FALSE
    /\ keyrings = <<>>
    /\ ac = NoAccounts
    /\ permission = [o \in Origins |-> <<>>]
    /\ page = [o \in Origins |-> None]
    /\ notices = [o \in Origins |-> <<>>] /\ loops = <<>>
    /\ removing = <<>> /\ operation = "none"

\* Nothing is left of a turn.
Settled(l, n) == l = <<>> /\ \A o \in Origins : n[o] = <<>>
Quiet == Settled(loops, notices) /\ operation # "due"

TurnGoesOn == operation' = IF operation # "due" /\ Settled(loops', notices') THEN "none" ELSE operation

-----------------------------------------------------------------------------
(* Permissions and notifications: operators on [permission, page, notices] *)

Now == [permission |-> permission, page |-> page, notices |-> notices]

SiteBecomes(site) == permission' = site.permission /\ page' = site.page /\ notices' = site.notices

Without(l, a) == Filtered(l, Accounts \ {a})
InFront(l, a) == IF Contains(l, a) THEN <<a>> \o Without(l, a) ELSE l

\* _notifyAccountsChange of the sites in changed, with their lists: a page is
\* told at once of none or one account; of more it is told what the permission
\* is now, after an await.
Notified(site, changed, lists) ==
    LET told == {o \in changed : isUnlocked /\ site.page[o] # None}
        later == {o \in told : Len(lists[o]) >= 2}
    IN  [site EXCEPT !.page = [o \in Origins |-> IF o \in told \ later THEN lists[o] ELSE site.page[o]],
                     !.notices = [o \in Origins |-> IF o \in later THEN Append(site.notices[o], site.permission[o])
                                                     ELSE site.notices[o]]]

\* Mutant of Granted: a site that lost its last account is not notified.
GrantedSome(site, lists) ==
    Notified([site EXCEPT !.permission = lists],
             {o \in Origins : lists[o] # site.permission[o] /\ lists[o] # <<>>}, lists)

\* The stateChange event of PermissionController: the sites whose accounts have
\* changed are notified.
Granted(site, lists) ==
    Notified([site EXCEPT !.permission = lists],
             {o \in Origins : lists[o] # site.permission[o]}, lists)

\* Mutant of Valid: the validator of the caveat accepts every address.
ValidAny(l, s) == TRUE

\* validateCaveatAccounts: of every account of a caveat that is written.
Valid(l, s) == ToSet(l) \subseteq listAccounts(s)

Holders(site, a) == {o \in Origins : Contains(site.permission[o], a)}

\* removeAllAccountPermissions throws, and changes nothing, when one of the
\* caveats it writes is not valid any more.
RemovalThrows(site, a, s) == \E o \in Holders(site, a) : ~Valid(Without(site.permission[o], a), s)

\* removeAllAccountPermissions
WithoutAccount(site, a) ==
    Granted(site, [o \in Origins |-> Without(site.permission[o], a)])

\* _onSelectedAccountChange starts once for every announcement, with the
\* sites that have a permission.
Started(announced, site) ==
    LET connected == {o \in Origins : site.permission[o] # <<>>}
    IN  IF connected = {} THEN <<>>
        ELSE [i \in DOMAIN announced |->
                 [account |-> announced[i], sites |-> connected, at |-> None, list |-> <<>>]]

\* AccountsController goes to a state of next, and site to what it announces.
Becomes(next, site) ==
    \E s \in next : /\ ac' = [s EXCEPT !.announced = <<>>]
                    /\ SiteBecomes(site) /\ loops' = Started(s.announced, site)

-----------------------------------------------------------------------------
(* The rest of a turn *)

\* Loop i reads the list of its next site, and awaits.  (That it has awaited
\* the notification of the site before is left open: it is of another site.)
LoopReads(i) ==
    /\ loops[i].at = None
    /\ \E o \in loops[i].sites :
          loops' = [loops EXCEPT ![i] = [loops[i] EXCEPT !.at = o, !.sites = @ \ {o}, !.list = permission[o]]]
    /\ UNCHANGED <<isUnlocked, keyrings, ac, permission, page, notices, removing, operation>>

\* updateCaveat throws when the permission is gone or the list not valid.
WriteThrows(loop) ==
    /\ Contains(loop.list, loop.account)
    /\ permission[loop.at] = <<>> \/ ~Valid(loop.list, ac)

\* What it read is written with the account in front, if it is there, and the
\* site is notified of it.  (That updateCaveat's stateChange notifies it of the
\* same list first makes no difference.)
Written(loop) ==
    LET list == InFront(loop.list, loop.account)
        site == IF Contains(list, loop.account) THEN [Now EXCEPT !.permission[loop.at] = list] ELSE Now
    IN  IF list = <<>> THEN Now ELSE Notified(site, {loop.at}, [o \in {loop.at} |-> list])

\* After the await.  An exception ends the loop: the other sites are not reached.
LoopWrites(i) ==
    /\ loops[i].at # None
    /\ IF WriteThrows(loops[i]) THEN SiteBecomes(Now) ELSE SiteBecomes(Written(loops[i]))
    /\ loops' = IF WriteThrows(loops[i]) \/ loops[i].sites = {} THEN RemoveAt(loops, i)
                ELSE [loops EXCEPT ![i] = [loops[i] EXCEPT !.at = None, !.list = <<>>]]
    /\ UNCHANGED <<isUnlocked, keyrings, ac, removing>>
    /\ TurnGoesOn

\* The list of a notification is there.
Notify(o) ==
    /\ notices[o] # <<>>
    /\ page' = [page EXCEPT ![o] = Head(notices[o])]
    /\ notices' = [notices EXCEPT ![o] = Tail(@)]
    /\ UNCHANGED <<isUnlocked, keyrings, ac, permission, loops, removing>>
    /\ TurnGoesOn

-----------------------------------------------------------------------------
(* KeyringController's state changes *)

Unlocked(ks) ==
    /\ isUnlocked' = TRUE
    /\ keyrings' = ks
    /\ Becomes(handleOnKeyringStateChange(ac, ks), Now)
    /\ operation' = IF loops' = <<>> THEN "none" ELSE "over"

\* An HD keyring is stored as its seed and the number of its accounts.
Unlock ==
    /\ Quiet /\ ~isUnlocked /\ keyrings # <<>>
    /\ Unlocked([w \in DOMAIN keyrings |-> SubSeq(Derived[w], 1, Len(keyrings[w]))])
    /\ UNCHANGED removing

\* setLocked.  It may have waited for the controller's mutex, and then comes
\* in the turn of the operation that had it.  The operation of a removal that
\* comes after it finds no keyring, and the removal ends.
Lock ==
    /\ Quiet \/ operation # "none"
    /\ isUnlocked /\ isUnlocked' = FALSE
    /\ removing' = IF operation = "due" THEN removing ELSE <<>>
    /\ UNCHANGED <<keyrings, ac, permission, page, notices, loops, operation>>

\* The worker is stopped, also in the middle of a turn, and starts locked.
Restart ==
    /\ isUnlocked \/ ~Quiet
    /\ isUnlocked' = FALSE /\ removing' = <<>> /\ operation' = "none"
    /\ loops' = <<>> /\ notices' = [o \in Origins |-> <<>>]
    /\ UNCHANGED <<keyrings, ac, permission, page>>

\* importWallet of the first wallet, or of a user who forgot the code.
CreateNewVault(w) ==
    /\ Quiet /\ ~isUnlocked
    /\ Unlocked([v \in {w} |-> <<Derived[w][1]>>])
    /\ UNCHANGED removing

AddNewWallet(w) ==
    /\ Quiet /\ isUnlocked /\ removing = <<>> /\ w \notin DOMAIN keyrings
    /\ Unlocked([v \in DOMAIN keyrings \cup {w} |-> IF v = w THEN <<Derived[w][1]>> ELSE keyrings[v]])
    /\ UNCHANGED removing

DeletedOf(w) == FirstIn(keyrings[w], ac.deleted)

\* AppController.addNewAccount restores a deleted account if there is one.
RestoreAccount(w) ==
    /\ Quiet /\ isUnlocked /\ removing = <<>> /\ w \in DOMAIN keyrings
    /\ DeletedOf(w) # 0
    /\ ac' = restoreDeletedAccountByAddress(ac, keyrings[w][DeletedOf(w)])
    /\ UNCHANGED <<isUnlocked, keyrings, permission, page, notices, loops, removing, operation>>

\* Otherwise the keyring derives the next one (and throws when what it holds
\* are not the first accounts of its seed).
AddNewAccount(w) ==
    /\ Quiet /\ isUnlocked /\ removing = <<>> /\ w \in DOMAIN keyrings
    /\ DeletedOf(w) = 0
    /\ LET n == Len(keyrings[w])
       IN  /\ n < Len(Derived[w]) /\ keyrings[w] = SubSeq(Derived[w], 1, n)
           /\ Unlocked([keyrings EXCEPT ![w] = Append(@, Derived[w][n + 1])])
    /\ UNCHANGED removing

-----------------------------------------------------------------------------
(* The user's account menu *)

\* Of the account that is selected, it does what notifyPermittedAccountsChanged
\* does after an account was permitted.
SelectAccount(a) ==
    /\ Quiet /\ isUnlocked /\ a \in listAccounts(ac)
    /\ Becomes({setSelectedAccount(ac, a)}, Now)
    /\ UNCHANGED <<isUnlocked, keyrings, removing, operation>>

SelectWallet(w) ==
    /\ Quiet /\ isUnlocked /\ w \in DOMAIN keyrings
    /\ Becomes({setSelectedWallet(ac, w, keyrings)}, Now)
    /\ UNCHANGED <<isUnlocked, keyrings, removing, operation>>

\* The menu offers to delete an account when its wallet lists another one.
\* Its permissions go first; if that throws, so does the removal.
RemoveAccount(a) ==
    /\ Quiet /\ isUnlocked /\ a \in listAccounts(ac)
    /\ \E w \in DOMAIN keyrings :
          Contains(keyrings[w], a) /\ Cardinality(ToSet(keyrings[w]) \cap listAccounts(ac)) > 1
    /\ ~RemovalThrows(Now, a, ac)
    /\ Becomes(softDeleteAccountByAddress(ac, a), WithoutAccount(Now, a))
    /\ UNCHANGED <<isUnlocked, keyrings, removing, operation>>

\* removeWallet, of one of several wallets, starts with the permissions of the
\* first account; the keyring operation follows.
RemoveWallet(w) ==
    /\ Quiet /\ isUnlocked /\ removing = <<>>
    /\ w \in DOMAIN keyrings /\ DOMAIN keyrings # {w}
    /\ ~RemovalThrows(Now, Head(keyrings[w]), ac)
    /\ removing' = keyrings[w]
    /\ SiteBecomes(WithoutAccount(Now, Head(keyrings[w])))
    /\ UNCHANGED <<isUnlocked, keyrings, ac, loops, operation>>

RemovedFrom(ks, a) ==
    LET left == {w \in DOMAIN ks : Without(ks[w], a) # <<>>}
    IN  [w \in left |-> Without(ks[w], a)]

\* The keyring operation has ended: an account has left its keyring.
RemoveNext ==
    /\ Quiet /\ isUnlocked /\ removing # <<>>
    /\ keyrings' = RemovedFrom(keyrings, Head(removing))
    /\ Becomes(handleOnKeyringStateChange(ac, keyrings'), Now)
    /\ removing' = Tail(removing)
    /\ operation' = CASE Tail(removing) # <<>> -> "due"
                      [] Tail(removing) = <<>> /\ loops' # <<>> -> "over"
                      [] OTHER -> "none"
    /\ UNCHANGED isUnlocked

\* removeWallet is resumed in the same turn, with account-change loops on their
\* way: the permissions of the next account go, and its keyring operation, which
\* fails if the wallet has been locked, follows.
GoOn ==
    /\ operation = "due"
    /\ LET a == Head(removing)
       IN  IF RemovalThrows(Now, a, ac)
           THEN SiteBecomes(Now) /\ removing' = <<>>
           ELSE SiteBecomes(WithoutAccount(Now, a)) /\ removing' = IF isUnlocked THEN removing ELSE <<>>
    /\ operation' = IF Settled(loops, notices') THEN "none" ELSE "done"
    /\ UNCHANGED <<isUnlocked, keyrings, ac, loops>>

-----------------------------------------------------------------------------
(* Sites *)

\* The user accepts a site's permission request with some accounts, which may
\* have been deleted since the window was opened: then the site is refused.
Grant(o, l) ==
    /\ Quiet /\ isUnlocked /\ l # <<>> /\ Len(l) <= MaxPermitted /\ Valid(l, ac)
    /\ l = InFront(l, ac.account)
    /\ SiteBecomes(Granted(Now, [permission EXCEPT ![o] = l]))
    /\ UNCHANGED <<isUnlocked, keyrings, ac, loops, removing, operation>>

\* addPermittedAccount and removePermittedAccount, in the extension's windows.
AddPermittedAccount(o) ==
    /\ Quiet /\ isUnlocked /\ permission[o] # <<>> /\ Len(permission[o]) < MaxPermitted
    /\ ac.account # None /\ ~Contains(permission[o], ac.account)
    /\ Valid(Append(permission[o], ac.account), ac)
    /\ SiteBecomes(Granted(Now, [permission EXCEPT ![o] = Append(@, ac.account)]))
    /\ UNCHANGED <<isUnlocked, keyrings, ac, loops, removing, operation>>

RemovePermittedAccount(o) ==
    /\ Quiet /\ isUnlocked /\ Contains(permission[o], ac.account)
    /\ Valid(Without(permission[o], ac.account), ac)
    /\ SiteBecomes(Granted(Now, [permission EXCEPT ![o] = Without(@, ac.account)]))
    /\ UNCHANGED <<isUnlocked, keyrings, ac, loops, removing, operation>>

\* wallet_revokePermissions of another page of the site, locked or not.
RevokePermissions(o) ==
    /\ Quiet /\ permission[o] # <<>>
    /\ SiteBecomes(Granted(Now, [permission EXCEPT ![o] = <<>>]))
    /\ UNCHANGED <<isUnlocked, keyrings, ac, loops, removing, operation>>

\* The page loads and asks for the provider state, or asks for eth_accounts.
PageAsks(o) ==
    /\ Quiet /\ page[o] # permission[o]
    /\ page' = [page EXCEPT ![o] = permission[o]]
    /\ UNCHANGED <<isUnlocked, keyrings, ac, permission, notices, loops, removing, operation>>

-----------------------------------------------------------------------------
Next ==
    \/ Unlock \/ Lock \/ Restart
    \/ \E w \in Wallets : \/ CreateNewVault(w) \/ AddNewWallet(w)
                          \/ RestoreAccount(w) \/ AddNewAccount(w)
                          \/ SelectWallet(w) \/ RemoveWallet(w)
    \/ \E a \in Accounts : SelectAccount(a) \/ RemoveAccount(a)
    \/ RemoveNext \/ GoOn
    \/ \E i \in DOMAIN loops : LoopReads(i) \/ LoopWrites(i)
    \/ \E o \in Origins : \/ \E S \in SUBSET Accounts : \E l \in SetToSeqs(S) : Grant(o, l)
                          \/ AddPermittedAccount(o) \/ RemovePermittedAccount(o)
                          \/ RevokePermissions(o) \/ PageAsks(o) \/ Notify(o)

Spec == Init /\ [][Next]_vars

-----------------------------------------------------------------------------
(* Properties *)

Selected == ac.account \in listAccounts(ac) /\ ac.wallet \in ac.wallets

EveryWalletLists == \A w \in DOMAIN keyrings : ToSet(keyrings[w]) \cap listAccounts(ac) # {}

\* A selection the user sees stays one, a listed account and a wallet that is
\* there, whatever is deleted, restored or removed step by step while the
\* wallet is unlocked.  (A wallet of which nothing is listed, as recovering a
\* seed whose first account was deleted leaves it, may be selected and then
\* the selected account is one that is gone.)
SelectionStaysListed ==
    [][isUnlocked /\ isUnlocked' /\ Selected /\ EveryWalletLists' => Selected']_vars

\* No site sees an account the user has deleted: its permissions go with it,
\* and a request or a list that still names it brings none of it back.
DeletedAreNotPermitted ==
    \A o \in Origins : ToSet(permission[o]) \cap ac.deleted = {}

\* What a page was told last, or will be by what is on its way.
LastTold(o) == IF notices[o] = <<>> THEN page[o] ELSE Last(notices[o])
KnowsItsAccounts(o) == LastTold(o) \in {None, permission[o]}

PageKeepsUp(o) ==
    isUnlocked /\ isUnlocked' /\ (KnowsItsAccounts(o) \/ permission'[o] # permission[o])
        => KnowsItsAccounts(o)'

\* A page need not ask: while the wallet is unlocked its list is, or is about
\* to be, the site's permission, in its order, through every change of
\* permissions, selection, accounts and wallets, whatever account-change loops
\* are between two sites, and also when a list that is not valid any more ends
\* one.  Excepted is what is left of the turn in which removeWallet has gone on
\* to its next account: a loop that awaited a site's list before tells the page
\* of it, with the account of which the permissions are gone.
PagesKnowTheirAccounts ==
    [][operation # "done" /\ operation' # "done" => \A o \in Origins : PageKeepsUp(o)]_vars

\* What runs after the first stretch of a turn, when the user's part in it is
\* over, gives no site an account, although loops write lists that they read
\* before an await: "Stops exposing the account with the specified address to
\* all third parties" (AppController.tsx:1400).  The same turn is excepted: the
\* loop also writes that list.
OnlyTheUserExposes ==
    [][~Quiet /\ operation # "done"
           => \A o \in Origins : ToSet(permission'[o]) \subseteq ToSet(permission[o])]_vars
=============================================================================
