-------------------------- MODULE AccountsController --------------------------
(***************************************************************************)
(* src/controller/AccountController.tsx: the accounts and wallets the user *)
(* sees, and which are selected.  It follows KeyringController's state, and*)
(* adds to it what the keyrings do not know: an account the user deletes is*)
(* only marked, and stays in its keyring.                                  *)
(*                                                                         *)
(* Operators on its state s, as each handler is one stretch of code: the   *)
(* awaits of setSelectedWallet wait for nothing but the keyring's accounts *)
(* in memory.  The lastSelected times are left out: any listed account, or *)
(* any wallet, may be the one selected last.                               *)
(***************************************************************************)
EXTENDS SequencesExt, Filter

CONSTANTS None

\* wallets and accounts are those of internalWallets and internalAccounts,
\* deleted the accounts whose metadata says so.  announced are the accounts a
\* handler published selectedAccountChange for; its caller takes them.
NoAccounts == [wallets |-> {}, accounts |-> {}, deleted |-> {}, wallet |-> None, account |-> None,
               announced |-> <<>>]

AccountsTypeOK(s, Wallets, Accounts) ==
    /\ s \in [wallets : SUBSET Wallets, accounts : SUBSET Accounts, deleted : SUBSET Accounts,
              wallet : Wallets \cup {None}, account : Accounts \cup {None}, announced : Seq(Accounts)]
    /\ s.deleted \subseteq s.accounts

listAccounts(s) == s.accounts \ s.deleted

\* setSelectedAccount publishes the event also when the account is the same.
setSelectedAccount(s, a) == [s EXCEPT !.account = a, !.announced = Append(@, a)]

FirstListed(s, w, ks) == FirstIn(ks[w], listAccounts(s))

\* setSelectedWallet goes on to select an account, unless all of the wallet's
\* are the selected one, or none is listed.
SelectsAccount(s, w, ks) == FirstListed(s, w, ks) # 0 /\ ToSet(ks[w]) # {s.account}

setSelectedWallet(s, w, ks) ==
    LET there == [s EXCEPT !.wallet = w]
    IN  IF SelectsAccount(s, w, ks) THEN setSelectedAccount(there, ks[w][FirstListed(s, w, ks)]) ELSE there

\* Mutant of softDeleteAccountByAddress: the selection is not looked at.
softDeleteOnly(s, a) == {[s EXCEPT !.deleted = @ \cup {a}]}

\* softDeleteAccountByAddress: the selection leaves a deleted account.
softDeleteAccountByAddress(s, a) ==
    LET marked == [s EXCEPT !.deleted = @ \cup {a}]
    IN  CASE s.account # a -> {marked}
          [] s.account = a /\ listAccounts(marked) # {} ->
                 {setSelectedAccount(marked, b) : b \in listAccounts(marked)}
          [] OTHER -> {[marked EXCEPT !.account = None]}

restoreDeletedAccountByAddress(s, a) == [s EXCEPT !.deleted = @ \ {a}]

AccountsIn(ks) == UNION {ToSet(ks[w]) : w \in DOMAIN ks}

\* The end of #handleOnKeyringStateChange: a selected wallet, or else account,
\* that is gone is replaced.
Repaired(s, ks) ==
    CASE s.wallet \notin s.wallets -> {setSelectedWallet(s, w, ks) : w \in s.wallets}
      [] s.wallet \in s.wallets /\ s.account \notin s.accounts /\ listAccounts(s) # {} ->
             {setSelectedAccount(s, a) : a \in listAccounts(s)}
      [] s.wallet \in s.wallets /\ s.account \notin s.accounts /\ listAccounts(s) = {} ->
             {[s EXCEPT !.account = None]}
      [] OTHER -> {s}

\* Mutant of handleOnKeyringStateChange: what is gone from the keyrings stays.
handleAdditionsOnly(s, ks) ==
    Repaired([s EXCEPT !.wallets = @ \cup DOMAIN ks, !.accounts = @ \cup AccountsIn(ks)], ks)

\* #handleOnKeyringStateChange, of an unlocked wallet with keyrings ks.  A new
\* account is selected unless it comes with a new wallet, which then is.
handleOnKeyringStateChange(s, ks) ==
    LET newWallets == DOMAIN ks \ s.wallets
        newAccounts == AccountsIn(ks) \ s.accounts
        synced == [s EXCEPT !.wallets = DOMAIN ks, !.accounts = AccountsIn(ks),
                            !.deleted = @ \cap AccountsIn(ks)]
        added(w) == {setSelectedWallet(r, w, ks) : r \in Repaired([synced EXCEPT !.wallet = w], ks)}
    IN  CASE newWallets # {} -> UNION {added(w) : w \in newWallets}
          [] newWallets = {} /\ newAccounts # {} ->
                 UNION {Repaired(setSelectedAccount(synced, a), ks) : a \in newAccounts}
          [] OTHER -> Repaired(synced, ks)
=============================================================================
