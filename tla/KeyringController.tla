-------------------------- MODULE KeyringController --------------------------
(***************************************************************************)
(* src/controller/KeyringController.tsx: the vault, the keyrings in memory,*)
(* the lock of the wallet, and the AppController calls that drive them.    *)
(*                                                                         *)
(* Every changing operation runs under #controllerOperationMutex as        *)
(* #withRollback or #persistOrRollback: its body, then #updateVault or the *)
(* rollback.  These are the steps; the hardware address pages, removals of *)
(* whole wallets, storage and restarts interleave with them.               *)
(*                                                                         *)
(* A serialized keyring is represented by the keyring it deserializes to,  *)
(* an encryption key by the password it was derived from.                  *)
(***************************************************************************)
EXTENDS Naturals, SequencesExt, Filter

CONSTANTS
    Passwords,
    Wallets,            \* seeds, private keys and hardware devices
    Type,               \* their KeyringTypes: "hd", "simple" or "hardware"
    Derived,            \* the addresses of a wallet, in the order of derivation
    MaxKeyrings,        \* bound of the keyrings, the unsupported ones included
    None

ASSUME WalletsOK ==
    /\ Type \in [Wallets -> {"hd", "simple", "hardware"}]
    /\ \A w \in Wallets :
          /\ Derived[w] \in Seq(ToSet(Derived[w])) /\ Derived[w] # <<>>
          /\ Type[w] = "simple" => Len(Derived[w]) = 1
    /\ MaxKeyrings \in Nat
    /\ None \notin Passwords \cup Wallets

VARIABLES
    keyrings,           \* #keyrings
    unsupported,        \* #unsupportedKeyrings
    password,           \* #password
    encryptionKey,      \* state.encryptionKey, with its salt
    isUnlocked,         \* state.isUnlocked
    mirror,             \* state.keyrings: what is displayed of the keyrings
    vault,              \* state.vault
    preview,            \* is there a hardware preview session?
    op,                 \* the operation that holds the controller mutex
    removing,           \* accounts AppController.removeWallet has yet to remove, of which wallet
    disk                \* the vault as last written to storage

memory == <<keyrings, unsupported, password, encryptionKey, isUnlocked, mirror>>
vars == <<memory, vault, preview, op, removing, disk>>

Addresses == UNION {ToSet(Derived[w]) : w \in Wallets}
Free == [kind |-> "none", stage |-> "none", subject |-> None, keyrings |-> <<>>,
         unsupported |-> <<>>, password |-> None, isUnlocked |-> FALSE]
NoVault == [key |-> None, keyrings |-> <<>>]

Keyring == {k \in [wallet : Wallets, accounts : Seq(Addresses)] :
                k.accounts \in Seq(ToSet(Derived[k.wallet]))}

Vault == {NoVault} \cup [key : Passwords, keyrings : Seq(Keyring) \ {<<>>}]

Kinds == {"addNewAccount", "addNewWallet", "createNewVault", "createKeychain",
          "importHardware", "removeAccount", "submitPassword", "changePassword"}

Operation ==
    [kind : {"none"} \cup Kinds,
     stage : {"none", "save", "undo"},
     subject : Wallets \cup Passwords \cup {None},
     keyrings : Seq(Keyring), unsupported : Seq(Keyring),
     password : Passwords \cup {None}, isUnlocked : BOOLEAN]

TypeOK ==
    /\ keyrings \in Seq(Keyring) /\ unsupported \in Seq(Keyring) /\ mirror \in Seq(Keyring)
    /\ password \in Passwords \cup {None} /\ encryptionKey \in Passwords \cup {None}
    /\ isUnlocked \in BOOLEAN /\ preview \in BOOLEAN
    /\ vault \in Vault /\ disk \in Vault
    /\ op \in Operation
    /\ removing \in Seq([wallet : Wallets, account : Addresses])

Init ==
    /\ keyrings = <<>> /\ unsupported = <<>> /\ mirror = <<>>
    /\ password = None /\ encryptionKey = None /\ isUnlocked = FALSE
    /\ vault = NoVault /\ disk = NoVault
    /\ preview = FALSE
    /\ op = Free
    /\ removing = <<>>

-----------------------------------------------------------------------------
(* Keyrings *)

AccountsOf(ks) == UNION {ToSet(ks[i].accounts) : i \in DOMAIN ks}

\* serialize: of an HD keyring its mnemonic and the number of its accounts.
Serialized(k) ==
    IF Type[k.wallet] = "hd"
    THEN [k EXCEPT !.accounts = SubSeq(Derived[k.wallet], 1, Len(k.accounts))]
    ELSE k

SerializedOf(ks) == [i \in DOMAIN ks |-> Serialized(ks[i])]

\* Mutant of GetSerializedKeyrings: the unsupported keyrings come first.
UnsupportedFirst == unsupported \o SerializedOf(keyrings)

\* #getSerializedKeyrings
GetSerializedKeyrings == SerializedOf(keyrings) \o unsupported

\* #checkForDuplicate looks at the first account only, and not for HD keyrings.
IsDuplicate(k, ks) ==
    Type[k.wallet] # "hd" /\ k.accounts # <<>> /\ k.accounts[1] \in AccountsOf(ks)

\* #restoreKeyring: a keyring that cannot be restored is put aside.
RestoreKeyring(r, k) ==
    IF IsDuplicate(k, r.keyrings)
    THEN [r EXCEPT !.unsupported = Append(@, k)]
    ELSE [r EXCEPT !.keyrings = Append(@, k)]

\* What the first i stored keyrings restore, with what was put aside before.
RestoredOf(aside, stored) ==
    LET restored[i \in 0 .. Len(stored)] ==
            IF i = 0 THEN [keyrings |-> <<>>, unsupported |-> aside]
            ELSE RestoreKeyring(restored[i - 1], stored[i])
    IN  restored

\* #restoreSerializedKeyrings
Restored(stored) == RestoredOf(unsupported, stored)[Len(stored)]

-----------------------------------------------------------------------------
(* The mutex, #updateVault and the rollback *)

\* Bound: storage lags behind by at most one operation.
Stored == disk = vault

\* Bound: no operation starts with more keyrings.
WithinBounds == Stored /\ Len(GetSerializedKeyrings) <= MaxKeyrings

\* The controller mutex is acquired and the rollback's snapshot taken; when
\* the body has thrown, the rollback is next.
Acquire(kind, subject, threw) ==
    /\ op = Free /\ WithinBounds
    /\ op' = [kind |-> kind, stage |-> IF threw THEN "undo" ELSE "save",
              subject |-> subject, keyrings |-> SerializedOf(keyrings),
              unsupported |-> unsupported, password |-> password, isUnlocked |-> isUnlocked]

\* An operation that does not write the vault has ended with its body.
AcquireAndEnd == op = Free /\ Stored /\ UNCHANGED op

\* Mutant of CanSave: the credentials are not looked at.
CanSaveAny == GetSerializedKeyrings # <<>>

CanSave == (password # None \/ encryptionKey # None) /\ GetSerializedKeyrings # <<>>

\* Mutant of VaultKey: the password's key, while the cached one is not replaced.
VaultKeyOfPassword == IF password # None THEN password ELSE encryptionKey

\* #updateVault encrypts with the cached key, and with the password without one.
VaultKey == IF encryptionKey # None THEN encryptionKey ELSE password

\* #updateVault
UpdateVault ==
    /\ op.stage = "save" /\ CanSave
    /\ vault' = [key |-> VaultKey, keyrings |-> GetSerializedKeyrings]
    /\ encryptionKey' = IF encryptionKey # None THEN encryptionKey ELSE password
    /\ mirror' = keyrings
    /\ op' = Free
    /\ removing' = IF op.kind = "removeAccount" THEN Tail(removing) ELSE removing
    /\ UNCHANGED <<keyrings, unsupported, password, isUnlocked, preview, disk>>

\* Mutant of UpdateVaultFails: without a rollback.
UpdateVaultFailsOnly ==
    /\ op.stage = "save" /\ ~CanSave
    /\ op' = Free
    /\ removing' = IF op.kind = "removeAccount" THEN <<>> ELSE removing
    /\ UNCHANGED <<memory, vault, preview, disk>>

\* #updateVault throws: no credentials, or no primary keyring.
UpdateVaultFails ==
    /\ op.stage = "save" /\ ~CanSave
    /\ op' = [op EXCEPT !.stage = "undo"]
    /\ UNCHANGED <<memory, vault, preview, removing, disk>>

\* The catch of #withRollback: keyrings and password go back, and nothing else.
Rollback ==
    /\ op.stage = "undo"
    /\ LET r == Restored(op.keyrings \o op.unsupported)
       IN  keyrings' = r.keyrings /\ unsupported' = r.unsupported
    /\ password' = op.password
    /\ op' = Free
    /\ removing' = IF op.kind = "removeAccount" THEN <<>> ELSE removing
    /\ UNCHANGED <<encryptionKey, isUnlocked, mirror, vault, preview, disk>>

-----------------------------------------------------------------------------
(* Operations that add accounts and wallets *)

Elsewhere == <<encryptionKey, mirror, vault, removing, disk>>

KeyringsOf(w) == {k \in Keyring : k.wallet = w}

HdPosition(w) == IF Type[w] = "hd" THEN FirstIn(keyrings, KeyringsOf(w)) ELSE 0

\* addNewAccount without such an HD keyring, or with too high a count.
AddNewAccountThrows(w, count) ==
    /\ LET i == HdPosition(w) IN (i # 0 => count > Len(keyrings[i].accounts))
    /\ Acquire("addNewAccount", w, TRUE)
    /\ UNCHANGED <<Elsewhere, keyrings, unsupported, password, isUnlocked, preview>>

\* addNewAccount of an account that exists already returns it.
AddNewAccountAgain(w, count) ==
    /\ LET i == HdPosition(w) IN i # 0 /\ count < Len(keyrings[i].accounts)
    /\ Acquire("addNewAccount", w, FALSE)
    /\ UNCHANGED <<Elsewhere, keyrings, unsupported, password, isUnlocked, preview>>

\* addNewAccount derives the next account; verifySeedPhrase throws if the
\* seed does not restore the keyring's accounts.
AddNewAccount(w, count) ==
    LET i == HdPosition(w)
    IN  /\ i # 0 /\ count = Len(keyrings[i].accounts) /\ count < Len(Derived[w])
        /\ LET k == [keyrings[i] EXCEPT !.accounts = Append(@, Derived[w][count + 1])]
           IN  /\ keyrings' = [keyrings EXCEPT ![i] = k]
               /\ Acquire("addNewAccount", w, k # Serialized(k))
        /\ UNCHANGED <<Elsewhere, unsupported, password, isUnlocked, preview>>

FirstAccount(w) == [wallet |-> w, accounts |-> <<Derived[w][1]>>]

\* addNewWallet, addNewWalletWithPrivateKey
AddNewWallet(w) ==
    /\ Type[w] # "hardware" /\ Len(GetSerializedKeyrings) < MaxKeyrings
    /\ LET threw == password = None \/ IsDuplicate(FirstAccount(w), keyrings)
       IN  /\ Acquire("addNewWallet", w, threw)
           /\ keyrings' = IF threw THEN keyrings ELSE Append(keyrings, FirstAccount(w))
    /\ UNCHANGED <<Elsewhere, unsupported, password, isUnlocked, preview>>

\* #createNewVaultWithKeyring, of createNewVaultAndRestore and its variant for
\* a private key.  The cached encryption key is kept.
CreateNewVault(w, p) ==
    /\ Type[w] # "hardware"
    /\ Acquire("createNewVault", w, FALSE)
    /\ password' = p
    /\ keyrings' = <<FirstAccount(w)>>
    /\ isUnlocked' = TRUE
    /\ UNCHANGED <<Elsewhere, unsupported, preview>>

\* The seed phrase is not valid: the keyrings are cleared by then.
CreateNewVaultInvalid(w, p) ==
    /\ Type[w] # "hardware"
    /\ Acquire("createNewVault", w, TRUE)
    /\ password' = p
    /\ keyrings' = <<>>
    /\ UNCHANGED <<Elsewhere, unsupported, isUnlocked, preview>>

\* createNewVaultAndKeychain does nothing but save when there are accounts.
CreateKeychainAgain ==
    /\ AccountsOf(keyrings) # {}
    /\ Acquire("createKeychain", None, FALSE)
    /\ UNCHANGED <<Elsewhere, keyrings, unsupported, password, isUnlocked, preview>>

-----------------------------------------------------------------------------
(* Hardware wallets *)

\* getLedgerHardwareAddressPage, outside the mutex.
GetHardwareAddressPage ==
    /\ ~preview /\ preview' = TRUE
    /\ UNCHANGED <<memory, vault, op, removing, disk>>

\* clearLedgerHardwarePreviewSession, outside the mutex.
ClearPreview ==
    /\ preview /\ preview' = FALSE
    /\ UNCHANGED <<memory, vault, op, removing, disk>>

\* #ensureVaultPasswordForFirstHardwareImport, then the keyring of the preview
\* session and one of its addresses.  The device fails, or the address is in
\* the wallet already: the import throws.
ImportHardware(w, a, p, deviceFails) ==
    LET first == vault = NoVault /\ p # None
        kept == IF first THEN <<>> ELSE keyrings
    IN  /\ Type[w] = "hardware" /\ Len(GetSerializedKeyrings) < MaxKeyrings
        /\ preview /\ preview' = FALSE
        /\ Acquire("importHardware", w, deviceFails \/ a \in AccountsOf(kept))
        /\ keyrings' = Append(kept, [wallet |-> w, accounts |-> <<a>>])
        /\ password' = IF first THEN p ELSE password
        /\ isUnlocked' = (first \/ isUnlocked)
        /\ UNCHANGED <<Elsewhere, unsupported>>

\* Without a preview session, or of a wallet that is not there, it throws.
ImportHardwareThrows(w) ==
    /\ Type[w] = "hardware"
    /\ ~preview
    /\ Acquire("importHardware", w, TRUE)
    /\ UNCHANGED <<Elsewhere, keyrings, unsupported, password, isUnlocked, preview>>

\* A further address of a hardware wallet that is in the vault.
ImportMore(w, a) ==
    LET i == FirstIn(keyrings, KeyringsOf(w))
        known == ToSet(keyrings[i].accounts)
    IN  /\ Type[w] = "hardware" /\ i # 0
        /\ Acquire("importHardware", w, a \in AccountsOf(keyrings) \ known)
        /\ keyrings' = IF a \in known THEN keyrings
                       ELSE [keyrings EXCEPT ![i].accounts = Append(@, a)]
        /\ preview' = FALSE
        /\ UNCHANGED <<Elsewhere, unsupported, password, isUnlocked>>

-----------------------------------------------------------------------------
(* Removing a wallet *)

\* AppController.removeWallet reads the addresses once, and removes them one
\* by one, each in an operation of its own.
RemoveWallet(w) ==
    /\ removing = <<>>
    /\ LET i == FirstIn(mirror, KeyringsOf(w))
       IN  /\ i # 0
           /\ removing' = [j \in DOMAIN mirror[i].accounts |->
                              [wallet |-> w, account |-> mirror[i].accounts[j]]]
    /\ UNCHANGED <<memory, vault, preview, op, disk>>

\* Mutant of WithoutEmpty: only the last keyring stays.
LastOnly(ks) == IF ks = <<>> THEN ks ELSE <<Last(ks)>>

\* #removeEmptyKeyrings
WithoutEmpty(ks) == Filtered(ks, {k \in Keyring : k.accounts # <<>>})

\* removeAccount
RemoveAccount ==
    /\ removing # <<>>
    /\ LET a == Head(removing).account
           i == FirstIn(keyrings, {k \in Keyring : a \in ToSet(k.accounts)})
       IN  IF i = 0
           THEN Acquire("removeAccount", None, TRUE) /\ UNCHANGED keyrings
           ELSE /\ Acquire("removeAccount", keyrings[i].wallet, FALSE)
                /\ keyrings' = WithoutEmpty([keyrings EXCEPT ![i].accounts =
                                                 Filtered(@, Addresses \ {a})])
    /\ UNCHANGED <<Elsewhere, unsupported, password, isUnlocked, preview>>

-----------------------------------------------------------------------------
(* Lock, unlock and the password *)

\* setLocked keeps the cached encryption key.
SetLocked ==
    /\ AcquireAndEnd
    /\ preview' = FALSE
    /\ password' = None
    /\ keyrings' = <<>> /\ mirror' = <<>>
    /\ isUnlocked' = FALSE
    /\ UNCHANGED <<unsupported, encryptionKey, vault, removing, disk>>

\* submitPassword
SubmitPassword(p) ==
    /\ AcquireAndEnd /\ vault # NoVault /\ p = vault.key
    /\ Len(unsupported) <= MaxKeyrings
    /\ LET r == Restored(vault.keyrings)
       IN  keyrings' = r.keyrings /\ mirror' = r.keyrings /\ unsupported' = r.unsupported
    /\ password' = p /\ encryptionKey' = p
    /\ isUnlocked' = TRUE
    /\ UNCHANGED <<vault, preview, removing, disk>>

\* submitPassword with a wrong password, or without a vault.
SubmitWrongPassword(p) ==
    /\ vault = NoVault \/ p # vault.key
    /\ Acquire("submitPassword", p, TRUE)
    /\ UNCHANGED <<Elsewhere, keyrings, unsupported, password, isUnlocked, preview>>

\* changePassword
ChangePassword(p) ==
    /\ Acquire("changePassword", p, ~isUnlocked)
    /\ password' = IF isUnlocked THEN p ELSE password
    /\ encryptionKey' = IF isUnlocked THEN None ELSE encryptionKey
    /\ UNCHANGED <<keyrings, unsupported, isUnlocked, mirror, vault, preview,
                   removing, disk>>

-----------------------------------------------------------------------------
(* Storage and restarts *)

\* The background writes its state to storage.
Persist ==
    /\ disk # vault
    /\ disk' = vault
    /\ UNCHANGED <<memory, vault, preview, op, removing>>

\* The service worker stops and starts again: of the state only the vault is
\* persisted, and memory is gone.
Restart ==
    /\ vault' = disk
    /\ keyrings' = <<>> /\ unsupported' = <<>> /\ mirror' = <<>>
    /\ password' = None /\ encryptionKey' = None /\ isUnlocked' = FALSE
    /\ preview' = FALSE /\ op' = Free /\ removing' = <<>>
    /\ UNCHANGED disk

-----------------------------------------------------------------------------
Adding ==
    \E w \in Wallets :
        \/ \E n \in 1 .. Len(Derived[w]) :
              AddNewAccountThrows(w, n) \/ AddNewAccountAgain(w, n) \/ AddNewAccount(w, n)
        \/ AddNewWallet(w)
        \/ \E p \in Passwords : CreateNewVault(w, p) \/ CreateNewVaultInvalid(w, p)

Hardware ==
    \/ GetHardwareAddressPage \/ ClearPreview
    \/ \E w \in Wallets :
          \/ \E a \in ToSet(Derived[w]) :
                \/ \E p \in Passwords \cup {None}, fails \in BOOLEAN : ImportHardware(w, a, p, fails)
                \/ ImportMore(w, a)
          \/ ImportHardwareThrows(w)

Next ==
    \/ UpdateVault \/ UpdateVaultFails \/ Rollback
    \/ Adding \/ CreateKeychainAgain
    \/ Hardware
    \/ \E w \in Wallets : RemoveWallet(w)
    \/ RemoveAccount
    \/ SetLocked
    \/ \E p \in Passwords :
          SubmitPassword(p) \/ SubmitWrongPassword(p) \/ ChangePassword(p)
    \/ Persist \/ Restart

Spec == Init /\ [][Next]_vars

-----------------------------------------------------------------------------
(* Properties *)

Committed == IF op = Free THEN isUnlocked ELSE op.isUnlocked

Promise == INSTANCE VaultPromise WITH
    stored <- ToSet(vault.keyrings),
    saved <- ToSet(disk.keyrings),
    held <- IF ~Committed THEN {}
            ELSE ToSet(IF op = Free THEN GetSerializedKeyrings
                       ELSE op.keyrings \o op.unsupported),
    open <- Committed

\* An operation on the keyrings reaches memory and vault together or not at
\* all, whatever fails: what an open session would save, its keyrings in their
\* serialized form and the ones put aside, is what the vault has.
VaultIsAtomic == Promise!Spec

\* Keyrings that are all restored, as they are, from their serialized form.
\* Others are an HD keyring that lost its first account, of which the same
\* number is derived again, and an imported key or device whose first address
\* a keyring before it has derived since, which is put aside.
Faithful(ks) ==
    \A i \in DOMAIN ks :
        Serialized(ks[i]) = ks[i] /\ ~IsDuplicate(ks[i], SubSeq(ks, 1, i - 1))

\* The keyrings displayed are in memory, and the next unlock restores them
\* first, accounts included, after whatever operations and rollbacks, if they
\* are restored from their serialized form at all.
SessionIsRestored ==
    op = Free /\ Faithful(mirror) =>
        /\ IsPrefix(mirror, keyrings)
        /\ IsPrefix(mirror, Restored(vault.keyrings).keyrings)

WalletsIn(v) == {k.wallet : k \in ToSet(v.keyrings)}

\* While the wallet is unlocked, a wallet leaves the vault only when one of its
\* own accounts is removed, when a new vault is made, or with what a restart
\* finds unsaved.  (With the key that setLocked leaves cached, the vault of a
\* locked wallet can be overwritten.)
WalletsLeaveOnlyOnRequest ==
    [][isUnlocked =>
        \A w \in WalletsIn(vault) \ WalletsIn(vault)' :
            \/ op.kind = "removeAccount" /\ op.subject = w
            \/ op.kind = "createNewVault"
            \/ Restart]_vars

\* An unlocked wallet with a vault can save: it knows the password, and the
\* key it has cached is the one the vault is encrypted with.
CredentialsFitVault ==
    op = Free /\ isUnlocked /\ vault # NoVault
        => password # None /\ encryptionKey = vault.key

\* changePassword deletes the cached key "to force the controller to
\* re-encrypt the vault using the new password", whatever ran before.
ChangedPasswordOpensVault ==
    [][UpdateVault /\ op.kind = "changePassword" => vault'.key = op.subject]_vars

\* Contradicted by the code: "Removes a wallet from state / storage.",
\* "@param walletId - The id of the wallet" (AppController.tsx:1462, 1464).
\* Accounts are removed by address, from the first keyring that has it.
RemovedWalletIsTheOneAsked ==
    [][\A w \in WalletsIn(vault) \ WalletsIn(vault)' :
          op.kind = "removeAccount" => w = Head(removing).wallet]_vars

\* Contradicted by the code: "@param password - The password to encrypt the
\* vault with." (KeyringController.tsx:2111); a cached key takes precedence.
PasswordOpensVault ==
    op = Free /\ isUnlocked /\ vault # NoVault => password = vault.key
=============================================================================
