# Chilly wallet: TLA+ models, checks and proofs

This directory specifies the parts of the Chilly browser wallet that are hard to
test: what waits for the user, for the wallet to be unlocked, for the chain or for
a rate limit; what the vault, the accounts and the sites' permissions are after a
long sequence of operations; and what a restart of the service worker does to all
of it. Sources are named from `src/src/`.

Contents: [inventory](#inventory), [the modules](#the-modules),
[the runs](#the-runs), [fairness](#fairness), [the proofs](#the-proofs),
[findings](#findings), [observations](#observations),
[what the models leave out](#what-the-models-leave-out),
[not modelled](#not-modelled), [plan](#plan).

## Inventory

A Manifest V3 service worker (`Background.tsx`) owns one `AppController`, which
builds the other controllers and joins them by a messenger (named actions and
events). Sites reach it through in-page provider, content script and a JSON-RPC
engine with middleware; the wallet's windows reach it through a port and
`RPCHandler`/`RPCClientFactory`. Everything in the worker is one thread: a method
runs to its next `await`, so races are between the stretches of code between
awaits, timers, port events and restarts of the worker.

| Component | State | Operations | Hard behaviour | What makes it correct |
|---|---|---|---|---|
| `ApprovalController` | callbacks per request, counters per origin and type, the store windows render | add, accept, reject, clear, update state | acceptance waits for a result while other windows act; a newer request replaces an older one | indexes agree; one open request per origin and limited type; one outcome per requester; no loss but by replacement |
| `TransactionController`, sites | stored transactions, mutex, abort callbacks, `finished` events | addTransaction, processApproval, approveTransaction, abort, trim | interleaved approvals, duplicate delivery, lost broadcast replies, restart | only accepted transactions broadcast; answers are true; a request is not sent twice; waiters are answered |
| `TransactionController`, batches | status per batch, in memory and storage | executeWalletSendCalls, status | one call of several fails or is replaced; restart in the middle | calls in order; the status is what happened |
| `TransactionController`, the user's sends; `PortfolioController` | windows, retries, list of pending transactions, polls | send, swap, poll, speed up, cancel, delete | retries after lost replies; polls of replaced transactions; no mutex | paid once; swap after approval; the list tells the truth |
| `RateLimiter` | queue, start times, calls in flight, one timer | execute, end of a call, timer, clearQueue | boundaries of the window, lost wake-ups, overtaking, hanging calls | rate and concurrency bounds; every queued call leaves; stale calls never start |
| `KeyringController` | vault, keyrings, password, cached key, lock state | unlock, lock, new vault, add and remove wallets and accounts, hardware imports, change password | rollback on failure, precedence of the cached key, keyrings that cannot be restored | failed operations leave what was; what a session would save and the vault agree; what is displayed is what the next unlock restores; no wallet leaves unasked |
| `AppStateController` | unlock waiters, id of the unlock request | getUnlockPromise, handleUnlock | many waiters behind one remembered prompt | whoever waits is in front of the user |
| `SignatureController`, message managers | messages and their status | newUnsigned, sign, cancel | a `finished` event per message; signature behind a lock | site and window are told the same end |
| `AccountsController`, permissions, `AppController` | wallets, accounts, selection, deleted accounts; accounts per site; what pages know | add, select, delete, restore, remove; connect, revoke | loops with awaits over permission state; validators that throw half-way | deleted accounts are seen by no site; pages know their accounts; a selection stays one |
| RPC middleware | a lock per origin | request accounts, signatures, switch chain | state checked before a wait | one waiting request per site; nothing disclosed after a revocation |
| Persistence, `Migrator` | state and metadata in browser storage | debounced write, read and migrate at start | crash between write and effect | what is restored is a state the wallet was in |
| Windows (`Background.tsx`, `NotificationManager`) | counters of popups, tabs, notification | open, close, trigger | opening twice, closing one of several | the wallet knows whether a window is open |
| UI RPC client | callbacks per request id | call, answer, disconnect, timeout | little: a promise settles once | each call is answered once |
| Hardware wallets | offscreen document, ports, preview session | preview, import, sign | device answers late or never | an import that fails changes nothing |
| Gas, staking, prices, network, preferences, contacts, onboarding, UI | caches and settings | polling and setters | little beyond the rate limiter | |

Interactions that matter for the models: `TransactionController` asks
`ApprovalController` for an approval and waits for its promise; the window
accepts with `waitForResult`, so the acceptance in turn waits for the result
callbacks the transaction reports; `KeyringController:unlock` resolves the waiters
of `AppStateController`, whose requests go on to permissions and signatures;
`KeyringController:stateChange` drives `AccountsController`, whose selection drives
the sites' permission lists and the pages; batches, sends and sites' transactions
share an account's nonces; data providers run their requests through
`RateLimiter`; storage takes the state of all controllers in one debounced write.

## The modules

Approvals
* **`ApprovalPromise`**: an abstract specification. A request has one status:
  `unmade`, `open`, then once `resolved`, `rejected` or `abandoned`. Opening a
  request may abandon at most one other; several leave together only by rejection.
* **`ApprovalController`**: one action per method. `approvals`, `origins`,
  `pendingApprovals` and `pendingApprovalCount` are the class's own maps;
  `promise`, `resultCallbacks` and `acceptCall` are what requester and acceptor
  hold. `Delete`, `Counted` and `Uncounted` are the private helpers every method
  goes through. The asynchronous `.finally` of `accept` is an action of its own
  (`FinallyDelete`), everything else of a method is one step.
  `ImplementsPromises` is the refinement: `Observed` maps `pending` to `open` or,
  when the callbacks are gone, to `abandoned`.

Sites' transactions
* **`TransactionController`**: one account on one chain. `stage` says where
  `processApproval` stands with each transaction; each stretch of code between two
  awaits is an action. `AddTransaction` and `JoinExisting` are the two branches of
  `addTransaction`; `Accept`, `AcceptInvalid`, `RejectByUser` the window;
  `StartSigning` to `PublishFails` the body of `approveTransaction` with each
  exception; `Persist` and `Restart` the service worker. The approval is an
  instance of `ApprovalPromise`, that is, this model rests on the
  specification that `ApprovalController` is proved to implement. Transactions
  are excluded from the rate limit of approvals and expect a result, so
  `Open(t, {})`, `Resolve` and `Reject` are the steps that occur.

Transactions without the mutex
* **`AccountChain`** (external): the node and chain as seen from one account: a pool
  of transactions per nonce, of which a block mines one, successfully or not.
* **`CallBatch`**: `executeWalletSendCalls` and `callBatchStore`. A batch is
  sequential or atomic (a delegation unless the account has one, then one
  transaction). Reading the nonce and broadcasting are two steps, so others may
  come in between; the wait for a receipt may succeed, tell of the revert, find
  none or reject.
* **`WalletTransactions`**: confirmations of the user (`send`), the list of pending
  transactions, the running polls and the speed-up window. Each attempt of
  `retryFunc` is a transaction of its own.
* **`AccountTransactions`** composes the three with a restart of the worker.

Keyrings
* **`VaultPromise`**: an abstract specification of what the user relies on: an
  operation reaches the open session and the vault together or not at all, and a
  restart goes back to what was saved. Of the session it has what it would save
  (`held`): a seed is stored as a number of accounts, so this does not say which of
  its accounts are in memory.
* **`KeyringController`**: an operation under the controller mutex is its body (an
  action per operation), then `UpdateVault`, or `UpdateVaultFails` and `Rollback`;
  `op` holds the snapshot `#withRollback` took. `Serialized` and `Restored` are
  what the keyrings' own serialization does: an HD keyring is stored as its seed
  and a number, and a keyring that duplicates an account is put aside as
  unsupported. `removing` is the loop of `AppController.removeWallet`.
  `VaultIsAtomic` is the refinement of `VaultPromise`, which maps `held` to the
  serialized keyrings and those put aside. Memory is the matter of
  `SessionIsRestored`: the keyrings displayed (`mirror`) are the first in memory and
  the first the next unlock restores, accounts included. It holds when they are
  `Faithful`: two kinds of keyring are not restored as they are, an HD keyring whose
  first account was removed (the same number is derived again, from the first) and
  a key or device whose address an earlier seed has derived since (it is put aside).

Requests of sites
* **`UnlockGate`**: `AppStateController`'s waiters and the request it remembers.
* **`SignatureController`**: message, approval (an `ApprovalPromise`), answer and
  the result the accepting window waits for.
* **`SiteRequests`** composes both with `eth_requestAccounts`, its lock per origin
  and the permission that may be revoked meanwhile. Whoever the gate releases goes
  on in the same turn (`GoOn`).

Accounts of sites
* **`AccountsController`**: operators on its state record; those that sort by
  `lastSelected` return the set of possible results, since the model keeps no times.
* **`SiteAccounts`** composes it with the published keyrings, the permissions, the
  notifications and each page's list. A turn begins with the stretch of code up to
  the first await of an event's handler and ends when nothing is left to run
  without another event. What goes on after awaits meanwhile are actions of their
  own, in any order: `LoopReads` and `LoopWrites` are an iteration of the loop of
  `_onSelectedAccountChange` on both sides of its await (an exception ends the
  loop), `Notify` is a notification whose list is there, `GoOn` is `removeWallet`
  after a keyring operation, which waits for no loop. `Restart` stops the worker
  between any two of them.

Rate limiter
* **`RateLimiter`**: ages in place of timestamps. `ProcessQueue` is the whole of
  `processQueue` (expiry, starts, timer, clearing), used by `Finally` and
  `TimerFires`. A call's own answer (`Settle`) and the `.finally` that follows in a
  later microtask are separate, so a caller may run in between; timers and time
  wait for microtasks.

Shared
* **`Filter`** (external): `filter` and `find` of the language's arrays. `Filtered`
  has the value of `SelectSeq`, written as a recursive function that the proofs
  can unfold.

**`MC...`** modules add only symmetry sets and the values of function constants.
**`...Proofs`** modules hold the theorems, each about the module it is named after
and extends; `FilterProofs` holds lemmas about sequences that several of them use.

Operators whose comment begins with "Mutant of" are not part of a specification:
each is a plausible bug of the operator it names and shows that some property
notices it.

## The runs

| Run | What it shows | Bounds | Distinct states |
|---|---|---|---|
| `approval_registry` | index consistency, one request per origin and type, one successful acceptance, loss only by replacement, refinement of `ApprovalPromise` | 3 requests, 2 origins, one limited and one excluded type, 2 acceptances | 33,697 |
| `transaction_pipeline` | safety of the transaction's life with duplicate delivery and a restart; liveness of accepted transactions | 3 calls (two with one actionId), 3 transactions, nonces 0..2, a site may fix nonce 0, one restart, `sign` may return nothing | 326 thousand |
| `rate_limiter` | rate, concurrency, timer, expiry; every queued call leaves | 4 calls, 2 starts per 2 time units, 1 in flight, queue of 2, wait of 2 | 249 thousand |
| `keyring` | refinement of `VaultPromise`, displayed keyrings are restored, wallets leave only on request, credentials fit the vault | a seed, a private key that is the seed's second account, a hardware wallet; 2 passwords; 3 keyrings | 389 thousand |
| `site_requests` | the gate, its prompt and locks; disclosure; signatures end for all | 5 calls (three for accounts, two signatures, one deferred) of 2 sites, one restart | 138 thousand |
| `account_transactions` | status of batches, order of calls and swaps, payments, the list of pending transactions | one batch of 2 calls or an atomic one, an approval and its swap, 2 attempts, nonces 0..1, one restart | 3.4 million |
| `site_accounts` | selection, deleted accounts, pages' lists, with account-change loops under way | 2 seeds with 2 and 1 accounts, 2 sites, 2 accounts permitted to each | 1.4 million |
| `approval_replaced`, `transaction_nonce`, `transaction_replay`, `keyring_new_password`, `keyring_removal` | violations, see findings | as the run of the module; the two of transactions without failing signatures and site nonces | |

Why these bounds are enough to see the interesting cases.
*Approvals*: a replacement needs two requests, its confusion with a third request
of the other type or origin needs three, a race of windows needs two acceptances.
*Transactions*: two deliveries of one request and one independent request give
every order of join, rejection and resend; three transactions are enough for a
mutex with a holder and two waiters, and for a resend behind another transaction;
one restart with arbitrary moments of persistence separates memory from storage.
*Rate limiter*: four calls fill slot and queue and leave one to overflow; a queued
one finds the window full, the slot taken, or itself expired with a fresh one behind
it, and the ages saturate one past the larger limit, which no comparison
distinguishes from any greater age; for more calls in flight at once the theorems
hold.
*Keyrings*: three keyrings hold each type at once; the shared address is what
duplicates, unsupported keyrings and removals by address need; two passwords are
an old and a new one. *Requests*: two requests of a site collide at lock and
replacement, and the other site shows that they do not disturb it; a
deferred personal message and a typed one are the two kinds of signature. *Account's transactions*:
three actors on two nonces collide in every way a nonce can be read twice, and
two attempts are the least that can pay twice. *Accounts*: a wallet whose last
listed account can go, another to move to, and a site before and one after it in
the loop. A loop is resumed between any two other stretches of its turn, at the
latest or at the earliest, so sites outside the model, which would delay it, add
nothing; a list of two accounts is one that is put in order, and awaited when a
page is told.

Deadlock checking is off for approvals, transactions and account transactions,
where requests are made once and the system rests when all are answered. It is on
for the rate limiter, whose clock always runs, and for keyrings, sites' requests
and accounts, where the user can always act.

Bounds that are guards of the models: `MaxNonce` (a transaction whose nonce would be
past it stops before signing, so `StartSigning` is disabled and only `NonceFails`
remains; a batch or send that finds no nonce only fails), `MaxRestarts` (in
`TransactionController` it also switches persistence off when no restart is left to
read it), `MaxKeyrings` and `Stored` (no keyring operation starts with more keyrings
or while an earlier one is not on disk), `MaxPermitted`, `Attempts`, one replacement per
transaction, one removal of a wallet at a time, and the finite sets of requests,
calls, jobs, wallets and accounts.

## Fairness

* `TransactionController!FairSpec`: weak fairness of each transaction's
  `Pipeline`. It says that node and keyring answer, positively or with an error.
  Nothing is assumed of the user or of sites, which is why `AcceptedIsAnswered`
  starts from an accepted transaction, and nothing of aborts or mining.
* `RateLimiter!FairSpec`: weak fairness of the pending microtasks (`Finally`), the
  due timer and the clock, which the event loop gives. Nothing is assumed of
  `Settle`: the functions the calls run may never end, and queued calls still
  leave, by expiry.
* `SiteRequests!FairSpec`: weak fairness of the keyring's settlement of each
  signature it was asked for (`KeyringSigns` or `KeyringFails`); a software key
  signs at once and a device's promise ends with its answer or its port. Nothing
  is assumed of the user, so nothing says that the wallet is unlocked.

## The proofs

Every invariant and every action property of the passing runs, and both
refinements, are theorems for all values of the constants. Two action properties
are proved and in no run: `ChangedPasswordOpensVault` (`NewPasswordOpensVault`) and
`OnlyTheUserExposes` (`OnlyTheUserGivesAccounts`). What remains model-checked only
are the three liveness properties.

| Module | Theorems (the property each states is in `PROJECT.json`) |
|---|---|
| `ApprovalControllerProofs` | `TypeCorrect`, `IndexesAgree`, `OnePerOriginAndType`, `OneAcceptSucceeds`, `NoOtherLoss`, `Refinement` |
| `TransactionControllerProofs` | `TypeCorrect`, `ProcessedStaysStored`, `NothingUnacceptedIsSent`, `SitesAreToldTheTruth`, `OneRequestOneTransaction`, `WaitersAreServed`, `MutexExcludes` |
| `AccountTransactionsProofs` | `TypeCorrect`, `StatusTellsTheChain`, `StepsFollowSuccess`, `ListTellsTheChain`, `ConfirmedOncePaidOnce`, `EndedBatchesStay` |
| `RateLimiterProofs` | `TypeCorrect`, `RateIsBounded`, `InFlightIsBounded`, `NoLostWakeUp`, `StartsInTime` |
| `KeyringControllerProofs` | `TypeCorrect`, `OpenWalletCanSave`, `NewPasswordOpensVault`, `NoWalletIsLost`, `Refinement`, `DisplayIsRestored` |
| `SiteRequestsProofs` | `TypeCorrect`, `EveryWaiterIsPrompted`, `NoLockIsLeftBehind`, `RevokedIsNotDisclosed` |
| `SiteAccountsProofs` | `TypeCorrect`, `DeletedIsNotPermitted`, `SelectionIsListed`, `PagesAreTold`, `OnlyTheUserGivesAccounts` |

All have one plan: an inductive invariant `IInv`, a lemma per action (or group of
actions) that preserves it, `Init => IInv`, `IInv /\ [Next]_vars => IInv'`, and the
theorems as consequences by temporal logic. No theorem rests on anything but the
named assumptions on constants, which TLC evaluates in every run: finitely many
requests, types, calls and accounts where something is counted or sorted; natural
bounds; `None` and the other sentinels are none of the values they stand beside;
batches and sends have different ids; derived addresses are sequences, not empty,
and in `SiteAccounts` those of two seeds are disjoint.

`FilterProofs`: what `Filtered` returns (the elements in the set, all of them, in
order, and without repetition if there was none), where `FirstIn` finds, and what
appending, dropping and concatenating do to elements. A recursive function has a
value only by induction. The library's induction theorems take an operator, which
these provers cannot instantiate; `NaturalsInduct` states induction for a set
instead and follows from well-foundedness.

`ApprovalControllerProofs`
* `IInv` is `TypeOK`, `RegistryConsistent`, `OneRequestPerOriginAndType` and
  `StoredWasMade` (a stored request has been made). The last is what makes the id
  of a new request fresh in all four indexes. The rate-limit invariant needs index
  consistency, because the code tests the counters and not the store; consistency
  of the counters needs that deleting the last request of an origin finds a total
  of exactly one, a lemma about the sum `OriginTotal`.
* Acceptances need a second invariant, `CallsInv`. A call "wins" once it has
  resolved or while it holds the request's result callbacks; `OneWinner` is
  preserved because a winner's request is no longer in the registry
  (`WinnersAreDone`), so that no other call can begin on it. `RunningHasSettled` is
  what the late `.finally` needs: when it deletes, the promise is settled or the
  request had no result to give, hence `NoOtherLoss`.
* `Refinement`: `Spec => ImplementsPromises`, step by step.

`TransactionControllerProofs`
* The key is `Snapshot`, stated of memory and of what was persisted alike, since a
  restart makes the second the first: whatever is alive is stored, of one actionId
  at most one transaction is alive, a submitted one is known to the node, a
  rejected one was rejected by the user. `StagesAgree` ties the stage of a
  transaction to its status, its approval and the mutex: only the head of the mutex
  signs and publishes. `EndedIsFinal` and `CallsAgree` say why a call waits and why
  it was answered. `UnusedIsNew` makes a new id new everywhere.
* Nothing about order in storage is assumed: the invariant survives a restart at any
  time from a copy of any age.

`AccountTransactionsProofs`
* `ChainInv`: a transaction is taken with one nonce, and of the pool of a nonce one
  is mined. Of each batch, `BatchOK` says that everything before the call it is at has
  succeeded and that the node knows none after it; of each confirmation,
  `AttemptsOK` says that an earlier attempt reached the node only if a reply was
  lost, `ReplacementOK` that a speed-up shares its nonce, so that not both are mined,
  `EntryOK` and `PollsOK` that list and polls are about one of those two. A restart
  keeps each part, since it only forgets.
* `StatusTellsTheChain` is as strong as the code's words: of `Reverted` without
  receipts nothing can be said, since the catch records it for any error (see
  the observations).

`RateLimiterProofs`
* `RateBound` speaks of calls that really started, the code of a pruned list.
  The bridge is `RecentAreCounted` (every call started within the interval is
  still in `callTimes`) and the bound of that list. `TimerWhenQueued` needs
  nothing of ages but that `UntilOldestLeaves` chooses an existing minimum, which is
  proved by well-founded induction on the naturals.
* `StartsInTime` needs the order of the queue, `QueueInv`: the calls in it are
  pending, at one position each, and the oldest is first. Then the calls that
  expired are a prefix of the queue (`ExpiredAreFirst`), as many as `ExpiredCount`
  drops, and whatever is started from the rest is fresh.

`KeyringControllerProofs`
* `Shapes`: a keyring in memory never has more accounts than its seed derives, and
  what is stored, or put aside as unsupported, is what it restores to (`Canonical`).
  `SessionFits`: what a lock and unlock, or a rollback, would bring back are keyrings
  of the vault, and in an open, saved session all of them. This is where duplicate
  accounts matter: `RestoredKeepsAll` shows, by induction over the stored keyrings,
  that restoring loses none of them, only sets some aside.
* `Opens`, `CredentialsAfter`, `Saving` follow password and key through an operation
  and its rollback, up to `CredentialsFitVault`. `WalletsStay` says of an
  operation about to save which wallets it keeps.
* `Refinement`: the save of an operation maps to a commit of `VaultPromise`, its body
  and its rollback to stutters, since during an operation what is held is the
  snapshot a rollback returns to; lock, unlock, write and restart map to the steps of
  the same names.
* `DisplayIsRestored`: `DisplayLasts` says that a faithful display begins what the
  vault restores and, between operations, the keyrings in memory, or, during an
  operation, what its snapshot restores. Keyrings are restored in the order in
  which they are stored, so those restored as they are come first whatever
  follows them, by induction.

`SiteRequestsProofs`
* `WaitersHoldLocks` restates `LocksAreHeldByWaiters` without counting: two
  requests of one origin are not at the gate at once, and locks and waiters at the
  gate are the same. `OpenIsAdded` says that an open signature approval belongs to a
  message of its manager, so that rejecting the one ends the other.
* `RevokedIsNotDisclosed` needs that whoever the gate releases goes on in that turn.

`SiteAccountsProofs`
* A change of permissions and its notifications are related to the sites before by
  two relations: `Fewer` (no site gains an account) and `Told` (a site's permission
  and what its page was told last are as they were, or the page knows the permission
  or is about to be told it).
* The invariant says of a turn that nothing on its way to a page and nothing a loop
  has read names a deleted account, which is why a loop that writes what it read
  brings none back; and that, until `removeWallet` goes on, what a loop has read
  has the accounts of the site's permission still (`FreshLoop`), so that it tells a
  page the truth and gives a site nothing (`RestOfTurn`). `GoOn` breaks the second
  part and leads to what `PagesKnowTheirAccounts` and `OnlyTheUserExposes` except.
* `KeyringsOK` says that a keyring has no more accounts than its seed derives;
  otherwise an unlock could not show what a lock put away. `Follows`: while
  unlocked, `AccountsController` lists what the keyrings hold.

Only model-checked: `AcceptedIsAnswered`, `QueuedLeaves` and `AcceptedIsReported`.
They rest on fairness, and the prover handles neither fairness nor `ENABLED`. The
properties of the violated runs (see findings) are false, and nothing is proved of
them.

## Findings

1. **A replaced request is never answered.** `#add`
   (`controller/ApprovalController.tsx:777`) deletes the older request of the same
   origin and type without settling its promise; a test of the repository
   says that it should reject. Run `approval_replaced`.
2. **Two approved transactions share a nonce.** `getNextNonce`
   (`controller/TransactionController.tsx:1494`) counts mined transactions only,
   while the same file's comment at line 1647 explains why `pending` must be used.
   The mutex orders nonce and broadcast but cannot help. Run `transaction_nonce`.
3. **A replayed request waits for ever.** After a restart the stored, still
   unapproved transaction is found by its actionId, and the replayed call only waits
   for an event nobody will fire (`controller/TransactionController.tsx:1135`). Run
   `transaction_replay`. Without restarts the property holds (`WaiterHasProcessor`).
4. **A new vault is encrypted with the old key.** `#updateVault` prefers the cached
   key to the password, `setLocked` keeps it, and the lines that would drop it for a
   new vault are commented out (`controller/KeyringController.tsx:2133`). A user who
   forgot the code, locked the wallet and sets a new one while the worker lives
   cannot open the new vault with it. Run `keyring_new_password`.
5. **Removing a wallet can remove another one.** `AppController.removeWallet`
   (`controller/AppController.tsx:1466`) removes by address, and the first keyring
   with that address loses it; an HD keyring may derive the address of an imported
   private key. Run `keyring_removal`.

## Observations

From reading and modelling; no run of their own claims them against a document.
The first three are what the exceptions named in properties stand for, and the
runs reach them.

* Sites, during `removeWallet`: it goes on with its next account without waiting for
  the loop of `_onSelectedAccountChange` that its last removal started. A loop that
  awaits a site's list meanwhile (`controller/AppController.tsx:1880`) then tells the
  page of what it read, with the account whose permission is gone, and, if the
  selected account is in that list, writes it as the site's permission (1891), so
  that the site sees the account again while it is listed. It takes several
  connected sites: the loop awaits once per site, and `removeWallet` goes on some
  microtasks after its keyring operation. `PagesKnowTheirAccounts` and
  `OnlyTheUserExposes` except what is left of that turn (`operation = "done"`).
* Keyrings: serialization does not keep every keyring. An HD keyring whose first
  account was removed is stored as a number of accounts, so a rollback
  (`controller/KeyringController.tsx:2625`) and the next unlock derive the first
  again and not the last; an imported key whose address a seed has derived since is
  put aside by both. After a rollback, memory then differs from what is
  displayed. `SessionIsRestored` excepts such displays (`Faithful`).
* Batches: when the ethers wait rejects for a reverted transaction, as version 6
  does, or a later send fails, the catch (`controller/TransactionController.tsx:683`)
  records `Reverted` without receipts although calls may have succeeded; the branch
  for `PartialRevert` after a revert is for a wait that returns the receipt.
  `StatusIsTrue` says nothing of the calls of such a batch.
* Approvals: a second acceptance with `waitForResult` of a request that is already
  resolved would wait for ever; reachable only with `deleteAfterResult`, which no
  window passes.
* Transactions: a second delivery of a request that the user rejects is answered
  "Unknown problem"; final transactions are trimmed as soon as another is added, so
  the limit the comment at line 996 speaks of does not exist, and `submitted` never
  becomes `confirmed`; `abortTransactionSigning` has no caller, and a failed
  signature leaves its abort callback behind; the branch on
  `approvingTransactionIds` cannot be taken, since the mutex already serialises.
* Sends: a lost reply makes `retryFunc` send the payment again with the next nonce;
  the swap page nests it around `newSendTransaction`, for up to sixteen attempts.
  A window closed before the hash returns leaves the transaction unlisted. A lost
  reply of a speed-up leaves the old hash in the list, and a poll of the replaced
  hash that ends late puts it back; the entry then shows "Sending" until it is
  deleted. The poll's `catch` does not count its tries.
* Batches: a restart leaves a batch `Pending` for ever; the delegation's receipt and
  the atomic transaction's status are not looked at.
* Keyrings: the rollback leaves `isUnlocked` set after a failed first hardware
  import; the key that `setLocked` keeps lets an import or `addNewAccount` write the
  vault of a locked wallet.
* Requests: a replaced permission request leaves its `eth_requestAccounts` hanging;
  one whose permission was revoked while it waited for the unlock is answered with
  an empty list; a deferred signature leaves the site and the window waiting; a
  personal message that failed is stored as rejected; nothing rejects the unlock
  request, so `AppStateController`'s handler of a rejection is not reached.
* Accounts and sites: a seed recovered over its persisted accounts keeps the flags
  of deleted accounts, so its wallet may list none and the selected account is
  gone; a new vault keeps the sites' permissions, and a list with an unknown
  account makes the validators throw, so account changes stop half-way through the
  sites; changes while the wallet is locked never reach a page; a grant during
  `removeWallet`, or a removal a lock interrupts, leaves permissions of accounts
  that are gone.
* The rate limiter polls with a timer of zero milliseconds while only the
  concurrency cap binds.

## What the models leave out

* Ids are fresh, as `nanoid`, `uuid` and `random()` make them, so the errors for
  duplicate ids and malformed arguments in `#validateAddParams` have no effect and
  are not steps. A missing entry of the counters is a count of zero.
* Methods that only throw (accept or reject of an unknown id) change nothing and are
  not steps. The windows' wrappers swallow that error.
* Transactions: one account, one chain, one day, so the trimming key is the nonce.
  The user may edit gas but the window offers no nonce. Gas, type and validation
  of origins happen before the transaction exists. The node takes or refuses a
  transaction, replaces a pending one of the same nonce, and mines in order. In
  `AccountChain` it keeps both, and a block takes either. Sites' transactions and
  those without the mutex are not in one model: the state space of their product
  is out of reach, and the mutex says nothing to the latter.
* A transaction that storage never saw is `lost` in the model's `meta` after a
  restart; the wallet itself knows nothing of it. Callers that waited are `lost`
  with the worker; their replay is a further call.
* Batches: the request's validation and approval come before `Start`; the storage
  write may fail and nobody is told, as in the code.
* Sends: `Attempts` stands for four tries of software keys (a hardware wallet has
  one); gas estimates and fees are data. Old entries are removed as a user would.
* Keyrings: encryption is a vault with a key, a key is the password it comes from;
  the vault mutex only protects work inside the controller mutex. Ledger and Trezor
  differ in data only. The re-encryption of vaults with old parameters is left out.
* Requests: one account per site (which accounts is `SiteAccounts`), a window may
  decide while the wallet is locked, as the code allows. The approval windows of
  permissions are replaced by newer ones of the site as finding 1 describes.
* Accounts: HD wallets with disjoint seeds; stored state is always saved in time.
* Rate limiter: all the repository's limiters set every limit, so `undefined` limits
  are not modelled; the clock does not go back; a wrapped function does not call
  `execute` of its own limiter synchronously; counters and logs are left out.
* Cryptography, formatting, remote data and rendering are left out everywhere.

## Not modelled

* `Migrator`: one loop over a list of data migrations before any other code runs.
* `RPCClientFactory`, `RPCHandler`: one promise per id over an ordered port; the late
  answer after the timeout of `getState` finds it settled.
* `Background.tsx`'s counters of windows and `NotificationManager`: which window is
  opened or focused, and when polling stops.
* `switch-ethereum-chain` and the other RPC methods: an approval and an idempotent
  setter.
* `GasController`, `LiquidStakingController`, prices, tokens, NFTs, history and the
  swap providers: arithmetic on and caches of remote data.
* `NetworkController`, `PreferencesController`, `ContactsController`,
  `OnboardingController`: setters of independent fields.
* Ledger and Trezor device protocols, stream framing, and the React components,
  which are most of the repository's lines: they render state and call the
  operations that are modelled.

## Plan

Modelling is complete as far as the components above go, and all safety and action
properties of the runs are proved. Left are the three liveness properties, which
only TLC can check, and, should they gain logic of their own, the components
under [not modelled](#not-modelled).
