---------------------------- MODULE VaultPromise ----------------------------
(***************************************************************************)
(* KeyringController without the mutex, the rollback and the caches: an    *)
(* operation on the keyrings reaches the open session and the vault        *)
(* together or not at all; a restart goes back to what was saved.          *)
(*                                                                         *)
(* Of the session this is what it would save: its keyrings in the form in  *)
(* which the vault has them.  A seed is stored as a number of accounts, so *)
(* that this does not say which accounts of it are in memory.              *)
(***************************************************************************)
VARIABLES
    stored,             \* the keyrings in the vault; {} when there is no vault
    saved,              \* the vault as last written to disk
    held,               \* what the open session would save; {} when locked
    open                \* is the wallet unlocked?

Init == stored = {} /\ saved = {} /\ held = {} /\ ~open

Commit ==
    /\ stored' # {} /\ held' = stored' /\ open'
    /\ UNCHANGED saved

\* A locked wallet stays locked; it holds nothing.
CommitLocked ==
    /\ ~open /\ stored' # {}
    /\ UNCHANGED <<saved, held, open>>

Lock ==
    /\ held' = {} /\ ~open'
    /\ UNCHANGED <<stored, saved>>

Unlock ==
    /\ stored # {} /\ held' = stored /\ open'
    /\ UNCHANGED <<stored, saved>>

\* The first import of a hardware wallet fails: a session without a vault.
OpenWithoutVault ==
    /\ stored = {} /\ held' = {} /\ open'
    /\ UNCHANGED <<stored, saved>>

Save ==
    /\ saved' = stored
    /\ UNCHANGED <<stored, held, open>>

Restart ==
    /\ stored' = saved /\ held' = {} /\ ~open'
    /\ UNCHANGED saved

Next ==
    \/ Commit \/ CommitLocked
    \/ Lock \/ Unlock \/ OpenWithoutVault
    \/ Save \/ Restart

Spec == Init /\ [][Next]_<<stored, saved, held, open>>
=============================================================================
