------------------------ MODULE MCKeyringController ------------------------
(* Finite instances of KeyringController for TLC. *)
EXTENDS KeyringController, TLC

CONSTANTS seed, key, device, a1, a2, a3, a4

\* The private key is that of the seed's second account, as when a user first
\* imports an account of a seed and then the seed.
CollidingDerived == (seed :> <<a1, a2>>) @@ (key :> <<a2>>) @@ (device :> <<a3, a4>>)
TypeOfWallet == (seed :> "hd") @@ (key :> "simple") @@ (device :> "hardware")

\* The passwords are interchangeable, and every property is a safety property.
Symmetry == Permutations(Passwords)
=============================================================================
