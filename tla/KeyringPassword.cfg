SPECIFICATION Spec
CONSTANTS
    seed = seed
    key = key
    device = device
    a1 = a1
    a2 = a2
    a3 = a3
    a4 = a4
    Passwords = {p1, p2}
    Wallets = {seed, key, device}
    Type <- TypeOfWallet
    Derived <- CollidingDerived
    MaxKeyrings = 3
    None = None
INVARIANTS
    PasswordOpensVault
