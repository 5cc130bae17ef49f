SPECIFICATION Spec
CONSTANTS
    w1 = w1
    w2 = w2
    a1 = a1
    a2 = a2
    a3 = a3
    Wallets = {w1, w2}
    Derived <- TwoWallets
    Origins = {o1, o2}
    MaxPermitted = 2
    None = None
SYMMETRY Symmetry
INVARIANTS
    TypeOK
    DeletedAreNotPermitted
PROPERTIES
    SelectionStaysListed
    PagesKnowTheirAccounts
