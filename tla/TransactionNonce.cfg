SPECIFICATION Spec
CONSTANTS
    p1 = p1
    p2 = p2
    p3 = p3
    a1 = a1
    a2 = a2
    Calls = {p1, p2, p3}
    Actions = {a1, a2}
    ActionOf <- ReplayActionOf
    TxIds = {t1, t2, t3}
    SiteNonces = {None}
    MaxNonce = 2
    SignOutcomes = {"signed"}
    MaxRestarts = 0
    None = None
CHECK_DEADLOCK FALSE
SYMMETRY Symmetry
INVARIANTS
    SubmittedNoncesDiffer
