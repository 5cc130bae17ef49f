SPECIFICATION Spec
CONSTANTS
    b1 = b1
    s1 = s1
    s2 = s2
    Batches = {b1}
    Length <- BatchLength
    Sends = {s1, s2}
    ApprovalOf <- SwapApproval
    Attempts = 2
    MaxNonce = 1
    MaxRestarts = 1
    None = None
CHECK_DEADLOCK FALSE
INVARIANTS
    TypeOK
    StatusIsTrue
    StepsInOrder
    EntriesAreTrue
    PaidOnce
PROPERTIES
    EndedStays
