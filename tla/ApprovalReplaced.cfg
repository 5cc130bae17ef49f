SPECIFICATION Spec
CONSTANTS
    Ids = {r1, r2, r3}
    Origins = {dapp, site}
    Types = {transaction, switchChain}
    ExcludedTypes = {transaction}
    Calls = {c1, c2}
    RequestStates = {initial, updated}
    InitialState = initial
    None = None
SYMMETRY Symmetry
CHECK_DEADLOCK FALSE
PROPERTIES
    ReplacedPromiseSettles
