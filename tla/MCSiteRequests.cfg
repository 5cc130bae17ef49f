SPECIFICATION FairSpec
CONSTANTS
    c1 = c1
    c2 = c2
    c3 = c3
    c4 = c4
    c5 = c5
    o1 = o1
    o2 = o2
    Calls = {c1, c2, c3, c4, c5}
    Waiters = {c1, c2, c3, c4, c5}
    OriginOf <- SitesOriginOf
    KindOf <- SitesKindOf
    Deferred = {c3}
    MaxRestarts = 1
INVARIANTS
    TypeOK
    WaitersArePrompted
    LocksAreHeldByWaiters
PROPERTIES
    DisclosedWhilePermitted
    AcceptedIsReported
