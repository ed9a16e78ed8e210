\* One address, more ids than its quota, a rate limit of two.
SPECIFICATION RetrySpec
CONSTANTS
    Ips = {"ip"}
    Ids = {i1, i2, i3, i4, i5}
    RateLimit = 2
    IdLimit = 2
    BlockDur = 2
    Day = 3
INVARIANTS
    TypeOK
    BurstBounded
    IdsBounded
PROPERTY
    RefusalEnds
