SPECIFICATION Spec
CONSTANTS
    u1 = u1  u2 = u2  k1 = k1  k2 = k2  k3 = k3  a1 = a1  lo = lo  None = None
    Ids = {i1}
    Uuids = {u1, u2}
    Keys = {k1, k2, k3}
    KeysOf <- TwoKeysEach
    Ips = {a1, lo}
    Loopback = {lo}
    Tasks = {udp, tcp}
    Registrars = {udp}
    Refs = {r1, r2, r3}
    Guids = {g1}
    RegPkLimit = 1
    Faults = {"write", "crash", "wrap"}
    MustLogin = FALSE
    LoggedIn = {}
SYMMETRY Symmetric
INVARIANTS
    MemoryAgreesWithRow
    SignedKeyIsOwners
PROPERTIES
    ForwardsReachAPeer
    BookSpec
