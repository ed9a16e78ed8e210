SPECIFICATION Spec
CONSTANTS
    u1 = u1  u2 = u2  k1 = k1  k2 = k2  k3 = k3  a1 = a1  lo = lo  None = None
    Ids = {i1, i2}
    Uuids = {u1, u2}
    Keys = {k1, k3}
    KeysOf <- OneKeyEach
    Ips = {a1}
    Loopback = {}
    Tasks = {udp, tcp}
    Registrars = {udp, tcp}
    Refs = {r1, r2, r3, r4}
    Guids = {g1, g2}
    RegPkLimit = 0
    Faults = {"read", "write"}
    MustLogin = FALSE
    LoggedIn = {}
SYMMETRY Symmetric
INVARIANTS
    TypeOK
    GuidPointsToRow
PROPERTIES
    RowsKeepTheirOwner
