\* Four connections, two of them WebSockets with one usage id, of two sessions:
\* two relays at once, three connections of one session.
SPECIFICATION Spec
CONSTANTS
    c1 = c1  c2 = c2  c3 = c3  c4 = c4
    u1 = u1  u2 = u2
    ip1 = ip1  ip2 = ip2  mapped1 = mapped1
    a1 = a1  a2 = a2  a3 = a3
    None = None
    Conns = {c1, c2, c3, c4}
    Uuids = {u1, u2}
    Ips = {ip1}
    AddrOf <- OneAddr
    V4 <- MCV4
    WsConns = {c3, c4}
    RealIp <- MCRealIp
    UsageIds = {a1, a2, a3}
    UsageOf <- MCUsageOf
    IdleLimit = 0
INVARIANTS
    Holding
    OneToOne
    FramingAgrees
    UsageIsLive
PROPERTY
    BoardSpec
