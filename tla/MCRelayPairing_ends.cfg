\* Three connections of one session: over IPv6, over IPv4 (on the dual-stack
\* listener) and through a proxy; every address is on the blocklist at times; a
\* relay may be silent for one timer tick.
SPECIFICATION FairSpec
CONSTANTS
    c1 = c1  c2 = c2  c3 = c3  c4 = c4
    u1 = u1  u2 = u2
    ip1 = ip1  ip2 = ip2  mapped1 = mapped1
    a1 = a1  a2 = a2  a3 = a3
    None = None
    Conns = {c1, c2, c3}
    Uuids = {u1}
    Ips = {ip1, ip2, mapped1}
    AddrOf <- MCAddrOf
    V4 <- MCV4
    WsConns = {c3}
    RealIp <- MCRealIp
    UsageIds = {a1, a2, a3}
    UsageOf <- MCUsageOf
    IdleLimit = 1
PROPERTIES
    ParkedLeaves
    SilentRelayEnds
    BlockedRelayEnds
