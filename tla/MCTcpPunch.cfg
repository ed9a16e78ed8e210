\* Two connections, from one address as when a port is reused or from two; the
\* main loop and one spawned task send to them.  Heartbeats tick and writes to
\* clients that have left fail in the end.
SPECIFICATION FairSpec
CONSTANTS
    c1 = c1  c2 = c2
    a1 = a1  a2 = a2
    s1 = s1
    None = None
    Main = Main
    Conns = {c1, c2}
    Addrs = {a1, a2}
    Spawned = {s1}
INVARIANTS
    SinkUnderItsAddress
    SinkIsKept
    LeakedOnlyInFlight
PROPERTIES
    GoneClientIsClosed
