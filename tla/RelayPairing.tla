---------------------------- MODULE RelayPairing ----------------------------
(***************************************************************************)
(* hbbr, the relay server (relay_server.rs).  Each connection is handled   *)
(* by a task of its own.  Its first message names a session uuid; the task *)
(* takes the stream that PEERS holds for that uuid and relays between the  *)
(* two, or puts its own stream into PEERS, sleeps for 30 seconds and       *)
(* removes what PEERS holds for the uuid by then.                          *)
(*                                                                         *)
(* A connection c stands for its task and for its stream.  The stream may  *)
(* outlive the task: it is moved into PEERS and from there into the task   *)
(* that relays it.  One action is what a task does between two awaits.     *)
(***************************************************************************)
EXTENDS Naturals

CONSTANTS
    Conns,      \* connections
    Uuids,      \* session uuids
    Ips,        \* addresses, as text
    AddrOf,     \* [Conns -> Ips]: the source address; on the dual-stack listener
                \* that of an IPv4 client is ::ffff:a.b.c.d
    V4,         \* [Ips -> Ips]: try_into_v4, takes ::ffff:a.b.c.d to a.b.c.d
    WsConns,    \* connections that come through the WebSocket port
    RealIp,     \* [WsConns -> Ips or None]: X-Real-IP or X-Forwarded-For
    UsageIds,   \* "ip:port" strings, the keys of USAGE
    UsageOf,    \* [Conns -> UsageIds]; X-Real-IP can give two connections the same
    IdleLimit,  \* timer ticks without data after which a relay ends (10 in the code)
    None

ASSUME ConstantsAssumption ==
    /\ AddrOf \in [Conns -> Ips]
    /\ V4 \in [Ips -> Ips]
    /\ WsConns \subseteq Conns
    /\ RealIp \in [WsConns -> Ips \cup {None}]
    /\ UsageOf \in [Conns -> UsageIds]
    /\ IdleLimit \in Nat
    /\ None \notin Conns \cup Uuids \cup Ips

VARIABLES
    pc,         \* [Conns -> Pcs]: where the connection's task is
    uuid,       \* [Conns -> Uuids or None]: rf.uuid of the first message
    peers,      \* PEERS: [Uuids -> Conns or None], the stream parked for a uuid
    partner,    \* [Conns -> Conns or None]: the stream a task took out of PEERS
    raw,        \* streams switched to raw mode
    usage,      \* the keys of USAGE
    blocklist,  \* BLOCKLIST
    idle,       \* [Conns -> 0..IdleLimit + 1]: timer ticks since last_recv_time
    checked     \* relays whose once-a-second part ran since their last timer tick

vars == <<pc, uuid, peers, partner, raw, usage, blocklist, idle, checked>>

Pcs == {"closed", "recv", "lookup", "park", "sleep", "usage", "relay", "send", "unuse"}

Opt(S) == S \cup {None}

Running == {"relay", "send", "unuse"}

Parked(c) == \E u \in Uuids : peers[u] = c

Taken(c) == \E d \in Conns : partner[d] = c

Goto(c, p) == pc' = [pc EXCEPT ![c] = p]

Init ==
    /\ pc = [c \in Conns |-> "closed"]
    /\ uuid = [c \in Conns |-> None]
    /\ peers = [u \in Uuids |-> None]
    /\ partner = [c \in Conns |-> None]
    /\ raw = {}
    /\ usage = {}
    /\ blocklist = {}
    /\ idle = [c \in Conns |-> 0]
    /\ checked = {}

\* handle_connection: an address whose IPv4 form is on the blocklist is dropped
\* at once.
Accept(c) ==
    /\ pc[c] = "closed"
    /\ ~Parked(c) /\ ~Taken(c)
    /\ V4[AddrOf[c]] \notin blocklist
    /\ Goto(c, "recv")
    /\ uuid' = [uuid EXCEPT ![c] = None]
    /\ UNCHANGED <<peers, partner, raw, usage, blocklist, idle, checked>>

\* No message within 30 seconds, not a RequestRelay, a wrong licence key or an
\* empty uuid.
Reject(c) ==
    /\ pc[c] = "recv"
    /\ Goto(c, "closed")
    /\ UNCHANGED <<uuid, peers, partner, raw, usage, blocklist, idle, checked>>

FirstMessage(c) ==
    /\ pc[c] = "recv"
    /\ \E u \in Uuids : uuid' = [uuid EXCEPT ![c] = u]
    /\ Goto(c, "lookup")
    /\ UNCHANGED <<peers, partner, raw, usage, blocklist, idle, checked>>

\* Mutant of TakePeer: get in the place of remove.
TakePeerWithoutRemove(c) ==
    /\ pc[c] = "lookup"
    /\ Goto(c, IF peers[uuid[c]] = None THEN "park" ELSE "usage")
    /\ partner' = [partner EXCEPT ![c] = peers[uuid[c]]]
    /\ UNCHANGED <<uuid, peers, raw, usage, blocklist, idle, checked>>

\* PEERS.lock().remove(uuid)
TakePeer(c) ==
    /\ pc[c] = "lookup"
    /\ Goto(c, IF peers[uuid[c]] = None THEN "park" ELSE "usage")
    /\ partner' = [partner EXCEPT ![c] = peers[uuid[c]]]
    /\ peers' = [peers EXCEPT ![uuid[c]] = None]
    /\ UNCHANGED <<uuid, raw, usage, blocklist, idle, checked>>

\* PEERS.lock().insert(uuid, stream), under a lock of its own: a stream that
\* was parked in between is overwritten and so closed.
Park(c) ==
    /\ pc[c] = "park"
    /\ peers' = [peers EXCEPT ![uuid[c]] = c]
    /\ Goto(c, "sleep")
    /\ UNCHANGED <<uuid, partner, raw, usage, blocklist, idle, checked>>

\* Mutant of Unpark: the stream stays in PEERS.
UnparkNothing(c) ==
    /\ pc[c] = "sleep"
    /\ Goto(c, "closed")
    /\ UNCHANGED <<uuid, peers, partner, raw, usage, blocklist, idle, checked>>

\* After 30 seconds the task removes whatever stream is parked under its uuid.
Unpark(c) ==
    /\ pc[c] = "sleep"
    /\ peers' = [peers EXCEPT ![uuid[c]] = None]
    /\ Goto(c, "closed")
    /\ UNCHANGED <<uuid, partner, raw, usage, blocklist, idle, checked>>

\* Mutant of StartRelay: only the stream's own kind is looked at.
StartRelayByOwnKind(c) ==
    /\ pc[c] = "usage"
    /\ usage' = usage \cup {UsageOf[c]}
    /\ raw' = IF c \in WsConns THEN raw ELSE raw \cup ({c, partner[c]} \ WsConns)
    /\ Goto(c, "relay")
    /\ UNCHANGED <<uuid, peers, partner, blocklist, idle, checked>>

\* USAGE gets the relay's entry, both streams go raw when neither is a
\* WebSocket, and relay starts.
StartRelay(c) ==
    /\ pc[c] = "usage"
    /\ usage' = usage \cup {UsageOf[c]}
    /\ raw' = IF {c, partner[c]} \cap WsConns = {} THEN raw \cup {c, partner[c]} ELSE raw
    /\ Goto(c, "relay")
    /\ UNCHANGED <<uuid, peers, partner, blocklist, idle, checked>>

\* make_pair, relay: the address the relay of c goes by.  The header of a proxy
\* replaces the source address, and neither is brought into its IPv4 form.
RelayIp(c) == IF c \in WsConns /\ RealIp[c] # None THEN RealIp[c] ELSE AddrOf[c]

\* The end of a round of relay's loop.  Once a second it looks at BLOCKLIST for
\* the address of the task's own connection, then writes USAGE.
EndRound(c, check) ==
    IF check /\ RelayIp(c) \in blocklist
    THEN Goto(c, "unuse") /\ UNCHANGED usage
    ELSE /\ Goto(c, "relay")
         /\ usage' = IF check THEN usage \cup {UsageOf[c]} ELSE usage

\* Data of either side, to be sent to the other.
Receive(c) ==
    /\ pc[c] = "relay"
    /\ idle' = [idle EXCEPT ![c] = 0]
    /\ Goto(c, "send")
    /\ UNCHANGED <<uuid, peers, partner, raw, usage, blocklist, checked>>

\* send_raw returns, or there was nothing to send.
Sent(c) ==
    /\ pc[c] = "send"
    /\ \E check \in BOOLEAN :
          /\ EndRound(c, check)
          /\ checked' = IF check THEN checked \cup {c} ELSE checked
    /\ UNCHANGED <<uuid, peers, partner, raw, blocklist, idle>>

\* Either side closes, or a send fails.
Disconnect(c) ==
    /\ pc[c] \in {"relay", "send"}
    /\ Goto(c, "unuse")
    /\ UNCHANGED <<uuid, peers, partner, raw, usage, blocklist, idle, checked>>

\* Mutant of Tick: the relay does not look for how long it received nothing.
TickWithoutTimeout(c) ==
    /\ pc[c] = "relay"
    /\ UNCHANGED idle
    /\ \E check \in BOOLEAN :
          /\ c \notin checked => check
          /\ EndRound(c, check)
    /\ checked' = checked \ {c}
    /\ UNCHANGED <<uuid, peers, partner, raw, blocklist>>

\* Mutant of Tick: the lists are looked at only after data.
TickWithoutCheck(c) ==
    /\ pc[c] = "relay"
    /\ idle' = [idle EXCEPT ![c] = IF @ > IdleLimit THEN @ ELSE @ + 1]
    /\ IF idle'[c] > IdleLimit
       THEN Goto(c, "unuse")
       ELSE UNCHANGED pc
    /\ checked' = checked \ {c}
    /\ UNCHANGED <<uuid, peers, partner, raw, usage, blocklist>>

\* The 3 second timer.  When the once-a-second part did not run since the last
\* tick it is due; otherwise it may be.
Tick(c) ==
    /\ pc[c] = "relay"
    /\ idle' = [idle EXCEPT ![c] = IF @ > IdleLimit THEN @ ELSE @ + 1]
    /\ IF idle'[c] > IdleLimit
       THEN Goto(c, "unuse") /\ UNCHANGED usage
       ELSE \E check \in BOOLEAN :
               /\ c \notin checked => check
               /\ EndRound(c, check)
    /\ checked' = checked \ {c}
    /\ UNCHANGED <<uuid, peers, partner, raw, blocklist>>

\* Three seconds pass while a send waits for its receiver: there is no timeout
\* on it, and no timer tick.
SendWaits(c) ==
    /\ pc[c] = "send"
    /\ idle[c] <= IdleLimit
    /\ idle' = [idle EXCEPT ![c] = @ + 1]
    /\ checked' = checked \ {c}
    /\ UNCHANGED <<pc, uuid, peers, partner, raw, usage, blocklist>>

\* Mutant of EndRelay: the entry of USAGE is not removed.
EndRelayKeepingUsage(c) ==
    /\ pc[c] = "unuse"
    /\ raw' = raw \ {c, partner[c]}
    /\ partner' = [partner EXCEPT ![c] = None]
    /\ uuid' = [uuid EXCEPT ![c] = None]
    /\ idle' = [idle EXCEPT ![c] = 0]
    /\ checked' = checked \ {c}
    /\ Goto(c, "closed")
    /\ UNCHANGED <<peers, usage, blocklist>>

\* The entry of USAGE is removed, both streams and relay's locals are dropped.
EndRelay(c) ==
    /\ pc[c] = "unuse"
    /\ usage' = usage \ {UsageOf[c]}
    /\ raw' = raw \ {c, partner[c]}
    /\ partner' = [partner EXCEPT ![c] = None]
    /\ uuid' = [uuid EXCEPT ![c] = None]
    /\ idle' = [idle EXCEPT ![c] = 0]
    /\ checked' = checked \ {c}
    /\ Goto(c, "closed")
    /\ UNCHANGED <<peers, blocklist>>

\* blocklist-add and blocklist-remove
Command ==
    /\ \E i \in Ips : blocklist' \in {blocklist \cup {i}, blocklist \ {i}}
    /\ UNCHANGED <<pc, uuid, peers, partner, raw, usage, idle, checked>>

Handle(c) ==
    \/ Accept(c) \/ Reject(c) \/ FirstMessage(c)
    \/ TakePeer(c) \/ Park(c) \/ Unpark(c)
    \/ StartRelay(c) \/ Receive(c) \/ Sent(c) \/ Disconnect(c) \/ Tick(c)
    \/ SendWaits(c) \/ EndRelay(c)

Next == Command \/ \E c \in Conns : Handle(c)

Spec == Init /\ [][Next]_vars

\* The runtime runs every task that is ready and fires every timer; select!
\* picks among ready branches at random, so data does not keep a tick out for
\* ever.  Nothing makes a client send, close, or read what is sent to it.
FairSpec ==
    /\ Spec
    /\ \A c \in Conns :
          /\ WF_vars(TakePeer(c)) /\ WF_vars(Park(c)) /\ WF_vars(Unpark(c))
          /\ WF_vars(StartRelay(c)) /\ SF_vars(Tick(c)) /\ WF_vars(EndRelay(c))
-----------------------------------------------------------------------------
(* Properties *)

TypeOK ==
    /\ pc \in [Conns -> Pcs]
    /\ uuid \in [Conns -> Opt(Uuids)]
    /\ peers \in [Uuids -> Opt(Conns)]
    /\ partner \in [Conns -> Opt(Conns)]
    /\ raw \subseteq Conns
    /\ usage \subseteq UsageIds
    /\ blocklist \subseteq Ips
    /\ idle \in [Conns -> 0..(IdleLimit + 1)]
    /\ checked \subseteq Conns

\* A task past its first message has a uuid; a partner is held from the pairing
\* to the end of the relay, and its own task has nothing left to do but to
\* sleep; a parked stream is one whose own task still sleeps on that uuid, so
\* its timer is pending.
Holding ==
    /\ \A c \in Conns : pc[c] \in {"lookup", "park", "sleep"} => uuid[c] # None
    /\ \A c \in Conns : partner[c] # None <=> pc[c] \in Running \cup {"usage"}
    /\ \A c, d \in Conns : partner[c] = d => pc[d] \in {"sleep", "closed"}
    /\ \A u \in Uuids, c \in Conns : peers[u] = c => pc[c] = "sleep" /\ uuid[c] = u

\* A stream is relayed by one task at most, which is not its own, and is not in
\* PEERS meanwhile; the two streams of a relay belong to the same session.
OneToOne ==
    \A c, d \in Conns : partner[c] = d =>
        /\ c # d
        /\ uuid[c] = uuid[d]
        /\ partner[d] = None
        /\ ~Parked(c) /\ ~Parked(d)
        /\ \A e \in Conns : partner[e] = d => e = c

\* The two streams of a relay use the same framing, raw only when neither is a
\* WebSocket; a stream outside a relay is never raw.
FramingAgrees ==
    /\ \A c, d \in Conns : partner[c] = d =>
          /\ c \in raw <=> d \in raw
          /\ c \in raw => {c, d} \cap WsConns = {}
    /\ \A c \in raw : partner[c] # None \/ Taken(c)

\* USAGE holds entries of running relays only, also when two relays share an
\* "ip:port".
UsageIsLive == \A i \in usage : \E c \in Conns : pc[c] \in Running /\ UsageOf[c] = i

\* The connections waiting and linked, as the switchboard sees them.
WaitingAs(c) == IF pc[c] \in {"lookup", "park"} \/ Parked(c) THEN uuid[c] ELSE None

LinkOf(c) ==
    CASE partner[c] # None -> partner[c]
      [] partner[c] = None /\ Taken(c) -> CHOOSE d \in Conns : partner[d] = c
      [] OTHER -> None

Board == INSTANCE Switchboard WITH waiting <- [c \in Conns |-> WaitingAs(c)],
                                   link <- [c \in Conns |-> LinkOf(c)]

\* The two locks of a pairing, overwritten streams and timers that fire for
\* another connection's stream included, the relay is a switchboard.
BoardSpec == Board!Spec

\* A parked stream is paired, replaced or closed; it does not stay in PEERS.
ParkedLeaves == \A c \in Conns : Parked(c) ~> ~Parked(c)

\* A relay that waits for data gets some or ends.
SilentRelayEnds ==
    \A c \in Conns : pc[c] = "relay" ~> (pc[c] # "relay" \/ idle[c] = 0)

\* A relay ends when the address it goes by stays on the blocklist, unless it is
\* stuck for ever in a send that its receiver does not read.  For an IPv4 client
\* of the dual-stack listener this is ::ffff:a.b.c.d: the entry a.b.c.d, which
\* keeps its next connection out, does not end the relay it has.
BlockedRelayEnds ==
    \A c \in Conns :
        []<>(RelayIp(c) \notin blocklist \/ pc[c] \notin {"relay", "send"})
            \/ <>[](pc[c] = "send")
=============================================================================
