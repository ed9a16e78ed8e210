------------------------------ MODULE TcpPunch ------------------------------
(***************************************************************************)
(* The write halves ("sinks") of the TCP and WebSocket connections of hbbs *)
(* (rendezvous_server.rs).  A connection's task owns its sink until a      *)
(* message makes it put the sink into tcp_punch under the client's         *)
(* address, where other tasks find it.  Whoever writes to a stored sink    *)
(* removes it, sends, and inserts it again, each under a lock of its own.  *)
(*                                                                         *)
(* Senders write to other connections: the main loop, each connection's    *)
(* task (send_to_tcp_sync) and the tasks that send_to_tcp spawns.  The     *)
(* task's own dealings with its client go through taken.  One action is    *)
(* what a task does between two awaits.                                    *)
(***************************************************************************)
EXTENDS Naturals

CONSTANTS
    Conns,      \* connections; each stands for its task, its sink and its client
    Addrs,      \* client addresses, the keys of tcp_punch
    Main,       \* the main loop
    Spawned,    \* tasks of send_to_tcp (a bound on how many run at once)
    None

ASSUME ConstantsAssumption ==
    /\ Main \notin Conns \cup Spawned
    /\ Conns \cap Spawned = {}
    /\ None \notin Conns \cup Addrs

VARIABLES
    pc,         \* [Conns -> Pcs]
    addr,       \* [Conns -> Addrs or None]: the client's address, known at accept;
                \* ports are reused and X-Real-IP rewrites addresses
    msg,        \* [Conns -> Kinds]: the message the task handles
    own,        \* connections whose task still owns its sink (sink.is_some())
    taken,      \* [Conns -> Conns or None]: taken_sink, active_sink
    punch,      \* tcp_punch: [Addrs -> Conns or None]
    carry,      \* [Senders -> Conns or None]: the sink a sender took out
    to,         \* [Senders -> Addrs or None]: the address it took it from
    gone,       \* connections whose client has left
    left        \* connections whose sink somebody held when they closed

vars == <<pc, addr, msg, own, taken, punch, carry, to, gone, left>>

Senders == Conns \cup {Main} \cup Spawned

Opt(S) == S \cup {None}

Pcs == {"new", "idle", "take", "body", "asked", "sync", "put", "beat", "close", "closed"}

\* The messages by what handle_tcp does with the sink; it returns true for those in Kept.
Kinds == {"register", "request", "answer", "forward", "query", "other"}

Kept == {"register", "request", "query"}

Goto(c, p) == pc' = [pc EXCEPT ![c] = p]

\* tcp_punch.lock().insert(a, sink) and remove(a)
Insert(a, d) == punch' = [punch EXCEPT ![a] = d]

Remove(a) == punch' = [punch EXCEPT ![a] = None]

Carried(c) == \/ \E s \in Senders : carry[s] = c
              \/ \E d \in Conns : taken[d] = c

Init ==
    /\ pc = [c \in Conns |-> "new"]
    /\ addr = [c \in Conns |-> None]
    /\ msg = [c \in Conns |-> "other"]
    /\ own = {}
    /\ taken = [c \in Conns |-> None]
    /\ punch = [a \in Addrs |-> None]
    /\ carry = [s \in Senders |-> None]
    /\ to = [s \in Senders |-> None]
    /\ gone = {}
    /\ left = {}

Accept(c) ==
    /\ pc[c] = "new"
    /\ Goto(c, "idle")
    /\ \E a \in Addrs : addr' = [addr EXCEPT ![c] = a]
    /\ own' = own \cup {c}
    /\ UNCHANGED <<msg, taken, punch, carry, to, gone, left>>

ClientLeaves(c) ==
    /\ pc[c] \notin {"new", "closed"}
    /\ gone' = gone \cup {c}
    /\ UNCHANGED <<pc, addr, msg, own, taken, punch, carry, to, left>>

\* A registration first puts the task's own sink into tcp_punch.
ReceiveRegister(c) ==
    /\ pc[c] = "idle" /\ c \notin gone
    /\ msg' = [msg EXCEPT ![c] = "register"]
    /\ Goto(c, "take")
    /\ IF c \in own THEN Insert(addr[c], c) ELSE UNCHANGED punch
    /\ own' = own \ {c}
    /\ UNCHANGED <<addr, taken, carry, to, gone, left>>

Receive(c) ==
    /\ pc[c] = "idle" /\ c \notin gone
    /\ \E k \in Kinds \ {"register"} : msg' = [msg EXCEPT ![c] = k]
    /\ Goto(c, IF c \in own THEN "body" ELSE "take")
    /\ UNCHANGED <<addr, own, taken, punch, carry, to, gone, left>>

\* Without a sink of its own the task takes the one in tcp_punch, if it is there.
TakeSink(c) ==
    /\ pc[c] = "take"
    /\ taken' = [taken EXCEPT ![c] = punch[addr[c]]]
    /\ Remove(addr[c])
    /\ Goto(c, "body")
    /\ UNCHANGED <<addr, msg, own, carry, to, gone, left>>

\* RegisterPk, RegisterPeer, OnlineRequest, TestNatRequest: answered on the current sink.
Answer(c) ==
    /\ pc[c] = "body" /\ msg[c] \in {"register", "query", "other"}
    /\ Goto(c, "put")
    /\ UNCHANGED <<addr, msg, own, taken, punch, carry, to, gone, left>>

\* PunchHoleRequest, RequestRelay: the current sink goes to tcp_punch for the answer.
Request(c) ==
    /\ pc[c] = "body" /\ msg[c] = "request"
    /\ IF c \in own THEN Insert(addr[c], c)
       ELSE IF taken[c] # None THEN Insert(addr[c], taken[c])
       ELSE UNCHANGED punch
    /\ own' = own \ {c}
    /\ taken' = [taken EXCEPT ![c] = None]
    /\ Goto(c, "asked")
    /\ UNCHANGED <<addr, msg, carry, to, gone, left>>

\* ... and the request is passed to the main loop, or to nobody.
PassOn(c) ==
    /\ pc[c] = "asked"
    /\ Goto(c, "put")
    /\ UNCHANGED <<addr, msg, own, taken, punch, carry, to, gone, left>>

\* The first half of a send to a: a sender that finds no sink has nothing to
\* put back; its message is dropped, or sent by UDP when it is the main loop.
Take(s, a) ==
    /\ to[s] = None
    /\ carry' = [carry EXCEPT ![s] = punch[a]]
    /\ to' = [to EXCEPT ![s] = IF punch[a] = None THEN None ELSE a]
    /\ Remove(a)

\* A request that fails is answered to the client itself, a relay response
\* goes to the address in it: both by send_to_tcp_sync.
SendSync(c) ==
    /\ \/ pc[c] = "asked" /\ Take(c, addr[c])
       \/ pc[c] = "body" /\ msg[c] = "answer" /\ \E a \in Addrs : Take(c, a)
    /\ Goto(c, IF to'[c] = None THEN "put" ELSE "sync")
    /\ UNCHANGED <<addr, msg, own, taken, gone, left>>

\* PunchHoleSent and LocalAddr go to the address in them by send_to_tcp.
SendSpawned(c) ==
    /\ pc[c] = "body" /\ msg[c] = "forward"
    /\ \E s \in Spawned, a \in Addrs : Take(s, a)
    /\ Goto(c, "put")
    /\ UNCHANGED <<addr, msg, own, taken, gone, left>>

\* Data::Msg in the main loop.
SendMain ==
    /\ \E a \in Addrs : Take(Main, a)
    /\ UNCHANGED <<pc, addr, msg, own, taken, gone, left>>

\* Mutant of PutBack: the sink is not inserted again.
PutBackNothing(s) ==
    /\ to[s] # None
    /\ carry' = [carry EXCEPT ![s] = None]
    /\ to' = [to EXCEPT ![s] = None]
    /\ pc' = IF s \in Conns THEN [pc EXCEPT ![s] = "put"] ELSE pc
    /\ UNCHANGED <<addr, msg, own, taken, punch, gone, left>>

\* Mutant of PutBack: addr in the place of addr_b.
PutBackUnderOwnAddr(s) ==
    /\ to[s] # None
    /\ Insert(IF s \in Conns THEN addr[s] ELSE to[s], carry[s])
    /\ carry' = [carry EXCEPT ![s] = None]
    /\ to' = [to EXCEPT ![s] = None]
    /\ pc' = IF s \in Conns THEN [pc EXCEPT ![s] = "put"] ELSE pc
    /\ UNCHANGED <<addr, msg, own, taken, gone, left>>

\* The second half of a send, when the write has returned: the sink goes back
\* under its address, whatever has become of its connection.
PutBack(s) ==
    /\ to[s] # None
    /\ Insert(to[s], carry[s])
    /\ carry' = [carry EXCEPT ![s] = None]
    /\ to' = [to EXCEPT ![s] = None]
    /\ pc' = IF s \in Conns THEN [pc EXCEPT ![s] = "put"] ELSE pc
    /\ UNCHANGED <<addr, msg, own, taken, gone, left>>

\* The end of handle_tcp.  (A message that is done with is forgotten.)
PutTaken(c) ==
    /\ pc[c] = "put"
    /\ IF taken[c] # None THEN Insert(addr[c], taken[c]) ELSE UNCHANGED punch
    /\ taken' = [taken EXCEPT ![c] = None]
    /\ Goto(c, IF msg[c] \in Kept THEN "idle" ELSE "close")
    /\ msg' = [msg EXCEPT ![c] = "other"]
    /\ UNCHANGED <<addr, own, carry, to, gone, left>>

\* The read half reports the end of the stream or an error, or the bytes are no
\* message.
Hangup(c) ==
    /\ pc[c] = "idle"
    /\ Goto(c, "close")
    /\ UNCHANGED <<addr, msg, own, taken, punch, carry, to, gone, left>>

\* The heartbeat every 15 seconds on the task's own sink: a failure drops it.
\* (A success changes nothing.)
BeatOwnFails(c) ==
    /\ pc[c] = "idle" /\ c \in own /\ c \in gone
    /\ own' = own \ {c}
    /\ Goto(c, "close")
    /\ UNCHANGED <<addr, msg, taken, punch, carry, to, gone, left>>

\* The heartbeat on a stored sink: it ends the connection when there is none.
Beat(c) ==
    /\ pc[c] = "idle" /\ c \notin own
    /\ taken' = [taken EXCEPT ![c] = punch[addr[c]]]
    /\ Remove(addr[c])
    /\ Goto(c, IF punch[addr[c]] = None THEN "close" ELSE "beat")
    /\ UNCHANGED <<addr, msg, own, carry, to, gone, left>>

BeatSent(c) ==
    /\ pc[c] = "beat"
    /\ Insert(addr[c], taken[c])
    /\ taken' = [taken EXCEPT ![c] = None]
    /\ Goto(c, "idle")
    /\ UNCHANGED <<addr, msg, own, carry, to, gone, left>>

\* Mutant of BeatFails: the failure is logged and the sink is kept.
BeatFailureIgnored(c) ==
    /\ pc[c] = "beat" /\ taken[c] \in gone
    /\ Insert(addr[c], taken[c])
    /\ taken' = [taken EXCEPT ![c] = None]
    /\ Goto(c, "idle")
    /\ UNCHANGED <<addr, msg, own, carry, to, gone, left>>

BeatFails(c) ==
    /\ pc[c] = "beat" /\ taken[c] \in gone
    /\ taken' = [taken EXCEPT ![c] = None]
    /\ Goto(c, "close")
    /\ UNCHANGED <<addr, msg, own, punch, carry, to, gone, left>>

\* Mutant of Close: tcp_punch keeps its entry.
CloseKeepingEntry(c) ==
    /\ pc[c] = "close"
    /\ own' = own \ {c}
    /\ left' = IF Carried(c) THEN left \cup {c} ELSE left
    /\ Goto(c, "closed")
    /\ UNCHANGED <<addr, msg, taken, punch, carry, to, gone>>

\* The end of the task: without a sink of its own it empties its address.
Close(c) ==
    /\ pc[c] = "close"
    /\ IF c \in own THEN UNCHANGED punch ELSE Remove(addr[c])
    /\ own' = own \ {c}
    /\ left' = IF Carried(c) THEN left \cup {c} ELSE left
    /\ Goto(c, "closed")
    /\ UNCHANGED <<addr, msg, taken, carry, to, gone>>

\* handle_tcp
Handle(c) ==
    \/ TakeSink(c) \/ Answer(c) \/ Request(c) \/ PassOn(c)
    \/ SendSync(c) \/ SendSpawned(c) \/ PutTaken(c)

\* handle_listener_inner
Loop(c) ==
    \/ Accept(c) \/ ReceiveRegister(c) \/ Receive(c) \/ Hangup(c)
    \/ BeatOwnFails(c) \/ Beat(c) \/ BeatSent(c) \/ BeatFails(c) \/ Close(c)

Next ==
    \/ \E c \in Conns : Handle(c) \/ Loop(c) \/ ClientLeaves(c)
    \/ SendMain
    \/ \E s \in Senders : PutBack(s)

Spec == Init /\ [][Next]_vars

\* Every send returns and every handler goes on; the heartbeat ticks, and a
\* write to a client that has left fails in the end.  Nothing makes clients
\* send, and a client that vanishes without a word is never read from again.
Fairness ==
    /\ \A c \in Conns :
        /\ WF_vars(Handle(c) \/ Close(c))
        /\ WF_vars(Beat(c)) /\ WF_vars(BeatOwnFails(c))
        /\ WF_vars(BeatSent(c)) /\ SF_vars(BeatFails(c))
    /\ \A s \in Senders : WF_vars(PutBack(s))

FairSpec == Spec /\ Fairness

-----------------------------------------------------------------------------

TypeOK ==
    /\ pc \in [Conns -> Pcs]
    /\ addr \in [Conns -> Opt(Addrs)]
    /\ msg \in [Conns -> Kinds]
    /\ own \subseteq Conns
    /\ taken \in [Conns -> Opt(Conns)]
    /\ punch \in [Addrs -> Opt(Conns)]
    /\ carry \in [Senders -> Opt(Conns)]
    /\ to \in [Senders -> Opt(Addrs)]
    /\ gone \subseteq Conns
    /\ left \subseteq Conns

Alive(c) == pc[c] \notin {"new", "close", "closed"}

\* No other connection so far has had c's address.
Unshared(c) == \A d \in Conns \ {c} : addr[d] # addr[c]

\* tcp_punch holds a sink only under the address of its own client, so no
\* message reaches another client, whichever task put the sink back.
SinkUnderItsAddress ==
    \A a \in Addrs : punch[a] # None => addr[punch[a]] = a

\* While a connection with an address of its own is served and its client is
\* there, its sink is with its task, in tcp_punch, or with somebody who is
\* writing to it: a heartbeat that finds nothing, and so ends the connection,
\* or a message that is dropped, can only have met a send in progress.
SinkIsKept ==
    \A c \in Conns :
        Alive(c) /\ c \notin gone /\ Unshared(c) =>
            c \in own \/ punch[addr[c]] = c \/ Carried(c)

\* The sink of a closed connection is left in tcp_punch only when somebody was
\* writing to it as the connection closed; the clean-up at the end of the task
\* removes every other one.
LeakedOnlyInFlight ==
    \A c \in Conns : pc[c] = "closed" /\ punch[addr[c]] = c => c \in left

\* The heartbeat ends the connection of a client that has left even when the
\* stream reports nothing, although the 60 second read timeout is started
\* anew at each tick and never expires.  (With an address it shares, it may
\* send its heartbeats to the other client.)
GoneClientIsClosed ==
    \A c \in Conns : c \in gone ~> pc[c] = "closed" \/ ~Unshared(c)
=============================================================================
