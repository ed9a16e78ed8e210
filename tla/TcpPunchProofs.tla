--------------------------- MODULE TcpPunchProofs ---------------------------
(***************************************************************************)
(* The safety properties of TcpPunch for any number of connections,        *)
(* addresses and senders.                                                  *)
(***************************************************************************)
EXTENDS TcpPunch, TLAPS

\* Where a task can be when it holds a sink in taken.
Holds(c) == pc[c] \in {"body", "sync", "put", "beat"}

\* Every sink on its way belongs to the address it will be put back under, and
\* nothing that is going to be overwritten holds a sink.
Addressed ==
    /\ SinkUnderItsAddress
    /\ \A c \in Conns : addr[c] = None <=> pc[c] = "new"
    /\ \A c \in Conns :
        /\ taken[c] # None => Holds(c) /\ addr[taken[c]] = addr[c]
        /\ pc[c] = "beat" => taken[c] # None
        /\ to[c] # None => pc[c] = "sync"
    /\ \A s \in Senders :
        /\ to[s] = None => carry[s] = None
        /\ to[s] # None => carry[s] # None /\ addr[carry[s]] = to[s]

\* Nobody but c's own task can reach its sink.
Hidden(c) == (\A a \in Addrs : punch[a] # c) /\ ~Carried(c)

OwnedIsHidden == \A c \in Conns : c \in own \/ pc[c] = "new" => Hidden(c)

\* A closed connection has lost its sink, or somebody held it at the end.
ClosedIsHidden ==
    \A c \in Conns : pc[c] = "closed" => c \notin own /\ (Hidden(c) \/ c \in left)

IInv == TypeOK /\ Addressed /\ SinkIsKept /\ OwnedIsHidden /\ ClosedIsHidden

-----------------------------------------------------------------------------

\* The initial states satisfy the invariant.
LEMMA InitInv == Init => IInv
  BY ConstantsAssumption
  DEF Init, IInv, TypeOK, Addressed, SinkUnderItsAddress, SinkIsKept, OwnedIsHidden, ClosedIsHidden,
      Hidden, Holds, Carried, Alive, Senders, Opt, Pcs, Kinds

\* A step of handle_tcp keeps the invariant.
LEMMA HandleInv ==
  ASSUME IInv, NEW c \in Conns, Handle(c)
  PROVE  IInv'
  <1> USE ConstantsAssumption DEF IInv, Addressed, SinkUnderItsAddress, SinkIsKept, OwnedIsHidden, ClosedIsHidden,
        Hidden, Holds, Carried, Alive, Unshared, Senders, Opt, Goto, Insert, Remove, TypeOK, Pcs, Kinds, Kept
  <1>1. CASE TakeSink(c)
    BY <1>1 DEF TakeSink
  <1>2. CASE Answer(c)
    BY <1>2 DEF Answer
  <1>3. CASE Request(c)
    BY <1>3 DEF Request
  <1>4. CASE PassOn(c)
    BY <1>4 DEF PassOn
  <1>5. CASE SendSync(c)
    BY <1>5 DEF SendSync, Take
  <1>6. CASE SendSpawned(c)
    BY <1>6 DEF SendSpawned, Take
  <1>7. CASE PutTaken(c)
    BY <1>7 DEF PutTaken
  <1> QED BY <1>1, <1>2, <1>3, <1>4, <1>5, <1>6, <1>7 DEF Handle

\* A step of the connection's loop keeps the invariant: the heartbeat too,
\* which ends a connection without a sink only when SinkIsKept excuses it.
LEMMA LoopInv ==
  ASSUME IInv, NEW c \in Conns, Loop(c)
  PROVE  IInv'
  <1> USE ConstantsAssumption DEF IInv, Addressed, SinkUnderItsAddress, SinkIsKept, OwnedIsHidden, ClosedIsHidden,
        Hidden, Holds, Carried, Alive, Unshared, Senders, Opt, Goto, Insert, Remove, TypeOK, Pcs, Kinds
  <1>1. CASE Accept(c)
    BY <1>1 DEF Accept
  <1>2. CASE ReceiveRegister(c)
    BY <1>2 DEF ReceiveRegister
  <1>3. CASE Receive(c)
    BY <1>3 DEF Receive
  <1>4. CASE Hangup(c)
    BY <1>4 DEF Hangup
  <1>5. CASE BeatOwnFails(c)
    BY <1>5 DEF BeatOwnFails
  <1>6. CASE Beat(c)
    BY <1>6 DEF Beat
  <1>7. CASE BeatSent(c)
    BY <1>7 DEF BeatSent
  <1>8. CASE BeatFails(c)
    BY <1>8 DEF BeatFails
  <1>9. CASE Close(c)
    BY <1>9 DEF Close
  <1> QED BY <1>1, <1>2, <1>3, <1>4, <1>5, <1>6, <1>7, <1>8, <1>9 DEF Loop

\* The steps of the senders, of the clients, and stutters keep the invariant.
LEMMA OtherInv ==
  ASSUME IInv,
         \/ \E c \in Conns : ClientLeaves(c)
         \/ SendMain
         \/ \E s \in Senders : PutBack(s)
         \/ UNCHANGED vars
  PROVE  IInv'
  <1> USE ConstantsAssumption DEF IInv, Addressed, SinkUnderItsAddress, SinkIsKept, OwnedIsHidden, ClosedIsHidden,
        Hidden, Holds, Carried, Alive, Unshared, Senders, Opt, TypeOK, Pcs, Kinds
  <1>1. CASE \E c \in Conns : ClientLeaves(c)
    BY <1>1 DEF ClientLeaves
  <1>2. CASE SendMain
    BY <1>2 DEF SendMain, Take, Remove
  <1>3. CASE \E s \in Senders : PutBack(s)
    BY <1>3 DEF PutBack, Insert
  <1>4. CASE UNCHANGED vars
    BY <1>4 DEF vars
  <1> QED BY <1>1, <1>2, <1>3, <1>4

\* The invariant holds throughout.
THEOREM PunchInvariant == Spec => []IInv
  <1>1. IInv /\ [Next]_vars => IInv'
    BY HandleInv, LoopInv, OtherInv DEF Next
  <1> QED BY InitInv, <1>1, PTL DEF Spec

\* The state is well typed for any number of connections and senders.
THEOREM TypeCorrect == Spec => []TypeOK
  BY PunchInvariant, PTL DEF IInv

\* tcp_punch holds a sink only under the address of its own client.
THEOREM SinksStayUnderTheirAddress == Spec => []SinkUnderItsAddress
  BY PunchInvariant, PTL DEF IInv, Addressed

\* The sink of a served client with an address of its own is never lost.
THEOREM SinksAreKept == Spec => []SinkIsKept
  BY PunchInvariant, PTL DEF IInv

\* Only a sink that was being written to can outlive its connection in
\* tcp_punch.
THEOREM LeaksAreInFlight == Spec => []LeakedOnlyInFlight
  <1>1. IInv => LeakedOnlyInFlight
    BY DEF IInv, TypeOK, Opt, Addressed, ClosedIsHidden, Hidden, LeakedOnlyInFlight
  <1> QED BY PunchInvariant, <1>1, PTL
=============================================================================
