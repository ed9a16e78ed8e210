------------------------ MODULE RelayPairingProofs ------------------------
(***************************************************************************)
(* Theorems about RelayPairing, for every set of connections and sessions. *)
(* The inductive invariant is the type invariant with Holding and          *)
(* OneToOne: that streams are relayed one to one needs that a parked       *)
(* stream's task still sleeps, hence has no partner itself.                *)
(***************************************************************************)
EXTENDS RelayPairing, TLAPS

\* A stream that is parked belongs to a sleeping task, so it has no partner
\* and nobody has taken it.
Pairing == TypeOK /\ Holding /\ OneToOne

\* The initial state is well typed, with nothing parked and nothing paired.
LEMMA PairingInit == Init => Pairing
  <1> SUFFICES ASSUME Init PROVE Pairing
    OBVIOUS
  <1>1. TypeOK
    BY ConstantsAssumption DEF Init, TypeOK, Pcs, Opt
  <1>2. Holding
    BY ConstantsAssumption DEF Init, Holding, Running
  <1>3. OneToOne
    BY ConstantsAssumption DEF Init, OneToOne
  <1> QED
    BY <1>1, <1>2, <1>3 DEF Pairing

\* Every step keeps the types.  Taking a stream out of PEERS and starting a
\* relay need Holding: the task has a uuid, then a partner.
LEMMA TypeStep == TypeOK /\ Holding /\ [Next]_vars => TypeOK'
  <1> SUFFICES ASSUME TypeOK, Holding, [Next]_vars PROVE TypeOK'
    OBVIOUS
  <1> USE ConstantsAssumption DEF TypeOK
  <1>1. CASE UNCHANGED vars
    BY <1>1 DEF vars
  <1>2. CASE Command
    BY <1>2 DEF Command
  <1>3. ASSUME NEW c \in Conns, Handle(c) PROVE TypeOK'
    <2>1. CASE Accept(c)
      BY <2>1 DEF Accept, Goto, Pcs, Opt
    <2>2. CASE Reject(c)
      BY <2>2 DEF Reject, Goto, Pcs
    <2>3. CASE FirstMessage(c)
      BY <2>3 DEF FirstMessage, Goto, Pcs, Opt
    <2>4. CASE TakePeer(c)
      <3>1. uuid[c] \in Uuids
        BY <2>4 DEF TakePeer, Holding, Opt
      <3> QED
        BY <2>4, <3>1 DEF TakePeer, Goto, Pcs, Opt
    <2>5. CASE Park(c)
      BY <2>5 DEF Park, Goto, Pcs, Opt
    <2>6. CASE Unpark(c)
      BY <2>6 DEF Unpark, Goto, Pcs, Opt
    <2>7. CASE StartRelay(c)
      <3>1. partner[c] \in Conns
        BY <2>7 DEF StartRelay, Holding, Opt
      <3> QED
        BY <2>7, <3>1 DEF StartRelay, Goto, Pcs
    <2>8. CASE Receive(c)
      BY <2>8 DEF Receive, Goto, Pcs
    <2>9. CASE Sent(c)
      BY <2>9 DEF Sent, EndRound, Goto, Pcs
    <2>10. CASE Disconnect(c)
      BY <2>10 DEF Disconnect, Goto, Pcs
    <2>11. CASE Tick(c)
      BY <2>11 DEF Tick, EndRound, Goto, Pcs
    <2>12. CASE SendWaits(c)
      BY <2>12 DEF SendWaits
    <2>13. CASE EndRelay(c)
      BY <2>13 DEF EndRelay, Goto, Pcs, Opt
    <2> QED
      BY <1>3, <2>1, <2>2, <2>3, <2>4, <2>5, <2>6, <2>7, <2>8, <2>9, <2>10, <2>11, <2>12, <2>13
         DEF Handle
  <1> QED
    BY <1>1, <1>2, <1>3 DEF Next

\* Every step keeps Holding.
LEMMA HoldingStep == Pairing /\ [Next]_vars => Holding'
  <1> SUFFICES ASSUME TypeOK, Holding, OneToOne, [Next]_vars PROVE Holding'
    BY DEF Pairing
  <1> USE ConstantsAssumption
  <1>1. CASE UNCHANGED vars
    BY <1>1 DEF vars, Holding
  <1>2. CASE Command
    BY <1>2 DEF Command, Holding
  <1>3. ASSUME NEW c \in Conns, Handle(c) PROVE Holding'
    <2>1. CASE Accept(c)
      BY <2>1 DEF Accept, Goto, Holding, TypeOK, Pcs, Running, Parked, Taken
    <2>2. CASE Reject(c)
      BY <2>2 DEF Reject, Goto, Holding, TypeOK, Pcs, Running
    <2>3. CASE FirstMessage(c)
      BY <2>3 DEF FirstMessage, Goto, Holding, TypeOK, Pcs, Running
    <2>4. CASE TakePeer(c)
      BY <2>4 DEF TakePeer, Goto, Holding, TypeOK, Pcs, Running, Opt
    <2>5. CASE Park(c)
      BY <2>5 DEF Park, Goto, Holding, TypeOK, Pcs, Running, Opt
    <2>6. CASE Unpark(c)
      BY <2>6 DEF Unpark, Goto, Holding, TypeOK, Pcs, Running, Opt
    <2>7. CASE StartRelay(c)
      BY <2>7 DEF StartRelay, Goto, Holding, TypeOK, Pcs, Running
    <2>8. CASE Receive(c)
      BY <2>8 DEF Receive, Goto, Holding, TypeOK, Pcs, Running
    <2>9. CASE Sent(c)
      BY <2>9 DEF Sent, EndRound, Goto, Holding, TypeOK, Pcs, Running
    <2>10. CASE Disconnect(c)
      BY <2>10 DEF Disconnect, Goto, Holding, TypeOK, Pcs, Running
    <2>11. CASE Tick(c)
      BY <2>11 DEF Tick, EndRound, Goto, Holding, TypeOK, Pcs, Running
    <2>12. CASE SendWaits(c)
      BY <2>12 DEF SendWaits, Holding
    <2>13. CASE EndRelay(c)
      BY <2>13 DEF EndRelay, Goto, Holding, TypeOK, Pcs, Running
    <2> QED
      BY <1>3, <2>1, <2>2, <2>3, <2>4, <2>5, <2>6, <2>7, <2>8, <2>9, <2>10, <2>11, <2>12, <2>13
         DEF Handle
  <1> QED
    BY <1>1, <1>2, <1>3 DEF Next

\* Steps that leave uuids, partners and PEERS alone keep OneToOne.
LEMMA OneToOneUnchanged ==
    OneToOne /\ UNCHANGED <<uuid, peers, partner>> => OneToOne'
  BY DEF OneToOne, Parked

\* Every step keeps OneToOne.
LEMMA OneToOneStep == Pairing /\ [Next]_vars => OneToOne'
  <1> SUFFICES ASSUME TypeOK, Holding, OneToOne, [Next]_vars PROVE OneToOne'
    BY DEF Pairing
  <1> USE ConstantsAssumption
  <1>1. CASE UNCHANGED vars
    BY <1>1, OneToOneUnchanged DEF vars
  <1>2. CASE Command
    BY <1>2, OneToOneUnchanged DEF Command
  <1>3. ASSUME NEW c \in Conns, Handle(c) PROVE OneToOne'
    <2>1. CASE Accept(c)
      BY <2>1 DEF Accept, OneToOne, Holding, TypeOK, Taken, Parked, Running
    <2>2. CASE FirstMessage(c)
      BY <2>2 DEF FirstMessage, OneToOne, Holding, TypeOK, Parked, Running
    <2>3. CASE TakePeer(c)
      <3>1. /\ uuid[c] \in Uuids
            /\ partner[c] = None
            /\ uuid' = uuid
            /\ partner' = [partner EXCEPT ![c] = peers[uuid[c]]]
            /\ peers' = [peers EXCEPT ![uuid[c]] = None]
        BY <2>3 DEF TakePeer, Holding, TypeOK, Running, Opt
      <3>2. CASE peers[uuid[c]] = None
        BY <3>1, <3>2 DEF OneToOne, TypeOK, Parked
      <3>3. CASE peers[uuid[c]] # None
        <4> DEFINE d == peers[uuid[c]]
        <4>1. /\ d \in Conns
              /\ pc[d] = "sleep" /\ uuid[d] = uuid[c]
              /\ d # c
              /\ partner[d] = None
          BY <2>3, <3>1, <3>3 DEF TakePeer, Holding, TypeOK, Running, Opt
        <4>2. /\ \A e \in Conns : partner[e] # d
              /\ \A e \in Conns : partner[e] # c
          BY <2>3, <3>1, <4>1 DEF OneToOne, Holding, Parked, TakePeer
        <4>3. /\ \A u \in Uuids : peers'[u] # d
              /\ \A u \in Uuids : peers[u] # c
              /\ \A u \in Uuids, e \in Conns : peers'[u] = e => peers[u] = e
          BY <2>3, <3>1, <4>1 DEF Holding, TypeOK, TakePeer
        <4>4. partner'[c] = d /\ \A e \in Conns \ {c} : partner'[e] = partner[e]
          BY <3>1 DEF TypeOK
        <4> HIDE DEF d
        <4> QED
          BY <3>1, <4>1, <4>2, <4>3, <4>4 DEF OneToOne, Parked
      <3> QED
        BY <3>2, <3>3
    <2>4. CASE Park(c)
      <3>1. /\ uuid[c] \in Uuids
            /\ partner[c] = None
            /\ \A e \in Conns : partner[e] # c
            /\ uuid' = uuid /\ partner' = partner
            /\ \A u \in Uuids, e \in Conns : peers'[u] = e => peers[u] = e \/ e = c
        BY <2>4 DEF Park, Holding, TypeOK, Running, Opt
      <3> QED
        BY <3>1 DEF OneToOne, Parked
    <2>5. CASE Unpark(c)
      BY <2>5 DEF Unpark, OneToOne, Holding, TypeOK, Parked, Running, Opt
    <2>6. CASE EndRelay(c)
      BY <2>6 DEF EndRelay, OneToOne, Holding, TypeOK, Parked, Running
    <2>7. CASE Reject(c) \/ StartRelay(c) \/ Receive(c) \/ Sent(c) \/ Disconnect(c)
                 \/ Tick(c) \/ SendWaits(c)
      BY <2>7, OneToOneUnchanged
         DEF Reject, StartRelay, Receive, Sent, Disconnect, Tick, SendWaits
    <2> QED
      BY <1>3, <2>1, <2>2, <2>3, <2>4, <2>5, <2>6, <2>7 DEF Handle
  <1> QED
    BY <1>1, <1>2, <1>3 DEF Next

\* The inductive invariant holds in every reachable state.
THEOREM PairingInvariant == Spec => []Pairing
  <1>1. Pairing /\ [Next]_vars => Pairing'
    BY TypeStep, HoldingStep, OneToOneStep DEF Pairing
  <1> QED
    BY <1>1, PairingInit, PTL DEF Spec

\* Every reachable state of the relay server is well typed.
THEOREM TypeCorrect == Spec => []TypeOK
  <1>1. Pairing => TypeOK
    BY DEF Pairing
  <1> QED
    BY <1>1, PairingInvariant, PTL

\* A parked stream's task sleeps on its uuid, so no stream is parked without a
\* timer that removes it.
THEOREM ParkedStreamsHaveTimers == Spec => []Holding
  <1>1. Pairing => Holding
    BY DEF Pairing
  <1> QED
    BY <1>1, PairingInvariant, PTL

\* Streams are relayed one to one, within one session.
THEOREM StreamsPairOneToOne == Spec => []OneToOne
  <1>1. Pairing => OneToOne
    BY DEF Pairing
  <1> QED
    BY <1>1, PairingInvariant, PTL

\* Steps that leave partners and raw modes alone keep FramingAgrees.
LEMMA FramingUnchanged ==
    FramingAgrees /\ UNCHANGED <<partner, raw>> => FramingAgrees'
  BY DEF FramingAgrees, Taken

\* Every step keeps FramingAgrees.
LEMMA FramingStep == Pairing /\ FramingAgrees /\ [Next]_vars => FramingAgrees'
  <1> SUFFICES ASSUME TypeOK, Holding, OneToOne, FramingAgrees, [Next]_vars
               PROVE FramingAgrees'
    BY DEF Pairing
  <1> USE ConstantsAssumption
  <1>1. CASE UNCHANGED vars
    BY <1>1, FramingUnchanged DEF vars
  <1>2. CASE Command
    BY <1>2, FramingUnchanged DEF Command
  <1>3. ASSUME NEW c \in Conns, Handle(c) PROVE FramingAgrees'
    <2>1. CASE TakePeer(c)
      BY <2>1 DEF TakePeer, FramingAgrees, OneToOne, Holding, TypeOK, Taken, Parked, Running, Opt
    <2>2. CASE StartRelay(c)
      BY <2>2 DEF StartRelay, FramingAgrees, OneToOne, Holding, TypeOK, Taken, Running, Opt
    <2>3. CASE EndRelay(c)
      BY <2>3 DEF EndRelay, FramingAgrees, OneToOne, Holding, TypeOK, Taken, Running, Opt
    <2>4. CASE Accept(c) \/ Reject(c) \/ FirstMessage(c) \/ Park(c) \/ Unpark(c) \/ Receive(c)
                 \/ Sent(c) \/ Disconnect(c) \/ Tick(c) \/ SendWaits(c)
      BY <2>4, FramingUnchanged
         DEF Accept, Reject, FirstMessage, Park, Unpark, Receive, Sent, Disconnect, Tick, SendWaits
    <2> QED
      BY <1>3, <2>1, <2>2, <2>3, <2>4 DEF Handle
  <1> QED
    BY <1>1, <1>2, <1>3 DEF Next

\* The two streams of a relay use the same framing.
THEOREM RelaysAgreeOnFraming == Spec => []FramingAgrees
  <1>1. Init => FramingAgrees
    BY ConstantsAssumption DEF Init, FramingAgrees
  <1> QED
    BY <1>1, FramingStep, PairingInvariant, PTL DEF Spec

\* USAGE holds entries of running relays only.
THEOREM UsageIsOfRunningRelays == Spec => []UsageIsLive
  <1>1. Init => UsageIsLive
    BY DEF Init, UsageIsLive
  <1>2. Pairing /\ UsageIsLive /\ [Next]_vars => UsageIsLive'
    <2> SUFFICES ASSUME TypeOK, UsageIsLive, [Next]_vars PROVE UsageIsLive'
      BY DEF Pairing
    <2>1. CASE UNCHANGED vars
      BY <2>1 DEF vars, UsageIsLive
    <2>2. CASE Command
      BY <2>2 DEF Command, UsageIsLive
    <2>3. ASSUME NEW c \in Conns, Handle(c) PROVE UsageIsLive'
      <3> USE DEF UsageIsLive, TypeOK, Running, Goto
      <3>1. CASE Accept(c) \/ Reject(c) \/ FirstMessage(c) \/ TakePeer(c) \/ Park(c) \/ Unpark(c)
        BY <3>1 DEF Accept, Reject, FirstMessage, TakePeer, Park, Unpark
      <3>2. CASE StartRelay(c)
        BY <3>2 DEF StartRelay
      <3>3. CASE Sent(c)
        BY <3>3 DEF Sent, EndRound
      <3>4. CASE Tick(c)
        BY <3>4 DEF Tick, EndRound
      <3>5. CASE Receive(c) \/ Disconnect(c) \/ SendWaits(c)
        BY <3>5 DEF Receive, Disconnect, SendWaits
      <3>6. CASE EndRelay(c)
        BY <3>6 DEF EndRelay
      <3> QED
        BY <2>3, <3>1, <3>2, <3>3, <3>4, <3>5, <3>6 DEF Handle
    <2> QED
      BY <2>1, <2>2, <2>3 DEF Next
  <1> QED
    BY <1>1, <1>2, PairingInvariant, PTL DEF Spec
-----------------------------------------------------------------------------
(* The relay server implements the switchboard. *)

\* Who is linked with whom depends on the partners only.
LEMMA LinksUnchanged ==
    ASSUME partner' = partner
    PROVE  \A c \in Conns : LinkOf(c)' = LinkOf(c)
  BY DEF LinkOf, Taken

\* Both streams of a relay are linked with each other.
LEMMA LinkedBothWays ==
    ASSUME OneToOne, NEW c \in Conns, NEW d \in Conns, partner[c] = d
    PROVE  LinkOf(c) = d /\ LinkOf(d) = c
  <1>1. LinkOf(c) = d
    BY ConstantsAssumption DEF LinkOf
  <1>2. partner[d] = None /\ Taken(d)
    BY DEF OneToOne, Taken
  <1>3. (CHOOSE e \in Conns : partner[e] = d) = c
    BY DEF OneToOne
  <1> QED
    BY <1>1, <1>2, <1>3 DEF LinkOf

\* A stream outside a relay is not linked.
LEMMA Unlinked ==
    ASSUME NEW c \in Conns, partner[c] = None, ~Taken(c)
    PROVE  LinkOf(c) = None
  BY DEF LinkOf

\* A waiting stream is not linked.
LEMMA WaitingIsUnlinked ==
    ASSUME Pairing, NEW c \in Conns, WaitingAs(c) # None
    PROVE  partner[c] = None /\ ~Taken(c)
  BY DEF Pairing, TypeOK, Holding, OneToOne, WaitingAs, Parked, Taken, Running

\* Steps that move no stream: nothing changes on the switchboard.
LEMMA QuietStep ==
    ASSUME UNCHANGED <<uuid, peers, partner>>,
           \A e \in Conns : pc'[e] \in {"lookup", "park"} <=> pc[e] \in {"lookup", "park"}
    PROVE  UNCHANGED <<[c \in Conns |-> WaitingAs(c)], [c \in Conns |-> LinkOf(c)]>>
  <1>1. \A c \in Conns : LinkOf(c)' = LinkOf(c)
    BY LinksUnchanged
  <1>2. \A c \in Conns : WaitingAs(c)' = WaitingAs(c)
    BY DEF WaitingAs, Parked
  <1> QED
    BY <1>1, <1>2

\* A first message makes its connection wait.
LEMMA ArriveStep ==
    ASSUME Pairing, NEW c \in Conns, FirstMessage(c)
    PROVE  Board!Next
  <1> USE DEF Pairing
  <1>1. PICK u \in Uuids : uuid' = [uuid EXCEPT ![c] = u]
    BY DEF FirstMessage
  <1>2. WaitingAs(c) = None /\ LinkOf(c) = None
    <2>1. ~Parked(c)
      BY DEF FirstMessage, Holding, Parked
    <2>2. partner[c] = None /\ ~Taken(c)
      BY DEF FirstMessage, Holding, TypeOK, Taken, Running
    <2> QED
      BY <2>1, <2>2, Unlinked DEF WaitingAs, FirstMessage
  <1>3. WaitingAs(c)' = u
    BY <1>1 DEF FirstMessage, Goto, WaitingAs, TypeOK
  <1>4. \A e \in Conns \ {c} : WaitingAs(e)' = WaitingAs(e)
    BY <1>1 DEF FirstMessage, Goto, WaitingAs, TypeOK, Parked
  <1>5. \A e \in Conns : LinkOf(e)' = LinkOf(e)
    BY LinksUnchanged DEF FirstMessage
  <1>6. Board!Arrive(c, u)
    BY <1>2, <1>3, <1>4, <1>5 DEF Board!Arrive
  <1> QED
    BY <1>6 DEF Board!Next

\* Taking a stream out of PEERS joins it with the stream of the task.
LEMMA JoinStep ==
    ASSUME Pairing, NEW c \in Conns, TakePeer(c), peers[uuid[c]] # None
    PROVE  Board!Next
  <1> USE ConstantsAssumption DEF Pairing
  <1>1. uuid[c] \in Uuids /\ partner[c] = None
    BY DEF TakePeer, Holding, TypeOK, Running, Opt
  <1> PICK d \in Conns : peers[uuid[c]] = d
    BY <1>1 DEF TypeOK, Opt
  <1>2. /\ pc[d] = "sleep" /\ uuid[d] = uuid[c]
        /\ d # c
        /\ Parked(d)
    BY <1>1 DEF TakePeer, Holding, TypeOK, Opt, Parked
  <1>3. WaitingAs(c) = uuid[c] /\ WaitingAs(d) = uuid[c] /\ uuid[c] # None
    BY <1>1, <1>2 DEF WaitingAs, TakePeer
  <1>4. /\ pc' = [pc EXCEPT ![c] = "usage"]
        /\ peers' = [peers EXCEPT ![uuid[c]] = None]
        /\ partner' = [partner EXCEPT ![c] = d]
        /\ uuid' = uuid
    BY DEF TakePeer, Goto
  <1>5. /\ ~Parked(c)' /\ ~Parked(d)'
        /\ \A e \in Conns \ {d} : Parked(e)' <=> Parked(e)
    <2>1. \A u \in Uuids : peers[u] # c
      BY DEF TakePeer, Holding
    <2>2. \A u \in Uuids : peers[u] = d => u = uuid[c]
      BY <1>2 DEF Holding
    <2> QED
      BY <1>1, <1>2, <1>4, <2>1, <2>2 DEF Parked, TypeOK
  <1>6. /\ WaitingAs(c)' = None /\ WaitingAs(d)' = None
        /\ \A e \in Conns \ {c, d} : WaitingAs(e)' = WaitingAs(e)
    BY <1>2, <1>4, <1>5 DEF WaitingAs, TypeOK
  <1>7. OneToOne'
    BY OneToOneStep DEF Next, Handle
  <1>8. LinkOf(c)' = d /\ LinkOf(d)' = c
    <2>1. partner'[c] = d
      BY <1>4 DEF TypeOK
    <2>2. partner'[d] = None /\ Taken(d)' /\ \A e \in Conns : partner'[e] = d => e = c
      BY <1>7, <2>1 DEF OneToOne, Taken
    <2>3. (CHOOSE e \in Conns : partner'[e] = d) = c
      BY <2>1, <2>2
    <2> QED
      BY <2>1, <2>2, <2>3 DEF LinkOf
  <1>9. \A e \in Conns \ {c, d} : LinkOf(e)' = LinkOf(e)
    <2>1. ASSUME NEW e \in Conns \ {c, d} PROVE LinkOf(e)' = LinkOf(e)
      <3>1. partner'[e] = partner[e] /\ \A f \in Conns : partner'[f] = e <=> partner[f] = e
        BY <1>1, <1>4, <2>1 DEF TypeOK
      <3> QED
        BY <3>1 DEF LinkOf, Taken
    <2> QED
      BY <2>1
  <1>10. Board!Join(c, d)
    BY <1>2, <1>3, <1>6, <1>8, <1>9 DEF Board!Join
  <1> QED
    BY <1>2, <1>10 DEF Board!Next

\* Parking over another stream, or a timer that finds one, ends its waiting.
LEMMA LeaveStep ==
    ASSUME Pairing, NEW c \in Conns, Park(c) \/ Unpark(c), peers[uuid[c]] # None
    PROVE  Board!Next
  <1> USE ConstantsAssumption DEF Pairing
  <1>1. uuid[c] \in Uuids
    BY DEF Park, Unpark, Holding, TypeOK, Opt
  <1> PICK d \in Conns : peers[uuid[c]] = d
    BY <1>1 DEF TypeOK, Opt
  <1>2. /\ pc[d] = "sleep" /\ uuid[d] = uuid[c]
        /\ \A u \in Uuids : peers[u] = d => u = uuid[c]
        /\ WaitingAs(d) # None
    BY <1>1 DEF Holding, WaitingAs, Parked
  <1>3. \A e \in Conns : LinkOf(e)' = LinkOf(e)
    BY LinksUnchanged DEF Park, Unpark
  <1>4. WaitingAs(d)' = None /\ \A e \in Conns \ {d} : WaitingAs(e)' = WaitingAs(e)
    <2>1. CASE Park(c)
      <3>1. /\ c # d /\ uuid' = uuid
            /\ pc' = [pc EXCEPT ![c] = "sleep"]
            /\ peers' = [peers EXCEPT ![uuid[c]] = c]
        BY <1>2, <2>1 DEF Park, Goto
      <3>2. /\ ~Parked(d)' /\ Parked(c)'
            /\ \A e \in Conns \ {c, d} : Parked(e)' <=> Parked(e)
        BY <1>1, <1>2, <3>1 DEF Parked, TypeOK
      <3> QED
        BY <1>2, <2>1, <3>1, <3>2 DEF WaitingAs, TypeOK, Park
    <2>2. CASE Unpark(c)
      <3>1. /\ uuid' = uuid
            /\ pc[c] = "sleep"
            /\ pc' = [pc EXCEPT ![c] = "closed"]
            /\ peers' = [peers EXCEPT ![uuid[c]] = None]
        BY <2>2 DEF Unpark, Goto
      <3>2. ~Parked(d)' /\ \A e \in Conns \ {d} : Parked(e)' <=> Parked(e)
        BY <1>1, <1>2, <3>1 DEF Parked, TypeOK
      <3> QED
        BY <1>2, <3>1, <3>2 DEF WaitingAs, TypeOK
    <2> QED
      BY <2>1, <2>2
  <1>5. Board!Leave(d)
    BY <1>2, <1>3, <1>4 DEF Board!Leave
  <1> QED
    BY <1>5 DEF Board!Next

\* The end of a relay parts its two streams.
LEMMA PartStep ==
    ASSUME Pairing, NEW c \in Conns, EndRelay(c)
    PROVE  Board!Next
  <1> USE ConstantsAssumption DEF Pairing
  <1>1. partner[c] \in Conns
    BY DEF EndRelay, Holding, TypeOK, Running, Opt
  <1> PICK d \in Conns : partner[c] = d
    BY <1>1
  <1>2. LinkOf(c) = d /\ LinkOf(d) = c /\ c # d
    BY LinkedBothWays DEF OneToOne
  <1>3. /\ partner' = [partner EXCEPT ![c] = None]
        /\ uuid' = [uuid EXCEPT ![c] = None]
        /\ pc[c] = "unuse" /\ pc' = [pc EXCEPT ![c] = "closed"]
        /\ peers' = peers
    BY DEF EndRelay, Goto
  <1>4. LinkOf(c)' = None /\ LinkOf(d)' = None
    <2>1. partner'[c] = None /\ partner'[d] = None
      BY <1>3 DEF OneToOne, TypeOK
    <2>2. ~Taken(c)' /\ ~Taken(d)'
      BY <1>3 DEF OneToOne, TypeOK, Taken
    <2> QED
      BY <2>1, <2>2 DEF LinkOf
  <1>5. ASSUME NEW e \in Conns \ {c, d} PROVE LinkOf(e)' = LinkOf(e)
    <2>1. partner'[e] = partner[e] /\ \A f \in Conns : partner'[f] = e <=> partner[f] = e
      BY <1>3 DEF TypeOK
    <2> QED
      BY <2>1 DEF LinkOf, Taken
  <1>6. \A e \in Conns : WaitingAs(e)' = WaitingAs(e)
    <2>1. ~Parked(c)
      BY DEF OneToOne
    <2> QED
      BY <1>3, <2>1 DEF WaitingAs, Parked, TypeOK
  <1>7. Board!Part(c)
    BY <1>2, <1>4, <1>5, <1>6 DEF Board!Part
  <1> QED
    BY <1>7 DEF Board!Next

\* Every step of the relay server is a step of the switchboard or leaves it.
LEMMA BoardStep ==
    ASSUME Pairing, [Next]_vars
    PROVE  [Board!Next]_<<[c \in Conns |-> WaitingAs(c)], [c \in Conns |-> LinkOf(c)]>>
  <1> USE ConstantsAssumption
  <1>1. CASE UNCHANGED vars
    BY <1>1, QuietStep DEF vars
  <1>2. CASE Command
    BY <1>2, QuietStep DEF Command
  <1>3. ASSUME NEW c \in Conns, Handle(c)
        PROVE  [Board!Next]_<<[e \in Conns |-> WaitingAs(e)], [e \in Conns |-> LinkOf(e)]>>
    <2> USE DEF Pairing, TypeOK, Goto
    <2>1. CASE FirstMessage(c)
      BY <2>1, ArriveStep
    <2>2. CASE TakePeer(c) /\ peers[uuid[c]] # None
      BY <2>2, JoinStep
    <2>3. CASE TakePeer(c) /\ peers[uuid[c]] = None
      <3>1. UNCHANGED <<uuid, peers, partner>>
        BY <2>3 DEF TakePeer, Holding, Running, Opt
      <3> QED
        BY <2>3, <3>1, QuietStep DEF TakePeer
    <2>4. CASE (Park(c) \/ Unpark(c)) /\ peers[uuid[c]] # None
      BY <2>4, LeaveStep
    <2>5. CASE Park(c) /\ peers[uuid[c]] = None
      <3>1. /\ uuid[c] \in Uuids
            /\ uuid' = uuid
            /\ pc' = [pc EXCEPT ![c] = "sleep"]
            /\ peers' = [peers EXCEPT ![uuid[c]] = c]
        BY <2>5 DEF Park, Holding, Opt
      <3>2. Parked(c)' /\ \A e \in Conns \ {c} : Parked(e)' <=> Parked(e)
        BY <2>5, <3>1 DEF Parked
      <3>3. \A e \in Conns : WaitingAs(e)' = WaitingAs(e)
        BY <2>5, <3>1, <3>2 DEF WaitingAs, Park
      <3>4. \A e \in Conns : LinkOf(e)' = LinkOf(e)
        BY <2>5, LinksUnchanged DEF Park
      <3> QED
        BY <3>3, <3>4
    <2>6. CASE Unpark(c) /\ peers[uuid[c]] = None
      <3>1. UNCHANGED <<uuid, peers, partner>>
        BY <2>6 DEF Unpark, Holding, Opt
      <3> QED
        BY <2>6, <3>1, QuietStep DEF Unpark
    <2>7. CASE EndRelay(c)
      BY <2>7, PartStep
    <2>8. CASE Accept(c)
      <3>1. \A e \in Conns : WaitingAs(e)' = WaitingAs(e)
        BY <2>8 DEF Accept, WaitingAs, Parked
      <3>2. \A e \in Conns : LinkOf(e)' = LinkOf(e)
        BY <2>8, LinksUnchanged DEF Accept
      <3> QED
        BY <3>1, <3>2
    <2>9. CASE Sent(c)
      BY <2>9, QuietStep DEF Sent, EndRound
    <2>10. CASE Tick(c)
      BY <2>10, QuietStep DEF Tick, EndRound
    <2>11. CASE Reject(c) \/ StartRelay(c) \/ Receive(c) \/ Disconnect(c) \/ SendWaits(c)
      BY <2>11, QuietStep DEF Reject, StartRelay, Receive, Disconnect, SendWaits
    <2> QED
      BY <1>3, <2>1, <2>2, <2>3, <2>4, <2>5, <2>6, <2>7, <2>8, <2>9, <2>10, <2>11 DEF Handle
  <1> QED
    BY <1>1, <1>2, <1>3 DEF Next

\* The relay server implements the switchboard: connections are joined only
\* with one that waits for the same session, exclusively, and parted together.
THEOREM ImplementsBoard == Spec => BoardSpec
  <1>1. Init => Board!Init
    <2> SUFFICES ASSUME Init PROVE Board!Init
      OBVIOUS
    <2>1. \A c \in Conns : WaitingAs(c) = None /\ LinkOf(c) = None
      BY ConstantsAssumption DEF Init, WaitingAs, LinkOf, Parked, Taken
    <2> QED
      BY <2>1 DEF Board!Init
  <1>2. Pairing /\ [Next]_vars
          => [Board!Next]_<<[c \in Conns |-> WaitingAs(c)], [c \in Conns |-> LinkOf(c)]>>
    BY BoardStep
  <1> QED
    BY <1>1, <1>2, PairingInvariant, PTL DEF Spec, BoardSpec, Board!Spec
=============================================================================
