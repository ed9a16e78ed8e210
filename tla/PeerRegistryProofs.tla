------------------------- MODULE PeerRegistryProofs -------------------------
(***************************************************************************)
(* Theorems about PeerRegistry, for every value of its constants.          *)
(***************************************************************************)
EXTENDS PeerRegistry, TLAPS

\* Where a handler holds a Peer object, and where it registers a key.
HoldingPcs == {"check", "freq_read", "freq_write", "update_mem", "db_write",
               "set_guid", "touch", "answer"}

RegisteringPcs == {"get_or", "check", "freq_read", "freq_write", "update_mem",
                   "db_write", "set_guid"}

\* What the program counter of a task says about its locals.
WellFormed(l) ==
    /\ l.pc = "idle" => l = IdleTask
    /\ l.pc # "idle" => l.req \in AllRequests
    /\ l.pc \in HoldingPcs => l.ref \in Refs
    /\ l.pc \in RegisteringPcs => l.req \in RegisterPkRequests
    /\ l.pc \notin HoldingPcs \cup {"done"} => l.ref = None

TypeInv == TypeOK /\ \A t \in Tasks : WellFormed(task[t])
-----------------------------------------------------------------------------
LEMMA RequestFields ==
    ASSUME NEW q \in AllRequests
    PROVE  /\ q.id \in Ids
           /\ q.uuid \in Opt(Uuids)
           /\ q.pk \in Opt(Keys)
           /\ q.ip \in Opt(Ips)
           /\ q.kind \in {"RegisterPk", "RegisterPeer", "Punch", "GetPk"}
           /\ q.kind = "RegisterPk" => q \in RegisterPkRequests
  BY DEF AllRequests, RegisterPkRequests, RegisterPeerRequests, PunchRequests, GetPkRequests, Opt

LEMMA RegisterPkFields ==
    ASSUME NEW q \in RegisterPkRequests
    PROVE  /\ q \in AllRequests
           /\ q.id \in Ids
           /\ q.uuid \in Uuids
           /\ q.pk \in KeysOf[q.uuid]
           /\ q.pk \in Keys
           /\ q.ip \in Ips
           /\ q.kind = "RegisterPk"
  BY DEF AllRequests, RegisterPkRequests

LEMMA RestingLocal ==
    ASSUME NEW p \in Pcs, NEW r \in Opt(Refs), NEW res \in Opt(Results),
           NEW val \in Opt(Keys \cup Ips),
           NEW q \in AllRequests \cup {NoRequest}
    PROVE  AtRest(p, q, r, res, val) \in Local
  BY ConstantsAssumption DEF AtRest, Local, NoRow, Row, Opt

LEMMA IdleLocal == IdleTask \in Local /\ WellFormed(IdleTask)
  <1>1. IdleTask \in Local
    BY RestingLocal DEF IdleTask, Pcs, Opt
  <1>2. QED
    BY <1>1 DEF IdleTask, AtRest, WellFormed, HoldingPcs, RegisteringPcs

LEMMA DefaultIsPeer == DefaultPeer \in Peer
  BY ConstantsAssumption DEF DefaultPeer, Peer, Opt

\* A reply leaves every other task alone and keeps request and object.
LEMMA ReplyLocal ==
    ASSUME TypeInv, NEW t \in Tasks, task[t].pc # "idle",
           NEW res \in Results, NEW val \in Opt(Keys \cup Ips), Reply(t, res, val)
    PROVE  /\ task' \in [Tasks -> Local]
           /\ \A u \in Tasks : WellFormed(task'[u])
           /\ \A u \in Tasks \ {t} : task'[u] = task[u]
           /\ task'[t] = AtRest("done", task[t].req, task[t].ref, res, val)
  <1> DEFINE l == AtRest("done", task[t].req, task[t].ref, res, val)
  <1>1. task[t] \in Local /\ WellFormed(task[t])
    BY DEF TypeInv, TypeOK
  <1>2. task' = [task EXCEPT ![t] = l] /\ task \in [Tasks -> Local]
    BY DEF Reply, TypeInv, TypeOK
  <1>3. task[t].ref \in Opt(Refs) /\ task[t].req \in AllRequests
    BY <1>1 DEF Local, WellFormed
  <1>4. l \in Local
    BY <1>3, RestingLocal DEF Opt, Pcs
  <1>5. WellFormed(l)
    BY <1>3 DEF AtRest, WellFormed, HoldingPcs, RegisteringPcs
  <1>6. /\ task' \in [Tasks -> Local]
        /\ task'[t] = l
        /\ \A u \in Tasks \ {t} : task'[u] = task[u]
    BY <1>2, <1>4
  <1>7. QED
    BY <1>5, <1>6 DEF TypeInv

\* The step from a local record to another one that is again in Local.
LEMMA LocalUpdate ==
    ASSUME TypeInv, NEW t \in Tasks, NEW l \in Local, WellFormed(l),
           task' = [task EXCEPT ![t] = l]
    PROVE  /\ task' \in [Tasks -> Local]
           /\ \A u \in Tasks : WellFormed(task'[u])
           /\ \A u \in Tasks \ {t} : task'[u] = task[u]
           /\ task'[t] = l
  <1>1. /\ task' \in [Tasks -> Local]
        /\ task'[t] = l
        /\ \A u \in Tasks \ {t} : task'[u] = task[u]
    BY DEF TypeInv, TypeOK
  <1>2. QED
    BY <1>1 DEF TypeInv

LEMMA DroppedType ==
    ASSUME NEW h \in [Refs -> Peer], NEW m, NEW tk
    PROVE  Dropped(h, m, tk) \in [Refs -> Peer]
  BY DefaultIsPeer DEF Dropped

\* TypeInv is kept by every step of a task.
LEMMA TypeStep ==
    ASSUME TypeInv, NEW t \in Tasks, Receive(t) \/ TaskStep(t)
    PROVE  TypeInv'
  <1> DEFINE q == task[t].req
  <1>1. /\ task[t] \in Local /\ WellFormed(task[t])
        /\ map \in [Ids -> Opt(Refs)] /\ heap \in [Refs -> Peer]
        /\ db \in [Guids -> Row] /\ task \in [Tasks -> Local]
        /\ \A u \in Tasks : WellFormed(task[u])
    BY DEF TypeInv, TypeOK
  <1>2. SUFFICES /\ map' \in [Ids -> Opt(Refs)] /\ heap' \in [Refs -> Peer]
                 /\ db' \in [Guids -> Row] /\ task' \in [Tasks -> Local]
                 /\ \A u \in Tasks : WellFormed(task'[u])
    BY DEF TypeInv, TypeOK
  <1>3. CASE Receive(t)
    <2>1. PICK r \in Requests(t) : task' = [task EXCEPT ![t] = AtRest("lookup", r, None, None, None)]
      BY <1>3 DEF Receive
    <2>2. r \in AllRequests
      BY <2>1 DEF Requests, AllRequests
    <2>3. AtRest("lookup", r, None, None, None) \in Local
      BY <2>2, RequestFields, RestingLocal DEF Opt, Pcs
    <2>4. WellFormed(AtRest("lookup", r, None, None, None))
      BY <2>2 DEF AtRest, WellFormed, HoldingPcs, RegisteringPcs
    <2>5. QED
      BY <1>1, <1>3, <2>1, <2>3, <2>4, LocalUpdate DEF Receive
  <1>4. CASE RefuseRegisterPk(t)
    BY <1>1, <1>4, ReplyLocal DEF RefuseRegisterPk, At, Results, Opt
  <1>5. CASE RefusePunch(t)
    BY <1>1, <1>5, ReplyLocal DEF RefusePunch, At, Results, Opt
  <1>6. CASE FoundInMemory(t)
    <2>1. q \in AllRequests
      BY <1>1, <1>6 DEF FoundInMemory, WellFormed
    <2>2. map[q.id] \in Refs
      BY <1>1, <1>6, <2>1, RequestFields DEF FoundInMemory, Opt
    <2>3. AfterLookup(q.kind) \in {"check", "touch", "answer"}
      BY DEF AfterLookup
    <2>4. AfterLookup(q.kind) = "check" => q \in RegisterPkRequests
      BY <2>1, RequestFields DEF AfterLookup
    <2>5. task' = [task EXCEPT ![t].pc = AfterLookup(q.kind), ![t].ref = map[q.id]]
      BY <1>6 DEF FoundInMemory, GotoWith
    <2>6. AfterLookup(q.kind) \in Pcs /\ map[q.id] \in Opt(Refs)
      BY <2>2, <2>3 DEF Opt, Pcs
    <2>7. task' \in [Tasks -> Local]
      BY <1>1, <2>5, <2>6 DEF Local
    <2>8. WellFormed(task'[t])
      BY <1>1, <2>1, <2>2, <2>3, <2>4, <2>5 DEF WellFormed, HoldingPcs, RegisteringPcs
    <2>9. QED
      BY <1>1, <1>6, <2>5, <2>7, <2>8 DEF FoundInMemory
  <1>7. CASE MissingInMemory(t)
    <2>1. q \in AllRequests /\ task[t].pc = "lookup" /\ task[t].ref = None
      BY <1>1, <1>7 DEF MissingInMemory, WellFormed, HoldingPcs
    <2>2. CASE q.kind = "RegisterPeer"
      BY <1>1, <1>7, <2>1, <2>2, ReplyLocal DEF MissingInMemory, Results, Opt
    <2>3. CASE q.kind # "RegisterPeer"
      <3>1. task' = [task EXCEPT ![t].pc = "db_read"] /\ "db_read" \in Pcs
        BY <1>7, <2>3 DEF MissingInMemory, Goto, Pcs
      <3>2. task' \in [Tasks -> Local]
        BY <1>1, <3>1 DEF Local
      <3>3. WellFormed(task'[t])
        BY <1>1, <2>1, <3>1 DEF WellFormed, HoldingPcs, RegisteringPcs
      <3>4. QED
        BY <1>1, <1>7, <3>1, <3>2, <3>3 DEF MissingInMemory
    <2>4. QED
      BY <2>2, <2>3
  <1>8. CASE DbReadRow(t)
    <2>1. q \in AllRequests /\ task[t].pc = "db_read" /\ task[t].ref = None
      BY <1>1, <1>8 DEF DbReadRow, WellFormed, HoldingPcs
    <2>2. PICK g \in RowsOf(q.id) :
             task' = [task EXCEPT ![t].pc = "load", ![t].guid = g, ![t].row = db[g]]
      BY <1>8 DEF DbReadRow
    <2>3. g \in Opt(Guids) /\ db[g] \in Row /\ "load" \in Pcs
      BY <1>1, <2>2 DEF RowsOf, Opt, Pcs
    <2>4. task' \in [Tasks -> Local]
      BY <1>1, <2>2, <2>3 DEF Local
    <2>5. WellFormed(task'[t])
      BY <1>1, <2>1, <2>2 DEF WellFormed, HoldingPcs, RegisteringPcs
    <2>6. QED
      BY <1>1, <1>8, <2>2, <2>4, <2>5 DEF DbReadRow
  <1>9. CASE DbReadNothing(t)
    <2>1. q \in AllRequests /\ task[t].pc = "db_read" /\ task[t].ref = None
      BY <1>1, <1>9 DEF DbReadNothing, WellFormed, HoldingPcs
    <2>2. CASE q.kind = "RegisterPk"
      <3>1. task' = [task EXCEPT ![t].pc = "get_or"] /\ "get_or" \in Pcs
        BY <1>9, <2>2 DEF DbReadNothing, Goto, Pcs
      <3>2. task' \in [Tasks -> Local]
        BY <1>1, <3>1 DEF Local
      <3>3. q \in RegisterPkRequests
        BY <2>1, <2>2, RequestFields
      <3>4. WellFormed(task'[t])
        BY <1>1, <2>1, <3>1, <3>3 DEF WellFormed, HoldingPcs, RegisteringPcs
      <3>5. QED
        BY <1>1, <1>9, <3>1, <3>2, <3>4 DEF DbReadNothing
    <2>3. CASE q.kind # "RegisterPk"
      <3>1. \E res \in Results : Reply(t, res, None)
        BY <1>9, <2>3 DEF DbReadNothing, Results
      <3>2. QED
        BY <1>1, <1>9, <2>1, <3>1, ReplyLocal DEF DbReadNothing, Opt
    <2>4. QED
      BY <2>2, <2>3
  <1>10. CASE Load(t)
    <2>1. q \in AllRequests /\ task[t].pc = "load"
      BY <1>1, <1>10 DEF Load, WellFormed
    <2>2. PICK r \in Free :
             /\ map' = [map EXCEPT ![q.id] = r]
             /\ task' = [task EXCEPT ![t].pc = AfterLookup(q.kind), ![t].ref = r,
                                     ![t].guid = None, ![t].row = NoRow]
             /\ heap' = Dropped([heap EXCEPT ![r] = LoadedPeer(task[t].guid, task[t].row)], map', task')
      BY <1>10 DEF Load
    <2>3. r \in Refs /\ r \in Opt(Refs) /\ None \in Opt(Guids) /\ NoRow \in Row
      BY <2>2 DEF Free, Opt, Row, NoRow
    <2>4. AfterLookup(q.kind) \in {"check", "touch", "answer"} /\ AfterLookup(q.kind) \in Pcs
      BY DEF AfterLookup, Pcs
    <2>5. AfterLookup(q.kind) = "check" => q \in RegisterPkRequests
      BY <2>1, RequestFields DEF AfterLookup
    <2>6. task' \in [Tasks -> Local]
      BY <1>1, <2>2, <2>3, <2>4 DEF Local
    <2>7. WellFormed(task'[t])
      BY <1>1, <2>1, <2>2, <2>3, <2>4, <2>5 DEF WellFormed, HoldingPcs, RegisteringPcs
    <2>8. LoadedPeer(task[t].guid, task[t].row) \in Peer
      BY <1>1, DefaultIsPeer DEF LoadedPeer, Peer, Local, Row
    <2>9. heap' \in [Refs -> Peer]
      BY <1>1, <2>2, <2>3, <2>8, DroppedType
    <2>10. QED
      BY <1>1, <1>10, <2>2, <2>3, <2>6, <2>7, <2>9 DEF Load
  <1>11. CASE GetOr(t)
    <2>1. /\ q \in AllRequests /\ q \in RegisterPkRequests /\ task[t].pc = "get_or"
          /\ q.id \in Ids
      BY <1>1, <1>11, RequestFields DEF GetOr, WellFormed, RegisteringPcs
    <2>2. PICK r \in Refs :
             /\ task' = [task EXCEPT ![t].pc = "check", ![t].ref = r]
             /\ map' = map \/ map' = [map EXCEPT ![q.id] = r]
      BY <1>1, <1>11, <2>1 DEF GetOr, GotoWith, Free, Opt
    <2>3. r \in Opt(Refs) /\ "check" \in Pcs
      BY DEF Opt, Pcs
    <2>4. task' \in [Tasks -> Local]
      BY <1>1, <2>2, <2>3 DEF Local
    <2>5. WellFormed(task'[t])
      BY <1>1, <2>1, <2>2 DEF WellFormed, HoldingPcs, RegisteringPcs
    <2>6. QED
      BY <1>1, <1>11, <2>2, <2>3, <2>4, <2>5 DEF GetOr
  <1>12. CASE Check(t)
    <2>1. CASE Mismatch(heap[task[t].ref], q)
      BY <1>1, <1>12, <2>1, ReplyLocal DEF Check, Results, Opt
    <2>2. CASE ~Mismatch(heap[task[t].ref], q)
      <3>1. /\ task' = [task EXCEPT ![t].pc = "freq_read", ![t].changed = Changed(heap[task[t].ref], q)]
            /\ Changed(heap[task[t].ref], q) \in BOOLEAN
            /\ "freq_read" \in Pcs
            /\ task[t].pc = "check"
        BY <1>12, <2>2 DEF Check, Changed, Pcs
      <3>2. task' \in [Tasks -> Local]
        BY <1>1, <3>1 DEF Local
      <3>3. WellFormed(task'[t])
        BY <1>1, <3>1 DEF WellFormed, HoldingPcs, RegisteringPcs
      <3>4. QED
        BY <1>1, <1>12, <3>1, <3>2, <3>3 DEF Check
    <2>3. QED
      BY <2>1, <2>2
  <1>13. CASE FreqRead(t)
    <2>1. heap[task[t].ref].count \in 0..(RegPkLimit + 1) /\ task[t].pc = "freq_read"
      BY <1>1, <1>13 DEF FreqRead, WellFormed, HoldingPcs, Peer
    <2>2. CASE Reply(t, "TOO_FREQUENT", None)
      BY <1>1, <1>13, <2>1, <2>2, ReplyLocal DEF FreqRead, Results, Opt
    <2>3. CASE ~Reply(t, "TOO_FREQUENT", None)
      <3> DEFINE old == heap[task[t].ref].count
      <3>0. PICK expired \in BOOLEAN :
               /\ expired \/ ~(old > RegPkLimit)
               /\ task' = [task EXCEPT ![t].pc = "freq_write",
                                       ![t].count = IF expired THEN 1 ELSE old + 1]
        BY <1>13, <2>3 DEF FreqRead
      <3>1. PICK c \in 0..(RegPkLimit + 1) :
               task' = [task EXCEPT ![t].pc = "freq_write", ![t].count = c]
        <4>1. (IF expired THEN 1 ELSE old + 1) \in 0..(RegPkLimit + 1)
          BY <2>1, <3>0, ConstantsAssumption
        <4>2. QED
          BY <3>0, <4>1
      <3>2. "freq_write" \in Pcs
        BY DEF Pcs
      <3>3. task' \in [Tasks -> Local]
        BY <1>1, <3>1, <3>2 DEF Local
      <3>4. WellFormed(task'[t])
        BY <1>1, <2>1, <3>1 DEF WellFormed, HoldingPcs, RegisteringPcs
      <3>5. QED
        BY <1>1, <1>13, <3>1, <3>3, <3>4 DEF FreqRead
    <2>4. QED
      BY <2>2, <2>3
  <1>14. CASE FreqWrite(t)
    <2>1. task[t].pc = "freq_write" /\ task[t].count \in 0..(RegPkLimit + 1)
      BY <1>1, <1>14 DEF FreqWrite, Local
    <2>2. heap' \in [Refs -> Peer]
      BY <1>1, <1>14, <2>1 DEF FreqWrite, Peer
    <2>3. CASE ~task[t].changed
      BY <1>1, <1>14, <2>1, <2>2, <2>3, ReplyLocal DEF FreqWrite, Results, Opt
    <2>4. CASE task[t].changed
      <3>1. task' = [task EXCEPT ![t].pc = "update_mem"] /\ "update_mem" \in Pcs
        BY <1>14, <2>4 DEF FreqWrite, Goto, Pcs
      <3>2. task' \in [Tasks -> Local]
        BY <1>1, <3>1 DEF Local
      <3>3. WellFormed(task'[t])
        BY <1>1, <2>1, <3>1 DEF WellFormed, HoldingPcs, RegisteringPcs
      <3>4. QED
        BY <1>1, <1>14, <2>2, <3>1, <3>2, <3>3 DEF FreqWrite
    <2>5. QED
      BY <2>3, <2>4
  <1>15. CASE UpdateMem(t)
    <2>1. task[t].pc = "update_mem" /\ q \in RegisterPkRequests /\ task[t].ref \in Refs
      BY <1>1, <1>15 DEF UpdateMem, WellFormed, HoldingPcs, RegisteringPcs
    <2>2. /\ q.ip \in Opt(Ips) /\ q.uuid \in Opt(Uuids) /\ q.pk \in Opt(Keys)
      BY <2>1, RegisterPkFields DEF Opt
    <2>3. heap' \in [Refs -> Peer]
      <3>1. heap[task[t].ref] \in Peer
        BY <1>1, <2>1
      <3>2. PICK p : p = [heap[task[t].ref] EXCEPT !.addr = q.ip, !.uuid = q.uuid, !.pk = q.pk,
                                                   !.seen = TRUE, !.wrapped = FALSE, !.ip = q.ip]
        OBVIOUS
      <3>3. p \in Peer
        BY ONLY <2>2, <3>1, <3>2 DEF Peer
      <3>4. heap' = [heap EXCEPT ![task[t].ref] = p]
        BY <1>15, <3>2 DEF UpdateMem
      <3>5. QED BY <1>1, <3>3, <3>4
    <2>4. heap[task[t].ref].guid \in Opt(Guids) /\ "db_write" \in Pcs
      BY <1>1, <2>1 DEF Peer, Pcs
    <2>5. task' = [task EXCEPT ![t].pc = "db_write", ![t].guid = heap[task[t].ref].guid]
      BY <1>15 DEF UpdateMem
    <2>6. task' \in [Tasks -> Local]
      BY <1>1, <2>4, <2>5 DEF Local
    <2>7. WellFormed(task'[t])
      BY <1>1, <2>1, <2>5 DEF WellFormed, HoldingPcs, RegisteringPcs
    <2>8. QED
      BY <1>1, <1>15, <2>3, <2>5, <2>6, <2>7 DEF UpdateMem
  <1>16. CASE InsertRow(t)
    <2>1. task[t].pc = "db_write" /\ q \in RegisterPkRequests
      BY <1>1, <1>16 DEF InsertRow, WellFormed, RegisteringPcs
    <2>2. [id |-> q.id, uuid |-> q.uuid, pk |-> q.pk, ip |-> q.ip] \in Row
      BY <2>1, RegisterPkFields DEF Opt, Row
    <2>3. PICK g \in Guids :
             /\ db' = [db EXCEPT ![g] = [id |-> q.id, uuid |-> q.uuid, pk |-> q.pk, ip |-> q.ip]]
             /\ task' = [task EXCEPT ![t].pc = "set_guid", ![t].guid = g]
      BY <1>16 DEF InsertRow
    <2>4. g \in Opt(Guids) /\ "set_guid" \in Pcs
      BY DEF Opt, Pcs
    <2>5. task' \in [Tasks -> Local]
      BY <1>1, <2>3, <2>4 DEF Local
    <2>6. WellFormed(task'[t])
      BY <1>1, <2>1, <2>3 DEF WellFormed, HoldingPcs, RegisteringPcs
    <2>7. db' \in [Guids -> Row]
      BY <1>1, <2>2, <2>3
    <2>8. QED
      BY <1>1, <1>16, <2>3, <2>5, <2>6, <2>7 DEF InsertRow
  <1>17. CASE UpdateRow(t)
    <2>1. task[t].pc = "db_write" /\ q \in RegisterPkRequests
      BY <1>1, <1>17 DEF UpdateRow, WellFormed, RegisteringPcs
    <2>2. q.id \in Opt(Ids) /\ q.pk \in Opt(Keys) /\ q.ip \in Opt(Ips)
      BY <2>1, RegisterPkFields DEF Opt
    <2>3. db' \in [Guids -> Row]
      BY <1>1, <1>17, <2>2 DEF UpdateRow, Row
    <2>4. QED
      BY <1>1, <1>17, <2>1, <2>3, ReplyLocal DEF UpdateRow, Results, Opt
  <1>18. CASE DbWriteFails(t)
    BY <1>1, <1>18, ReplyLocal DEF DbWriteFails, Results, Opt
  <1>19. CASE SetGuid(t)
    <2>1. task[t].guid \in Opt(Guids)
      BY <1>1 DEF Local
    <2>2. heap' \in [Refs -> Peer]
      BY <1>1, <1>19, <2>1 DEF SetGuid, Peer
    <2>3. QED
      BY <1>1, <1>19, <2>2, ReplyLocal DEF SetGuid, Results, Opt
  <1>20. CASE Touch(t)
    <2>1. task[t].pc = "touch" /\ q \in AllRequests
      BY <1>1, <1>20 DEF Touch, WellFormed
    <2>2. q.ip \in Opt(Ips)
      BY <2>1, RequestFields
    <2>3. heap' \in [Refs -> Peer]
      <3>1. task[t].ref \in Refs /\ heap[task[t].ref] \in Peer
        BY <1>1, <2>1 DEF WellFormed, HoldingPcs
      <3>2. PICK p : p = [heap[task[t].ref] EXCEPT !.addr = q.ip, !.seen = TRUE, !.wrapped = FALSE]
        OBVIOUS
      <3>3. p \in Peer
        BY ONLY <2>2, <3>1, <3>2 DEF Peer
      <3>4. heap' = heap \/ heap' = [heap EXCEPT ![task[t].ref] = p]
        BY <1>20, <3>2 DEF Touch
      <3>5. QED BY <1>1, <3>3, <3>4
    <2>4. \E res \in Results : Reply(t, res, None)
      BY <1>20 DEF Touch, Results
    <2>5. QED
      BY <1>1, <1>20, <2>1, <2>3, <2>4, ReplyLocal DEF Touch, Opt
  <1>21. CASE AnswerPunch(t)
    <2>1. heap[task[t].ref] \in Peer /\ task[t].pc = "answer"
      BY <1>1, <1>21 DEF AnswerPunch, At, WellFormed, HoldingPcs
    <2>2. PICK res \in Results, val \in Opt(Keys \cup Ips) : Reply(t, res, val)
      BY <1>21, <2>1 DEF AnswerPunch, Peer, Results, Opt
    <2>3. QED
      BY <1>1, <1>21, <2>1, <2>2, ReplyLocal DEF AnswerPunch
  <1>22. CASE AnswerGetPk(t)
    <2>1. heap[task[t].ref] \in Peer /\ task[t].pc = "answer"
      BY <1>1, <1>22 DEF AnswerGetPk, At, WellFormed, HoldingPcs
    <2>2. PICK res \in Results, val \in Opt(Keys \cup Ips) : Reply(t, res, val)
      BY <1>22, <2>1 DEF AnswerGetPk, Peer, Results, Opt
    <2>3. QED
      BY <1>1, <1>22, <2>1, <2>2, ReplyLocal DEF AnswerGetPk
  <1>23. CASE Return(t)
    <2>1. heap' \in [Refs -> Peer]
      BY <1>1, <1>23, DroppedType DEF Return
    <2>2. QED
      BY <1>1, <1>23, <2>1, IdleLocal, LocalUpdate DEF Return
  <1>24. QED
    BY <1>3, <1>4, <1>5, <1>6, <1>7, <1>8, <1>9, <1>10, <1>11, <1>12, <1>13, <1>14, <1>15,
       <1>16, <1>17, <1>18, <1>19, <1>20, <1>21, <1>22, <1>23 DEF TaskStep, RegisterStep

LEMMA TypeCrash ==
    ASSUME TypeInv, Crash
    PROVE  TypeInv'
  BY IdleLocal, DefaultIsPeer DEF TypeInv, TypeOK, Crash, Opt

\* What time passing over an object leaves alone.
LEMMA WrapShape ==
    ASSUME TypeInv, NEW r \in Refs, Wrap(r)
    PROVE  /\ map' = map /\ db' = db /\ task' = task
           /\ heap' \in [Refs -> Peer]
           /\ \A s \in Refs : /\ heap'[s].guid = heap[s].guid /\ heap'[s].uuid = heap[s].uuid
                             /\ heap'[s].pk = heap[s].pk /\ heap'[s].addr = heap[s].addr
                             /\ heap'[s].seen = heap[s].seen /\ heap'[s].count = heap[s].count
           /\ \A s \in Refs \ {r} : heap'[s] = heap[s]
           /\ r \notin Free
           /\ \E i \in Ids : map[i] = r
           /\ \A t \in Tasks : task[t].ref # r
  <1>1. /\ heap \in [Refs -> Peer] /\ heap' = [heap EXCEPT ![r].wrapped = TRUE]
        /\ map' = map /\ db' = db /\ task' = task
        /\ \E i \in Ids : map[i] = r
        /\ \A t \in Tasks : task[t].ref # r
    BY DEF TypeInv, TypeOK, Wrap
  <1>2. heap[r] \in Peer /\ [heap[r] EXCEPT !.wrapped = TRUE] \in Peer
    BY <1>1 DEF Peer
  <1>3. heap' \in [Refs -> Peer]
    BY <1>1, <1>2
  <1>4. \A s \in Refs \ {r} : heap'[s] = heap[s]
    BY <1>1
  <1>5. /\ heap'[r].guid = heap[r].guid /\ heap'[r].uuid = heap[r].uuid
        /\ heap'[r].pk = heap[r].pk /\ heap'[r].addr = heap[r].addr
        /\ heap'[r].seen = heap[r].seen /\ heap'[r].count = heap[r].count
    BY <1>1 DEF Peer
  <1>6. r \notin Free
    BY <1>1 DEF Free, Live
  <1>7. QED
    BY <1>1, <1>3, <1>4, <1>5, <1>6

LEMMA TypeWrap ==
    ASSUME TypeInv, NEW r \in Refs, Wrap(r)
    PROVE  TypeInv'
  BY WrapShape DEF TypeInv, TypeOK

LEMMA TypeInvariant == Spec => []TypeInv
  <1>1. Init => TypeInv
    BY IdleLocal, DefaultIsPeer, ConstantsAssumption DEF Init, TypeInv, TypeOK, Opt, NoRow, Row
  <1>2. TypeInv /\ [Next]_vars => TypeInv'
    <2>1. CASE UNCHANGED vars
      BY <2>1 DEF vars, TypeInv, TypeOK
    <2>2. QED
      BY <2>1, TypeStep, TypeCrash, TypeWrap DEF Next
  <1>3. QED
    BY <1>1, <1>2, PTL DEF Spec

\* The variables of the registry keep their types, whatever interleaves.
THEOREM TypeCorrect == Spec => []TypeOK
  <1>1. TypeInv => TypeOK
    BY DEF TypeInv
  <1>2. QED
    BY <1>1, TypeInvariant, PTL
-----------------------------------------------------------------------------
(* Which objects stand for which ids. *)

\* What a step of t does to tasks and map: it keeps its request unless it ends
\* up without an object; an object it gains is the one the map has for the id;
\* an object the map gains was free.
LEMMA StepShape ==
    ASSUME TypeInv, NEW t \in Tasks, Receive(t) \/ TaskStep(t)
    PROVE  /\ \A u \in Tasks \ {t} : task'[u] = task[u]
           /\ \/ task'[t].ref = None
              \/ /\ task'[t].req = task[t].req
                 /\ task[t].req.id \in Ids
                 /\ task'[t].ref \in {task[t].ref, map'[task[t].req.id]}
           /\ \/ map' = map
              \/ \E r \in Free : /\ map' = [map EXCEPT ![task[t].req.id] = r]
                                /\ task[t].req.id \in Ids
  <1> DEFINE q == task[t].req
  <1>1. /\ task[t] \in Local /\ WellFormed(task[t])
        /\ map \in [Ids -> Opt(Refs)] /\ task \in [Tasks -> Local]
    BY DEF TypeInv, TypeOK
  <1>2. task[t].pc # "idle" => q.id \in Ids
    BY <1>1, RequestFields DEF WellFormed
  <1>3. ASSUME NEW res, NEW val, Reply(t, res, val)
        PROVE  /\ \A u \in Tasks \ {t} : task'[u] = task[u]
               /\ task'[t].req = q /\ task'[t].ref = task[t].ref
    BY <1>1, <1>3 DEF Reply, AtRest
  <1>4. ASSUME NEW p, Goto(t, p)
        PROVE  /\ \A u \in Tasks \ {t} : task'[u] = task[u]
               /\ task'[t].req = q /\ task'[t].ref = task[t].ref
    BY <1>1, <1>4 DEF Goto, Local
  <1>5. CASE Receive(t)
    BY <1>1, <1>5 DEF Receive, AtRest
  <1>6. CASE RefuseRegisterPk(t)
    BY <1>2, <1>3, <1>6 DEF RefuseRegisterPk, At
  <1>7. CASE RefusePunch(t)
    BY <1>2, <1>3, <1>7 DEF RefusePunch, At
  <1>8. CASE FoundInMemory(t)
    BY <1>1, <1>2, <1>8 DEF FoundInMemory, GotoWith, Local
  <1>9. CASE MissingInMemory(t)
    BY <1>2, <1>3, <1>4, <1>9 DEF MissingInMemory
  <1>10. CASE DbReadRow(t)
    BY <1>1, <1>2, <1>10 DEF DbReadRow, Local
  <1>11. CASE DbReadNothing(t)
    BY <1>2, <1>3, <1>4, <1>11 DEF DbReadNothing
  <1>12. CASE Load(t)
    <2>1. q.id \in Ids
      BY <1>2, <1>12 DEF Load
    <2>2. PICK r \in Free :
             /\ map' = [map EXCEPT ![q.id] = r]
             /\ task' = [task EXCEPT ![t].pc = AfterLookup(q.kind), ![t].ref = r,
                                     ![t].guid = None, ![t].row = NoRow]
      BY <1>12 DEF Load
    <2>3. task'[t].ref = r /\ task'[t].req = q /\ \A u \in Tasks \ {t} : task'[u] = task[u]
      BY <1>1, <2>2 DEF Local
    <2>4. map'[q.id] = r
      BY <1>1, <2>1, <2>2
    <2>5. QED
      BY <2>1, <2>2, <2>3, <2>4
  <1>13. CASE GetOr(t)
    <2>1. q.id \in Ids
      BY <1>2, <1>13 DEF GetOr
    <2>2. PICK r :
             /\ task' = [task EXCEPT ![t].pc = "check", ![t].ref = r]
             /\ \/ map' = map /\ r = map[q.id]
                \/ map' = [map EXCEPT ![q.id] = r] /\ r \in Free
      BY <1>13 DEF GetOr, GotoWith
    <2>3. task'[t].ref = r /\ task'[t].req = q /\ \A u \in Tasks \ {t} : task'[u] = task[u]
      BY <1>1, <2>2 DEF Local
    <2>4. map'[q.id] = r
      BY <1>1, <2>1, <2>2
    <2>5. QED
      BY <2>1, <2>2, <2>3, <2>4
  <1>14. CASE Check(t)
    <2>1. \/ Reply(t, "UUID_MISMATCH", None)
          \/ task' = [task EXCEPT ![t].pc = "freq_read", ![t].changed = Changed(heap[task[t].ref], q)]
      BY <1>14 DEF Check
    <2>2. /\ \A u \in Tasks \ {t} : task'[u] = task[u]
          /\ task'[t].req = q /\ task'[t].ref = task[t].ref
      BY <1>1, <1>3, <2>1 DEF Local
    <2>3. QED
      BY <1>2, <1>14, <2>2 DEF Check
  <1>15. CASE FreqRead(t)
    <2>1. \/ Reply(t, "TOO_FREQUENT", None)
          \/ \E c : task' = [task EXCEPT ![t].pc = "freq_write", ![t].count = c]
      BY <1>15 DEF FreqRead
    <2>2. /\ \A u \in Tasks \ {t} : task'[u] = task[u]
          /\ task'[t].req = q /\ task'[t].ref = task[t].ref
      BY <1>1, <1>3, <2>1 DEF Local
    <2>3. QED
      BY <1>2, <1>15, <2>2 DEF FreqRead
  <1>16. CASE FreqWrite(t)
    BY <1>2, <1>3, <1>4, <1>16 DEF FreqWrite
  <1>17. CASE UpdateMem(t)
    BY <1>1, <1>2, <1>17 DEF UpdateMem, Local
  <1>18. CASE InsertRow(t)
    BY <1>1, <1>2, <1>18 DEF InsertRow, Local
  <1>19. CASE UpdateRow(t) \/ DbWriteFails(t) \/ SetGuid(t)
    BY <1>2, <1>3, <1>19 DEF UpdateRow, DbWriteFails, SetGuid
  <1>20. CASE Touch(t) \/ AnswerPunch(t) \/ AnswerGetPk(t)
    BY <1>2, <1>3, <1>20 DEF Touch, AnswerPunch, AnswerGetPk, At
  <1>21. CASE Return(t)
    BY <1>1, <1>21 DEF Return, IdleTask, AtRest
  <1>22. QED
    BY <1>5, <1>6, <1>7, <1>8, <1>9, <1>10, <1>11, <1>12, <1>13, <1>14, <1>15, <1>16, <1>17,
       <1>18, <1>19, <1>20, <1>21 DEF TaskStep, RegisterStep

\* An object comes to stand for an id only through the task that looks the id
\* up, and only when it was free.
LEMMA StandsStep ==
    ASSUME TypeInv, NEW t \in Tasks, Receive(t) \/ TaskStep(t),
           NEW r \in Refs, NEW i \in Ids, Stands(r, i)'
    PROVE  Stands(r, i) \/ (r \in Free /\ i = task[t].req.id)
  <1>1. map \in [Ids -> Opt(Refs)] /\ r # None
    BY ConstantsAssumption DEF TypeInv, TypeOK
  <1>2. CASE map'[i] = r
    BY <1>1, <1>2, StepShape DEF Stands
  <1>3. CASE map'[i] # r
    <2>1. PICK u \in Tasks : task'[u].ref = r /\ task'[u].req.id = i
      BY <1>3 DEF Stands
    <2>2. CASE u # t
      BY <2>1, <2>2, StepShape DEF Stands
    <2>3. CASE u = t
      BY <1>1, <1>3, <2>1, <2>3, StepShape DEF Stands
    <2>4. QED
      BY <2>2, <2>3
  <1>4. QED
    BY <1>2, <1>3

LEMMA FreeStandsForNothing ==
    ASSUME TypeInv, NEW r \in Free, NEW i \in Ids
    PROVE  ~Stands(r, i)
  BY DEF Free, Live, Stands
-----------------------------------------------------------------------------
(* Guids. *)

Sharing == \A r \in Refs, i, j \in Ids : Stands(r, i) /\ Stands(r, j) => i = j

FreeIsClean == \A r \in Free : heap[r].guid = None

\* GuidPointsToRow is inductive together with: an object stands for one id
\* only, and a free object carries no guid.
GuidInv == TypeInv /\ Sharing /\ FreeIsClean /\ GuidPointsToRow

\* A step writes only rows that are new or that it addresses through a guid
\* of its own id.
LEMMA RowStep ==
    ASSUME GuidInv, NEW t \in Tasks, Receive(t) \/ TaskStep(t)
    PROVE  \A g \in Guids : Present(g) => /\ db'[g].id = db[g].id
                                          /\ db'[g].uuid = db[g].uuid
  <1>1. db \in [Guids -> Row]
    BY DEF GuidInv, TypeInv, TypeOK
  <1>2. CASE InsertRow(t)
    BY <1>1, <1>2 DEF InsertRow
  <1>3. CASE UpdateRow(t)
    <2>1. task[t].guid # None => db[task[t].guid].id = task[t].req.id
      BY DEF GuidInv, GuidPointsToRow
    <2>2. QED
      BY <1>1, <1>3, <2>1 DEF UpdateRow, Row
  <1>4. CASE ~InsertRow(t) /\ ~UpdateRow(t)
    <2>1. db' = db
      BY <1>4 DEF Receive, TaskStep, RegisterStep, RefuseRegisterPk, RefusePunch, FoundInMemory,
         MissingInMemory, DbReadRow, DbReadNothing, Load, GetOr, Check, FreqRead, FreqWrite,
         UpdateMem, DbWriteFails, SetGuid, Touch, AnswerPunch, AnswerGetPk, Return
    <2>2. QED
      BY <2>1
  <1>5. QED
    BY <1>2, <1>3, <1>4

\* The guid a task carries after its step: none, the one it had, the object's,
\* or that of a row of its id.
LEMMA TaskGuidStep ==
    ASSUME GuidInv, NEW t \in Tasks, Receive(t) \/ TaskStep(t), task'[t].guid # None
    PROVE  db'[task'[t].guid].id = task'[t].req.id
  <1> DEFINE q == task[t].req
  <1>1. /\ task[t] \in Local /\ WellFormed(task[t]) /\ task \in [Tasks -> Local]
        /\ map \in [Ids -> Opt(Refs)] /\ heap \in [Refs -> Peer] /\ db \in [Guids -> Row]
    BY DEF GuidInv, TypeInv, TypeOK
  <1>2. /\ task[t].guid \in Opt(Guids)
        /\ task[t].guid # None => db[task[t].guid].id = q.id
    BY <1>1 DEF GuidInv, GuidPointsToRow, Local
  <1>3. task[t].pc # "idle" => q.id \in Ids /\ q.id # None
    BY <1>1, RequestFields, ConstantsAssumption DEF WellFormed
  <1>4. ASSUME NEW res, NEW val, Reply(t, res, val)
        PROVE  FALSE
    BY <1>1, <1>4 DEF Reply, AtRest
  <1>5. ASSUME task'[t].guid = task[t].guid, task'[t].req = q, task[t].pc # "idle"
        PROVE  db'[task'[t].guid].id = task'[t].req.id
    <2>1. task[t].guid \in Guids /\ Present(task[t].guid)
      BY <1>2, <1>3, <1>5 DEF Opt, Present
    <2>2. QED
      BY <1>2, <1>5, <2>1, RowStep
  <1>6. CASE Receive(t) \/ Return(t)
    BY <1>1, <1>6 DEF Receive, Return, IdleTask, AtRest
  <1>7. CASE RefuseRegisterPk(t) \/ RefusePunch(t) \/ UpdateRow(t) \/ DbWriteFails(t)
              \/ SetGuid(t) \/ Touch(t) \/ AnswerPunch(t) \/ AnswerGetPk(t)
    BY <1>4, <1>7 DEF RefuseRegisterPk, RefusePunch, UpdateRow, DbWriteFails, SetGuid, Touch,
       AnswerPunch, AnswerGetPk
  <1>8. CASE FoundInMemory(t) \/ GetOr(t)
    <2>1. task'[t].guid = task[t].guid /\ task'[t].req = q /\ task[t].pc # "idle"
      BY <1>1, <1>8 DEF FoundInMemory, GetOr, GotoWith, Local
    <2>2. QED
      BY <1>5, <2>1
  <1>9. CASE MissingInMemory(t) \/ DbReadNothing(t) \/ FreqWrite(t)
    <2>1. \E p : Goto(t, p)
      BY <1>4, <1>9 DEF MissingInMemory, DbReadNothing, FreqWrite
    <2>2. task'[t].guid = task[t].guid /\ task'[t].req = q /\ task[t].pc # "idle"
      BY <1>1, <1>9, <2>1 DEF MissingInMemory, DbReadNothing, FreqWrite, Goto, Local
    <2>3. QED
      BY <1>5, <2>2
  <1>10. CASE DbReadRow(t)
    <2>1. PICK g \in RowsOf(q.id) :
             task' = [task EXCEPT ![t].pc = "load", ![t].guid = g, ![t].row = db[g]]
      BY <1>10 DEF DbReadRow
    <2>2. task'[t].guid = g /\ task'[t].req = q /\ db[g].id = q.id
      BY <1>1, <2>1 DEF Local, RowsOf
    <2>3. QED
      BY <1>10, <2>2 DEF DbReadRow
  <1>11. CASE Load(t)
    <2>1. PICK r : task' = [task EXCEPT ![t].pc = AfterLookup(q.kind), ![t].ref = r,
                                     ![t].guid = None, ![t].row = NoRow]
      BY <1>11 DEF Load
    <2>2. task'[t].guid = None
      BY <1>1, <2>1 DEF Local
    <2>3. QED
      BY <2>2
  <1>12. CASE Check(t)
    <2>1. task' = [task EXCEPT ![t].pc = "freq_read", ![t].changed = Changed(heap[task[t].ref], q)]
      BY <1>4, <1>12 DEF Check
    <2>2. task'[t].guid = task[t].guid /\ task'[t].req = q /\ task[t].pc # "idle"
      BY <1>1, <1>12, <2>1 DEF Check, Local
    <2>3. QED
      BY <1>5, <2>2
  <1>13. CASE FreqRead(t)
    <2>1. \E c : task' = [task EXCEPT ![t].pc = "freq_write", ![t].count = c]
      BY <1>4, <1>13 DEF FreqRead
    <2>2. task'[t].guid = task[t].guid /\ task'[t].req = q /\ task[t].pc # "idle"
      BY <1>1, <1>13, <2>1 DEF FreqRead, Local
    <2>3. QED
      BY <1>5, <2>2
  <1>14. CASE UpdateMem(t)
    <2>1. /\ task'[t].guid = heap[task[t].ref].guid /\ task'[t].req = q /\ db' = db
          /\ task[t].ref \in Refs /\ q.id \in Ids
      BY <1>1, <1>3, <1>14 DEF UpdateMem, Local, WellFormed, HoldingPcs
    <2>2. Stands(task[t].ref, q.id)
      BY DEF Stands
    <2>3. QED
      BY <2>1, <2>2 DEF GuidInv, GuidPointsToRow
  <1>15. CASE InsertRow(t)
    <2>1. PICK g \in Guids :
             /\ db' = [db EXCEPT ![g] = [id |-> q.id, uuid |-> q.uuid, pk |-> q.pk, ip |-> q.ip]]
             /\ task' = [task EXCEPT ![t].pc = "set_guid", ![t].guid = g]
      BY <1>15 DEF InsertRow
    <2>2. task'[t].guid = g /\ task'[t].req = q /\ db'[g].id = q.id
      BY <1>1, <2>1 DEF Local
    <2>3. QED
      BY <2>2
  <1>16. QED
    BY <1>6, <1>7, <1>8, <1>9, <1>10, <1>11, <1>12, <1>13, <1>14, <1>15
       DEF TaskStep, RegisterStep

\* Only Load and Return let go of objects.
LEMMA LiveKept ==
    ASSUME TypeInv, NEW t \in Tasks, Receive(t) \/ TaskStep(t), ~Load(t), ~Return(t)
    PROVE  Live(map, task) \subseteq Live(map', task')
  <1> DEFINE q == task[t].req
  <1>1. /\ task[t] \in Local /\ WellFormed(task[t]) /\ task \in [Tasks -> Local]
        /\ map \in [Ids -> Opt(Refs)] /\ None \notin Refs
    BY ConstantsAssumption DEF TypeInv, TypeOK
  <1>2. ASSUME NEW res, NEW val, Reply(t, res, val)
        PROVE  task'[t].ref = task[t].ref
    BY <1>1, <1>2 DEF Reply, AtRest
  <1>3. ASSUME NEW p, Goto(t, p)
        PROVE  task'[t].ref = task[t].ref
    BY <1>1, <1>3 DEF Goto, Local
  <1>4. CASE /\ \/ task[t].ref = None
                \/ task'[t].ref = task[t].ref
             /\ \/ map' = map
                \/ \E r : map' = [map EXCEPT ![q.id] = r] /\ map[q.id] = None
    BY <1>1, <1>4, StepShape DEF Live
  <1>5. CASE Receive(t)
    <2>1. task[t].ref = None /\ map' = map
      BY <1>1, <1>5 DEF Receive, WellFormed, IdleTask, AtRest
    <2>2. QED
      BY <1>4, <2>1
  <1>6. CASE FoundInMemory(t) \/ GetOr(t)
    BY <1>1, <1>4, <1>6 DEF FoundInMemory, GetOr, WellFormed, HoldingPcs
  <1>7. CASE DbReadRow(t) \/ UpdateMem(t) \/ InsertRow(t)
    <2>1. task'[t].ref = task[t].ref
      <3>1. CASE DbReadRow(t)
        BY <1>1, <3>1 DEF DbReadRow, Local
      <3>2. CASE UpdateMem(t)
        BY <1>1, <3>2 DEF UpdateMem, Local
      <3>3. CASE InsertRow(t)
        BY <1>1, <3>3 DEF InsertRow, Local
      <3>4. QED
        BY <1>7, <3>1, <3>2, <3>3
    <2>2. map' = map
      BY <1>7 DEF DbReadRow, UpdateMem, InsertRow
    <2>3. QED
      BY <1>4, <2>1, <2>2
  <1>8. CASE Check(t)
    <2>1. \/ Reply(t, "UUID_MISMATCH", None)
          \/ task' = [task EXCEPT ![t].pc = "freq_read", ![t].changed = Changed(heap[task[t].ref], q)]
      BY <1>8 DEF Check
    <2>2. task'[t].ref = task[t].ref
      BY <1>1, <1>2, <2>1 DEF Local
    <2>3. QED
      BY <1>4, <1>8, <2>2 DEF Check
  <1>9. CASE FreqRead(t)
    <2>1. \/ Reply(t, "TOO_FREQUENT", None)
          \/ \E c : task' = [task EXCEPT ![t].pc = "freq_write", ![t].count = c]
      BY <1>9 DEF FreqRead
    <2>2. task'[t].ref = task[t].ref
      BY <1>1, <1>2, <2>1 DEF Local
    <2>3. QED
      BY <1>4, <1>9, <2>2 DEF FreqRead
  <1>10. CASE \/ RefuseRegisterPk(t) \/ RefusePunch(t) \/ MissingInMemory(t) \/ DbReadNothing(t)
              \/ FreqWrite(t) \/ UpdateRow(t) \/ DbWriteFails(t) \/ SetGuid(t) \/ Touch(t)
              \/ AnswerPunch(t) \/ AnswerGetPk(t)
    <2>1. task'[t].ref = task[t].ref
      BY <1>2, <1>3, <1>10 DEF RefuseRegisterPk, RefusePunch, MissingInMemory, DbReadNothing,
         FreqWrite, UpdateRow, DbWriteFails, SetGuid, Touch, AnswerPunch, AnswerGetPk
    <2>2. map' = map
      BY <1>10 DEF RefuseRegisterPk, RefusePunch, MissingInMemory, DbReadNothing,
         FreqWrite, UpdateRow, DbWriteFails, SetGuid, Touch, AnswerPunch, AnswerGetPk
    <2>3. QED
      BY <1>4, <2>1, <2>2
  <1>11. QED
    BY <1>5, <1>6, <1>7, <1>8, <1>9, <1>10 DEF TaskStep, RegisterStep

\* The guid of an object after a step: the one it had, none, or the task's, and
\* then the object is the task's own or was free.  Free objects have none.
LEMMA HeapGuidStep ==
    ASSUME GuidInv, NEW t \in Tasks, Receive(t) \/ TaskStep(t), NEW r \in Refs
    PROVE  /\ \/ heap'[r].guid = heap[r].guid
              \/ heap'[r].guid = None
              \/ /\ heap'[r].guid = task[t].guid
                 /\ r = task[t].ref \/ r \in Free
           /\ r \notin Live(map', task') => heap'[r].guid = None
  <1>1. /\ task[t] \in Local /\ WellFormed(task[t]) /\ heap \in [Refs -> Peer] /\ TypeInv
        /\ \A s \in Free : heap[s].guid = None
    BY DEF GuidInv, TypeInv, TypeOK, FreeIsClean
  <1>2. DefaultPeer.guid = None
    BY DEF DefaultPeer
  <1>3. CASE Load(t)
    <2>1. PICK s \in Free :
             heap' = Dropped([heap EXCEPT ![s] = LoadedPeer(task[t].guid, task[t].row)], map', task')
      BY <1>3 DEF Load
    <2>2. LoadedPeer(task[t].guid, task[t].row).guid = task[t].guid
      BY DEF LoadedPeer, DefaultPeer
    <2>3. heap'[r] = IF r \in Live(map', task')
                     THEN IF r = s THEN LoadedPeer(task[t].guid, task[t].row) ELSE heap[r]
                     ELSE DefaultPeer
      BY <1>1, <2>1 DEF Dropped
    <2>4. QED
      BY <1>2, <2>1, <2>2, <2>3
  <1>4. CASE Return(t)
    <2>1. heap'[r] = IF r \in Live(map, task') THEN heap[r] ELSE DefaultPeer
      BY <1>4 DEF Return, Dropped
    <2>2. QED
      BY <1>2, <1>4, <2>1 DEF Return
  <1>5. CASE ~Load(t) /\ ~Return(t)
    <2>1. r \notin Live(map', task') => r \in Free
      BY <1>1, <1>5, LiveKept DEF Free
    <2>2. r \in Free => r # task[t].ref
      BY DEF Free, Live
    <2>3. CASE SetGuid(t)
      <3>1. heap'[r].guid = IF r = task[t].ref THEN task[t].guid ELSE heap[r].guid
        BY <1>1, <2>3 DEF SetGuid, Peer
      <3>2. QED
        BY <1>1, <2>1, <2>2, <3>1
    <2>4. CASE FreqWrite(t)
      BY <1>1, <2>1, <2>4 DEF FreqWrite, Peer
    <2>5. CASE UpdateMem(t)
      BY <1>1, <2>1, <2>5 DEF UpdateMem, Peer
    <2>6. CASE Touch(t)
      BY <1>1, <2>1, <2>6 DEF Touch, Peer
    <2>7. CASE ~SetGuid(t) /\ ~FreqWrite(t) /\ ~UpdateMem(t) /\ ~Touch(t)
      <3>1. heap' = heap
        BY <1>5, <2>7 DEF Receive, TaskStep, RegisterStep, RefuseRegisterPk, RefusePunch,
           FoundInMemory, MissingInMemory, DbReadRow, DbReadNothing, GetOr, Check, FreqRead,
           InsertRow, UpdateRow, DbWriteFails, AnswerPunch, AnswerGetPk
      <3>2. QED
        BY <1>1, <2>1, <3>1
    <2>8. QED
      BY <2>3, <2>4, <2>5, <2>6, <2>7
  <1>6. QED
    BY <1>3, <1>4, <1>5

LEMMA GuidStep ==
    ASSUME GuidInv, NEW t \in Tasks, Receive(t) \/ TaskStep(t)
    PROVE  GuidInv'
  <1>1. /\ TypeInv /\ Sharing /\ FreeIsClean /\ GuidPointsToRow
        /\ task[t] \in Local /\ WellFormed(task[t])
        /\ heap \in [Refs -> Peer] /\ None \notin Guids
    BY ConstantsAssumption DEF GuidInv, TypeInv, TypeOK
  <1>2. TypeInv'
    BY <1>1, TypeStep
  <1>3. Sharing'
    BY <1>1, StandsStep, FreeStandsForNothing DEF Sharing
  <1>4. FreeIsClean'
    BY HeapGuidStep DEF FreeIsClean, Free
  <1>5. ASSUME NEW g \in Guids, NEW i \in Ids, db[g].id = i
        PROVE  db'[g].id = i
    BY <1>5, RowStep, ConstantsAssumption DEF Present
  <1>6. ASSUME NEW i \in Ids, NEW r \in Refs, Stands(r, i)', heap'[r].guid # None
        PROVE  db'[heap'[r].guid].id = i
    <2>1. CASE heap'[r].guid = heap[r].guid
      <3>1. r \notin Free
        BY <1>1, <1>6, <2>1 DEF FreeIsClean
      <3>2. Stands(r, i)
        BY <1>1, <1>6, <3>1, StandsStep
      <3>3. heap[r].guid \in Guids /\ db[heap[r].guid].id = i
        BY <1>1, <1>6, <2>1, <3>2 DEF GuidPointsToRow, Peer, Opt
      <3>4. QED
        BY <1>5, <2>1, <3>3
    <2>2. CASE /\ heap'[r].guid = task[t].guid
               /\ r = task[t].ref \/ r \in Free
      <3>1. task[t].guid \in Guids /\ db[task[t].guid].id = task[t].req.id
        BY <1>1, <1>6, <2>2 DEF GuidPointsToRow, Local, Opt
      <3>2. i = task[t].req.id
        <4>1. CASE r \in Free
          BY <1>1, <1>6, <4>1, StandsStep, FreeStandsForNothing
        <4>2. CASE r \notin Free
          <5>1. Stands(r, i) /\ r = task[t].ref
            BY <1>1, <1>6, <2>2, <4>2, StandsStep
          <5>2. task[t].pc # "idle"
            BY <1>1, <5>1, ConstantsAssumption DEF WellFormed, IdleTask, AtRest
          <5>3. task[t].req.id \in Ids /\ Stands(r, task[t].req.id)
            BY <1>1, <5>1, <5>2, RequestFields DEF WellFormed, Stands
          <5>4. QED
            BY <1>1, <5>1, <5>3 DEF Sharing
        <4>3. QED
          BY <4>1, <4>2
      <3>3. QED
        BY <1>5, <1>6, <2>2, <3>1, <3>2
    <2>3. QED
      BY <1>6, <2>1, <2>2, HeapGuidStep
  <1>7. ASSUME NEW u \in Tasks, task'[u].guid # None
        PROVE  db'[task'[u].guid].id = task'[u].req.id
    <2>1. CASE u = t
      BY <1>7, <2>1, TaskGuidStep
    <2>2. CASE u # t
      <3>1. task'[u] = task[u] /\ task[u] \in Local /\ WellFormed(task[u])
        BY <1>1, <2>2, StepShape DEF TypeInv, TypeOK
      <3>2. task[u].guid \in Guids /\ db[task[u].guid].id = task[u].req.id
        BY <1>1, <1>7, <3>1 DEF GuidPointsToRow, Local, Opt
      <3>3. task[u].pc # "idle"
        BY <1>7, <3>1 DEF WellFormed, IdleTask, AtRest
      <3>4. task[u].req.id \in Ids
        BY <3>1, <3>3, RequestFields DEF WellFormed
      <3>5. QED
        BY <1>5, <3>1, <3>2, <3>4
    <2>3. QED
      BY <2>1, <2>2
  <1>8. GuidPointsToRow'
    BY <1>6, <1>7 DEF GuidPointsToRow
  <1>9. QED
    BY <1>2, <1>3, <1>4, <1>8 DEF GuidInv

LEMMA GuidCrash ==
    ASSUME GuidInv, Crash
    PROVE  GuidInv'
  <1>1. TypeInv'
    BY TypeCrash DEF GuidInv
  <1>2. /\ \A r \in Refs, i \in Ids : ~Stands(r, i)'
        /\ \A r \in Refs : heap'[r].guid = None
        /\ \A u \in Tasks : task'[u].guid = None
    BY ConstantsAssumption DEF Crash, Stands, IdleTask, AtRest, DefaultPeer
  <1>3. QED
    BY <1>1, <1>2 DEF GuidInv, Sharing, FreeIsClean, Free, GuidPointsToRow

LEMMA GuidWrap ==
    ASSUME GuidInv, NEW r \in Refs, Wrap(r)
    PROVE  GuidInv'
  <1>1. TypeInv' /\ map' = map /\ db' = db /\ task' = task
        /\ \A s \in Refs : heap'[s].guid = heap[s].guid
    BY TypeWrap, WrapShape DEF GuidInv
  <1>2. /\ \A s \in Refs, i \in Ids : Stands(s, i)' <=> Stands(s, i)
        /\ Free' = Free
    BY <1>1 DEF Stands, Free, Live
  <1>3. Sharing'
    BY <1>2 DEF GuidInv, Sharing
  <1>4. FreeIsClean'
    <2>1. \A s \in Refs : s \in Free' => heap'[s].guid = None
      BY <1>1, <1>2 DEF GuidInv, FreeIsClean
    <2>2. QED BY <2>1 DEF FreeIsClean, Free
  <1>5. GuidPointsToRow'
    BY <1>1, <1>2 DEF GuidInv, GuidPointsToRow
  <1>6. QED
    BY <1>1, <1>3, <1>4, <1>5 DEF GuidInv

LEMMA GuidInvariant == Spec => []GuidInv
  <1>1. Init => GuidInv
    <2> SUFFICES ASSUME Init PROVE GuidInv
      OBVIOUS
    <2>1. TypeInv
      BY IdleLocal, DefaultIsPeer, ConstantsAssumption DEF Init, TypeInv, TypeOK, Opt, NoRow, Row
    <2>2. /\ \A r \in Refs, i \in Ids : ~Stands(r, i)
          /\ \A r \in Refs : heap[r].guid = None
          /\ \A u \in Tasks : task[u].guid = None
      BY ConstantsAssumption DEF Init, Stands, IdleTask, AtRest, DefaultPeer
    <2>3. QED
      BY <2>1, <2>2 DEF GuidInv, Sharing, FreeIsClean, Free, GuidPointsToRow
  <1>2. GuidInv /\ [Next]_vars => GuidInv'
    <2>1. CASE UNCHANGED vars
      BY <2>1 DEF vars, GuidInv, TypeInv, TypeOK, Sharing, Stands, FreeIsClean, Free, Live,
         GuidPointsToRow
    <2>2. QED
      BY <2>1, GuidStep, GuidCrash, GuidWrap DEF Next
  <1>3. QED
    BY <1>1, <1>2, PTL DEF Spec

\* An update through a guid reaches the row of the id it is meant for, for any
\* number of ids, tasks, failures and restarts.
THEOREM GuidsPointToRows == Spec => []GuidPointsToRow
  <1>1. GuidInv => GuidPointsToRow
    BY DEF GuidInv
  <1>2. QED
    BY <1>1, GuidInvariant, PTL

\* A row keeps its id and the uuid of its first registrant for good.
THEOREM RowsKeepOwner == Spec => RowsKeepTheirOwner
  <1>1. GuidInv /\ [Next]_vars =>
           [\A g \in Guids : Present(g) => /\ db'[g].id = db[g].id
                                           /\ db'[g].uuid = db[g].uuid]_db
    BY RowStep DEF Next, Crash, Wrap, vars
  <1>2. QED
    BY <1>1, GuidInvariant, PTL DEF Spec, RowsKeepTheirOwner

-----------------------------------------------------------------------------
(* What the registry tells others: forwards go to a peer that can be       *)
(* reached; with one registering task and reliable reads memory agrees     *)
(* with the table, signed keys are the owner's and the registry implements *)
(* the book of ids.                                                        *)

(* What a step does to one object and to one answer.                       *)

\* The uuid, key, address and age of an object change only when it is dropped,
\* loaded into a free reference, registered or touched.
LEMMA PeerStep ==
    ASSUME TypeInv, NEW t \in Tasks, Receive(t) \/ TaskStep(t), NEW r \in Refs
    PROVE  \/ heap'[r] = DefaultPeer /\ r \notin Live(map', task')
           \/ /\ Load(t) /\ r \in Free /\ r \in Live(map', task')
              /\ heap'[r] = LoadedPeer(task[t].guid, task[t].row)
           \/ /\ UpdateMem(t) /\ r = task[t].ref
              /\ heap'[r].uuid = task[t].req.uuid /\ heap'[r].pk = task[t].req.pk
              /\ heap'[r].addr = task[t].req.ip /\ heap'[r].seen /\ ~heap'[r].wrapped
           \/ /\ Touch(t) /\ r = task[t].ref /\ heap[r].pk # None
              /\ heap'[r].uuid = heap[r].uuid /\ heap'[r].pk = heap[r].pk
              /\ heap'[r].addr = task[t].req.ip /\ heap'[r].seen /\ ~heap'[r].wrapped
           \/ /\ heap'[r].uuid = heap[r].uuid /\ heap'[r].pk = heap[r].pk
              /\ heap'[r].addr = heap[r].addr /\ heap'[r].seen = heap[r].seen
              /\ heap'[r].wrapped = heap[r].wrapped
              /\ heap'[r].count = heap[r].count \/ (FreqWrite(t) /\ r = task[t].ref)
              /\ r \in Live(map', task') \/ r \in Free
  <1> DEFINE Kept == /\ heap'[r].uuid = heap[r].uuid /\ heap'[r].pk = heap[r].pk
                     /\ heap'[r].addr = heap[r].addr /\ heap'[r].seen = heap[r].seen
                     /\ heap'[r].wrapped = heap[r].wrapped
                     /\ heap'[r].count = heap[r].count \/ (FreqWrite(t) /\ r = task[t].ref)
  <1>1. heap \in [Refs -> Peer] /\ WellFormed(task[t])
    BY DEF TypeInv, TypeOK
  <1>9. heap'[r] = heap[r] => Kept
    OBVIOUS
  <1>2. CASE Load(t)
    <2>1. PICK s \in Free :
             heap' = Dropped([heap EXCEPT ![s] = LoadedPeer(task[t].guid, task[t].row)], map', task')
      BY <1>2 DEF Load
    <2>2. heap'[r] = IF r \in Live(map', task')
                     THEN IF r = s THEN LoadedPeer(task[t].guid, task[t].row) ELSE heap[r]
                     ELSE DefaultPeer
      BY <1>1, <2>1 DEF Dropped
    <2>3. QED BY <1>9, <1>2, <2>1, <2>2
  <1>3. CASE Return(t)
    <2>1. heap'[r] = IF r \in Live(map', task') THEN heap[r] ELSE DefaultPeer
      BY <1>3 DEF Return, Dropped
    <2>2. QED BY <1>9, <2>1
  <1>4. CASE UpdateMem(t)
    <2>1. ~Load(t) /\ ~Return(t)
      BY <1>4 DEF UpdateMem, Load, Return
    <2>2. r \in Live(map', task') \/ r \in Free
      BY <2>1, LiveKept DEF Free
    <2>3. CASE r # task[t].ref
      <3>1. heap'[r] = heap[r] BY <1>1, <1>4, <2>3 DEF UpdateMem
      <3>2. QED BY <1>9, <2>2, <3>1
    <2>4. CASE r = task[t].ref
      <3>1. heap[r] \in Peer BY <1>1
      <3>2. heap'[r] = [heap[r] EXCEPT !.addr = task[t].req.ip, !.uuid = task[t].req.uuid,
                                       !.pk = task[t].req.pk, !.seen = TRUE, !.wrapped = FALSE,
                                       !.ip = task[t].req.ip]
        BY <1>1, <1>4, <2>4 DEF UpdateMem
      <3>3. /\ heap'[r].uuid = task[t].req.uuid /\ heap'[r].pk = task[t].req.pk
            /\ heap'[r].addr = task[t].req.ip /\ heap'[r].seen /\ ~heap'[r].wrapped
        BY ONLY <3>1, <3>2 DEF Peer
      <3>4. QED BY <1>4, <2>4, <3>3
    <2>5. QED BY <2>3, <2>4
  <1>5. CASE Touch(t)
    <2>1. ~Load(t) /\ ~Return(t)
      BY <1>5 DEF Touch, Load, Return
    <2>2. r \in Live(map', task') \/ r \in Free
      BY <2>1, LiveKept DEF Free
    <2>3. CASE heap'[r] = heap[r]
      BY <1>9, <2>2, <2>3
    <2>4. CASE heap'[r] # heap[r]
      <3>1. heap[r] \in Peer BY <1>1
      <3>2. /\ heap[task[t].ref].pk # None
            /\ heap' = [heap EXCEPT ![task[t].ref] = [@ EXCEPT !.addr = task[t].req.ip, !.seen = TRUE,
                                                                !.wrapped = FALSE]]
        BY <1>5, <2>4 DEF Touch
      <3>3. /\ r = task[t].ref
            /\ heap'[r] = [heap[r] EXCEPT !.addr = task[t].req.ip, !.seen = TRUE, !.wrapped = FALSE]
        BY <1>1, <2>4, <3>2
      <3>4. /\ heap'[r].uuid = heap[r].uuid /\ heap'[r].pk = heap[r].pk
            /\ heap'[r].addr = task[t].req.ip /\ heap'[r].seen /\ ~heap'[r].wrapped
        BY ONLY <3>1, <3>3 DEF Peer
      <3>5. QED BY <1>5, <3>2, <3>3, <3>4
    <2>5. QED BY <2>3, <2>4
  <1>6. CASE SetGuid(t) \/ FreqWrite(t)
    <2>1. ~Load(t) /\ ~Return(t)
      BY <1>6 DEF SetGuid, FreqWrite, Load, Return
    <2>2. r \in Live(map', task') \/ r \in Free
      BY <2>1, LiveKept DEF Free
    <2>3. heap[r] \in Peer BY <1>1
    <2>4. CASE SetGuid(t)
      <3>1. \/ heap'[r] = heap[r]
            \/ heap'[r] = [heap[r] EXCEPT !.guid = task[t].guid]
        BY <1>1, <2>4 DEF SetGuid
      <3>2. Kept BY <2>3, <3>1 DEF Peer
      <3>3. QED BY <2>2, <3>2
    <2>5. CASE FreqWrite(t)
      <3>1. \/ heap'[r] = heap[r]
            \/ r = task[t].ref /\ heap'[r] = [heap[r] EXCEPT !.count = task[t].count]
        BY <1>1, <2>5 DEF FreqWrite
      <3>2. Kept BY <2>3, <2>5, <3>1 DEF Peer
      <3>3. QED BY <2>2, <3>2
    <2>6. QED BY <1>6, <2>4, <2>5
  <1>7. CASE ~Load(t) /\ ~Return(t) /\ ~UpdateMem(t) /\ ~Touch(t) /\ ~SetGuid(t) /\ ~FreqWrite(t)
    <2>1. heap' = heap
      BY <1>7 DEF Receive, TaskStep, RegisterStep, RefuseRegisterPk, RefusePunch,
         FoundInMemory, MissingInMemory, DbReadRow, DbReadNothing, GetOr, Check, FreqRead,
         InsertRow, UpdateRow, DbWriteFails, AnswerPunch, AnswerGetPk
    <2>2. r \in Live(map', task') \/ r \in Free
      BY <1>7, LiveKept DEF Free
    <2>3. QED
      BY <1>9, <2>1, <2>2
  <1>8. QED
    BY <1>2, <1>3, <1>4, <1>5, <1>6, <1>7

\* An object a task holds before and after a step of another task is neither
\* dropped nor overwritten by a load.
LEMMA HeldKept ==
    ASSUME TypeInv, NEW t \in Tasks, Receive(t) \/ TaskStep(t),
           NEW u \in Tasks, task'[u].ref = task[u].ref, task[u].ref \in Refs
    PROVE  task[u].ref \notin Free /\ task[u].ref \in Live(map', task')
  BY DEF Free, Live

\* An answer is given at the end, by the handler that looked at the object.
Answered == \A t \in Tasks : task[t].result # None => task[t].pc = "done"

LEMMA AnswerStep ==
    ASSUME TypeInv, Answered, NEW t \in Tasks, Receive(t) \/ TaskStep(t),
           task'[t].result # None
    PROVE  /\ task'[t].pc = "done" /\ task'[t].ref = task[t].ref /\ task'[t].req = task[t].req
           /\ task'[t].result = "FORWARD" =>
                 /\ task[t].ref \in Refs
                 /\ heap[task[t].ref].seen \/ heap[task[t].ref].wrapped
                 /\ task'[t].value = heap[task[t].ref].addr
                 /\ heap' = heap
           /\ task'[t].result = "KEY" /\ task'[t].value # None =>
                 /\ task[t].ref \in Refs
                 /\ task'[t].value = heap[task[t].ref].pk
                 /\ heap' = heap
           /\ task'[t].result = "OK" =>
                 \/ RefuseRegisterPk(t) \/ Touch(t)
                 \/ FreqWrite(t) /\ ~task[t].changed
                 \/ UpdateRow(t) \/ DbWriteFails(t) \/ SetGuid(t)
  <1>1. /\ task[t] \in Local /\ WellFormed(task[t]) /\ task \in [Tasks -> Local]
        /\ task[t].result # None => task[t].pc = "done"
    BY DEF TypeInv, TypeOK, Answered
  <1>2. ASSUME NEW res, NEW val, Reply(t, res, val)
        PROVE  /\ task'[t].pc = "done" /\ task'[t].ref = task[t].ref /\ task'[t].req = task[t].req
               /\ task'[t].result = res /\ task'[t].value = val
    BY <1>1, <1>2 DEF Reply, AtRest
  <1>3. ASSUME task'[t].result = task[t].result, task[t].pc # "done" PROVE FALSE
    BY <1>1, <1>3
  <1>4. CASE Receive(t) \/ Return(t)
    BY <1>1, <1>4 DEF Receive, Return, IdleTask, AtRest
  <1>5. CASE FoundInMemory(t) \/ GetOr(t)
    BY <1>1, <1>3, <1>5 DEF FoundInMemory, GetOr, GotoWith, Local
  <1>6. ASSUME NEW p, Goto(t, p), task[t].pc # "done" PROVE FALSE
    BY <1>1, <1>3, <1>6 DEF Goto, Local
  <1>7. CASE RefuseRegisterPk(t) \/ RefusePunch(t)
    BY <1>2, <1>7 DEF RefuseRegisterPk, RefusePunch
  <1>8. CASE MissingInMemory(t) \/ DbReadNothing(t)
    BY <1>2, <1>6, <1>8 DEF MissingInMemory, DbReadNothing
  <1>9. CASE DbReadRow(t)
    BY <1>1, <1>3, <1>9 DEF DbReadRow, Local
  <1>10. CASE Load(t)
    BY <1>1, <1>3, <1>10 DEF Load, Local
  <1>11. CASE Check(t)
    <2>1. \/ Reply(t, "UUID_MISMATCH", None)
          \/ task' = [task EXCEPT ![t].pc = "freq_read", ![t].changed = Changed(heap[task[t].ref], task[t].req)]
      BY <1>11 DEF Check
    <2>2. task[t].pc = "check" BY <1>11 DEF Check
    <2>3. QED BY <1>1, <1>2, <1>3, <2>1, <2>2 DEF Local
  <1>12. CASE FreqRead(t)
    <2>1. \/ Reply(t, "TOO_FREQUENT", None)
          \/ \E c : task' = [task EXCEPT ![t].pc = "freq_write", ![t].count = c]
      BY <1>12 DEF FreqRead
    <2>2. task[t].pc = "freq_read" BY <1>12 DEF FreqRead
    <2>3. QED BY <1>1, <1>2, <1>3, <2>1, <2>2 DEF Local
  <1>13. CASE FreqWrite(t)
    <2>1. task[t].pc = "freq_write" /\ ~task[t].changed /\ Reply(t, "OK", None)
      BY <1>6, <1>13 DEF FreqWrite
    <2>2. QED BY <1>2, <1>13, <2>1
  <1>14. CASE UpdateMem(t)
    BY <1>1, <1>3, <1>14 DEF UpdateMem, Local
  <1>15. CASE InsertRow(t)
    BY <1>1, <1>3, <1>15 DEF InsertRow, Local
  <1>16. CASE UpdateRow(t) \/ DbWriteFails(t) \/ SetGuid(t)
    <2>1. Reply(t, "OK", None) BY <1>16 DEF UpdateRow, DbWriteFails, SetGuid
    <2>2. QED BY <1>2, <1>16, <2>1
  <1>17. CASE Touch(t)
    <2>1. Reply(t, "OK", None) \/ Reply(t, "REQUEST_PK", None) BY <1>17 DEF Touch
    <2>2. QED BY <1>2, <1>17, <2>1
  <1>18. CASE AnswerPunch(t)
    <2>1. task[t].ref \in Refs BY <1>1, <1>18 DEF AnswerPunch, At, WellFormed, HoldingPcs
    <2>2. QED BY <1>2, <1>18, <2>1 DEF AnswerPunch
  <1>19. CASE AnswerGetPk(t)
    <2>1. task[t].ref \in Refs BY <1>1, <1>19 DEF AnswerGetPk, At, WellFormed, HoldingPcs
    <2>2. QED BY <1>2, <1>19, <2>1 DEF AnswerGetPk
  <1>20. QED
    BY <1>4, <1>5, <1>7, <1>8, <1>9, <1>10, <1>11, <1>12, <1>13, <1>14, <1>15, <1>16,
       <1>17, <1>18, <1>19 DEF TaskStep, RegisterStep

\* Which action leads to which program counter.
LEMMA CameFrom ==
    ASSUME TypeInv, NEW t \in Tasks, Receive(t) \/ TaskStep(t)
    PROVE  /\ task'[t].pc = "touch" =>
                 /\ task[t].req.kind = "RegisterPeer" /\ task[t].pc # "idle"
                 /\ task'[t].req = task[t].req
           /\ task'[t].pc = "load" => DbReadRow(t)
           /\ task'[t].pc = "get_or" => DbReadNothing(t)
           /\ task'[t].pc = "freq_read" => Check(t)
           /\ task'[t].pc = "freq_write" => FreqRead(t)
           /\ task'[t].pc = "update_mem" => FreqWrite(t)
           /\ task'[t].pc = "db_write" => UpdateMem(t)
           /\ task'[t].pc = "set_guid" => InsertRow(t)
  <1>1. task[t] \in Local /\ WellFormed(task[t]) /\ task \in [Tasks -> Local]
    BY DEF TypeInv, TypeOK
  <1>2. ASSUME NEW res, NEW val, Reply(t, res, val) PROVE task'[t].pc = "done"
    BY <1>1, <1>2 DEF Reply, AtRest
  <1>3. ASSUME NEW p, Goto(t, p) PROVE task'[t].pc = p
    BY <1>1, <1>3 DEF Goto, Local
  <1>4. /\ AfterLookup(task[t].req.kind) \in {"check", "touch", "answer"}
        /\ AfterLookup(task[t].req.kind) = "touch" => task[t].req.kind = "RegisterPeer"
    BY DEF AfterLookup
  <1>5. CASE Receive(t) \/ Return(t)
    BY <1>1, <1>5 DEF Receive, Return, IdleTask, AtRest
  <1>6. CASE RefuseRegisterPk(t) \/ RefusePunch(t) \/ UpdateRow(t) \/ DbWriteFails(t)
             \/ SetGuid(t) \/ Touch(t) \/ AnswerPunch(t) \/ AnswerGetPk(t)
    BY <1>2, <1>6 DEF RefuseRegisterPk, RefusePunch, UpdateRow, DbWriteFails, SetGuid, Touch,
       AnswerPunch, AnswerGetPk
  <1>7. CASE FoundInMemory(t)
    <2>1. /\ task[t].pc = "lookup" /\ task'[t].pc = AfterLookup(task[t].req.kind)
          /\ task'[t].req = task[t].req
      BY <1>1, <1>7 DEF FoundInMemory, GotoWith, Local
    <2>2. QED BY <1>4, <2>1
  <1>8. CASE MissingInMemory(t)
    BY <1>2, <1>3, <1>8 DEF MissingInMemory
  <1>9. CASE DbReadRow(t)
    <2>1. task'[t].pc = "load"
      BY <1>1, <1>9 DEF DbReadRow, Local
    <2>2. QED BY <1>9, <2>1
  <1>10. CASE DbReadNothing(t)
    BY <1>2, <1>3, <1>10 DEF DbReadNothing
  <1>11. CASE Load(t)
    <2>1. /\ task[t].pc = "load" /\ task'[t].pc = AfterLookup(task[t].req.kind)
          /\ task'[t].req = task[t].req
      BY <1>1, <1>11 DEF Load, Local
    <2>2. QED BY <1>4, <2>1
  <1>12. CASE GetOr(t)
    BY <1>1, <1>12 DEF GetOr, GotoWith, Local
  <1>13. CASE Check(t)
    <2>1. \/ Reply(t, "UUID_MISMATCH", None)
          \/ task' = [task EXCEPT ![t].pc = "freq_read", ![t].changed = Changed(heap[task[t].ref], task[t].req)]
      BY <1>13 DEF Check
    <2>2. QED BY <1>1, <1>2, <1>13, <2>1 DEF Local
  <1>14. CASE FreqRead(t)
    <2>1. \/ Reply(t, "TOO_FREQUENT", None)
          \/ \E c : task' = [task EXCEPT ![t].pc = "freq_write", ![t].count = c]
      BY <1>14 DEF FreqRead
    <2>2. QED BY <1>1, <1>2, <1>14, <2>1 DEF Local
  <1>15. CASE FreqWrite(t)
    BY <1>2, <1>3, <1>15 DEF FreqWrite
  <1>16. CASE UpdateMem(t)
    BY <1>1, <1>16 DEF UpdateMem, Local
  <1>17. CASE InsertRow(t)
    <2>1. task'[t].pc = "set_guid"
      BY <1>1, <1>17 DEF InsertRow, Local
    <2>2. QED BY <1>17, <2>1
  <1>18. QED
    BY <1>5, <1>6, <1>7, <1>8, <1>9, <1>10, <1>11, <1>12, <1>13, <1>14, <1>15, <1>16, <1>17
       DEF TaskStep, RegisterStep
-----------------------------------------------------------------------------
(* Forwards. *)

\* An object that has been heard has an address and a key.
HeardIsKnown == \A r \in Refs : heap[r].seen => heap[r].addr # None /\ heap[r].pk # None

\* Only a handler of RegisterPeer touches an object.
TouchedByPeer == \A t \in Tasks : task[t].pc = "touch" => task[t].req.ip \in Ips

FreeIsDefault == \A r \in Free : heap[r] = DefaultPeer

\* The rows, and those on their way into memory, have keys.
RowsKeyed ==
    /\ \A g \in Guids : Present(g) => db[g].pk # None
    /\ \A t \in Tasks : task[t].pc = "load" => task[t].row.pk # None

\* Where a handler of RegisterPk is to bring an object its key.
AtWork(u, r) ==
    task[u].ref = r /\ task[u].pc \in {"check", "freq_read", "freq_write", "update_mem"}

Brings(u, r) == task[u].ref = r /\ task[u].pc = "update_mem"

\* An object without a key was made by get_or for a handler that brings the key:
\* it cannot be refused, since neither an owner nor an earlier registration that
\* was counted and not finished can be in the object's way.
KeyComes ==
    \A r \in Refs : heap[r].pk = None =>
        /\ heap[r].uuid = None /\ ~heap[r].wrapped
        /\ (\E i \in Ids : map[i] = r) => \E u \in Tasks : AtWork(u, r)
        /\ heap[r].count # 0 => \E u \in Tasks : Brings(u, r)

\* A registration without a change is one of a key the object has.
HasKey ==
    \A t \in Tasks : task[t].pc \in {"freq_read", "freq_write"} /\ ~task[t].changed =>
        heap[task[t].ref].pk # None

ForwardInv ==
    /\ TypeInv /\ Answered /\ HeardIsKnown /\ TouchedByPeer
    /\ FreeIsDefault /\ RowsKeyed /\ KeyComes /\ HasKey

LEMMA HeardStep ==
    ASSUME ForwardInv, NEW t \in Tasks, Receive(t) \/ TaskStep(t)
    PROVE  HeardIsKnown' /\ TouchedByPeer'
  <1>1. /\ TypeInv /\ Answered /\ HeardIsKnown /\ WellFormed(task[t])
        /\ None \notin Keys \cup Ips /\ None \notin Refs
        /\ \A u \in Tasks \ {t} : task'[u] = task[u]
    BY StepShape, ConstantsAssumption DEF ForwardInv, TypeInv
  <1>2. UpdateMem(t) => task[t].req.pk # None /\ task[t].req.ip # None
    BY <1>1, RegisterPkFields DEF UpdateMem, WellFormed, RegisteringPcs
  <1>3. Touch(t) => task[t].req.ip # None
    BY <1>1 DEF ForwardInv, TouchedByPeer, Touch
  <1>4. ~DefaultPeer.seen /\ ~LoadedPeer(task[t].guid, task[t].row).seen
    BY DEF LoadedPeer, DefaultPeer
  <1>5. HeardIsKnown'
    <2> SUFFICES ASSUME NEW r \in Refs, heap'[r].seen
                 PROVE  heap'[r].addr # None /\ heap'[r].pk # None
      BY DEF HeardIsKnown
    <2>1. QED BY <1>1, <1>2, <1>3, <1>4, PeerStep DEF HeardIsKnown
  <1>6. TouchedByPeer'
    <2>1. ASSUME task'[t].pc = "touch" PROVE task'[t].req.ip \in Ips
      <3>1. task[t].req \in AllRequests /\ task[t].req.kind = "RegisterPeer"
        BY <1>1, <2>1, CameFrom DEF WellFormed
      <3>2. task[t].req \in RegisterPeerRequests
        BY <3>1 DEF AllRequests, RegisterPkRequests, RegisterPeerRequests, PunchRequests, GetPkRequests
      <3>3. task[t].req.ip \in Ips
        BY <3>2 DEF RegisterPeerRequests
      <3>4. QED BY <1>1, <2>1, <3>3, CameFrom
    <2>2. QED BY <1>1, <2>1 DEF ForwardInv, TouchedByPeer
  <1>7. QED BY <1>5, <1>6

LEMMA FreeIsDefaultStep ==
    ASSUME ForwardInv, NEW t \in Tasks, Receive(t) \/ TaskStep(t)
    PROVE  FreeIsDefault'
  <1> SUFFICES ASSUME NEW r \in Refs, r \notin Live(map', task') PROVE heap'[r] = DefaultPeer
    BY DEF FreeIsDefault, Free
  <1>1. TypeInv /\ heap \in [Refs -> Peer] /\ (r \in Free => heap[r] = DefaultPeer)
    BY DEF ForwardInv, TypeInv, TypeOK, FreeIsDefault
  <1>2. CASE Load(t) \/ Return(t)
    <2>1. \E h, m : heap' = Dropped(h, m, task') /\ m = map'
      BY <1>2 DEF Load, Return
    <2>2. QED BY <2>1 DEF Dropped
  <1>3. CASE ~Load(t) /\ ~Return(t)
    <2>1. r \in Free /\ r # task[t].ref
      BY <1>1, <1>3, LiveKept DEF Free, Live
    <2>2. heap'[r] = heap[r]
      <3>1. CASE FreqWrite(t) BY <1>1, <2>1, <3>1 DEF FreqWrite
      <3>2. CASE UpdateMem(t) BY <1>1, <2>1, <3>2 DEF UpdateMem
      <3>3. CASE Touch(t) BY <1>1, <2>1, <3>3 DEF Touch
      <3>4. CASE SetGuid(t) BY <1>1, <2>1, <3>4 DEF SetGuid
      <3>5. CASE ~FreqWrite(t) /\ ~UpdateMem(t) /\ ~Touch(t) /\ ~SetGuid(t)
        BY <1>3, <3>5 DEF Receive, TaskStep, RegisterStep, RefuseRegisterPk, RefusePunch,
           FoundInMemory, MissingInMemory, DbReadRow, DbReadNothing, GetOr, Check, FreqRead,
           InsertRow, UpdateRow, DbWriteFails, AnswerPunch, AnswerGetPk
      <3>6. QED BY <3>1, <3>2, <3>3, <3>4, <3>5
    <2>3. QED BY <1>1, <2>1, <2>2
  <1>4. QED BY <1>2, <1>3

LEMMA RowsKeyedStep ==
    ASSUME ForwardInv, NEW t \in Tasks, Receive(t) \/ TaskStep(t)
    PROVE  RowsKeyed'
  <1>1. /\ TypeInv /\ RowsKeyed /\ WellFormed(task[t]) /\ task[t] \in Local
        /\ db \in [Guids -> Row] /\ task \in [Tasks -> Local]
        /\ \A u \in Tasks \ {t} : task'[u] = task[u]
    BY StepShape DEF ForwardInv, TypeInv, TypeOK
  <1>2. task[t].pc = "db_write" => task[t].req.pk # None
    BY <1>1, RegisterPkFields, ConstantsAssumption DEF WellFormed, RegisteringPcs
  <1>3. ASSUME NEW g \in Guids, db'[g].id # None PROVE db'[g].pk # None
    <2>1. CASE InsertRow(t)
      <3>1. task[t].pc = "db_write" BY <2>1 DEF InsertRow
      <3>2. db'[g] = db[g] \/ db'[g].pk = task[t].req.pk
        BY <1>1, <2>1 DEF InsertRow
      <3>3. QED BY <1>1, <1>2, <1>3, <3>1, <3>2 DEF RowsKeyed, Present
    <2>2. CASE UpdateRow(t)
      <3>1. task[t].pc = "db_write" BY <2>2 DEF UpdateRow
      <3>2. db'[g] = db[g] \/ db'[g].pk = task[t].req.pk
        BY <1>1, <2>2 DEF UpdateRow, Row
      <3>3. QED BY <1>1, <1>2, <1>3, <3>1, <3>2 DEF RowsKeyed, Present
    <2>3. CASE ~InsertRow(t) /\ ~UpdateRow(t)
      <3>1. db' = db
        BY <2>3 DEF Receive, TaskStep, RegisterStep, RefuseRegisterPk, RefusePunch, FoundInMemory,
           MissingInMemory, DbReadRow, DbReadNothing, Load, GetOr, Check, FreqRead, FreqWrite,
           UpdateMem, DbWriteFails, SetGuid, Touch, AnswerPunch, AnswerGetPk, Return
      <3>2. QED BY <1>1, <1>3, <3>1 DEF RowsKeyed, Present
    <2>4. QED BY <2>1, <2>2, <2>3
  <1>4. ASSUME task'[t].pc = "load" PROVE task'[t].row.pk # None
    <2>1. DbReadRow(t) BY <1>1, <1>4, CameFrom
    <2>2. PICK g \in RowsOf(task[t].req.id) :
             task' = [task EXCEPT ![t].pc = "load", ![t].guid = g, ![t].row = db[g]]
      BY <2>1 DEF DbReadRow
    <2>3. task'[t].row = db[g] BY <1>1, <2>2 DEF Local
    <2>4. QED BY <1>1, <2>3 DEF RowsKeyed, RowsOf
  <1>5. QED BY <1>1, <1>3, <1>4 DEF RowsKeyed, Present

\* What a registration finds out when its object has no key: there is a change,
\* and nothing is in its way unless another one brings the key.
LEMMA WorkStep ==
    ASSUME ForwardInv, NEW t \in Tasks, Receive(t) \/ TaskStep(t), NEW r \in Refs,
           AtWork(t, r), heap[r].pk = None
    PROVE  \/ UpdateMem(t)
           \/ AtWork(t, r)' /\ (FreqWrite(t) => Brings(t, r)')
           \/ FreqRead(t) /\ \E u \in Tasks \ {t} : Brings(u, r)
  <1>1. /\ task[t] \in Local /\ WellFormed(task[t]) /\ task \in [Tasks -> Local]
        /\ heap \in [Refs -> Peer] /\ KeyComes /\ HasKey
    BY DEF ForwardInv, TypeInv, TypeOK
  <1>2. /\ task[t].ref = r /\ heap[r].uuid = None
        /\ task[t].pc \in {"check", "freq_read", "freq_write", "update_mem"}
    BY <1>1 DEF AtWork, KeyComes
  <1>3. \/ Check(t) \/ FreqRead(t) \/ FreqWrite(t) \/ UpdateMem(t)
    BY <1>2 DEF Receive, TaskStep, RegisterStep, RefuseRegisterPk, RefusePunch, FoundInMemory,
       MissingInMemory, DbReadRow, DbReadNothing, Load, GetOr, InsertRow, UpdateRow, DbWriteFails,
       SetGuid, Touch, AnswerPunch, AnswerGetPk, Return, At
  <1>4. CASE Check(t)
    <2>1. ~Mismatch(heap[r], task[t].req) BY <1>2 DEF Mismatch
    <2>2. task' = [task EXCEPT ![t].pc = "freq_read", ![t].changed = Changed(heap[r], task[t].req)]
      BY <1>2, <1>4, <2>1 DEF Check
    <2>3. task'[t].pc = "freq_read" /\ task'[t].ref = r
      BY <1>1, <1>2, <2>2 DEF Local
    <2>4. ~FreqWrite(t) BY <1>4 DEF Check, FreqWrite
    <2>5. QED BY <2>3, <2>4 DEF AtWork
  <1>5. CASE FreqRead(t)
    <2>1. task[t].pc = "freq_read" BY <1>5 DEF FreqRead
    <2>2. CASE heap[r].count # 0
      <3>1. PICK u \in Tasks : Brings(u, r) BY <1>1, <2>2 DEF KeyComes
      <3>2. u # t BY <2>1, <3>1 DEF Brings
      <3>3. QED BY <1>5, <3>1, <3>2
    <2>3. CASE heap[r].count = 0
      <3>1. ~(heap[r].count > RegPkLimit) BY <2>3, ConstantsAssumption
      <3>2. PICK c : task' = [task EXCEPT ![t].pc = "freq_write", ![t].count = c]
        BY <1>2, <1>5, <3>1 DEF FreqRead
      <3>3. task'[t].pc = "freq_write" /\ task'[t].ref = r
        BY <1>1, <1>2, <3>2 DEF Local
      <3>4. ~FreqWrite(t) BY <2>1 DEF FreqWrite
      <3>5. QED BY <3>3, <3>4 DEF AtWork
    <2>4. QED BY <2>2, <2>3
  <1>6. CASE FreqWrite(t)
    <2>1. task[t].changed BY <1>1, <1>2, <1>6 DEF FreqWrite, HasKey
    <2>2. task' = [task EXCEPT ![t].pc = "update_mem"] BY <1>6, <2>1 DEF FreqWrite, Goto
    <2>3. task'[t].pc = "update_mem" /\ task'[t].ref = r
      BY <1>1, <1>2, <2>2 DEF Local
    <2>4. QED BY <2>3 DEF AtWork, Brings
  <1>7. QED BY <1>3, <1>4, <1>5, <1>6

LEMMA KeyComesStep ==
    ASSUME ForwardInv, NEW t \in Tasks, Receive(t) \/ TaskStep(t)
    PROVE  KeyComes'
  <1> SUFFICES ASSUME NEW r \in Refs, heap'[r].pk = None
               PROVE  /\ heap'[r].uuid = None /\ ~heap'[r].wrapped
                      /\ (\E i \in Ids : map'[i] = r) => \E u \in Tasks : AtWork(u, r)'
                      /\ heap'[r].count # 0 => \E u \in Tasks : Brings(u, r)'
    BY DEF KeyComes
  <1>1. /\ TypeInv /\ WellFormed(task[t]) /\ task[t] \in Local /\ task \in [Tasks -> Local]
        /\ map \in [Ids -> Opt(Refs)] /\ heap \in [Refs -> Peer]
        /\ KeyComes /\ RowsKeyed /\ FreeIsDefault
        /\ \A u \in Tasks \ {t} : task'[u] = task[u]
    BY StepShape DEF ForwardInv, TypeInv, TypeOK
  <1>2. UpdateMem(t) => task[t].req.pk # None
    BY <1>1, RegisterPkFields, ConstantsAssumption DEF UpdateMem, WellFormed, RegisteringPcs
  <1>3. Load(t) => LoadedPeer(task[t].guid, task[t].row).pk # None
    BY <1>1 DEF Load, LoadedPeer, DefaultPeer, RowsKeyed
  <1>4. CASE heap'[r] = DefaultPeer /\ r \notin Live(map', task')
    BY <1>4 DEF DefaultPeer, Live
  <1>5. CASE /\ heap'[r].uuid = heap[r].uuid /\ heap'[r].pk = heap[r].pk
             /\ heap'[r].wrapped = heap[r].wrapped
             /\ heap'[r].count = heap[r].count \/ (FreqWrite(t) /\ r = task[t].ref)
    <2>1. heap[r].pk = None /\ heap[r].uuid = None /\ ~heap[r].wrapped
      BY <1>1, <1>5 DEF KeyComes
    <2>2. ~(UpdateMem(t) /\ task[t].ref = r)
      <3>1. ASSUME UpdateMem(t), task[t].ref = r PROVE FALSE
        <4>1. heap'[r].pk = task[t].req.pk
          BY <1>1, <3>1 DEF UpdateMem, Peer
        <4>2. QED BY <1>2, <3>1, <4>1
      <3>2. QED BY <3>1
    <2>3. ASSUME NEW u \in Tasks, Brings(u, r) PROVE Brings(u, r)'
      <3>1. CASE u # t BY <1>1, <2>3, <3>1 DEF Brings
      <3>2. CASE u = t
        <4>1. task[t].pc = "update_mem" /\ task[t].ref = r BY <2>3, <3>2 DEF Brings
        <4>2. UpdateMem(t)
          BY <4>1 DEF Receive, TaskStep, RegisterStep, RefuseRegisterPk, RefusePunch,
             FoundInMemory, MissingInMemory, DbReadRow, DbReadNothing, Load, GetOr, Check, FreqRead,
             FreqWrite, InsertRow, UpdateRow, DbWriteFails, SetGuid, Touch, AnswerPunch,
             AnswerGetPk, Return, At
        <4>3. QED BY <2>2, <4>1, <4>2
      <3>3. QED BY <3>1, <3>2
    <2>4. ASSUME NEW u \in Tasks, AtWork(u, r) PROVE \E v \in Tasks : AtWork(v, r)'
      <3>1. CASE u # t BY <1>1, <2>4, <3>1 DEF AtWork
      <3>2. CASE u = t
        <4>1. \/ AtWork(t, r)'
              \/ \E v \in Tasks \ {t} : Brings(v, r)
          BY <2>1, <2>2, <2>4, <3>2, WorkStep DEF AtWork
        <4>2. ASSUME NEW v \in Tasks, Brings(v, r)' PROVE AtWork(v, r)'
          BY <4>2 DEF AtWork, Brings
        <4>3. QED BY <2>3, <4>1, <4>2
      <3>3. QED BY <3>1, <3>2
    <2>5. ASSUME NEW i \in Ids, map'[i] = r PROVE \E u \in Tasks : AtWork(u, r)'
      <3>1. CASE \E j \in Ids : map[j] = r
        <4>1. PICK u \in Tasks : AtWork(u, r) BY <1>1, <2>1, <3>1 DEF KeyComes
        <4>2. QED BY <2>4, <4>1
      <3>2. CASE \A j \in Ids : map[j] # r
        <4>1. map' # map BY <2>5, <3>2
        <4>2. CASE Load(t)
          <5>1. PICK s \in Free :
                   /\ map' = [map EXCEPT ![task[t].req.id] = s]
                   /\ heap' = Dropped([heap EXCEPT ![s] = LoadedPeer(task[t].guid, task[t].row)],
                                      map', task')
            BY <4>2 DEF Load
          <5>2. s = r BY <1>1, <2>5, <3>2, <5>1
          <5>3. r \in Live(map', task') BY <2>5 DEF Live
          <5>4. heap'[r] = LoadedPeer(task[t].guid, task[t].row)
            BY <1>1, <5>1, <5>2, <5>3 DEF Dropped
          <5>5. QED BY <1>3, <4>2, <5>4
        <4>3. CASE ~Load(t)
          <5>1. GetOr(t)
            BY <4>1, <4>3 DEF Receive, TaskStep, RegisterStep, RefuseRegisterPk, RefusePunch,
               FoundInMemory, MissingInMemory, DbReadRow, DbReadNothing, Check, FreqRead,
               FreqWrite, UpdateMem, InsertRow, UpdateRow, DbWriteFails, SetGuid, Touch,
               AnswerPunch, AnswerGetPk, Return
          <5>2. PICK s \in Free :
                   /\ map' = [map EXCEPT ![task[t].req.id] = s]
                   /\ task' = [task EXCEPT ![t].pc = "check", ![t].ref = s]
            BY <4>1, <5>1 DEF GetOr, GotoWith
          <5>3. s = r BY <1>1, <2>5, <3>2, <5>2
          <5>4. task'[t].ref = r /\ task'[t].pc = "check"
            BY <1>1, <5>2, <5>3 DEF Local
          <5>5. QED BY <5>4 DEF AtWork
        <4>4. QED BY <4>2, <4>3
      <3>3. QED BY <3>1, <3>2
    <2>6. ASSUME heap'[r].count # 0 PROVE \E u \in Tasks : Brings(u, r)'
      <3>1. CASE heap'[r].count = heap[r].count
        <4>1. PICK u \in Tasks : Brings(u, r) BY <1>1, <2>1, <2>6, <3>1 DEF KeyComes
        <4>2. QED BY <2>3, <4>1
      <3>2. CASE FreqWrite(t) /\ r = task[t].ref
        <4>1. AtWork(t, r) BY <3>2 DEF FreqWrite, AtWork
        <4>2. ~UpdateMem(t) /\ ~FreqRead(t) BY <3>2 DEF FreqWrite, UpdateMem, FreqRead
        <4>3. Brings(t, r)' BY <2>1, <3>2, <4>1, <4>2, WorkStep
        <4>4. QED BY <4>3
      <3>3. QED BY <1>5, <3>1, <3>2
    <2>7. QED BY <1>5, <2>1, <2>5, <2>6
  <1>6. QED BY <1>2, <1>3, <1>4, <1>5, PeerStep, <1>1

LEMMA HasKeyStep ==
    ASSUME ForwardInv, NEW t \in Tasks, Receive(t) \/ TaskStep(t)
    PROVE  HasKey'
  <1>1. /\ TypeInv /\ WellFormed(task[t]) /\ task[t] \in Local /\ task \in [Tasks -> Local]
        /\ HasKey /\ RowsKeyed /\ TypeInv'
        /\ \A u \in Tasks \ {t} : task'[u] = task[u] /\ WellFormed(task[u])
    BY StepShape, TypeStep DEF ForwardInv, TypeInv, TypeOK
  <1>2. UpdateMem(t) => task[t].req.pk # None
    BY <1>1, RegisterPkFields, ConstantsAssumption DEF UpdateMem, WellFormed, RegisteringPcs
  <1>3. ASSUME task'[t].pc = "freq_read", ~task'[t].changed PROVE heap'[task'[t].ref].pk # None
    <2>1. Check(t) BY <1>1, <1>3, CameFrom
    <2>2. task'[t].pc # "done" BY <1>3
    <2>3. task' = [task EXCEPT ![t].pc = "freq_read",
                               ![t].changed = Changed(heap[task[t].ref], task[t].req)]
      BY <1>1, <2>1, <2>2 DEF Check, Reply, AtRest
    <2>4. task'[t].changed = Changed(heap[task[t].ref], task[t].req) /\ task'[t].ref = task[t].ref
      BY <1>1, <2>3 DEF Local
    <2>5. task[t].req.pk # None
      BY <1>1, <2>1, RegisterPkFields, ConstantsAssumption DEF Check, WellFormed, RegisteringPcs
    <2>6. heap' = heap BY <2>1 DEF Check
    <2>7. QED BY <1>3, <2>4, <2>5, <2>6 DEF Changed
  <1>4. ASSUME task'[t].pc = "freq_write", ~task'[t].changed PROVE heap'[task'[t].ref].pk # None
    <2>1. FreqRead(t) BY <1>1, <1>4, CameFrom
    <2>2. PICK c : task' = [task EXCEPT ![t].pc = "freq_write", ![t].count = c]
      BY <1>1, <1>4, <2>1 DEF FreqRead, Reply, AtRest
    <2>3. task'[t].changed = task[t].changed /\ task'[t].ref = task[t].ref
      BY <1>1, <2>2 DEF Local
    <2>4. task[t].pc = "freq_read" /\ heap' = heap BY <2>1 DEF FreqRead
    <2>5. QED BY <1>1, <1>4, <2>3, <2>4 DEF HasKey
  <1>5. ASSUME NEW u \in Tasks \ {t}, task[u].pc \in {"freq_read", "freq_write"}, ~task[u].changed
        PROVE  heap'[task[u].ref].pk # None
    <2>1. task[u].ref \in Refs /\ heap[task[u].ref].pk # None /\ task'[u].ref = task[u].ref
      BY <1>1, <1>5 DEF HasKey, WellFormed, HoldingPcs
    <2>2. task[u].ref \notin Free /\ task[u].ref \in Live(map', task')
      BY <1>1, <2>1, HeldKept
    <2>3. QED BY <1>1, <1>2, <2>1, <2>2, PeerStep
  <1>6. QED BY <1>1, <1>3, <1>4, <1>5 DEF HasKey

LEMMA ForwardStep ==
    ASSUME ForwardInv, NEW t \in Tasks, Receive(t) \/ TaskStep(t)
    PROVE  ForwardInv'
  <1>1. TypeInv' BY TypeStep DEF ForwardInv
  <1>2. Answered'
    <2>1. Answered /\ TypeInv /\ \A u \in Tasks \ {t} : task'[u] = task[u]
      BY StepShape DEF ForwardInv
    <2>2. QED BY <2>1, AnswerStep DEF Answered
  <1>3. QED
    BY <1>1, <1>2, HeardStep, FreeIsDefaultStep, RowsKeyedStep, KeyComesStep, HasKeyStep
       DEF ForwardInv

\* No handler is at work on an object that has not been heard for 24.8 days, so
\* it has a key.
LEMMA ForwardWrap ==
    ASSUME ForwardInv, NEW r \in Refs, Wrap(r)
    PROVE  ForwardInv'
  <1>1. /\ map' = map /\ db' = db /\ task' = task /\ r \notin Free
        /\ \A s \in Refs : /\ heap'[s].uuid = heap[s].uuid /\ heap'[s].pk = heap[s].pk
                          /\ heap'[s].addr = heap[s].addr /\ heap'[s].seen = heap[s].seen
                          /\ heap'[s].count = heap[s].count
        /\ \A s \in Refs \ {r} : heap'[s] = heap[s]
        /\ \A t \in Tasks : WellFormed(task[t])
    BY WrapShape DEF ForwardInv, TypeInv
  <1>2. heap[r].pk # None
    BY WrapShape DEF ForwardInv, KeyComes, AtWork
  <1>3. TypeInv' BY TypeWrap DEF ForwardInv
  <1>4. Answered' /\ HeardIsKnown' /\ TouchedByPeer' /\ RowsKeyed'
    BY <1>1 DEF ForwardInv, Answered, HeardIsKnown, TouchedByPeer, RowsKeyed, Present
  <1>5. FreeIsDefault'
    BY <1>1 DEF ForwardInv, FreeIsDefault, Free, Live
  <1>6. KeyComes'
    BY <1>1, <1>2 DEF ForwardInv, KeyComes, AtWork, Brings
  <1>7. HasKey'
    BY <1>1 DEF ForwardInv, HasKey, WellFormed, HoldingPcs
  <1>8. QED BY <1>3, <1>4, <1>5, <1>6, <1>7 DEF ForwardInv

LEMMA ForwardFresh ==
    ASSUME map = [i \in Ids |-> None], heap = [r \in Refs |-> DefaultPeer],
           task = [t \in Tasks |-> IdleTask], TypeInv,
           \A g \in Guids : Present(g) => db[g].pk # None
    PROVE  ForwardInv
  <1>1. /\ \A r \in Refs : /\ ~heap[r].seen /\ heap[r].uuid = None /\ ~heap[r].wrapped
                           /\ heap[r].count = 0 /\ heap[r] = DefaultPeer
        /\ \A u \in Tasks : task[u].result = None /\ task[u].pc = "idle"
        /\ \A i \in Ids : map[i] \notin Refs
    BY ConstantsAssumption DEF IdleTask, AtRest, DefaultPeer
  <1>2. QED
    BY <1>1, NoneIsNoResult DEF Results, ForwardInv, Answered, HeardIsKnown, TouchedByPeer,
       FreeIsDefault, Free, RowsKeyed, KeyComes, HasKey

\* When a punch hole request is forwarded the peer has a key to be verified by,
\* and the address is one the peer was heard at unless its object was loaded and
\* not heard for 24.8 days, for any number of ids and tasks.
THEOREM ForwardsReach == Spec => ForwardsReachAPeer
  <1>1. Init => ForwardInv
    <2> SUFFICES ASSUME Init PROVE ForwardInv
      OBVIOUS
    <2>1. TypeInv
      BY IdleLocal, DefaultIsPeer, ConstantsAssumption DEF Init, TypeInv, TypeOK, Opt, NoRow, Row
    <2>2. \A g \in Guids : ~Present(g)
      BY DEF Init, Present, NoRow
    <2>3. QED
      BY <2>1, <2>2, ForwardFresh DEF Init
  <1>2. ForwardInv /\ [Next]_vars => ForwardInv'
    <2> SUFFICES ASSUME ForwardInv, [Next]_vars PROVE ForwardInv'
      OBVIOUS
    <2>1. CASE UNCHANGED vars
      BY <2>1 DEF vars, ForwardInv, TypeInv, TypeOK, Answered, HeardIsKnown, TouchedByPeer,
         FreeIsDefault, Free, Live, RowsKeyed, Present, KeyComes, AtWork, Brings, HasKey
    <2>2. CASE Crash
      <3>1. TypeInv' BY <2>2, TypeCrash DEF ForwardInv
      <3>2. /\ \A r \in Refs : /\ ~heap'[r].seen /\ heap'[r].uuid = None /\ ~heap'[r].wrapped
                               /\ heap'[r].count = 0 /\ heap'[r] = DefaultPeer
            /\ \A u \in Tasks : task'[u].result = None /\ task'[u].pc = "idle"
            /\ \A i \in Ids : map'[i] \notin Refs
        BY <2>2, ConstantsAssumption DEF Crash, IdleTask, AtRest, DefaultPeer
      <3>3. RowsKeyed'
        BY <2>2, <3>2 DEF Crash, ForwardInv, RowsKeyed, Present
      <3>4. QED
        BY <3>1, <3>2, <3>3, NoneIsNoResult DEF Results, ForwardInv, Answered, HeardIsKnown,
           TouchedByPeer, FreeIsDefault, Free, KeyComes, HasKey
    <2>3. QED
      BY <2>1, <2>2, ForwardStep, ForwardWrap DEF Next
  <1>3. ForwardInv /\ [Next]_vars =>
           [\A t \in Tasks : task[t].result # "FORWARD" /\ task'[t].result = "FORWARD" =>
               /\ heap[task[t].ref].pk # None
               /\ task'[t].value = None => heap[task[t].ref].wrapped]_task
    <2> SUFFICES ASSUME ForwardInv, Next, NEW t \in Tasks, task[t].result # "FORWARD",
                        task'[t].result = "FORWARD"
                 PROVE  /\ heap[task[t].ref].pk # None
                        /\ task'[t].value = None => heap[task[t].ref].wrapped
      BY DEF vars
    <2>1. PICK u \in Tasks : Receive(u) \/ TaskStep(u)
      BY NoneIsNoResult DEF Next, Crash, Wrap, IdleTask, AtRest, Results
    <2>2. u = t /\ task'[t].result # None
      BY <2>1, StepShape, NoneIsNoResult DEF ForwardInv, Results
    <2>3. /\ task[t].ref \in Refs /\ task'[t].value = heap[task[t].ref].addr
          /\ heap[task[t].ref].seen \/ heap[task[t].ref].wrapped
      BY <2>1, <2>2, AnswerStep DEF ForwardInv
    <2>4. QED
      BY <2>3 DEF ForwardInv, HeardIsKnown, KeyComes
  <1>4. QED
    BY <1>1, <1>2, <1>3, PTL DEF Spec, ForwardsReachAPeer
-----------------------------------------------------------------------------
(* One registering task. *)

OneRegistrar == \A s, t \in Registrars : s = t

ReliableReads == "read" \notin Faults

\* RegisterPk comes to a registrar only.
RegistersAlone == \A t \in Tasks : task[t].req \in RegisterPkRequests => t \in Registrars

\* A row has an owner and one of the owner's keys, and no id has two rows.
RowsOwned ==
    /\ \A g \in Guids : Present(g) => db[g].uuid \in Uuids /\ db[g].pk \in KeysOf[db[g].uuid]
    /\ \A g, h \in Guids : Present(g) /\ Present(h) /\ db[g].id = db[h].id => g = h

\* Every object of a stored id carries the owner; an id that is not stored yet
\* has one object at most, and that is in the map.
Agrees ==
    /\ \A i \in Ids, r \in Refs : \A g \in RowsOf(i) :
          Stands(r, i) => heap[r].uuid = db[g].uuid
    /\ \A i \in Ids, r \in Refs : RowsOf(i) = {} /\ Stands(r, i) => map[i] = r

KeysOwned ==
    \A r \in Refs : heap[r].pk # None =>
        heap[r].uuid \in Uuids /\ heap[r].pk \in KeysOf[heap[r].uuid]

\* What a handler has found out about the id still holds: it has no row, the row
\* read is the owner's, the object is nobody else's.
Underway(t) ==
    /\ task[t].pc = "get_or" => RowsOf(task[t].req.id) = {}
    /\ task[t].pc = "load" =>
          /\ task[t].guid \in Guids /\ Present(task[t].guid)
          /\ task[t].row.uuid = db[task[t].guid].uuid
          /\ task[t].row.pk \in KeysOf[task[t].row.uuid]
    /\ task[t].pc \in {"freq_read", "freq_write", "update_mem"} =>
          heap[task[t].ref].uuid \in {None, task[t].req.uuid}
    /\ task[t].pc \in {"db_write", "set_guid"} => heap[task[t].ref].uuid = task[t].req.uuid

KeyAnswers ==
    \A t \in Tasks : task[t].result = "KEY" /\ task[t].value # None =>
        /\ task[t].ref \in Refs /\ heap[task[t].ref].uuid \in Uuids
        /\ task[t].value \in KeysOf[heap[task[t].ref].uuid]

BookInv ==
    /\ GuidInv /\ Answered /\ RegistersAlone /\ RowsOwned /\ Agrees /\ KeysOwned
    /\ \A t \in Tasks : Underway(t)
    /\ KeyAnswers

LEMMA RequestStep ==
    ASSUME TypeInv, NEW t \in Tasks, Receive(t) \/ TaskStep(t)
    PROVE  \/ task'[t].req = task[t].req
           \/ task'[t].req \in Requests(t)
           \/ task'[t].req = NoRequest
  <1>1. task[t] \in Local /\ task \in [Tasks -> Local]
    BY DEF TypeInv, TypeOK
  <1>2. ASSUME NEW res, NEW val, Reply(t, res, val) PROVE task'[t].req = task[t].req
    BY <1>1, <1>2 DEF Reply, AtRest
  <1>3. ASSUME NEW p, Goto(t, p) PROVE task'[t].req = task[t].req
    BY <1>1, <1>3 DEF Goto, Local
  <1>4. CASE Receive(t) \/ Return(t)
    BY <1>1, <1>4 DEF Receive, Return, IdleTask, AtRest
  <1>5. CASE \/ RefuseRegisterPk(t) \/ RefusePunch(t) \/ MissingInMemory(t) \/ DbReadNothing(t)
             \/ FreqWrite(t) \/ UpdateRow(t) \/ DbWriteFails(t) \/ SetGuid(t) \/ Touch(t)
             \/ AnswerPunch(t) \/ AnswerGetPk(t)
    BY <1>2, <1>3, <1>5 DEF RefuseRegisterPk, RefusePunch, MissingInMemory, DbReadNothing,
       FreqWrite, UpdateRow, DbWriteFails, SetGuid, Touch, AnswerPunch, AnswerGetPk
  <1>6. CASE FoundInMemory(t) \/ GetOr(t)
    BY <1>1, <1>6 DEF FoundInMemory, GetOr, GotoWith, Local
  <1>7. CASE DbReadRow(t)
    BY <1>1, <1>7 DEF DbReadRow, Local
  <1>8. CASE Load(t)
    BY <1>1, <1>8 DEF Load, Local
  <1>9. CASE Check(t)
    <2>1. \/ Reply(t, "UUID_MISMATCH", None)
          \/ task' = [task EXCEPT ![t].pc = "freq_read", ![t].changed = Changed(heap[task[t].ref], task[t].req)]
      BY <1>9 DEF Check
    <2>2. QED BY <1>1, <1>2, <2>1 DEF Local
  <1>10. CASE FreqRead(t)
    <2>1. \/ Reply(t, "TOO_FREQUENT", None)
          \/ \E c : task' = [task EXCEPT ![t].pc = "freq_write", ![t].count = c]
      BY <1>10 DEF FreqRead
    <2>2. QED BY <1>1, <1>2, <2>1 DEF Local
  <1>11. CASE UpdateMem(t)
    BY <1>1, <1>11 DEF UpdateMem, Local
  <1>12. CASE InsertRow(t)
    BY <1>1, <1>12 DEF InsertRow, Local
  <1>13. QED
    BY <1>4, <1>5, <1>6, <1>7, <1>8, <1>9, <1>10, <1>11, <1>12 DEF TaskStep, RegisterStep

\* An id gets another object only from a load, or from get_or when it had none;
\* a free object that comes to stand for an id does so in the map.
LEMMA MapStep ==
    ASSUME TypeInv, NEW t \in Tasks, Receive(t) \/ TaskStep(t)
    PROVE  /\ map' = map \/ Load(t) \/ (GetOr(t) /\ map[task[t].req.id] = None)
           /\ \A r \in Free, i \in Ids : Stands(r, i)' => map'[i] = r /\ i = task[t].req.id
           /\ \A r \in Refs, i \in Ids : Stands(r, i)' => r \in Live(map', task')
  <1>1. map' = map \/ Load(t) \/ (GetOr(t) /\ map[task[t].req.id] = None)
    <2>1. CASE GetOr(t)
      BY <2>1 DEF GetOr
    <2>2. CASE ~GetOr(t) /\ ~Load(t)
      BY <2>2 DEF Receive, TaskStep, RegisterStep, RefuseRegisterPk, RefusePunch, FoundInMemory,
         MissingInMemory, DbReadRow, DbReadNothing, Check, FreqRead, FreqWrite, UpdateMem,
         InsertRow, UpdateRow, DbWriteFails, SetGuid, Touch, AnswerPunch, AnswerGetPk, Return
    <2>3. QED BY <2>1, <2>2
  <1>2. ASSUME NEW r \in Free, NEW i \in Ids, Stands(r, i)' PROVE map'[i] = r /\ i = task[t].req.id
    <2>1. ~Stands(r, i) /\ i = task[t].req.id /\ r \in Refs
      BY <1>2, FreeStandsForNothing, StandsStep DEF Free
    <2>2. CASE map'[i] # r
      <3>1. PICK u \in Tasks : task'[u].ref = r /\ task'[u].req.id = i
        BY <1>2, <2>2 DEF Stands
      <3>2. r # None /\ \A v \in Tasks : task[v].ref # r
        BY <1>2, <2>1, ConstantsAssumption DEF Free, Live
      <3>3. QED BY <2>1, <2>2, <3>1, <3>2, StepShape
    <2>3. QED BY <2>1, <2>2
  <1>3. ASSUME NEW r \in Refs, NEW i \in Ids, Stands(r, i)' PROVE r \in Live(map', task')
    BY <1>3 DEF Stands, Live
  <1>4. QED BY <1>1, <1>2, <1>3

\* The two statements that change the table, and what the handler that issues
\* them knows: the id is free, or its row is the device's own.
LEMMA TableStep ==
    ASSUME BookInv, NEW t \in Tasks, Receive(t) \/ TaskStep(t)
    PROVE  \/ db' = db /\ ~InsertRow(t)
           \/ /\ InsertRow(t) /\ RowsOf(task[t].req.id) = {}
              /\ \E g \in Guids :
                    /\ ~Present(g)
                    /\ db'[g] = [id |-> task[t].req.id, uuid |-> task[t].req.uuid,
                                 pk |-> task[t].req.pk, ip |-> task[t].req.ip]
                    /\ \A h \in Guids \ {g} : db'[h] = db[h]
           \/ /\ UpdateRow(t) /\ ~InsertRow(t)
              /\ \E g \in RowsOf(task[t].req.id) :
                    /\ db'[g].id = db[g].id /\ db'[g].uuid = db[g].uuid
                    /\ db[g].uuid = task[t].req.uuid /\ db'[g].pk = task[t].req.pk
                    /\ \A h \in Guids \ {g} : db'[h] = db[h]
  <1>1. /\ TypeInv /\ task[t] \in Local /\ WellFormed(task[t]) /\ db \in [Guids -> Row]
    BY DEF BookInv, GuidInv, TypeInv, TypeOK
  <1>2. CASE InsertRow(t)
    <2>1. RowsOf(task[t].req.id) = {}
      BY <1>2 DEF InsertRow, Conflicts
    <2>2. QED BY <1>1, <1>2, <2>1 DEF InsertRow
  <1>3. CASE UpdateRow(t)
    <2>1. task[t].pc = "db_write" /\ task[t].guid # None /\ task[t].guid \in Guids
      BY <1>1, <1>3 DEF UpdateRow, Local, Opt
    <2>2. task[t].req \in RegisterPkRequests /\ task[t].ref \in Refs
      BY <1>1, <2>1 DEF WellFormed, HoldingPcs, RegisteringPcs
    <2>3. db[task[t].guid].id = task[t].req.id /\ task[t].req.id \in Ids /\ Present(task[t].guid)
      BY <2>1, <2>2, RegisterPkFields, ConstantsAssumption
         DEF BookInv, GuidInv, GuidPointsToRow, Present
    <2>4. task[t].guid \in RowsOf(task[t].req.id)
      BY <2>1, <2>3 DEF RowsOf
    <2>5. Stands(task[t].ref, task[t].req.id)
      BY DEF Stands
    <2>6. heap[task[t].ref].uuid = task[t].req.uuid
      BY <2>1 DEF BookInv, Underway
    <2>7. db[task[t].guid].uuid = task[t].req.uuid
      BY <2>2, <2>3, <2>4, <2>5, <2>6 DEF BookInv, Agrees
    <2>8. db' = [db EXCEPT ![task[t].guid] = [@ EXCEPT !.id = task[t].req.id, !.pk = task[t].req.pk,
                                                       !.ip = task[t].req.ip]]
      BY <1>3, <2>3 DEF UpdateRow
    <2>9. /\ db'[task[t].guid].id = task[t].req.id
          /\ db'[task[t].guid].uuid = db[task[t].guid].uuid
          /\ db'[task[t].guid].pk = task[t].req.pk
          /\ \A h \in Guids \ {task[t].guid} : db'[h] = db[h]
      BY <1>1, <2>1, <2>8 DEF Row
    <2>10. ~InsertRow(t)
      BY <2>1 DEF InsertRow
    <2>11. QED BY <1>3, <2>3, <2>4, <2>7, <2>9, <2>10
  <1>4. CASE ~InsertRow(t) /\ ~UpdateRow(t)
    <2>1. db' = db
      BY <1>4 DEF Receive, TaskStep, RegisterStep, RefuseRegisterPk, RefusePunch, FoundInMemory,
         MissingInMemory, DbReadRow, DbReadNothing, Load, GetOr, Check, FreqRead, FreqWrite,
         UpdateMem, DbWriteFails, SetGuid, Touch, AnswerPunch, AnswerGetPk, Return
    <2>2. QED BY <1>4, <2>1
  <1>5. QED BY <1>2, <1>3, <1>4

\* Rows stay where they are, and only an insertion gives an id another one.
LEMMA RowsOfStep ==
    ASSUME BookInv, NEW t \in Tasks, Receive(t) \/ TaskStep(t), NEW i \in Ids
    PROVE  /\ RowsOf(i) \subseteq RowsOf(i)'
           /\ ~InsertRow(t) => RowsOf(i)' = RowsOf(i)
           /\ i # task[t].req.id => RowsOf(i)' = RowsOf(i)
  <1>1. /\ \A g \in Guids : Present(g) => db'[g].id = db[g].id
        /\ None \notin Ids
    BY RowStep, ConstantsAssumption DEF BookInv
  <1>2. RowsOf(i) \subseteq RowsOf(i)'
    BY <1>1 DEF RowsOf, Present
  <1>3. ASSUME ~InsertRow(t) PROVE RowsOf(i)' = RowsOf(i)
    BY <1>1, <1>3, TableStep DEF RowsOf, Present
  <1>4. ASSUME InsertRow(t), i # task[t].req.id PROVE RowsOf(i)' = RowsOf(i)
    <2>1. PICK g \in Guids :
             /\ ~Present(g)
             /\ db'[g] = [id |-> task[t].req.id, uuid |-> task[t].req.uuid,
                          pk |-> task[t].req.pk, ip |-> task[t].req.ip]
             /\ \A h \in Guids \ {g} : db'[h] = db[h]
      BY <1>4, TableStep
    <2>2. ASSUME NEW h \in RowsOf(i)' PROVE h \in RowsOf(i)
      <3>1. h # g BY <1>4, <2>1 DEF RowsOf
      <3>2. QED BY <2>1, <3>1 DEF RowsOf, Present
    <2>3. QED BY <1>2, <2>2
  <1>5. QED BY <1>2, <1>3, <1>4

LEMMA RowsOwnedStep ==
    ASSUME BookInv, NEW t \in Tasks, Receive(t) \/ TaskStep(t)
    PROVE  RowsOwned'
  <1>1. RowsOwned /\ TypeInv /\ WellFormed(task[t])
    BY DEF BookInv, GuidInv, TypeInv
  <1>2. CASE db' = db
    BY <1>1, <1>2 DEF RowsOwned, Present
  <1>3. CASE InsertRow(t)
    <2>1. PICK g \in Guids :
             /\ ~Present(g)
             /\ db'[g] = [id |-> task[t].req.id, uuid |-> task[t].req.uuid,
                          pk |-> task[t].req.pk, ip |-> task[t].req.ip]
             /\ \A h \in Guids \ {g} : db'[h] = db[h]
      BY <1>3, TableStep DEF InsertRow, UpdateRow
    <2>2. task[t].req \in RegisterPkRequests /\ RowsOf(task[t].req.id) = {}
      BY <1>1, <1>3 DEF InsertRow, Conflicts, WellFormed, RegisteringPcs
    <2>3. task[t].req.uuid \in Uuids /\ task[t].req.pk \in KeysOf[task[t].req.uuid]
      BY <2>2, RegisterPkFields
    <2>4. \A h \in Guids \ {g} : Present(h) => db[h].id # task[t].req.id
      BY <2>2 DEF RowsOf
    <2>5. QED BY <1>1, <2>1, <2>3, <2>4 DEF RowsOwned, Present
  <1>4. CASE UpdateRow(t) /\ ~InsertRow(t) /\ db' # db
    <2>1. PICK g \in RowsOf(task[t].req.id) :
             /\ db'[g].id = db[g].id /\ db'[g].uuid = db[g].uuid
             /\ db[g].uuid = task[t].req.uuid /\ db'[g].pk = task[t].req.pk
             /\ \A h \in Guids \ {g} : db'[h] = db[h]
      BY <1>4, TableStep
    <2>2. task[t].req \in RegisterPkRequests
      BY <1>1, <1>4 DEF UpdateRow, WellFormed, RegisteringPcs
    <2>3. task[t].req.pk \in KeysOf[task[t].req.uuid]
      BY <2>2, RegisterPkFields
    <2>4. g \in Guids /\ Present(g)
      BY DEF RowsOf
    <2>5. QED BY <1>1, <2>1, <2>3, <2>4 DEF RowsOwned, Present
  <1>5. QED BY <1>2, <1>3, <1>4, TableStep

\* The new object of a load is the row's, a registration that updates an object
\* of a stored id is the owner's, and an insertion is for the one object there is.
LEMMA AgreesStep ==
    ASSUME BookInv, OneRegistrar, NEW t \in Tasks, Receive(t) \/ TaskStep(t)
    PROVE  Agrees'
  <1>1. /\ TypeInv /\ WellFormed(task[t]) /\ RowsOwned /\ Agrees /\ Underway(t)
        /\ GuidPointsToRow /\ Sharing
        /\ None \notin Uuids \cup Refs \cup Ids \cup Guids
    BY ConstantsAssumption DEF BookInv, GuidInv, TypeInv
  <1>2. ASSUME Load(t)
        PROVE  /\ task[t].guid \in RowsOf(task[t].req.id)
               /\ task[t].row.uuid = db[task[t].guid].uuid
               /\ db' = db
    BY <1>1, <1>2 DEF Load, Underway, GuidPointsToRow, RowsOf, Present
  <1>3. ASSUME task[t].pc \in {"update_mem", "db_write"}
        PROVE  /\ task[t].ref \in Refs /\ Stands(task[t].ref, task[t].req.id)
               /\ task[t].req.id \in Ids
    BY <1>1, <1>3, RegisterPkFields DEF WellFormed, HoldingPcs, RegisteringPcs, Stands
  <1>4. ASSUME NEW i \in Ids, NEW r \in Refs, NEW g \in RowsOf(i)', Stands(r, i)'
        PROVE  heap'[r].uuid = db'[g].uuid
    <2>1. r \in Live(map', task')
      BY <1>1, <1>4, MapStep
    <2>2. CASE r \in Free
      <3>1. map'[i] = r /\ i = task[t].req.id /\ map' # map
        BY <1>1, <1>4, <2>2, MapStep, FreeStandsForNothing DEF Stands
      <3>2. CASE Load(t)
        <4>1. heap'[r] = LoadedPeer(task[t].guid, task[t].row)
          <5>1. PICK s \in Free :
                   /\ map' = [map EXCEPT ![i] = s]
                   /\ heap' = Dropped([heap EXCEPT ![s] = LoadedPeer(task[t].guid, task[t].row)], map', task')
            BY <3>1, <3>2 DEF Load
          <5>2. s = r
            BY <1>1, <3>1, <5>1 DEF TypeInv, TypeOK
          <5>3. QED
            BY <1>1, <1>4, <2>1, <5>1, <5>2 DEF Dropped, TypeInv, TypeOK
        <4>2. heap'[r].uuid = task[t].row.uuid
          BY <4>1 DEF LoadedPeer, DefaultPeer
        <4>3. g = task[t].guid
          BY <1>1, <1>2, <1>4, <3>1, <3>2 DEF RowsOwned, RowsOf, Present
        <4>4. QED BY <1>2, <3>2, <4>2, <4>3
      <3>3. CASE GetOr(t)
        BY <1>1, <1>4, <3>1, <3>3, RowsOfStep DEF GetOr, Underway, InsertRow
      <3>4. QED BY <1>1, <3>1, <3>2, <3>3, MapStep
    <2>3. CASE r \notin Free /\ g \in RowsOf(i)
      <3>1. Stands(r, i) /\ g \in Guids /\ Present(g)
        BY <1>1, <1>4, <2>3, StandsStep DEF RowsOf
      <3>2. heap[r].uuid = db[g].uuid /\ db'[g].uuid = db[g].uuid /\ db[g].uuid \in Uuids
        BY <1>1, <2>3, <3>1, RowStep DEF Agrees, RowsOwned, BookInv
      <3>3. CASE UpdateMem(t) /\ r = task[t].ref
        <4>1. task[t].pc = "update_mem" BY <3>3 DEF UpdateMem
        <4>2. heap[r].uuid = task[t].req.uuid
          BY <1>1, <3>2, <3>3, <4>1 DEF Underway
        <4>3. heap'[r].uuid = task[t].req.uuid
          BY <1>1, <3>3, <4>1, <4>2 DEF UpdateMem, TypeInv, TypeOK, Peer
        <4>4. QED BY <3>2, <4>2, <4>3
      <3>4. CASE ~(UpdateMem(t) /\ r = task[t].ref)
        <4>1. heap'[r].uuid = heap[r].uuid
          BY <1>1, <2>1, <2>3, <3>4, PeerStep
        <4>2. QED BY <3>2, <4>1
      <3>5. QED BY <3>3, <3>4
    <2>4. CASE r \notin Free /\ g \notin RowsOf(i)
      <3>1. Stands(r, i) /\ InsertRow(t) /\ i = task[t].req.id
        BY <1>1, <1>4, <2>4, StandsStep, RowsOfStep
      <3>2. task[t].pc = "db_write" BY <3>1 DEF InsertRow
      <3>3. RowsOf(i) = {} /\ db'[g].uuid = task[t].req.uuid
        <4>1. PICK h \in Guids :
                 /\ ~Present(h) /\ RowsOf(i) = {}
                 /\ db'[h] = [id |-> task[t].req.id, uuid |-> task[t].req.uuid,
                              pk |-> task[t].req.pk, ip |-> task[t].req.ip]
                 /\ \A k \in Guids \ {h} : db'[k] = db[k]
          BY <3>1, TableStep
        <4>2. g = h
          BY <1>4, <4>1 DEF RowsOf, Present
        <4>3. QED BY <4>1, <4>2
      <3>4. r = task[t].ref
        BY <1>1, <1>3, <3>1, <3>2, <3>3 DEF Agrees
      <3>5. heap[r].uuid = task[t].req.uuid
        BY <1>1, <3>2, <3>4 DEF Underway
      <3>6. heap' = heap
        BY <3>1 DEF InsertRow
      <3>7. QED BY <3>3, <3>5, <3>6
    <2>5. QED BY <2>2, <2>3, <2>4
  <1>5. ASSUME NEW i \in Ids, NEW r \in Refs, RowsOf(i)' = {}, Stands(r, i)'
        PROVE  map'[i] = r
    <2>1. RowsOf(i) = {}
      BY <1>5, RowsOfStep
    <2>2. CASE r \in Free
      BY <1>1, <1>5, <2>2, MapStep
    <2>3. CASE r \notin Free
      <3>1. map[i] = r
        BY <1>1, <1>5, <2>1, <2>3, StandsStep DEF Agrees
      <3>2. CASE i = task[t].req.id
        <4>1. ~Load(t) /\ map[i] # None
          BY <1>1, <1>2, <2>1, <3>1, <3>2
        <4>2. QED BY <1>1, <3>1, <3>2, <4>1, MapStep
      <3>3. CASE i # task[t].req.id
        <4>1. map'[i] = map[i]
          BY <1>1, <3>3, StepShape DEF TypeInv, TypeOK
        <4>2. QED BY <3>1, <4>1
      <3>4. QED BY <3>2, <3>3
    <2>4. QED BY <2>2, <2>3
  <1>6. QED BY <1>4, <1>5 DEF Agrees

LEMMA KeysOwnedStep ==
    ASSUME BookInv, NEW t \in Tasks, Receive(t) \/ TaskStep(t)
    PROVE  KeysOwned'
  <1>1. TypeInv /\ WellFormed(task[t]) /\ RowsOwned /\ KeysOwned /\ Underway(t)
    BY DEF BookInv, GuidInv, TypeInv
  <1>2. UpdateMem(t) => task[t].req.uuid \in Uuids /\ task[t].req.pk \in KeysOf[task[t].req.uuid]
    BY <1>1, RegisterPkFields DEF UpdateMem, WellFormed, RegisteringPcs
  <1>3. Load(t) => task[t].row.uuid \in Uuids /\ task[t].row.pk \in KeysOf[task[t].row.uuid]
    BY <1>1 DEF Load, Underway, RowsOwned
  <1>4. /\ DefaultPeer.pk = None
        /\ LoadedPeer(task[t].guid, task[t].row).uuid = task[t].row.uuid
        /\ LoadedPeer(task[t].guid, task[t].row).pk = task[t].row.pk
    BY DEF LoadedPeer, DefaultPeer
  <1>5. ASSUME NEW r \in Refs, heap'[r].pk # None
        PROVE  heap'[r].uuid \in Uuids /\ heap'[r].pk \in KeysOf[heap'[r].uuid]
    BY <1>1, <1>2, <1>3, <1>4, <1>5, PeerStep DEF KeysOwned
  <1>6. QED BY <1>5 DEF KeysOwned

LEMMA RegistersAloneStep ==
    ASSUME BookInv, NEW t \in Tasks, Receive(t) \/ TaskStep(t)
    PROVE  RegistersAlone'
  <1>1. TypeInv /\ RegistersAlone /\ \A u \in Tasks \ {t} : task'[u] = task[u]
    BY StepShape DEF BookInv, GuidInv
  <1>2. NoRequest \notin RegisterPkRequests
    BY ConstantsAssumption DEF NoRequest, RegisterPkRequests
  <1>3. ASSUME NEW q \in Requests(t), q \in RegisterPkRequests PROVE t \in Registrars
    <2>1. q.uuid \in Uuids /\ q.ip \in Ips /\ q.pk \in Keys /\ q.kind = "RegisterPk"
      BY <1>3, RegisterPkFields
    <2>2. q \notin RegisterPeerRequests \cup PunchRequests \cup GetPkRequests
      BY <2>1 DEF RegisterPeerRequests, PunchRequests, GetPkRequests
    <2>3. QED BY <2>2, <1>3 DEF Requests
  <1>4. task'[t].req \in RegisterPkRequests => t \in Registrars
    BY <1>1, <1>2, <1>3, RequestStep DEF RegistersAlone
  <1>5. QED BY <1>1, <1>4 DEF RegistersAlone

\* What a handler has found out survives the steps of the others.
LEMMA UnderwayOthers ==
    ASSUME BookInv, OneRegistrar, NEW t \in Tasks, Receive(t) \/ TaskStep(t),
           NEW u \in Tasks, u # t
    PROVE  Underway(u)'
  <1>1. /\ TypeInv /\ WellFormed(task[t]) /\ WellFormed(task[u]) /\ Underway(u)
        /\ RegistersAlone /\ RowsOwned /\ task'[u] = task[u] /\ None \notin Ids
    BY StepShape, ConstantsAssumption DEF BookInv, GuidInv, TypeInv
  <1>2. ASSUME task[u].pc \in RegisteringPcs PROVE ~UpdateMem(t) /\ ~InsertRow(t)
    <2>1. u \in Registrars
      BY <1>1, <1>2 DEF WellFormed, RegistersAlone
    <2>2. task[t].pc \in {"update_mem", "db_write"} => t \in Registrars
      BY <1>1 DEF WellFormed, RegistersAlone, RegisteringPcs
    <2>3. QED BY <2>1, <2>2 DEF OneRegistrar, UpdateMem, InsertRow
  <1>3. ASSUME task[u].pc = "get_or" PROVE RowsOf(task[u].req.id)' = {}
    <2>1. task[u].req.id \in Ids /\ RowsOf(task[u].req.id) = {}
      BY <1>1, <1>3, RegisterPkFields DEF Underway, WellFormed, RegisteringPcs
    <2>2. PICK i \in Ids : i = task[u].req.id
      BY <2>1
    <2>3. RowsOf(i)' = RowsOf(i)
      BY <1>2, <1>3, RowsOfStep DEF RegisteringPcs
    <2>4. RowsOf(i)' = {} /\ task'[u].req.id = i
      BY <1>1, <2>1, <2>2, <2>3
    <2>5. QED BY <1>1, <2>4, <2>2 DEF RowsOf, Present
  <1>4. ASSUME task[u].pc = "load"
        PROVE  /\ Present(task[u].guid)' /\ task[u].guid \in Guids
               /\ task[u].row.uuid = db'[task[u].guid].uuid
               /\ task[u].row.pk \in KeysOf[task[u].row.uuid]
    <2>1. /\ task[u].guid \in Guids /\ Present(task[u].guid)
          /\ task[u].row.uuid = db[task[u].guid].uuid
          /\ task[u].row.pk \in KeysOf[task[u].row.uuid]
      BY <1>1, <1>4 DEF Underway
    <2>2. db'[task[u].guid].id = db[task[u].guid].id /\ db'[task[u].guid].uuid = db[task[u].guid].uuid
      BY <2>1, RowStep DEF BookInv
    <2>3. QED BY <1>1, <2>1, <2>2 DEF Present
  <1>5. ASSUME task[u].pc \in {"freq_read", "freq_write", "update_mem", "db_write", "set_guid"}
        PROVE  heap'[task[u].ref].uuid = heap[task[u].ref].uuid
    <2>1. task[u].ref \in Refs
      BY <1>1, <1>5 DEF WellFormed, HoldingPcs
    <2>2. task[u].ref \notin Free /\ task[u].ref \in Live(map', task')
      BY <1>1, <2>1, HeldKept
    <2>3. ~UpdateMem(t)
      BY <1>2, <1>5 DEF RegisteringPcs
    <2>4. QED BY <1>1, <2>1, <2>2, <2>3, PeerStep
  <1>6. QED
    BY <1>1, <1>3, <1>4, <1>5 DEF Underway

LEMMA UnderwaySelf ==
    ASSUME BookInv, ReliableReads, NEW t \in Tasks, Receive(t) \/ TaskStep(t)
    PROVE  Underway(t)'
  <1>1. /\ TypeInv /\ task[t] \in Local /\ WellFormed(task[t]) /\ Underway(t) /\ RowsOwned
        /\ task \in [Tasks -> Local] /\ heap \in [Refs -> Peer]
    BY DEF BookInv, GuidInv, TypeInv, TypeOK
  <1>2. ASSUME task'[t].pc = "get_or" PROVE RowsOf(task[t].req.id)' = {}
    <2>1. DbReadNothing(t) /\ Goto(t, "get_or")
      <3>1. DbReadNothing(t) BY <1>1, <1>2, CameFrom
      <3>2. ASSUME NEW res, Reply(t, res, None) PROVE FALSE
        BY <1>1, <1>2, <3>2 DEF Reply, AtRest
      <3>3. QED BY <3>1, <3>2 DEF DbReadNothing
    <2>2. RowsOf(task[t].req.id) = {} /\ db' = db
      BY <2>1 DEF DbReadNothing, ReliableReads
    <2>3. task'[t].req = task[t].req
      BY <1>1, <2>1 DEF Goto, Local
    <2>4. QED BY <2>2, <2>3 DEF RowsOf, Present
  <1>3. ASSUME task'[t].pc = "load"
        PROVE  /\ task'[t].guid \in Guids /\ Present(task[t].guid)'
               /\ task'[t].row.uuid = db'[task'[t].guid].uuid
               /\ task'[t].row.pk \in KeysOf[task'[t].row.uuid]
    <2>1. PICK g \in RowsOf(task[t].req.id) :
             /\ task' = [task EXCEPT ![t].pc = "load", ![t].guid = g, ![t].row = db[g]]
             /\ db' = db
      BY <1>1, <1>3, CameFrom DEF DbReadRow
    <2>2. task'[t].guid = g /\ task'[t].row = db[g] /\ g \in Guids /\ Present(g)
      BY <1>1, <2>1 DEF Local, RowsOf
    <2>3. QED BY <1>1, <2>1, <2>2 DEF RowsOwned, Present
  <1>4. ASSUME task'[t].pc \in {"freq_read", "freq_write", "update_mem"}
        PROVE  heap'[task'[t].ref].uuid \in {None, task'[t].req.uuid}
    <2>1. CASE task'[t].pc = "freq_read"
      <3>1. Check(t) /\ heap' = heap BY <1>1, <2>1, CameFrom DEF Check
      <3>2. ASSUME Reply(t, "UUID_MISMATCH", None) PROVE FALSE
        BY <1>1, <2>1, <3>2 DEF Reply, AtRest
      <3>3. /\ ~Mismatch(heap[task[t].ref], task[t].req)
            /\ task' = [task EXCEPT ![t].pc = "freq_read",
                                    ![t].changed = Changed(heap[task[t].ref], task[t].req)]
        BY <3>1, <3>2 DEF Check
      <3>4. task'[t].ref = task[t].ref /\ task'[t].req = task[t].req
        BY <1>1, <3>3 DEF Local
      <3>5. QED BY <3>1, <3>3, <3>4 DEF Mismatch
    <2>2. CASE task'[t].pc = "freq_write"
      <3>1. FreqRead(t) /\ heap' = heap /\ task[t].pc = "freq_read"
        BY <1>1, <2>2, CameFrom DEF FreqRead
      <3>2. ASSUME Reply(t, "TOO_FREQUENT", None) PROVE FALSE
        BY <1>1, <2>2, <3>2 DEF Reply, AtRest
      <3>3. \E c : task' = [task EXCEPT ![t].pc = "freq_write", ![t].count = c]
        BY <3>1, <3>2 DEF FreqRead
      <3>4. task'[t].ref = task[t].ref /\ task'[t].req = task[t].req
        BY <1>1, <3>3 DEF Local
      <3>5. QED BY <1>1, <3>1, <3>4 DEF Underway
    <2>3. CASE task'[t].pc = "update_mem"
      <3>1. FreqWrite(t) /\ task[t].pc = "freq_write"
        BY <1>1, <2>3, CameFrom DEF FreqWrite
      <3>2. ASSUME Reply(t, "OK", None) PROVE FALSE
        BY <1>1, <2>3, <3>2 DEF Reply, AtRest
      <3>3. Goto(t, "update_mem") /\ heap' = [heap EXCEPT ![task[t].ref].count = task[t].count]
        BY <3>1, <3>2 DEF FreqWrite
      <3>4. task'[t].ref = task[t].ref /\ task'[t].req = task[t].req
        BY <1>1, <3>3 DEF Goto, Local
      <3>5. heap'[task[t].ref].uuid = heap[task[t].ref].uuid
        BY <1>1, <3>1, <3>3 DEF Peer, WellFormed, HoldingPcs
      <3>6. QED BY <1>1, <3>1, <3>4, <3>5 DEF Underway
    <2>4. QED BY <1>4, <2>1, <2>2, <2>3
  <1>5. ASSUME task'[t].pc \in {"db_write", "set_guid"}
        PROVE  heap'[task'[t].ref].uuid = task'[t].req.uuid
    <2>1. CASE task'[t].pc = "db_write"
      <3>1. UpdateMem(t) BY <1>1, <2>1, CameFrom
      <3>2. /\ task'[t].ref = task[t].ref /\ task'[t].req = task[t].req /\ task[t].ref \in Refs
        BY <1>1, <3>1 DEF UpdateMem, Local, WellFormed, HoldingPcs
      <3>3. heap'[task[t].ref].uuid = task[t].req.uuid
        BY <1>1, <3>1, <3>2 DEF UpdateMem, Peer
      <3>4. QED BY <3>2, <3>3
    <2>2. CASE task'[t].pc = "set_guid"
      <3>1. InsertRow(t) /\ heap' = heap /\ task[t].pc = "db_write"
        BY <1>1, <2>2, CameFrom DEF InsertRow
      <3>2. task'[t].ref = task[t].ref /\ task'[t].req = task[t].req
        BY <1>1, <3>1 DEF InsertRow, Local
      <3>3. QED BY <1>1, <3>1, <3>2 DEF Underway
    <2>3. QED BY <1>5, <2>1, <2>2
  <1>6. QED
    BY <1>2, <1>3, <1>4, <1>5 DEF Underway

\* A key that has been read for an answer stays a key of the object's device: a
\* registration cannot put another device into an object that has one.
LEMMA KeyAnswersStep ==
    ASSUME BookInv, NEW t \in Tasks, Receive(t) \/ TaskStep(t)
    PROVE  KeyAnswers'
  <1>1. /\ TypeInv /\ Answered /\ KeysOwned /\ KeyAnswers /\ Underway(t)
        /\ \A u \in Tasks \ {t} : task'[u] = task[u]
        /\ None \notin Uuids
    BY StepShape, ConstantsAssumption DEF BookInv, GuidInv
  <1>2. ASSUME NEW u \in Tasks, task'[u].result = "KEY", task'[u].value # None
        PROVE  /\ task'[u].ref \in Refs /\ heap'[task'[u].ref].uuid \in Uuids
               /\ task'[u].value \in KeysOf[heap'[task'[u].ref].uuid]
    <2>1. CASE u = t
      <3>1. task'[t].result # None
        BY <1>2, <2>1, NoneIsNoResult DEF Results
      <3>2. QED BY <1>1, <1>2, <2>1, <3>1, AnswerStep DEF KeysOwned
    <2>2. CASE u # t
      <3>1. /\ task'[u] = task[u] /\ task[u].ref \in Refs /\ heap[task[u].ref].uuid \in Uuids
            /\ task[u].value \in KeysOf[heap[task[u].ref].uuid]
        BY <1>1, <1>2, <2>2 DEF KeyAnswers
      <3>2. task[u].ref \notin Free /\ task[u].ref \in Live(map', task')
        BY <1>1, <3>1, HeldKept
      <3>3. UpdateMem(t) => heap[task[t].ref].uuid \in {None, task[t].req.uuid}
        BY <1>1 DEF UpdateMem, Underway
      <3>4. heap'[task[u].ref].uuid = heap[task[u].ref].uuid
        BY <1>1, <3>1, <3>2, <3>3, PeerStep
      <3>5. QED BY <3>1, <3>4
    <2>3. QED BY <2>1, <2>2
  <1>3. QED BY <1>2 DEF KeyAnswers

LEMMA BookStep ==
    ASSUME BookInv, OneRegistrar, ReliableReads, NEW t \in Tasks, Receive(t) \/ TaskStep(t)
    PROVE  BookInv'
  <1>1. GuidInv' BY GuidStep DEF BookInv
  <1>2. Answered' 
    <2>1. Answered /\ TypeInv /\ \A u \in Tasks \ {t} : task'[u] = task[u]
      BY StepShape DEF BookInv, GuidInv
    <2>2. QED BY <2>1, AnswerStep DEF Answered
  <1>3. \A u \in Tasks : Underway(u)'
    BY UnderwaySelf, UnderwayOthers
  <1>4. QED
    BY <1>1, <1>2, <1>3, RegistersAloneStep, RowsOwnedStep, AgreesStep, KeysOwnedStep,
       KeyAnswersStep DEF BookInv

\* At the start and after a crash there are neither objects nor requests.
LEMMA FreshStart ==
    ASSUME RowsOwned, TypeInv, map = [i \in Ids |-> None], heap = [r \in Refs |-> DefaultPeer],
           task = [t \in Tasks |-> IdleTask]
    PROVE  BookInv
  <1>1. /\ \A r \in Refs, i \in Ids : ~Stands(r, i)
        /\ \A r \in Refs : heap[r].guid = None /\ heap[r].pk = None
        /\ \A u \in Tasks : /\ task[u].guid = None /\ task[u].result = None
                            /\ task[u].req = NoRequest /\ task[u].pc = "idle"
    BY ConstantsAssumption DEF Stands, IdleTask, AtRest, DefaultPeer
  <1>2. NoRequest \notin RegisterPkRequests
    BY ConstantsAssumption DEF NoRequest, RegisterPkRequests
  <1>3. GuidInv
    BY <1>1 DEF GuidInv, Sharing, FreeIsClean, Free, GuidPointsToRow
  <1>4. Answered /\ RegistersAlone /\ Agrees /\ KeysOwned
    BY <1>1, <1>2 DEF Answered, RegistersAlone, Agrees, KeysOwned
  <1>5. KeyAnswers /\ \A t \in Tasks : Underway(t)
    BY <1>1, NoneIsNoResult DEF KeyAnswers, Underway, Results
  <1>6. QED
    BY <1>3, <1>4, <1>5 DEF BookInv

LEMMA BookCrash ==
    ASSUME BookInv, Crash
    PROVE  BookInv'
  <1>1. TypeInv' BY TypeCrash DEF BookInv, GuidInv
  <1>2. RowsOwned' BY DEF Crash, BookInv, RowsOwned, Present
  <1>3. /\ map' = [i \in Ids |-> None] /\ heap' = [r \in Refs |-> DefaultPeer]
        /\ task' = [t \in Tasks |-> IdleTask]
    BY DEF Crash
  <1>4. /\ \A r \in Refs, i \in Ids : ~Stands(r, i)'
        /\ \A r \in Refs : heap'[r].guid = None /\ heap'[r].pk = None
        /\ \A u \in Tasks : /\ task'[u].guid = None /\ task'[u].result = None
                            /\ task'[u].req = NoRequest /\ task'[u].pc = "idle"
    BY <1>3, ConstantsAssumption DEF Stands, IdleTask, AtRest, DefaultPeer
  <1>5. NoRequest \notin RegisterPkRequests
    BY ConstantsAssumption DEF NoRequest, RegisterPkRequests
  <1>6. GuidInv'
    BY <1>1, <1>4 DEF GuidInv, Sharing, FreeIsClean, Free, GuidPointsToRow
  <1>7. Answered' /\ RegistersAlone' /\ Agrees' /\ KeysOwned'
    BY <1>4, <1>5 DEF Answered, RegistersAlone, Agrees, KeysOwned
  <1>8. KeyAnswers' /\ \A t \in Tasks : Underway(t)'
    BY <1>4, NoneIsNoResult DEF KeyAnswers, Underway, Results
  <1>9. QED
    BY <1>2, <1>6, <1>7, <1>8 DEF BookInv

LEMMA BookWrap ==
    ASSUME BookInv, NEW r \in Refs, Wrap(r)
    PROVE  BookInv'
  <1>1. GuidInv' BY GuidWrap DEF BookInv
  <1>2. /\ map' = map /\ db' = db /\ task' = task
        /\ \A s \in Refs : heap'[s].uuid = heap[s].uuid /\ heap'[s].pk = heap[s].pk
    BY WrapShape DEF BookInv, GuidInv
  <1>3. /\ \A s \in Refs, i \in Ids : Stands(s, i)' <=> Stands(s, i)
        /\ \A i \in Ids : RowsOf(i)' = RowsOf(i)
    BY <1>2 DEF Stands, RowsOf, Present
  <1>4. Answered' /\ RegistersAlone' /\ RowsOwned'
    BY <1>2 DEF BookInv, Answered, RegistersAlone, RowsOwned, Present
  <1>5. Agrees' /\ KeysOwned'
    BY <1>2, <1>3 DEF BookInv, Agrees, KeysOwned
  <1>6. \A t \in Tasks : Underway(t)'
    <2> SUFFICES ASSUME NEW t \in Tasks PROVE Underway(t)'
      OBVIOUS
    <2>1. Underway(t) /\ WellFormed(task[t])
      BY DEF BookInv, GuidInv, TypeInv
    <2>2. /\ task[t].pc = "get_or" => task[t].req.id \in Ids
          /\ task[t].pc \in HoldingPcs => task[t].ref \in Refs
      BY <2>1, RegisterPkFields DEF WellFormed, RegisteringPcs
    <2>3. QED BY <1>2, <1>3, <2>1, <2>2 DEF Underway, Present, HoldingPcs
  <1>7. KeyAnswers'
    BY <1>2 DEF BookInv, KeyAnswers
  <1>8. QED
    BY <1>1, <1>4, <1>5, <1>6, <1>7 DEF BookInv

LEMMA BookInvariant == OneRegistrar /\ ReliableReads /\ Spec => []BookInv
  <1>1. Init => BookInv
    <2> SUFFICES ASSUME Init PROVE BookInv
      OBVIOUS
    <2>1. TypeInv
      BY IdleLocal, DefaultIsPeer, ConstantsAssumption DEF Init, TypeInv, TypeOK, Opt, NoRow, Row
    <2>2. RowsOwned
      BY DEF Init, RowsOwned, Present, NoRow
    <2>3. QED
      BY <2>1, <2>2, FreshStart DEF Init
  <1>2. OneRegistrar /\ ReliableReads /\ BookInv /\ [Next]_vars => BookInv'
    <2> SUFFICES ASSUME OneRegistrar, ReliableReads, BookInv, [Next]_vars PROVE BookInv'
      OBVIOUS
    <2>1. CASE UNCHANGED vars
      BY <2>1 DEF vars, BookInv, GuidInv, TypeInv, TypeOK, Sharing, Stands, FreeIsClean, Free,
         Live, GuidPointsToRow, Answered, RegistersAlone, RowsOwned, Present, Agrees, RowsOf,
         KeysOwned, Underway, KeyAnswers
    <2>2. QED
      BY <2>1, BookStep, BookCrash, BookWrap DEF Next
  <1>3. OneRegistrar /\ ReliableReads => [](OneRegistrar /\ ReliableReads)
    <2>1. (OneRegistrar /\ ReliableReads)' <=> OneRegistrar /\ ReliableReads
      BY DEF OneRegistrar, ReliableReads
    <2>2. QED BY <2>1, PTL
  <1>4. QED
    BY <1>1, <1>2, <1>3, PTL DEF Spec

\* With one registering task and reads that do not fail, the device that guards
\* an id in memory is the device of the id's row.
THEOREM MemoryAgrees == OneRegistrar /\ ReliableReads /\ Spec => []MemoryAgreesWithRow
  <1>1. BookInv => MemoryAgreesWithRow
    BY DEF BookInv, Agrees, MemoryAgreesWithRow
  <1>2. QED
    BY <1>1, BookInvariant, PTL

\* Under the same conditions the key that is signed is a key of the owner.
THEOREM SignedKeys == OneRegistrar /\ ReliableReads /\ Spec => []SignedKeyIsOwners
  <1>1. BookInv => SignedKeyIsOwners
    <2> SUFFICES ASSUME BookInv, NEW t \in Tasks, NEW g \in Guids, task[t].result = "KEY",
                        task[t].value # None, g \in RowsOf(task[t].req.id)
                 PROVE  task[t].value \in KeysOf[db[g].uuid]
      BY DEF SignedKeyIsOwners
    <2>1. /\ task[t].ref \in Refs /\ task[t].value \in KeysOf[heap[task[t].ref].uuid]
          /\ task[t].pc = "done" /\ WellFormed(task[t])
      BY NoneIsNoResult DEF BookInv, KeyAnswers, Answered, GuidInv, TypeInv, Results
    <2>2. task[t].req.id \in Ids
      BY <2>1, RequestFields DEF WellFormed
    <2>3. Stands(task[t].ref, task[t].req.id)
      BY DEF Stands
    <2>4. heap[task[t].ref].uuid = db[g].uuid
      BY <2>1, <2>2, <2>3 DEF BookInv, Agrees
    <2>5. QED BY <2>1, <2>4
  <1>2. QED
    BY <1>1, BookInvariant, PTL
-----------------------------------------------------------------------------
(* The registry implements the book. *)

LEMMA ClaimStep ==
    ASSUME BookInv, BookInv', NEW t \in Tasks, Receive(t) \/ TaskStep(t), InsertRow(t)
    PROVE  \E i \in Ids, u \in Uuids, k \in Keys : Book!Claim(i, u, k)
  <1> DEFINE q == task[t].req
  <1>1. q \in RegisterPkRequests
    BY DEF BookInv, GuidInv, TypeInv, InsertRow, WellFormed, RegisteringPcs
  <1>2. q.id \in Ids /\ q.uuid \in Uuids /\ q.pk \in KeysOf[q.uuid] /\ q.pk \in Keys
    BY <1>1, RegisterPkFields
  <1>3. RowsOf(q.id) = {}
    BY DEF InsertRow, Conflicts
  <1>4. PICK g \in Guids :
           /\ ~Present(g)
           /\ db'[g] = [id |-> q.id, uuid |-> q.uuid, pk |-> q.pk, ip |-> q.ip]
           /\ \A h \in Guids \ {g} : db'[h] = db[h]
    BY TableStep
  <1>5. PICK i \in Ids, u \in Uuids, k \in Keys : i = q.id /\ u = q.uuid /\ k = q.pk
    BY <1>2
  <1>6. RowsOf(i)' = {g}
    <2>1. \A h \in Guids : h \in RowsOf(i)' <=> db'[h].id # None /\ db'[h].id = i
      BY DEF RowsOf, Present
    <2>2. \A h \in Guids \ {g} : ~(db[h].id # None /\ db[h].id = i)
      BY <1>3, <1>5 DEF RowsOf, Present
    <2>3. db'[g].id = i /\ i # None
      BY <1>4, <1>5, ConstantsAssumption
    <2>4. RowsOf(i)' \subseteq Guids
      BY DEF RowsOf
    <2>5. QED BY <1>4, <2>1, <2>2, <2>3, <2>4
  <1>7. OwnerOf(i)' = u /\ KeyOf(i)' = k
    <2>1. (CHOOSE h \in {g} : TRUE) = g
      OBVIOUS
    <2>2. db'[g].uuid = u /\ db'[g].pk = k
      BY <1>4, <1>5
    <2>3. QED BY <1>6, <2>1, <2>2 DEF OwnerOf, KeyOf
  <1>8. OwnerOf(i) = None
    BY <1>3, <1>5 DEF OwnerOf
  <1>9. ASSUME NEW j \in Ids \ {i} PROVE OwnerOf(j)' = OwnerOf(j) /\ KeyOf(j)' = KeyOf(j)
    <2>1. RowsOf(j)' = RowsOf(j)
      BY <1>5, RowsOfStep
    <2>2. \A h \in RowsOf(j) : db'[h] = db[h]
      BY <1>4 DEF RowsOf
    <2>3. RowsOf(j) # {} => (CHOOSE h \in RowsOf(j) : TRUE) \in RowsOf(j)
      OBVIOUS
    <2>4. QED BY <2>1, <2>2, <2>3 DEF OwnerOf, KeyOf
  <1>10. Book!Claim(i, u, k)
    BY <1>2, <1>5, <1>7, <1>8, <1>9 DEF Book!Claim
  <1>11. QED BY <1>10

LEMMA RekeyStep ==
    ASSUME BookInv, BookInv', NEW t \in Tasks, Receive(t) \/ TaskStep(t), UpdateRow(t), db' # db
    PROVE  \E i \in Ids, k \in Keys : Book!Rekey(i, k)
  <1> DEFINE q == task[t].req
  <1>1. q \in RegisterPkRequests
    BY DEF BookInv, GuidInv, TypeInv, UpdateRow, WellFormed, RegisteringPcs
  <1>2. q.id \in Ids /\ q.uuid \in Uuids /\ q.pk \in KeysOf[q.uuid] /\ q.pk \in Keys
    BY <1>1, RegisterPkFields
  <1>3. PICK g \in RowsOf(q.id) :
           /\ db'[g].id = db[g].id /\ db'[g].uuid = db[g].uuid
           /\ db[g].uuid = q.uuid /\ db'[g].pk = q.pk
           /\ \A h \in Guids \ {g} : db'[h] = db[h]
    BY TableStep DEF InsertRow, UpdateRow
  <1>4. PICK i \in Ids, k \in Keys : i = q.id /\ k = q.pk
    BY <1>2
  <1>5. \A j \in Ids : RowsOf(j)' = RowsOf(j)
    BY RowsOfStep DEF InsertRow, UpdateRow
  <1>6. RowsOf(i) = {g}
    BY <1>3, <1>4 DEF BookInv, RowsOwned, RowsOf, Present
  <1>7. (CHOOSE h \in {g} : TRUE) = g
    OBVIOUS
  <1>8. OwnerOf(i) = q.uuid /\ OwnerOf(i)' = q.uuid /\ KeyOf(i)' = k
    BY <1>3, <1>4, <1>5, <1>6, <1>7 DEF OwnerOf, KeyOf
  <1>9. ASSUME NEW j \in Ids \ {i} PROVE OwnerOf(j)' = OwnerOf(j) /\ KeyOf(j)' = KeyOf(j)
    <2>1. \A h \in RowsOf(j) : db'[h] = db[h]
      BY <1>3, <1>4 DEF RowsOf
    <2>2. RowsOf(j) # {} => (CHOOSE h \in RowsOf(j) : TRUE) \in RowsOf(j)
      OBVIOUS
    <2>3. RowsOf(j)' = RowsOf(j)
      BY <1>5
    <2>4. QED BY <2>1, <2>2, <2>3 DEF OwnerOf, KeyOf
  <1>10. q.uuid # None
    BY <1>2, ConstantsAssumption
  <1>11. Book!Rekey(i, k)
    BY <1>2, <1>4, <1>8, <1>9, <1>10 DEF Book!Rekey
  <1>12. QED BY <1>11

\* With one registering task and reads that do not fail the registry implements
\* the book of ids: inserting a row claims the id, updating a row replaces the
\* owner's key, and nothing else shows.
THEOREM ImplementsBook == OneRegistrar /\ ReliableReads /\ Spec => BookSpec
  <1>1. Init => Book!Init
    BY DEF Init, Book!Init, OwnerOf, KeyOf, RowsOf, Present, NoRow
  <1>2. BookInv /\ BookInv' /\ [Next]_vars => [Book!Next]_(Book!book)
    <2> SUFFICES ASSUME BookInv, BookInv', [Next]_vars PROVE [Book!Next]_(Book!book)
      OBVIOUS
    <2>1. CASE db' = db
      BY <2>1 DEF Book!book, OwnerOf, KeyOf, RowsOf, Present
    <2>2. CASE db' # db
      <3>1. PICK t \in Tasks : Receive(t) \/ TaskStep(t)
        BY <2>2 DEF Next, Crash, Wrap, vars
      <3>2. InsertRow(t) \/ UpdateRow(t)
        BY <2>2, <3>1, TableStep
      <3>3. QED
        BY <2>2, <3>1, <3>2, ClaimStep, RekeyStep DEF Book!Next
    <2>3. QED BY <2>1, <2>2
  <1>3. QED
    BY <1>1, <1>2, BookInvariant, PTL DEF Spec, BookSpec, Book!Spec
-----------------------------------------------------------------------------
(* Acknowledgements. *)

ReliableWrites == "write" \notin Faults

\* A device in memory is in the table, or on its way there.
Stored ==
    \A i \in Ids, r \in Refs : Stands(r, i) /\ heap[r].uuid # None =>
        \/ RowsOf(i) # {}
        \/ \E t \in Tasks : task[t].pc = "db_write" /\ task[t].req.id = i

FreeIsNobodys == \A r \in Free : heap[r].uuid = None

\* A registration without a change is one of the device the object has.
Unchanging(t) ==
    /\ task[t].pc \in {"freq_read", "freq_write"} /\ ~task[t].changed =>
          heap[task[t].ref].uuid = task[t].req.uuid
    /\ task[t].pc = "touch" => task[t].req.kind = "RegisterPeer"

AckInv ==
    /\ BookInv /\ Stored /\ FreeIsNobodys /\ AcknowledgedIsOwner
    /\ \A t \in Tasks : Unchanging(t)

LEMMA FreeIsNobodysStep ==
    ASSUME AckInv, NEW t \in Tasks, Receive(t) \/ TaskStep(t)
    PROVE  FreeIsNobodys'
  <1> SUFFICES ASSUME NEW r \in Refs, r \notin Live(map', task') PROVE heap'[r].uuid = None
    BY DEF FreeIsNobodys, Free
  <1>1. TypeInv /\ WellFormed(task[t]) /\ (r \in Free => heap[r].uuid = None)
    BY DEF AckInv, BookInv, GuidInv, TypeInv, FreeIsNobodys
  <1>2. (UpdateMem(t) \/ Touch(t)) => r # task[t].ref
    <2>1. ASSUME UpdateMem(t) \/ Touch(t) PROVE r \in Free
      BY <1>1, <2>1, LiveKept DEF UpdateMem, Touch, Load, Return, Free
    <2>2. QED BY <2>1 DEF Free, Live
  <1>3. DefaultPeer.uuid = None
    BY DEF DefaultPeer
  <1>4. QED BY <1>1, <1>2, <1>3, PeerStep

\* The statement has found or made a row for the id, or it has been refused
\* because there is one.
LEMMA WriteLeavesRow ==
    ASSUME BookInv, ReliableWrites, NEW t \in Tasks, Receive(t) \/ TaskStep(t),
           task[t].pc = "db_write"
    PROVE  InsertRow(t) \/ RowsOf(task[t].req.id) # {}
  <1>1. /\ WellFormed(task[t]) /\ task[t] \in Local /\ GuidPointsToRow
        /\ task[t].req \in RegisterPkRequests
    BY DEF BookInv, GuidInv, TypeInv, TypeOK, WellFormed, RegisteringPcs
  <1>2. task[t].req.id \in Ids /\ task[t].req.id # None /\ task[t].req.kind = "RegisterPk"
    BY <1>1, RegisterPkFields, ConstantsAssumption
  <1>3. InsertRow(t) \/ UpdateRow(t) \/ DbWriteFails(t)
    BY DEF Receive, TaskStep, RegisterStep, RefuseRegisterPk, RefusePunch, FoundInMemory,
       MissingInMemory, DbReadRow, DbReadNothing, Load, GetOr, Check, FreqRead, FreqWrite,
       UpdateMem, SetGuid, Touch, AnswerPunch, AnswerGetPk, Return, At
  <1>4. CASE UpdateRow(t)
    <2>1. task[t].guid \in Guids /\ db[task[t].guid].id = task[t].req.id
      BY <1>1, <1>4 DEF UpdateRow, Local, Opt, GuidPointsToRow
    <2>2. QED BY <1>2, <2>1 DEF RowsOf, Present
  <1>5. CASE DbWriteFails(t)
    BY <1>5 DEF DbWriteFails, ReliableWrites, Conflicts
  <1>6. QED BY <1>3, <1>4, <1>5

LEMMA StoredStep ==
    ASSUME AckInv, OneRegistrar, ReliableWrites, NEW t \in Tasks, Receive(t) \/ TaskStep(t)
    PROVE  Stored'
  <1> SUFFICES ASSUME NEW i \in Ids, NEW r \in Refs, Stands(r, i)', heap'[r].uuid # None,
                      RowsOf(i)' = {}
               PROVE  \E u \in Tasks : task'[u].pc = "db_write" /\ task'[u].req.id = i
    BY DEF Stored
  <1>1. /\ TypeInv /\ BookInv /\ WellFormed(task[t]) /\ Underway(t) /\ Sharing /\ GuidPointsToRow
        /\ task[t] \in Local /\ task \in [Tasks -> Local]
        /\ \A u \in Tasks \ {t} : task'[u] = task[u]
        /\ None \notin Ids \cup Guids
    BY StepShape, ConstantsAssumption DEF AckInv, BookInv, GuidInv, TypeInv, TypeOK
  <1>2. RowsOf(i) = {}
    BY <1>1, RowsOfStep
  <1>3. CASE r \in Free
    <2>1. i = task[t].req.id /\ heap[r].uuid = None
      BY <1>1, <1>3, MapStep DEF AckInv, FreeIsNobodys
    <2>2. ~Load(t)
      BY <1>1, <1>2, <2>1 DEF Load, Underway, GuidPointsToRow, RowsOf, Present
    <2>3. (UpdateMem(t) \/ Touch(t)) => r # task[t].ref
      BY <1>3 DEF Free, Live
    <2>4. DefaultPeer.uuid = None
      BY DEF DefaultPeer
    <2>5. QED BY <1>1, <2>1, <2>2, <2>3, <2>4, PeerStep
  <1>4. CASE r \notin Free
    <2>1. Stands(r, i)
      BY <1>1, <1>4, StandsStep
    <2>2. CASE UpdateMem(t) /\ r = task[t].ref
      <3>1. /\ task'[t].pc = "db_write" /\ task'[t].req = task[t].req
            /\ task[t].req \in RegisterPkRequests
        BY <1>1, <2>2 DEF UpdateMem, Local, WellFormed, RegisteringPcs
      <3>2. task[t].req.id \in Ids /\ Stands(r, task[t].req.id)
        BY <2>2, <3>1, RegisterPkFields DEF Stands
      <3>3. QED BY <1>1, <2>1, <3>1, <3>2 DEF Sharing
    <2>3. CASE ~(UpdateMem(t) /\ r = task[t].ref)
      <3>1. heap[r].uuid # None
        BY <1>1, <1>4, <2>3, PeerStep, MapStep
      <3>2. PICK u \in Tasks : task[u].pc = "db_write" /\ task[u].req.id = i
        BY <1>2, <2>1, <3>1 DEF AckInv, Stored
      <3>3. CASE u = t
        <4>1. InsertRow(t)
          BY <1>1, <1>2, <3>2, <3>3, WriteLeavesRow
        <4>2. PICK g \in Guids :
                 db'[g] = [id |-> task[t].req.id, uuid |-> task[t].req.uuid,
                           pk |-> task[t].req.pk, ip |-> task[t].req.ip]
          BY <1>1, <4>1, TableStep
        <4>3. db'[g].id = i /\ i # None
          BY <1>1, <3>2, <3>3, <4>2
        <4>4. g \in RowsOf(i)'
          BY <4>3 DEF RowsOf, Present
        <4>5. QED BY <4>4
      <3>4. QED BY <1>1, <3>2, <3>3
    <2>4. QED BY <2>2, <2>3
  <1>5. QED BY <1>3, <1>4

LEMMA UnchangingStep ==
    ASSUME AckInv, OneRegistrar, NEW t \in Tasks, Receive(t) \/ TaskStep(t), NEW u \in Tasks
    PROVE  Unchanging(u)'
  <1>1. /\ TypeInv /\ BookInv /\ WellFormed(task[t]) /\ WellFormed(task[u]) /\ Unchanging(u)
        /\ task[t] \in Local /\ task \in [Tasks -> Local] /\ RegistersAlone
        /\ u # t => task'[u] = task[u]
    BY StepShape DEF AckInv, BookInv, GuidInv, TypeInv, TypeOK
  <1>2. CASE u # t
    <2>1. ASSUME task[u].pc \in {"freq_read", "freq_write"}
          PROVE  heap'[task[u].ref].uuid = heap[task[u].ref].uuid
      <3>1. task[u].ref \in Refs /\ u \in Registrars
        BY <1>1, <2>1 DEF WellFormed, HoldingPcs, RegisteringPcs, RegistersAlone
      <3>2. task[u].ref \notin Free /\ task[u].ref \in Live(map', task')
        BY <1>1, <1>2, <3>1, HeldKept
      <3>3. ~UpdateMem(t)
        BY <1>1, <1>2, <3>1 DEF UpdateMem, WellFormed, RegisteringPcs, RegistersAlone, OneRegistrar
      <3>4. QED BY <1>1, <3>1, <3>2, <3>3, PeerStep
    <2>2. QED BY <1>1, <1>2, <2>1 DEF Unchanging
  <1>3. CASE u = t
    <2>1. task'[t].pc = "touch" => task'[t].req.kind = "RegisterPeer"
      BY <1>1, CameFrom
    <2>2. ASSUME task'[t].pc = "freq_read", ~task'[t].changed
          PROVE  heap'[task'[t].ref].uuid = task'[t].req.uuid
      <3>1. Check(t) /\ heap' = heap BY <1>1, <2>2, CameFrom DEF Check
      <3>2. ASSUME Reply(t, "UUID_MISMATCH", None) PROVE FALSE
        BY <1>1, <2>2, <3>2 DEF Reply, AtRest
      <3>3. task' = [task EXCEPT ![t].pc = "freq_read",
                                 ![t].changed = Changed(heap[task[t].ref], task[t].req)]
        BY <3>1, <3>2 DEF Check
      <3>4. /\ task'[t].ref = task[t].ref /\ task'[t].req = task[t].req
            /\ ~Changed(heap[task[t].ref], task[t].req)
        BY <1>1, <2>2, <3>3 DEF Local
      <3>5. QED BY <3>1, <3>4 DEF Changed
    <2>3. ASSUME task'[t].pc = "freq_write", ~task'[t].changed
          PROVE  heap'[task'[t].ref].uuid = task'[t].req.uuid
      <3>1. FreqRead(t) /\ heap' = heap /\ task[t].pc = "freq_read"
        BY <1>1, <2>3, CameFrom DEF FreqRead
      <3>2. ASSUME Reply(t, "TOO_FREQUENT", None) PROVE FALSE
        BY <1>1, <2>3, <3>2 DEF Reply, AtRest
      <3>3. \E c : task' = [task EXCEPT ![t].pc = "freq_write", ![t].count = c]
        BY <3>1, <3>2 DEF FreqRead
      <3>4. /\ task'[t].ref = task[t].ref /\ task'[t].req = task[t].req
            /\ task'[t].changed = task[t].changed
        BY <1>1, <3>3 DEF Local
      <3>5. QED BY <1>1, <1>3, <2>3, <3>1, <3>4 DEF Unchanging
    <2>4. QED BY <1>3, <2>1, <2>2, <2>3 DEF Unchanging
  <1>4. QED BY <1>2, <1>3

LEMMA AcknowledgedStep ==
    ASSUME AckInv, OneRegistrar, ReliableWrites, NEW t \in Tasks, Receive(t) \/ TaskStep(t)
    PROVE  AcknowledgedIsOwner'
  <1> SUFFICES ASSUME NEW u \in Tasks, task'[u].req.kind = "RegisterPk",
                      task'[u].result = "OK", task'[u].ref # None
               PROVE  \E g \in Guids : /\ Present(g)' /\ db'[g].id = task'[u].req.id
                                       /\ db'[g].uuid = task'[u].req.uuid
    BY DEF AcknowledgedIsOwner, RowsOf
  <1>1. /\ TypeInv /\ BookInv /\ Answered /\ WellFormed(task[t])
        /\ task[t] \in Local /\ Unchanging(t) /\ Underway(t) /\ RegistersAlone
        /\ u # t => task'[u] = task[u]
        /\ None \notin Uuids
    BY StepShape, ConstantsAssumption DEF AckInv, BookInv, GuidInv, TypeInv, TypeOK
  <1>2. ASSUME NEW g \in Guids, Present(g), db[g].id = task'[u].req.id,
               db[g].uuid = task'[u].req.uuid
        PROVE  \E h \in Guids : /\ Present(h)' /\ db'[h].id = task'[u].req.id
                                /\ db'[h].uuid = task'[u].req.uuid
    <2>1. db'[g].id = db[g].id /\ db'[g].uuid = db[g].uuid
      BY <1>1, <1>2, RowStep DEF BookInv
    <2>2. QED BY <1>2, <2>1 DEF Present
  <1>3. CASE u # t
    <2>1. PICK g \in RowsOf(task[u].req.id) : db[g].uuid = task[u].req.uuid
      BY <1>1, <1>3 DEF AckInv, AcknowledgedIsOwner
    <2>2. QED BY <1>1, <1>2, <1>3, <2>1 DEF RowsOf
  <1>4. CASE u = t
    <2>1. /\ task'[t].ref = task[t].ref /\ task'[t].req = task[t].req
          /\ \/ RefuseRegisterPk(t) \/ Touch(t)
             \/ FreqWrite(t) /\ ~task[t].changed
             \/ UpdateRow(t) \/ DbWriteFails(t) \/ SetGuid(t)
      BY <1>1, <1>4, NoneIsNoResult, AnswerStep DEF Results
    <2>2. ~RefuseRegisterPk(t) /\ ~Touch(t)
      BY <1>1, <1>4, <2>1 DEF RefuseRegisterPk, Touch, At, WellFormed, HoldingPcs, Unchanging
    <2>3. task[t].pc \in {"freq_write", "db_write", "set_guid"}
      BY <2>1, <2>2 DEF FreqWrite, UpdateRow, DbWriteFails, SetGuid
    <2>4. task[t].req \in RegisterPkRequests /\ task[t].ref \in Refs
      BY <1>1, <2>3 DEF WellFormed, HoldingPcs, RegisteringPcs
    <2>5. task[t].req.id \in Ids /\ task[t].req.uuid \in Uuids /\ t \in Registrars
      BY <1>1, <2>4, RegisterPkFields DEF RegistersAlone
    <2>6. heap[task[t].ref].uuid = task[t].req.uuid
      BY <1>1, <2>1, <2>2, <2>3 DEF Underway, Unchanging, FreqWrite, UpdateRow, DbWriteFails, SetGuid
    <2>7. Stands(task[t].ref, task[t].req.id)
      BY DEF Stands
    <2>8. RowsOf(task[t].req.id) # {}
      <3>1. CASE task[t].pc = "db_write"
        <4>1. ~InsertRow(t)
          <5>1. ASSUME InsertRow(t) PROVE FALSE
            <6>1. task'[t].pc = "set_guid"
              BY <1>1, <5>1 DEF InsertRow, TypeInv, TypeOK, Local
            <6>2. task'[t].pc = "done"
              BY <1>1, <1>4, NoneIsNoResult, AnswerStep DEF Results
            <6>3. QED BY <6>1, <6>2
          <5>2. QED BY <5>1
        <4>2. QED BY <1>1, <3>1, <4>1, WriteLeavesRow
      <3>2. CASE task[t].pc # "db_write"
        <4>1. \A v \in Tasks : task[v].pc = "db_write" => v \in Registrars
          BY DEF AckInv, BookInv, GuidInv, TypeInv, WellFormed, RegisteringPcs, RegistersAlone
        <4>2. \A v \in Tasks : task[v].pc # "db_write"
          BY <2>5, <3>2, <4>1 DEF OneRegistrar
        <4>3. QED
          BY <1>1, <2>4, <2>5, <2>6, <2>7, <4>2 DEF AckInv, Stored
      <3>3. QED BY <3>1, <3>2
    <2>9. PICK g \in RowsOf(task[t].req.id) : db[g].uuid = task[t].req.uuid
      BY <1>1, <2>4, <2>5, <2>6, <2>7, <2>8 DEF BookInv, Agrees
    <2>10. QED BY <1>2, <1>4, <2>1, <2>9 DEF RowsOf
  <1>5. QED BY <1>3, <1>4

\* With one registering task and a database that does not fail, a device that is
\* told OK owns the id's row, whatever lookups interleave and whenever hbbs stops.
THEOREM Acknowledged ==
    OneRegistrar /\ ReliableReads /\ ReliableWrites /\ Spec => []AcknowledgedIsOwner
  <1> DEFINE Reliable == OneRegistrar /\ ReliableReads /\ ReliableWrites
  <1>1. Init /\ BookInv => AckInv
    <2> SUFFICES ASSUME Init, BookInv PROVE AckInv
      OBVIOUS
    <2>1. /\ \A r \in Refs : heap[r].uuid = None
          /\ \A u \in Tasks : task[u].result = None /\ task[u].pc = "idle"
      BY DEF Init, IdleTask, AtRest, DefaultPeer
    <2>2. QED
      BY <2>1, NoneIsNoResult DEF AckInv, Stored, FreeIsNobodys, Free, AcknowledgedIsOwner,
         Unchanging, Results
  <1>2. Reliable /\ AckInv /\ BookInv' /\ [Next]_vars => AckInv'
    <2> SUFFICES ASSUME Reliable, AckInv, BookInv', [Next]_vars PROVE AckInv'
      OBVIOUS
    <2>1. CASE UNCHANGED vars
      BY <2>1 DEF vars, AckInv, Stored, Stands, RowsOf, Present, FreeIsNobodys, Free, Live,
         AcknowledgedIsOwner, Unchanging
    <2>2. CASE Crash
      <3>1. /\ \A r \in Refs : heap'[r].uuid = None
            /\ \A u \in Tasks : task'[u].result = None /\ task'[u].pc = "idle"
        BY <2>2 DEF Crash, IdleTask, AtRest, DefaultPeer
      <3>2. QED
        BY <3>1, NoneIsNoResult DEF AckInv, Stored, FreeIsNobodys, Free, AcknowledgedIsOwner,
           Unchanging, Results
    <2>3. ASSUME NEW t \in Tasks, Receive(t) \/ TaskStep(t) PROVE AckInv'
      BY <2>3, FreeIsNobodysStep, StoredStep, UnchangingStep, AcknowledgedStep DEF AckInv
    <2>4. ASSUME NEW r \in Refs, Wrap(r) PROVE AckInv'
      <3>1. /\ map' = map /\ db' = db /\ task' = task
            /\ \A s \in Refs : heap'[s].uuid = heap[s].uuid
            /\ \A t \in Tasks : WellFormed(task[t])
        BY <2>4, WrapShape DEF AckInv, BookInv, GuidInv, TypeInv
      <3>2. /\ Free' = Free
            /\ \A s \in Refs, i \in Ids : Stands(s, i)' <=> Stands(s, i)
            /\ \A i \in Ids : RowsOf(i)' = RowsOf(i)
        BY <3>1 DEF Free, Live, Stands, RowsOf, Present
      <3>3. Stored' /\ FreeIsNobodys'
        BY <3>1, <3>2 DEF AckInv, Stored, FreeIsNobodys, Free
      <3>4. AcknowledgedIsOwner'
        BY <3>1 DEF AckInv, AcknowledgedIsOwner, RowsOf, Present
      <3>5. \A t \in Tasks : Unchanging(t)'
        BY <3>1 DEF AckInv, Unchanging, WellFormed, HoldingPcs
      <3>6. QED BY <3>3, <3>4, <3>5 DEF AckInv
    <2>5. QED
      BY <2>1, <2>2, <2>3, <2>4 DEF Next
  <1>3. Reliable => []Reliable
    <2>1. Reliable' <=> Reliable
      BY DEF OneRegistrar, ReliableReads, ReliableWrites
    <2>2. QED BY <2>1, PTL
  <1>4. AckInv => AcknowledgedIsOwner
    BY DEF AckInv
  <1>5. QED
    BY <1>1, <1>2, <1>3, <1>4, BookInvariant, PTL DEF Spec
=============================================================================
