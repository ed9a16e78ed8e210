---------------------------- MODULE PeerRegistry ----------------------------
(***************************************************************************)
(* The peer map of hbbs: the in-memory map from device ids to Peer objects *)
(* (PeerMap of peer.rs), the SQLite table behind it (database.rs) and the  *)
(* handlers of rendezvous_server.rs that go through both: RegisterPk,      *)
(* RegisterPeer, PunchHoleRequest and the key lookup get_pk.               *)
(*                                                                         *)
(* A handler runs in a task: the io_loop task handles UDP messages one at  *)
(* a time, every TCP or WebSocket connection and every spawned punch hole  *)
(* request is a task of its own.  One action is what a task does while it  *)
(* holds one lock (map, peer object or database connection); tasks         *)
(* interleave between any two of them.                                     *)
(*                                                                         *)
(* Peer objects are reference counted (Arc) and live in heap.  A reference *)
(* that neither the map nor a task holds is free and may be allocated      *)
(* again.                                                                  *)
(***************************************************************************)
EXTENDS Naturals, FiniteSets

CONSTANTS
    Ids,         \* device ids
    Uuids,       \* machine uuids, one per device
    Keys,        \* public keys
    KeysOf,      \* the keys a device may present: [Uuids -> SUBSET Keys]
    Ips,         \* source addresses (the port is left out)
    Loopback,    \* those of Ips that are loopback addresses
    Tasks,       \* concurrent handlers
    Registrars,  \* the tasks that receive RegisterPk messages
    Refs,        \* Peer objects
    Guids,       \* primary keys of table peer
    None,        \* empty uuid, pk, ip, guid; address 0.0.0.0:0; no object
    RegPkLimit,  \* registrations of one object before TOO_FREQUENT (2 in the code)
    Faults,      \* which of "read", "write" (database errors), "crash", "wrap"
                 \* (24.8 days pass over an object) occur
    MustLogin,   \* the MUST_LOGIN switch
    LoggedIn     \* devices whose user holds a valid token

ASSUME ConstantsAssumption ==
    /\ KeysOf \in [Uuids -> SUBSET Keys]
    /\ Loopback \subseteq Ips
    /\ Registrars \subseteq Tasks
    /\ RegPkLimit \in Nat
    /\ Faults \subseteq {"read", "write", "crash", "wrap"}
    /\ MustLogin \in BOOLEAN
    /\ LoggedIn \subseteq Uuids
    /\ None \notin Ids \cup Uuids \cup Keys \cup Ips \cup Refs \cup Guids

VARIABLES
    map,   \* PeerMap.map: [Ids -> Refs or None]
    heap,  \* the Peer objects: [Refs -> Peer]
    db,    \* table peer: [Guids -> Row], the columns of an absent row are None
    task   \* the handlers' local state: [Tasks -> Local]

vars == <<map, heap, db, task>>
-----------------------------------------------------------------------------
(* Data *)

Opt(S) == S \cup {None}

\* struct Peer.  seen: last_reg_time was set since the object was created,
\* count: reg_pk.0.  wrapped: last_reg_time was never set and is 2^31 ms ago.
Peer == [guid: Opt(Guids), uuid: Opt(Uuids), pk: Opt(Keys), ip: Opt(Ips),
         addr: Opt(Ips), seen: BOOLEAN, wrapped: BOOLEAN, count: 0..(RegPkLimit + 1)]

DefaultPeer == [guid |-> None, uuid |-> None, pk |-> None, ip |-> None,
                addr |-> None, seen |-> FALSE, wrapped |-> FALSE, count |-> 0]

Row == [id: Opt(Ids), uuid: Opt(Uuids), pk: Opt(Keys), ip: Opt(Ips)]

NoRow == [id |-> None, uuid |-> None, pk |-> None, ip |-> None]

Present(g) == db[g].id # None

\* The rows a "where id = ?" selects.
RowsOf(i) == {g \in Guids : Present(g) /\ db[g].id = i}

RegisterPkRequests ==
    {q \in [kind: {"RegisterPk"}, id: Ids, uuid: Uuids, pk: Keys, ip: Ips] :
        q.pk \in KeysOf[q.uuid]}

RegisterPeerRequests ==
    [kind: {"RegisterPeer"}, id: Ids, uuid: {None}, pk: {None}, ip: Ips]

\* Who asks for a punch hole matters only to the MUST_LOGIN check.
PunchRequests ==
    [kind: {"Punch"}, id: Ids, uuid: IF MustLogin THEN Uuids ELSE {None},
     pk: {None}, ip: {None}]

GetPkRequests ==
    [kind: {"GetPk"}, id: Ids, uuid: {None}, pk: {None}, ip: {None}]

AllRequests == RegisterPkRequests \cup RegisterPeerRequests \cup PunchRequests \cup GetPkRequests

Requests(t) ==
    RegisterPeerRequests \cup PunchRequests \cup GetPkRequests
        \cup IF t \in Registrars THEN RegisterPkRequests ELSE {}

NoRequest == [kind |-> None, id |-> None, uuid |-> None, pk |-> None, ip |-> None]

Pcs == {"idle", "lookup", "db_read", "load", "get_or", "check", "freq_read",
        "freq_write", "update_mem", "db_write", "set_guid", "touch",
        "answer", "done"}

Results == {"OK", "UUID_MISMATCH", "TOO_FREQUENT", "REQUEST_PK",
            "REFUSED", "ID_NOT_EXIST", "OFFLINE", "FORWARD", "KEY"}

ASSUME NoneIsNoResult == None \notin Results

\* A task's locals.  guid is the row key it loaded, cloned or just inserted,
\* row the columns it loaded, value the address or key it answers with.
Local == [pc: Pcs,
          req: AllRequests \cup {NoRequest},
          ref: Opt(Refs), guid: Opt(Guids), row: Row, changed: BOOLEAN,
          count: 0..(RegPkLimit + 1), result: Opt(Results),
          value: Opt(Keys \cup Ips)]

\* A task at p with request q and nothing under way.
AtRest(p, q, r, res, val) ==
    [pc |-> p, req |-> q, ref |-> r, guid |-> None, row |-> NoRow, changed |-> FALSE,
     count |-> 0, result |-> res, value |-> val]

IdleTask == AtRest("idle", NoRequest, None, None, None)

\* References with a strong count above zero, for a map m and tasks tk.
Live(m, tk) == {r \in Refs : (\E i \in Ids : m[i] = r) \/ (\E t \in Tasks : tk[t].ref = r)}

Free == Refs \ Live(map, task)

\* Objects whose last reference is gone are dropped.
Dropped(h, m, tk) == [r \in Refs |-> IF r \in Live(m, tk) THEN h[r] ELSE DefaultPeer]
-----------------------------------------------------------------------------
(* Control *)

At(t, p, k) == task[t].pc = p /\ task[t].req.kind = k

Goto(t, p) == task' = [task EXCEPT ![t].pc = p]

GotoWith(t, p, r) == task' = [task EXCEPT ![t].pc = p, ![t].ref = r]

Reply(t, res, val) ==
    task' = [task EXCEPT ![t] = AtRest("done", task[t].req, task[t].ref, res, val)]

\* What a handler does once it holds the Peer object.
AfterLookup(k) == CASE k = "RegisterPk" -> "check"
                    [] k = "RegisterPeer" -> "touch"
                    [] OTHER -> "answer"

Init ==
    /\ map = [i \in Ids |-> None]
    /\ heap = [r \in Refs |-> DefaultPeer]
    /\ db = [g \in Guids |-> NoRow]
    /\ task = [t \in Tasks |-> IdleTask]

\* A message arrives.
Receive(t) ==
    /\ task[t].pc = "idle"
    /\ \E q \in Requests(t) :
          task' = [task EXCEPT ![t] = AtRest("lookup", q, None, None, None)]
    /\ UNCHANGED <<map, heap, db>>

\* RegisterPk is answered before the map is consulted: an id shorter than 6
\* characters, no_register_device, or an address over its quota.
RefuseRegisterPk(t) ==
    /\ At(t, "lookup", "RegisterPk")
    /\ \E res \in {"UUID_MISMATCH", "OK", "TOO_FREQUENT"} : Reply(t, res, None)
    /\ UNCHANGED <<map, heap, db>>

\* A punch hole request with the wrong licence key, or without a valid token
\* when MUST_LOGIN is set.
RefusePunch(t) ==
    /\ At(t, "lookup", "Punch")
    /\ Reply(t, "REFUSED", None)
    /\ UNCHANGED <<map, heap, db>>

LoginSatisfied(t) ==
    (MustLogin /\ task[t].req.kind = "Punch") => task[t].req.uuid \in LoggedIn

\* self.map.read().get(id): get, get_or and get_in_memory start with it.
FoundInMemory(t) ==
    /\ task[t].pc = "lookup"
    /\ LoginSatisfied(t)
    /\ map[task[t].req.id] # None
    /\ GotoWith(t, AfterLookup(task[t].req.kind), map[task[t].req.id])
    /\ UNCHANGED <<map, heap, db>>

\* get goes on to the database; get_in_memory (RegisterPeer) does not.
MissingInMemory(t) ==
    /\ task[t].pc = "lookup"
    /\ LoginSatisfied(t)
    /\ map[task[t].req.id] = None
    /\ IF task[t].req.kind = "RegisterPeer"
       THEN Reply(t, "REQUEST_PK", None)
       ELSE Goto(t, "db_read")
    /\ UNCHANGED <<map, heap, db>>

\* select guid, uuid, pk, info from peer where id = ?
DbReadRow(t) ==
    /\ task[t].pc = "db_read"
    /\ \E g \in RowsOf(task[t].req.id) :
          task' = [task EXCEPT ![t].pc = "load", ![t].guid = g, ![t].row = db[g]]
    /\ UNCHANGED <<map, heap, db>>

\* No row, or an error: get does not tell them apart.
DbReadNothing(t) ==
    /\ task[t].pc = "db_read"
    /\ RowsOf(task[t].req.id) = {} \/ "read" \in Faults
    /\ CASE task[t].req.kind = "RegisterPk" -> Goto(t, "get_or")
         [] task[t].req.kind = "Punch" -> Reply(t, "ID_NOT_EXIST", None)
         [] OTHER -> Reply(t, "KEY", None)
    /\ UNCHANGED <<map, heap, db>>

\* Mutant of LoadedPeer: the uuid column is not carried over.
LoadedPeerWithoutUuid(g, row) ==
    [DefaultPeer EXCEPT !.guid = g, !.pk = row.pk, !.ip = row.ip]

LoadedPeer(g, row) ==
    [DefaultPeer EXCEPT !.guid = g, !.uuid = row.uuid, !.pk = row.pk, !.ip = row.ip]

\* The row read becomes a fresh object, which is inserted whatever the map
\* holds for the id by now.
Load(t) ==
    /\ task[t].pc = "load"
    /\ \E r \in Free :
          /\ map' = [map EXCEPT ![task[t].req.id] = r]
          /\ task' = [task EXCEPT ![t].pc = AfterLookup(task[t].req.kind), ![t].ref = r,
                                  ![t].guid = None, ![t].row = NoRow]
          /\ heap' = Dropped([heap EXCEPT ![r] = LoadedPeer(task[t].guid, task[t].row)], map', task')
    /\ UNCHANGED db

\* The rest of get_or: look again under the write lock, else insert a default.
GetOr(t) ==
    /\ task[t].pc = "get_or"
    /\ \/ /\ map[task[t].req.id] # None
          /\ GotoWith(t, "check", map[task[t].req.id])
          /\ UNCHANGED map
       \/ /\ map[task[t].req.id] = None
          /\ \E r \in Free :
                /\ map' = [map EXCEPT ![task[t].req.id] = r]
                /\ GotoWith(t, "check", r)
    /\ UNCHANGED <<heap, db>>

\* Mutant of Mismatch: the uuids are not compared.
MismatchWithoutUuid(p, q) == p.uuid # None /\ p.ip # q.ip /\ p.pk # q.pk

Mismatch(p, q) ==
    /\ p.uuid # None
    /\ p.uuid # q.uuid \/ (p.ip # q.ip /\ p.pk # q.pk)

Changed(p, q) == p.uuid = None \/ p.uuid # q.uuid \/ p.pk # q.pk \/ p.ip # q.ip

\* Under the object's read lock: is this the device that owns the id?
Check(t) ==
    LET p == heap[task[t].ref]
        q == task[t].req
    IN /\ task[t].pc = "check"
       /\ IF Mismatch(p, q)
          THEN Reply(t, "UUID_MISMATCH", None)
          ELSE task' = [task EXCEPT ![t].pc = "freq_read", ![t].changed = Changed(p, q)]
       /\ UNCHANGED <<map, heap, db>>

\* Mutant of FreqRead: one registration too many.
FreqReadOffByOne(t) ==
    /\ task[t].pc = "freq_read"
    /\ \E expired \in BOOLEAN :
          LET c == heap[task[t].ref].count
          IN IF ~expired /\ c > RegPkLimit + 1
             THEN Reply(t, "TOO_FREQUENT", None)
             ELSE task' = [task EXCEPT ![t].pc = "freq_write",
                                       ![t].count = IF expired THEN 1 ELSE c + 1]
    /\ UNCHANGED <<map, heap, db>>

\* reg_pk is copied out of the object; more than 6 seconds since the last
\* registration restart the count.
FreqRead(t) ==
    /\ task[t].pc = "freq_read"
    /\ \E expired \in BOOLEAN :
          LET c == heap[task[t].ref].count
          IN IF ~expired /\ c > RegPkLimit
             THEN Reply(t, "TOO_FREQUENT", None)
             ELSE task' = [task EXCEPT ![t].pc = "freq_write",
                                       ![t].count = IF expired THEN 1 ELSE c + 1]
    /\ UNCHANGED <<map, heap, db>>

\* The copy is written back; without a change this is all.
FreqWrite(t) ==
    /\ task[t].pc = "freq_write"
    /\ heap' = [heap EXCEPT ![task[t].ref].count = task[t].count]
    /\ IF task[t].changed THEN Goto(t, "update_mem") ELSE Reply(t, "OK", None)
    /\ UNCHANGED <<map, db>>

\* update_pk, under the object's write lock.
UpdateMem(t) ==
    LET r == task[t].ref
        q == task[t].req
    IN /\ task[t].pc = "update_mem"
       /\ heap' = [heap EXCEPT ![r] = [@ EXCEPT !.addr = q.ip, !.uuid = q.uuid, !.pk = q.pk,
                                                !.seen = TRUE, !.wrapped = FALSE, !.ip = q.ip]]
       /\ task' = [task EXCEPT ![t].pc = "db_write", ![t].guid = heap[r].guid]
       /\ UNCHANGED <<map, db>>

\* The unique index on id: the statement would give the id a second row.
Conflicts(t) ==
    LET g == task[t].guid
        rows == RowsOf(task[t].req.id)
    IN IF g = None THEN rows # {} ELSE Present(g) /\ ~(rows \subseteq {g})

\* Mutant of InsertRow: insert or ignore, the new guid is returned in any case.
InsertOrIgnoreRow(t) ==
    LET q == task[t].req
    IN /\ task[t].pc = "db_write"
       /\ task[t].guid = None
       /\ \E g \in Guids :
             /\ ~Present(g)
             /\ db' = IF Conflicts(t) THEN db
                      ELSE [db EXCEPT ![g] = [id |-> q.id, uuid |-> q.uuid, pk |-> q.pk, ip |-> q.ip]]
             /\ task' = [task EXCEPT ![t].pc = "set_guid", ![t].guid = g]
       /\ UNCHANGED <<map, heap>>

\* insert into peer(guid, id, uuid, pk, info), under a fresh guid
InsertRow(t) ==
    LET q == task[t].req
    IN /\ task[t].pc = "db_write"
       /\ task[t].guid = None
       /\ ~Conflicts(t)
       /\ \E g \in Guids :
             /\ ~Present(g)
             /\ db' = [db EXCEPT ![g] = [id |-> q.id, uuid |-> q.uuid, pk |-> q.pk, ip |-> q.ip]]
             /\ task' = [task EXCEPT ![t].pc = "set_guid", ![t].guid = g]
       /\ UNCHANGED <<map, heap>>

\* Mutant of UpdateRow: the statement sets the uuid column too.
UpdateRowAndUuid(t) ==
    LET q == task[t].req
        g == task[t].guid
    IN /\ task[t].pc = "db_write"
       /\ g # None
       /\ ~Conflicts(t)
       /\ db' = IF Present(g)
                THEN [db EXCEPT ![g] = [id |-> q.id, uuid |-> q.uuid, pk |-> q.pk, ip |-> q.ip]]
                ELSE db
       /\ Reply(t, "OK", None)
       /\ UNCHANGED <<map, heap>>

\* Mutant of UpdateRow: the statement sets info only.
UpdateRowInfo(t) ==
    LET q == task[t].req
        g == task[t].guid
    IN /\ task[t].pc = "db_write"
       /\ g # None
       /\ ~Conflicts(t)
       /\ db' = IF Present(g) THEN [db EXCEPT ![g].ip = q.ip] ELSE db
       /\ Reply(t, "OK", None)
       /\ UNCHANGED <<map, heap>>

\* update peer set id, pk, info where guid = ?: no uuid, and no error when no
\* row matches.
UpdateRow(t) ==
    LET q == task[t].req
        g == task[t].guid
    IN /\ task[t].pc = "db_write"
       /\ g # None
       /\ ~Conflicts(t)
       /\ db' = IF Present(g)
                THEN [db EXCEPT ![g] = [@ EXCEPT !.id = q.id, !.pk = q.pk, !.ip = q.ip]]
                ELSE db
       /\ Reply(t, "OK", None)
       /\ UNCHANGED <<map, heap>>

\* The statement is refused or the database fails: the result of update_pk is
\* ignored and the device is told OK.
DbWriteFails(t) ==
    /\ task[t].pc = "db_write"
    /\ Conflicts(t) \/ "write" \in Faults
    /\ Reply(t, "OK", None)
    /\ UNCHANGED <<map, heap, db>>

\* peer.write().guid = guid, after a successful insert.
SetGuid(t) ==
    /\ task[t].pc = "set_guid"
    /\ heap' = [heap EXCEPT ![task[t].ref].guid = task[t].guid]
    /\ Reply(t, "OK", None)
    /\ UNCHANGED <<map, db>>

\* A loopback source never counts as a change of address.
IpChange(p, ip) ==
    /\ IF p.addr # None THEN ip # p.addr ELSE ip # p.ip
    /\ ip \notin Loopback

\* Mutant of Touch: the peer need not have a key.
TouchWithoutKey(t) ==
    LET r == task[t].ref
        ip == task[t].req.ip
    IN /\ task[t].pc = "touch"
       /\ heap' = IF IpChange(heap[r], ip) THEN heap
                  ELSE [heap EXCEPT ![r] = [@ EXCEPT !.addr = ip, !.seen = TRUE, !.wrapped = FALSE]]
       /\ Reply(t, "OK", None)
       /\ UNCHANGED <<map, db>>

\* RegisterPeer, under the object's write lock.
Touch(t) ==
    LET r == task[t].ref
        ip == task[t].req.ip
        request_pk == heap[r].pk = None \/ IpChange(heap[r], ip)
    IN /\ task[t].pc = "touch"
       /\ heap' = IF request_pk THEN heap
                  ELSE [heap EXCEPT ![r] = [@ EXCEPT !.addr = ip, !.seen = TRUE, !.wrapped = FALSE]]
       /\ Reply(t, IF request_pk THEN "REQUEST_PK" ELSE "OK", None)
       /\ UNCHANGED <<map, db>>

\* handle_punch_hole_request, under the object's read lock.  An object whose
\* last_reg_time was never set is offline (it starts an hour in the past), any
\* other may be online or may have been silent for REG_TIMEOUT.  The elapsed
\* milliseconds are compared as an i32: from 2^31 on they are negative and
\* pass the test, until they are 2^32 + REG_TIMEOUT, and again later.
AnswerPunch(t) ==
    /\ At(t, "answer", "Punch")
    /\ \/ Reply(t, "OFFLINE", None)
       \/ /\ heap[task[t].ref].seen \/ heap[task[t].ref].wrapped
          /\ Reply(t, "FORWARD", heap[task[t].ref].addr)
    /\ UNCHANGED <<map, heap, db>>

\* get_pk: the key that is signed and sent to the controlling side.
AnswerGetPk(t) ==
    /\ At(t, "answer", "GetPk")
    /\ Reply(t, "KEY", heap[task[t].ref].pk)
    /\ UNCHANGED <<map, heap, db>>

\* The answer is sent, the handler returns and drops its reference.
Return(t) ==
    /\ task[t].pc = "done"
    /\ task' = [task EXCEPT ![t] = IdleTask]
    /\ heap' = Dropped(heap, map, task')
    /\ UNCHANGED <<map, db>>

\* 24.8 days have passed since an hour before r was created, and it has not
\* been heard.  No handler takes that long: one that holds r at the moment
\* itself has come to it just before, and may as well come just after.
Wrap(r) ==
    /\ "wrap" \in Faults
    /\ \E i \in Ids : map[i] = r
    /\ \A t \in Tasks : task[t].ref # r
    /\ ~heap[r].seen
    /\ heap' = [heap EXCEPT ![r].wrapped = TRUE]
    /\ UNCHANGED <<map, db, task>>

\* hbbs stops and starts again: only the database file is left.
Crash ==
    /\ "crash" \in Faults
    /\ map' = [i \in Ids |-> None]
    /\ heap' = [r \in Refs |-> DefaultPeer]
    /\ task' = [t \in Tasks |-> IdleTask]
    /\ UNCHANGED db

RegisterStep(t) ==
    \/ GetOr(t) \/ Check(t) \/ FreqRead(t) \/ FreqWrite(t) \/ UpdateMem(t)
    \/ InsertRow(t) \/ UpdateRow(t) \/ DbWriteFails(t) \/ SetGuid(t)

\* A step of a handler that has a request.
TaskStep(t) ==
    \/ RefuseRegisterPk(t) \/ RefusePunch(t) \/ FoundInMemory(t) \/ MissingInMemory(t)
    \/ DbReadRow(t) \/ DbReadNothing(t) \/ Load(t)
    \/ RegisterStep(t)
    \/ Touch(t) \/ AnswerPunch(t) \/ AnswerGetPk(t) \/ Return(t)

Next ==
    \/ Crash
    \/ \E r \in Refs : Wrap(r)
    \/ \E t \in Tasks : Receive(t) \/ TaskStep(t)

Spec == Init /\ [][Next]_vars

\* The runtime polls every task that can go on; nothing makes devices send.
FairSpec == Spec /\ \A t \in Tasks : WF_vars(TaskStep(t))
-----------------------------------------------------------------------------
(* Properties *)

\* Every variable holds values of its type.
TypeOK ==
    /\ map \in [Ids -> Opt(Refs)]
    /\ heap \in [Refs -> Peer]
    /\ db \in [Guids -> Row]
    /\ task \in [Tasks -> Local]

\* r is an object for id i: the map has it under i or a handler of a request
\* for i holds it.
Stands(r, i) ==
    \/ map[i] = r
    \/ \E t \in Tasks : task[t].ref = r /\ task[t].req.id = i

\* Wherever an object, a loaded row or an update in flight carries a guid, the
\* table has that row and it is the row of the very id the object stands for,
\* so the UPDATE of update_pk, which addresses its row by guid and writes the
\* id column, can neither miss nor rename another device's row.
GuidPointsToRow ==
    /\ \A i \in Ids, r \in Refs :
          (Stands(r, i) /\ heap[r].guid # None) => db[heap[r].guid].id = i
    /\ \A t \in Tasks :
          task[t].guid # None => db[task[t].guid].id = task[t].req.id

\* Whatever interleaves, fails or crashes, a row once inserted stays, under its
\* id and with the uuid of the device that registered the id first.
RowsKeepTheirOwner ==
    [][\A g \in Guids : Present(g) => /\ db'[g].id = db[g].id
                                      /\ db'[g].uuid = db[g].uuid]_db

\* With one registering task (UDP only) and no failing reads: the uuid that
\* guards an id in memory is the uuid of the id's row, whatever lookups insert
\* behind the registration's back.
MemoryAgreesWithRow ==
    \A i \in Ids, r \in Refs, g \in Guids :
        /\ Stands(r, i)
        /\ heap[r].uuid # None
        /\ g \in RowsOf(i)
        => heap[r].uuid = db[g].uuid

\* The book of ids as the table holds it.
OwnerOf(i) == IF RowsOf(i) = {} THEN None ELSE db[CHOOSE g \in RowsOf(i) : TRUE].uuid

KeyOf(i) == IF RowsOf(i) = {} THEN None ELSE db[CHOOSE g \in RowsOf(i) : TRUE].pk

Book == INSTANCE DeviceBook WITH owner <- [i \in Ids |-> OwnerOf(i)],
                                 key <- [i \in Ids |-> KeyOf(i)]

\* With one registering task and no failing reads the registry implements the
\* book: failing writes, stale loads and restarts never hand an id to a second
\* device nor put another device's key into its row.
BookSpec == Book!Spec

\* One registering task, no database errors: a device that is told OK (and was
\* not skipped as no_register_device) owns the id's row.
AcknowledgedIsOwner ==
    \A t \in Tasks :
        /\ task[t].req.kind = "RegisterPk"
        /\ task[t].result = "OK"
        /\ task[t].ref # None
        => \E g \in RowsOf(task[t].req.id) : db[g].uuid = task[t].req.uuid

\* What leaves the registry is usable: when a punch hole request is forwarded,
\* the peer has a key to be verified by and the address is one the peer was
\* heard at.  One exception: an object that was loaded for a lookup and not
\* heard for 24.8 days is taken for online, the request goes to 0.0.0.0:0.
ForwardsReachAPeer ==
    [][\A t \in Tasks : task[t].result # "FORWARD" /\ task'[t].result = "FORWARD" =>
          /\ heap[task[t].ref].pk # None
          /\ task'[t].value = None => heap[task[t].ref].wrapped]_task

\* One registering task, no failing reads: the key that get_pk signs for the
\* controlling side is a key of the device that owns the id's row.
SignedKeyIsOwners ==
    \A t \in Tasks, g \in Guids :
        /\ task[t].result = "KEY"
        /\ task[t].value # None
        /\ g \in RowsOf(task[t].req.id)
        => task[t].value \in KeysOf[db[g].uuid]

\* One registering task, no database errors, no crash: a key that passed the
\* check and the rate limit is in the id's row eventually.
AcceptedKeyIsStored ==
    \A t \in Tasks, q \in RegisterPkRequests :
        (task[t].pc = "update_mem" /\ task[t].req = q)
            ~> \E g \in RowsOf(q.id) : db[g].uuid = q.uuid /\ db[g].pk = q.pk

\* README_EN.md: "MUST_LOGIN=Y: requires clients to log in/deploy before device
\* registration is allowed".
RegistrationRequiresLogin ==
    MustLogin => \A g \in Guids : Present(g) => db[g].uuid \in LoggedIn
=============================================================================
