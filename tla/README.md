# rustdesk-selfhost: TLA+ models, checks and proofs

The repository packages a self-hosted RustDesk: the rendezvous server **hbbs**
and the relay server **hbbr** (Rust, `src/rustdesk-server`), the **API server**
(Go, `src/rustdesk-api`) with its database, caches and login protection, a
browser client it serves (`resources/web`), an administration front end and
deployment scripts. This directory holds TLA+
modules of the parts in which tasks, locks, tables and timers meet, the TLC
instances that check them, and TLAPS proofs for every value of the constants.
`PROJECT.json` maps each definition to the lines it models.

## 1. Inventory

| Component (source) | State | Operations | What makes it hard | Module |
|---|---|---|---|---|
| hbbs peer registry (`peer.rs`, `database.rs`, `rendezvous_server.rs`) | `PeerMap.map` of reference-counted `Peer` objects; SQLite table `peer` | RegisterPk, RegisterPeer, punch hole request, `get_pk`; memory first, then table | UDP loop, TCP tasks and spawned punch requests interleave between locks; failing reads and writes; restart between memory and table | `DeviceBook`, `PeerRegistry` |
| hbbs IP blocker (`check_ip_blocker`, `ip-blocker`) | `IP_BLOCKER`: burst counter and set of ids per address | every RegisterPk; the command | windows that restart, limits compared before counting | `IpBlocker` |
| hbbs `tcp_punch` (`handle_tcp`, `handle_listener_inner`, `send_to_tcp*`) | write halves of TCP and WebSocket clients, by client address | take, send, put back; heartbeat; close | the sink is away from the map during a send; addresses are used again; a closing connection races a send | `TcpPunch` |
| hbbr pairing and relay (`relay_server.rs`) | `PEERS`, `USAGE`, `BLOCKLIST`, one task per connection | pair, park for 30 s, relay, commands | look-up and parking under two locks; timers that hit another stream; silent or blocked relays | `Switchboard`, `RelayPairing` |
| API login limiter (`utils/login_limiter.go`) | attempts, bans, captchas | middleware, two login routes, captcha image, clean-up | several critical sections per login, parallel logins | `LoginLimiter` |
| API OAuth login (`service/oauth.go`, `service/user.go`, `controller/api/ouath.go`, `controller/admin/oauth.go`) | `OauthCache` with timed deletion, accounts, table `user_third`, the registration lock | begin, callback, register, confirm, bind, query, unbind, delete | handlers hold a pointer to an item the timer or another handler removes; check and act are apart | `OauthLogin` |
| browser client (`resources/web/js/src/connection.ts`, `websock.ts`, `globals.js`, dialogs and pages of `main.dart.js`) | `curConn`, the fields of each `Connection`, its `Websock`s, the retry timer, the dialog | open and leave a page, start, reconnect, secure, message loop, login | every `await` lets another callback close or restart the connection; `_ws` and `_hash` are shared by sessions | `WebClient` |
| API users, tokens, devices, deploy tokens (`service/user.go`, `peer.go`, `deployToken.go`) | database rows | login, logout, refresh, delete, demote, deploy | several statements without a transaction | in part: `OauthLogin` |
| API memory cache (`lib/cache/memory.go`) | LRU list, map, used bytes | set, get, evict, expire | accounting drift, eviction loop | not modelled |
| hbbs relay choice (`check_relay_servers`) | two relay lists, a rotation counter | periodic check, command, choice | late results of an older check | not modelled |
| hbbs online query | none of its own | reads whether objects in memory are online | the same cast to `i32` as in punch requests | not modelled |
| hbbr bandwidth limits | token buckets, downgrade | relay loop | rates over real time | not modelled |
| everything else (NAT test, command line, LDAP, audit, groups, uploads, UI, scripts) | little or none | | sequential I/O or third-party code | not modelled; reasons in `PROJECT.json` |

How they interact: a device registers its id and key with hbbs (registry,
behind the IP blocker). A controlling client asks hbbs for a punch hole; hbbs
forwards to the address in the registry, over UDP or through a sink in
`tcp_punch`, and signs the key it has for the id. When a direct connection
fails, both sides connect to hbbr with the same session uuid. Users log in at
the API server, with a password or through an identity provider; its tokens are
what hbbs accepts when `MUST_LOGIN` is set. The browser client is a controlling
client like any other: it asks hbbs for a relay, meets the peer at hbbr, and
agrees with it on encryption and a password. The
modules meet at these calls and share no mutable state in the code, so they
are checked apart: `PeerRegistry` refuses any RegisterPk at will (the answers
of the blocker), `TcpPunch` receives messages of every kind, and
`LoggedIn` is what the API server's tokens amount to in hbbs.

What makes each part correct:

- *Registry*: an id belongs to its first device for good; a key is signed or kept
  only for the owner; a punch hole is forwarded to where the peer was heard; a guid
  never leads to another device's row; what is acknowledged and accepted is in the
  table.
- *Blocker*: granted requests stay bounded, and no refusal is for ever.
- *Sinks*: no message reaches another client; a served client does not lose
  its sink; ended connections leave none behind; dead clients are closed.
- *Relay*: streams are paired one to one within a session, with one framing,
  without leaks; parked, silent and blocked connections come to an end.
- *OAuth login*: an identity is registered once; a code is worth one token; a
  code leaves the cache.
- *Browser client*: what is closed is closed, failures are seen unless the client
  has no case for the message or was closed, the lock symbol is true, a password
  answers the challenge it was hashed for, sessions of one connection do not
  overlap, and every start ends in a session or in its end.
- *Limiter*: a ban stops guessing within a bound, is neither lifted nor
  prolonged by requests in flight, and what is stored is forgotten.

## 2. Modules and their correspondence to the code

An action is what a task does between two points at which another task may run:
one lock held, or the code between two `await`s; for the API server, one
critical section of the limiter's mutex.

**`DeviceBook`** - the abstract promise of the registry: `Claim` and `Rekey`.

**`PeerRegistry`** - `map` is `PeerMap.map`; `heap` holds the `Peer` objects, so
that an object the map no longer holds may still be written through another
task's `Arc`; `db` is table `peer`, with the guid as primary key; `task` has one
record per running handler: its position (`pc`), request, object and row at
hand. A handler goes `lookup` (map lock), `db_read`, `load` (insert what was
read, as `PeerMap::get` does), then for RegisterPk `get_or`, `check` (the uuid
check under the object's lock), `freq_read`/`freq_write` (the `reg_pk` counter,
read and written back under two locks), `update_mem`, `db_write`, `set_guid`.
`Faults` says which of failing reads, failing writes and restarts occur;
`Crash` empties everything but `db`. The time since `last_reg_time` is compared as
an `i32`, so it is negative from 24.8 days on: `seen` is a peer that was heard and may
be online or not (wrapped or not, it makes no difference), `wrapped` one that never
was and passes for online all the same. `Wrap` lets that time pass over an object no
handler is working on. Addresses leave out the port; `Loopback`
is kept because the code treats loopback addresses separately. Strings are model
values; the licence key check and the address blocker may refuse at will.

**`IpBlocker`** - `check_ip_blocker` under its one lock, split into its branches,
and the `ip-blocker` command. Instants are ages advanced by `Tick` and capped one
above the limit they are compared with. `answer`, `granted`, `grantAge` and
`served` record what the devices see; no action reads them except to update them.

**`TcpPunch`** - a connection stands for its task, sink and client. `own` is
`sink.is_some()`, `taken` is `taken_sink`/`active_sink`, `punch` the map;
`carry`/`to` is a sink in the hands of a sender (the main loop, another
connection's task or a spawned task) and the address it was taken from.
`Kinds` groups messages by what `handle_tcp` does with the sink. `gone` (the
client left) belongs to the environment; `left` records connections whose sink
somebody held when they closed.

**`Switchboard`**, **`RelayPairing`** - the abstract relay (wait, join, part) and
hbbr. A connection stands for its task and its stream, which may outlive the
task: it moves into `peers` and from there into the task that relays it
(`partner`). `Park` overwrites what `peers` has, `Unpark` removes whatever is
there, as the code does. `USAGE` is keyed by a string that two connections can
share (`UsageOf`). A connection has a source address (`AddrOf`), perhaps a proxy
header (`RealIp`); admission tests the IPv4 form (`V4`) of the first, the relay the
text of either as it is (`RelayIp`).

**`LoginLimiter`** - `attempts`, `bans`, `captchas` as sequences of ages and ages;
`Valid` is the tail of the attempts that pruning keeps; `pc` and `req` are the
requests in flight. The middleware's check, the login's own
check, the captcha verification, the password check and the recording of a
failure are separate actions. `spree` is a history variable: wrong passwords
tried since the address's record last started anew.

**`OauthLogin`** - a request is a goroutine; a step is what it does between two
looks at shared state. `cached` is the key set of the `sync.Map`, `item` what the
pointer of each code points to, which a request goes on reading and writing after
the code was removed; `timer` is the `AfterFunc` of a code. `user` and `third`
are the tables, `lock` the mutex `registerByOauth`, `req` the requests in flight.
There is one provider; its answer is an identity or an error, and the switch
"register new accounts" may be set either way at any time. `Confirm` and
`BindConfirm` stand for the console user who approves a login. `RowType.how`,
`yields`, `putBack` and `shared` are history. Some facts of the code the
module keeps: `InfoById` never returns nil, so a code that stands for a deleted account
still gives out a (worthless) token; a binding checks for a row of the identity
before it inserts, not while; the row of a registration may fail to be written
without anybody noticing (`service/user.go:351`, `373`). Nor does anybody notice a
read that fails: `UserThirdInfo` (`service/oauth.go:358`) and `InfoById` drop the
error and give an empty row, so `Looks` offers every look both outcomes. A row that
`RegisterByOauth` adds after such a look is marked `blind`.

**`WebClient`** - JavaScript runs one callback at a time, so an action is one
callback: everything between two `await`s. `conn` has one record per `Connection`
(its `_ws`, its interval timer, the socket whose challenge `_hash` is, whether
`_password` is set), `sess` one per call of `_start`, suspended at `pc` and
polling `waits`; `sock` one per `Websock`, with `_status`, the browser's ready
state, the messages nobody has read, and what the other end knows (`pkey`,
`stage`). `page`, `curConn`, `armed` and `asking` are the Flutter shell: the page
on screen, `window.curConn`, the retry timer, the password dialog. The shell is
compiled code (`main.dart.js`); its actions are read from the functions "map"
names. hbbs, hbbr and the peer send anything the client has a case for, in the
order the peer's own protocol allows (`PeerStep`). A callback may throw where it
sends on a socket that is not open (`SendThrows`, `ReplyThrows`) and where it decodes
what the peer signed (`SignedIdRead`). Sockets no session will ever
read are reduced to whether they are still open (`Garbage`). `end`, `cut`,
`alone`, `gaveUp`, `strayDialog` and `staleLogin` are history.

`MC*` modules only give constants their values.

## 3. Runs

| Run | Instance and bounds | Shows |
|---|---|---|
| `registry_udp` | 1 id, 2 devices (one with 2 keys), 2 addresses (1 loopback), 2 tasks of which one registers, 3 objects, failing writes, restarts, elapsed times that wrap | memory agrees with the row, signed keys are the owner's, forwards go to a peer with a key at an address it was heard at or, once the time has wrapped, to 0.0.0.0:0, and the registry implements `DeviceBook` |
| `registry_concurrent` | 2 ids, 2 devices, 2 registering tasks, 4 objects, failing reads and writes | guids lead to the row of the right id; rows keep id and owner even when registrations race |
| `registry_liveness` | 1 id, no faults, fairness | an acknowledged device owns its row; an accepted key gets there |
| `registry_login` (violation) | `MUST_LOGIN` on, one of two devices logged in | an unknown device registers: see Findings |
| `ip_blocker` | 1 address (addresses are independent), 5 ids, limits of 2, windows of 2 and 3 ticks | bursts and ids are bounded, refusals end |
| `relay_pairs` | 4 connections (2 WebSockets behind one usage id), 2 sessions | one-to-one pairing, framing, usage, and hbbr implements `Switchboard` |
| `relay_ends` | 3 connections of one session, over IPv6, over IPv4 on the dual-stack listener and through a proxy; 3 address texts that may be blocked; fairness | parked streams leave; silent relays end, and those whose own address text is blocked |
| `tcp_punch` | 2 connections, 2 addresses that may coincide, main loop, 1 spawned send, fairness | sinks stay under their address, are kept and not leaked; dead clients are closed |
| `login_limiter` | 3 requests of one address, captcha after 1 and ban after 3 failures, ban longer than the window, window longer than a captcha's life | the bound on guesses, bans fixed, captchas forgotten |
| `oauth_login` | 1 provider, 1 identity, 1 code, 2 requests, 1 account and 1 that registration can make, ids up to 2, reads and writes that may fail, fairness of the timer | a second registration follows a failed look only; one token; codes expire |
| `web_client` | 2 pages one after the other, 3 sessions, 1 unread message per socket; session 2 meets every message, the others the messages that lead to a relay and a password (`MCSends`); fairness | sockets are closed, failures shown (two silent cases named), security and logins consistent, sessions settle and end |
| `login_captcha_off` (violation) | captcha threshold -1, ban threshold 3 | see Findings |

Why the bounds are enough. *Registry*: a race needs two tasks; three or four
objects let each task hold one that the map has already replaced; ids interact
only through guids, so two suffice, and one where guids are not the question.
`RegPkLimit` is 0 or 1 so that TOO_FREQUENT is reached in one or two steps.
*Relay*: three connections of a session are needed to overwrite a parked stream
and let its timer hit the newcomer; the fourth gives two relays at once.
*Blocker*: the limits are small enough to be passed by every branch, and one day
is longer than one block. *Sinks*: one connection's sink is contended by its own
task, a peer's task, the main loop and a spawned task; two connections with one
address model a reused port. *Limiter*: three requests in flight overrun a ban
threshold that two can reach. *OAuth*: a race of two handlers over one code is
what each hazard needs; rows of other identities and codes are not looked at, and two
rows are what a second registration takes.
*Browser*: a session that outlives its page (session 1) meets the session of
the next page (2) and its reconnection (3); the middle one can be each of the
three cases, so it is the one that meets every message.

Every property has a mutant, a plausible bug in a mapped definition under which
TLC finds the property violated (`PROJECT.json`, "mutants").

Symmetry is used in `registry_udp` and `registry_concurrent` only, over objects,
guids and ids, and never with liveness.

### Fairness

- `PeerRegistry!FairSpec`: weak fairness of each handler that has a request: the
  runtime polls every task, and each wait is for a lock held briefly. `Receive`
  and `Crash` are not fair.
- `RelayPairing!FairSpec`: tasks that can go on do, timers fire. `Tick` is strongly
  fair because `select!` picks among ready branches at random, so arriving data
  cannot keep the timer out for ever. Sending, closing, reading by clients and the
  commands are not fair; a send on a raw stream may never return, which
  `BlockedRelayEnds` states as its exception.
- `IpBlocker!RetrySpec`: time passes, and the devices keep trying. The second is
  an assumption about the devices: without a request there is no answer to change.
- `TcpPunch!Fairness`: handlers and sends go on, heartbeats tick, and a write to a
  client that has left fails in the end (strong fairness of `BeatFails`: TCP gives
  up retransmitting). Clients need not send.
- `OauthLogin!FairSpec`: only that `time.AfterFunc` fires. Requests may stop
  anywhere, providers and users need not answer.
- `WebClient!Fairness`: each session for itself goes on when one of its callbacks
  is due: the timers of `open()` and `next()` fire, awaited promises that are
  settled come back. The user, the network, hbbs, hbbr and the peer promise nothing.
- `LoginLimiter!FairSpec`: the clock and the clean-up ticker go on.

### Findings

- `registry_login`: the English README says that `MUST_LOGIN=Y` requires a login
  before a device may register; the code consults it for punch holes only
  (`rendezvous_server.rs:904`), and a device without a login registers.
- `login_captcha_off`: a negative `CaptchaThreshold` is documented as "not
  enabled"; with a positive ban threshold `len(attempts) >= threshold` is always
  true (`login_limiter.go:209`), so every login needs a captcha.

Behaviour the models show that no doc denies, and that properties therefore state
with its exceptions: two registrations racing over TCP and UDP can leave memory
disagreeing with the table (which is why `registry_udp` has one registrar, the
case of clients that register over UDP), OK is sent although the write failed
(`AcknowledgedIsOwner` is checked without faults), two queries that hold a code at
once, or a callback that stores a code again after it was spent or expired, are
worth a second token (`shared` and `putBack` in `CodeYieldsOneToken` and
`CodesExpire`), a relay socket that opens after its page closed stays open (`cut =
"escapes"` in `ClosedIsCutOff`), a session ended by its own close reports an
empty, invisible error, and a message the client has no case for ends it without a
word (`FailureIsShown`), the late dialog of a page that is
gone re-arms the retry timer and restarts the session of the next page
(`strayDialog` in `OneSessionUnlessStray` and `LoginAnswersItsChallenge`), a peer
loaded for a lookup and not heard for 24.8 days has the punch hole forwarded to
0.0.0.0:0 (`wrapped` in `ForwardsReachAPeer`), blocking the IPv4 address of a client
of the dual-stack listener does not end the relay it has (`RelayIp` in
`BlockedRelayEnds`), an identity is registered again when the look for its row
failed (`blind` in `RegisteredOnce`), a sink put back after its
connection closed stays in `tcp_punch` (`LeakedOnlyInFlight`), and logins in
flight overrun the ban threshold by one each (`SpreeBounded`).

## 4. Theorems

All are proved by TLAPS for arbitrary constants under the assumption named in
each module (`ConstantsAssumption`, `PolicyAssumption`: types of constants, and
`None` different from everything else; in `LoginLimiter` also that finitely many
requests are in flight).

- **`PeerRegistryProofs`**, first part: `TypeCorrect`, `GuidsPointToRows`, `RowsKeepOwner`.
  `TypeInv` adds to `TypeOK` what each `pc` says of a task's locals. `GuidInv` adds
  `Sharing` (an object stands for one id, whoever holds it) and `FreeIsClean` (an
  unreferenced object carries no guid): without them a reused object could
  bring the guid of another id. `RowsKeepTheirOwner` then follows step by step,
  since `UpdateRow` writes only through a guid of its own id and keeps the uuid.
  No assumption on faults or on the number of registrars is needed.
- **`PeerRegistryProofs`**, second part: `ForwardsReach` (no assumption: its
  `ForwardInv` says that a heard object has an address, that rows have keys,
  `RowsKeyed`, and that an object without a key has a handler at work that brings
  one, `KeyComes`, so no time can wrap over it), and under `OneRegistrar`
  (RegisterPk arrives in one task, as with UDP only) and `ReliableReads`:
  `MemoryAgrees`, `SignedKeys` and the refinement `ImplementsBook`; with
  `ReliableWrites` too, `Acknowledged`. The runs that check these properties,
  `registry_udp` and `registry_liveness`, have constants that satisfy the
  assumptions. `BookInv` is the argument: every object of a stored id carries the
  owner, whoever loaded it and however stale its row; an id without a row has one
  object at most (`Agrees`); and what the registering task has found out still holds
  when it acts on it (`Underway`), since nobody else inserts rows and nobody else
  registers into the object. `Stored` adds, for acknowledgements, that a device in
  memory is in the table or on its way there.
- **`RelayPairingProofs`**: `TypeCorrect`, `ParkedStreamsHaveTimers`,
  `StreamsPairOneToOne`, `RelaysAgreeOnFraming`, `UsageIsOfRunningRelays` and the
  refinement `ImplementsBoard`. The inductive invariant is
  `TypeOK /\ Holding /\ OneToOne`: `Holding` (a parked stream's task still sleeps
  on that uuid) is what keeps a second pairing from finding a stream that is
  already relayed. For the refinement each action is shown to be a step of the
  switchboard or a stutter; overwriting a parked stream is a `Leave`.
- **`IpBlockerProofs`**: `TypeCorrect`, `BurstsAreBounded`, `IdsAreBounded`. The
  invariant relates what devices saw to what the table counts (`CountCovers`,
  `IdsCover`); the "+ 2" is the uncounted first request and the limit passed once.
- **`TcpPunchProofs`**: `TypeCorrect`, `SinksStayUnderTheirAddress`, `SinksAreKept`,
  `LeaksAreInFlight`. The invariant says that each sink on its way belongs to the
  address it goes back to (`Addressed`) and that nobody else can reach a sink its
  task owns (`OwnedIsHidden`) or one of a closed connection unless it was in
  flight (`ClosedIsHidden`).
- **`OauthLoginProofs`**: `TypeCorrect`, `IdentitiesAreRegisteredOnce`,
  `CodesYieldOneToken`. `TInv` adds to `TypeOK` that working requests hold a code
  and, where they need one, an account (`Busy`, `BindsHaveUser`), and that a code
  nobody has begun is nowhere (`Fresh`). `NoneYet` (while a request that found no
  row holds the lock, no registered row of its identity comes up) carries the second
  theorem; requests whose look failed are left out of it, as `RegisteredOnce` leaves
  out their rows. `Unspent` carries the third: unless two queries held a code or it
  was stored again, at most one request is on its way to a token for it, it has
  given none so far, and while it is in the cache nobody is past removing it.
- **`LoginLimiterProofs`**: `BansAreFixed`, from the type of `bans` and one lemma
  for each operation of the limiter; `SpreesAreBounded`. The bound is not inductive:
  `SpreeInv` adds where each wrong password went. While an address may log in,
  those tried are on record (`Valid`) or in requests about to record them (`Guess`),
  and the record is below the threshold; while it is banned, those tried and the
  requests that may still try one (`Trying`, all past the check) stay within the
  bound together. At the moment of the ban both meet, because a request cannot be
  in `Guess` and in `Trying`. Counting needs finitely many requests
  (`TasksAssumption`). `SpreeTyped` says that the attempts of an address stay
  in the order they were made (`Ordered`); `PruningIsExact` concludes that the tail
  that `Valid` takes is what the loop of `pruneAttempts` keeps.
- **`WebClientProofs`**: `TypeCorrect`, `OneSessionAtATime`,
  `LoginsAnswerTheirChallenge`, for any number of connections and sessions, any
  `Sends` and any `MaxBuf`. `AtWork` adds to `TypeOK` that a session at work has a
  connection and that only such a session polls. `OneInv` says why the retry timer
  finds nobody at work: the sessions whose connection was never closed all belong
  to the current one, and the timer runs only once that one is over. `LoginInv`
  carries the third theorem: `_ws` is a socket of one of the connection's own
  sessions (`Owned`); without a stray dialog a session past its relay reads from
  nothing but its relay socket (`AtRelay`), a login goes out there only after its
  challenge was read (`Heard`), and while the user is asked for a password the
  challenge in hand is that of `_ws` and no session of the connection is on its way
  to another socket (`Asks`). `Good` collects what a step of one session leaves
  alone; every action is shown to be good once, and the invariants use that.

- **`WebClientSocketProofs`**: `FailuresAreShown`, `ClosedConnectionsAreCutOff`,
  `SecurityIsMutual`. Every step of the browser client is first shown to be of one of
  eight kinds (`AnyKind`): only sockets change (`Still`), a session goes on
  (`Moves`) or is over (`Finishes`), its socket to hbbs opens (`Opens`), it is
  referred to a relay (`Refers`), its relay socket opens and becomes `_ws`
  (`Relays`), a connection is closed (`Shuts`), a session starts (`Begins`). A kind
  says of every socket what the step may do to it; each invariant is
  then carried through the kinds, not through the callbacks.
  - `Wired` is what the three share: a session polls only a socket of its own
    connection (`Polling`, `Exclusive`), a relay socket not yet open is nobody's
    `_ws` (`Unborn`), a session without company has none (`Lonely`), only the current
    connection is open (`Latest`), no two connections share a socket (`Distinct`).
  - `ShownInv` (`Alive`): while its connection was not closed, what a session polls,
    or will poll next, has a status, so its rejection carries a text; what is left are
    the messages without a case (`HasNoCase`).
  - `ShutInv`: a live socket of a session is `_ws` of its open connection, or the
    one the session is opening or has given up (`Held`, `Tethered`); nobody reopens a
    connection that was closed under a session (`Sole`, `Severed`), and the relay
    socket does not exist before the referral (`Unconnected`). A closed connection
    therefore keeps only what `ClosedIsCutOff` excepts.
  - `KeyInv` (`Keyed`): the relay socket has no key at either end until `secure()`
    has settled, and from then on the key of this session at both, or none.

Every invariant and every step property of the passing runs, and both refinements,
are proved. Only model-checked: the liveness properties `AcceptedKeyIsStored`,
`ParkedLeaves`, `SilentRelayEnds`, `BlockedRelayEnds`, `RefusalEnds`,
`GoneClientIsClosed`, `CaptchasAreForgotten`, `SessionsSettle`, `CutSessionsEnd` and
`CodesExpire` (TLAPS does not handle fairness and ENABLED here).

## 5. What is left out

- Ports, message contents, encryption, signatures and the JWT library: values that
  are only compared.
- Buffers of sockets. `TcpPunch` assumes that a send returns; the code has a known
  exposure (the main loop sends inline, `rendezvous_server.rs:280`), listed as a
  hazard without a property.
- Bandwidth limits and usage statistics of hbbr, the ip change log and the
  statistics commands of hbbs.
- Growth of `IP_BLOCKER` and `PUNCH_REQS`: unbounded by design.
- Accounts, tokens, devices and deploy tokens beyond `OauthLogin`, the memory cache,
  address books, the relay choice and the online query: handlers of single
  statements, sequential data structures and single expressions. Their races and
  edges are in "hazards", with the reason why no property covers each.
- Most lines of the repository are not program logic that can be modelled
  faithfully. `resources/web/main.dart.js` is 106,638 lines of compiled Flutter,
  framework included, of which the model takes the handful of functions that touch
  a connection; `message.ts` and `rendezvous.ts` (twice each) and
  `gen_js_from_hbb.ts` are generated codecs; `libopus`, `yuv-canvas` and
  `ogv` are vendored media code. What remains of the browser client (input events,
  image quality, drawing) sends messages that do not change the session.
- The administration front end: form state of one browser page. What its OAuth
  pages and its user store send are requests of `OauthLogin`.
- The vendored `hbb_common`, the Windows UI, scripts and containers.

## 6. Plan

Done, in this order: `PeerRegistry` with `DeviceBook`, `RelayPairing` with
`Switchboard`, `IpBlocker`, `TcpPunch`, `LoginLimiter`, `WebClient`, `OauthLogin`,
and their proofs.

What would add most next:

1. `RelayChoice`: overlapping health checks against the list set by command.
2. `Accounts`: changes of password, deletion and demotion of users against logins
   and requests in flight; what the comment on the last administrator asks
   (`service/user.go:252`) against a count that includes disabled administrators
   and is read in an earlier statement.
