------------------------------ MODULE WebClient ------------------------------
(***************************************************************************)
(* The browser client: the Connection and Websock classes (js/src), the    *)
(* entry points of globals.js, and the part of the compiled Flutter shell  *)
(* (main.dart.js) that opens and closes a remote page, shows the dialogs   *)
(* and re-arms the retry timer.                                            *)
(*                                                                         *)
(* JavaScript runs one callback at a time, so an action is one callback:   *)
(* everything from one await to the next.  Connections are numbered in the *)
(* order globals.newConn makes them, sessions in the order _start is       *)
(* entered; session s opens the sockets <<s, "id">> (to hbbs) and          *)
(* <<s, "relay">> (to hbbr).  A session is the asynchronous call           *)
(* start -> _start -> connectRelay -> secure -> msgLoop; reconnect() starts *)
(* a second one on the same Connection object, whose `_ws` they share.     *)
(*                                                                         *)
(* What hbbs, hbbr and the controlled peer send is left open within the    *)
(* protocol the client expects of them (AnswerArrives, PeerMessageArrives).*)
(***************************************************************************)
EXTENDS Integers, Sequences, FiniteSets

CONSTANTS
  MaxConn,   \* bound on Connection objects made by one page load
  MaxSess,   \* bound on sessions (calls of _start)
  MaxBuf,    \* bound on messages a socket has received and nobody has read
  Sends(_, _) \* bound: what hbbs and the peer send to session s with the record r

ASSUME BoundsAssumption == MaxConn \in Nat /\ MaxSess \in Nat /\ MaxBuf \in Nat

Conns == 1..MaxConn
Sess  == 1..MaxSess
Ws    == Sess \X {"id", "relay"}
NoWs  == <<0, "none">>

VARIABLES
  page,      \* the Flutter shell shows "home" or the "remote" page
  curConn,   \* window.curConn, 0 when undefined
  nconn,     \* Connection objects made so far
  conn,      \* their fields
  nsess,     \* sessions started so far
  sess,      \* where each session is suspended
  sock,      \* the Websock objects and what the server side knows of them
  asking,    \* the dialog on screen asks for a password
  armed,     \* the retry timer of the shell runs
  strayDialog, \* history: a session raised a dialog after its connection was closed
  staleLogin   \* history: a password was sent on a socket with another's challenge

vars == <<page, curConn, nconn, conn, nsess, sess, sock, asking, armed,
          strayDialog, staleLogin>>

\* What the rendezvous server may answer to the punch hole request: a relay
\* with or without a public key, a reason not to connect, or something without
\* a case in _start (a failure code it does not know, another message).
IdAnswers == {"relay_pk", "relay", "refused", "unknown"}

\* What the peer sends, told apart by what the client does with it: the
\* cursor, chat, test_delay and audio messages are "other"; "clip" stands for
\* the compressed payloads, whose unpacking is awaited.
PeerMessages == {"signed_id", "hash", "wrong_password", "login_error", "peer_info",
                 "video_frame", "clip", "permission", "close_reason", "other"}

Pcs == {"none", "idOpen", "idAnswer", "relayOpen", "verify", "signed",
        "loop", "unzip", "done"}
Starting == {"idOpen", "idAnswer", "relayOpen", "verify", "signed"}
Running  == Starting \cup {"loop", "unzip"}

\* How a session came to its end: with a dialog, without one because the code
\* has none for the case, or with an error whose text is empty, which msgbox
\* drops.
Ends == {"none", "shown", "silent", "hidden"}

\* ws, hash, pw: _ws, the socket whose challenge _hash is, whether _password is
\* set.  open (history): started, and not closed since.
ConnType == [ws: Ws \cup {NoWs}, open: BOOLEAN, timer: BOOLEAN,
             hash: Ws \cup {NoWs}, pw: BOOLEAN]

\* waits: the socket its next() polls.  pk: hbbs sent the peer's public key.
\* secure: what connection_ready told the shell.  gaveUp: its relay socket did
\* not open in time.  History: cut, whether its connection was closed while it
\* ran, and then whether close() missed it because it was opening its relay
\* socket or about to; alone, no other session of its connection ran meanwhile.
SessType == [pc: Pcs, conn: Conns \cup {0}, waits: Ws \cup {NoWs},
             pk: BOOLEAN, secure: BOOLEAN,
             cut: {"no", "ends", "escapes"}, alone: BOOLEAN, gaveUp: BOOLEAN, end: Ends]

\* ready: the state of the browser's socket; status: Websock._status.
\* key: the session whose secret key encrypts what the client sends (0: none).
\* pkey: the first public_key the peer got (-1: none, 0: the empty one); stage:
\* how far the other end is in its own protocol.  Neither outlives the socket.
SockType == [ready: {"none", "connecting", "open", "closing", "closed"},
             status: {"", "open", "close"},
             buf: Seq(IdAnswers \cup PeerMessages),
             key: Sess \cup {0}, pkey: Sess \cup {0, -1},
             stage: {"none", "paired", "greeted", "challenged", "asked", "in"}]

NoConn == [ws |-> NoWs, open |-> FALSE, timer |-> FALSE, hash |-> NoWs,
           pw |-> FALSE]
NoSess == [pc |-> "none", conn |-> 0, waits |-> NoWs, pk |-> FALSE, secure |-> FALSE,
           cut |-> "no", alone |-> TRUE, gaveUp |-> FALSE, end |-> "none"]
NoSock == [ready |-> "none", status |-> "", buf |-> <<>>, key |-> 0, pkey |-> -1,
           stage |-> "none"]

Init ==
  /\ page = "home" /\ curConn = 0
  /\ nconn = 0 /\ conn = [c \in Conns |-> NoConn]
  /\ nsess = 0 /\ sess = [s \in Sess |-> NoSess]
  /\ sock = [w \in Ws |-> NoSock]
  /\ asking = FALSE /\ armed = FALSE
  /\ strayDialog = FALSE /\ staleLogin = FALSE

RunningOf(c) == {s \in Sess : sess[s].conn = c /\ sess[s].pc \in Running}

-----------------------------------------------------------------------------
(* Websock: what a call does to the sockets k                              *)

\* The socket goes to state r with _status st, and the other end loses it.
Down(k, w, r, st) == [k EXCEPT ![w].ready = r, ![w].status = st,
                               ![w].pkey = -1, ![w].stage = "none"]

\* Mutant: close() leaves a socket alone that is still connecting.
CloseWsWhenOpen(k, w) ==
  IF w = NoWs \/ k[w].ready = "connecting" THEN k
  ELSE Down(k, w, IF k[w].ready = "open" THEN "closing" ELSE k[w].ready, "")

\* close(): _status is reset whatever it was, no further message is taken, and
\* what was received stays readable.
CloseWs(k, w) ==
  IF w = NoWs THEN k
  ELSE Down(k, w, IF k[w].ready \in {"connecting", "open"} THEN "closing" ELSE k[w].ready, "")

\* The client can send: a browser throws while the socket is connecting, and
\* drops what is sent on a closing or closed one.
SendThrows(w) == sock[w].ready = "connecting"

\* A public_key message, x the session whose secret key it carries (0: empty).
SendPublicKey(k, w, x) ==
  IF w[2] = "relay" /\ k[w].ready = "open" /\ k[w].pkey = -1
  THEN [k EXCEPT ![w].pkey = x] ELSE k

\* The two ends use the same key, or neither uses one.
InStep(k, w) == k[w].key = (IF k[w].pkey = -1 THEN 0 ELSE k[w].pkey)

\* A login_request; the peer looks at it once it has sent its challenge.
SendLogin(k, w) ==
  IF w[2] = "relay" /\ k[w].ready = "open" /\ InStep(k, w) /\ k[w].stage = "challenged"
  THEN [k EXCEPT ![w].stage = "asked"] ELSE k

\* A password goes out on w although the challenge is not that of w.
GoesStale(w, hash) == sock[w].ready = "open" /\ w # hash

-----------------------------------------------------------------------------
(* Connection.close() and _start() as functions of the state               *)

ClosedConn(c) == [conn EXCEPT ![c].timer = FALSE, ![c].open = FALSE]
ClosedSock(c) == CloseWs(sock, conn[c].ws)
OpensRelay(s) == \/ sess[s].pc = "relayOpen"
                 \/ sess[s].pc = "idAnswer" /\ sock[sess[s].waits].buf # <<>>
ClosedSess(c) ==
  [s \in Sess |-> IF s \in RunningOf(c) /\ sess[s].cut = "no"
                  THEN [sess[s] EXCEPT !.cut = IF OpensRelay(s) THEN "escapes" ELSE "ends"]
                  ELSE sess[s]]

\* The sockets session s reads, or will unless its connection takes another.
Reads(s, w) == CASE sess[s].pc = "idOpen"    -> w = <<s, "id">>
                 [] sess[s].pc = "relayOpen" -> w = <<s, "relay">>
                 [] sess[s].pc \in {"none", "done"} -> FALSE
                 [] sess[s].pc = "idAnswer"  -> w = sess[s].waits
                 [] OTHER -> w \in {sess[s].waits, conn[sess[s].conn].ws}
Referred(w) == \E s \in Sess : Reads(s, w)

\* A socket of session s is, or may still become, open.
StillOpen(s) == \E kind \in {"id", "relay"} : sock[<<s, kind>>].ready \in {"connecting", "open"}

\* What no session will read is garbage: the model forgets the data of such a
\* socket, and keeps whether it is still open.
Garbage(k) == [NoSock EXCEPT !.ready =
                 IF k.ready \in {"none", "connecting", "open"} THEN k.ready ELSE "closed"]
Left(s, k) == [w \in Ws |-> IF w[1] = s /\ (\A t \in Sess \ {s} : ~Reads(t, w))
                            THEN Garbage(k[w]) ELSE k[w]]
Swept(k) == [w \in Ws |-> IF Referred(w) THEN k[w] ELSE Garbage(k[w])]

\* _start up to its first await, where the connections, sessions and sockets
\* are cn, ss and k.
StartFrom(c, cn, ss, k) ==
  LET s == nsess + 1 IN
  /\ s \in Sess
  /\ nsess' = s
  /\ conn' = [cn EXCEPT ![c].open = TRUE, ![c].timer = TRUE, ![c].ws = <<s, "id">>]
  /\ sess' = [t \in Sess |->
                CASE t = s -> [NoSess EXCEPT !.pc = "idOpen", !.conn = c,
                                            !.alone = RunningOf(c) = {}]
                  [] t \in RunningOf(c) -> [ss[t] EXCEPT !.alone = FALSE]
                  [] ss[t].pc = "done" /\ ~StillOpen(t) -> [NoSess EXCEPT !.pc = "done"]
                  [] OTHER -> [ss[t] EXCEPT !.end = "none"]]
  /\ sock' = [w \in Ws |->
                CASE w = <<s, "id">> -> [NoSock EXCEPT !.ready = "connecting"]
                  [] OTHER -> Swept(k)[w]]

-----------------------------------------------------------------------------
(* The dialogs of the shell                                                *)

\* Session s raises a dialog.  A password dialog leaves the retry timer alone;
\* any other stops it, and starts it again when the error can be retried.
Shows(s, kind, retry) ==
  /\ asking' = (kind = "password")
  /\ armed' = IF kind = "password" THEN armed ELSE retry
  /\ strayDialog' = (strayDialog \/ sess[s].cut # "no")

ShowsNothing == UNCHANGED <<asking, armed, strayDialog>>

Ended(r, end) == [r EXCEPT !.pc = "done", !.waits = NoWs, !.pk = FALSE, !.secure = FALSE,
                             !.end = end]

\* Session s is over, where the connections are cn and the sockets k.
Over(s, end, cn, k) ==
  LET c == sess[s].conn IN
  /\ sess' = [sess EXCEPT ![s] = Ended(@, end)]
  /\ sock' = IF cn[c].open THEN k ELSE Left(s, k)
  /\ conn' = IF c = curConn \/ RunningOf(c) # {s} THEN cn ELSE [cn EXCEPT ![c] = NoConn]

\* An exception reaches the catch of start(): the session is over and its text
\* shown, with a retry unless checkIfRetry finds one of its words in the text.
Throws(s, cn, k, retry) == Over(s, "shown", cn, k) /\ Shows(s, "message", retry)

-----------------------------------------------------------------------------
(* The user                                                                *)

\* The remote page opens: globals.newConn and startConn.  The page before it
\* has closed its connection (Leave), so newConn finds none to close.
Connect ==
  /\ page = "home" /\ nconn < MaxConn
  /\ page' = "remote"
  /\ nconn' = nconn + 1 /\ curConn' = nconn'
  /\ StartFrom(nconn', conn, sess, sock)
  /\ UNCHANGED <<asking, armed, strayDialog, staleLogin>>

\* Mutant: close() of globals.js forgets to clear curConn.
LeaveKeepingConn ==
  /\ page = "remote"
  /\ conn' = ClosedConn(curConn) /\ sock' = Swept(ClosedSock(curConn))
  /\ sess' = ClosedSess(curConn)
  /\ page' = "home" /\ armed' = FALSE /\ asking' = FALSE
  /\ UNCHANGED <<curConn, nconn, nsess, strayDialog, staleLogin>>

\* The page is disposed of: globals.close, and the retry timer is cancelled.
Leave ==
  /\ page = "remote"
  /\ conn' = [ClosedConn(curConn) EXCEPT ![curConn] =
                IF RunningOf(curConn) = {} THEN NoConn ELSE @]
  /\ sock' = Swept(ClosedSock(curConn))
  /\ sess' = ClosedSess(curConn)
  /\ page' = "home" /\ curConn' = 0
  /\ armed' = FALSE /\ asking' = FALSE
  /\ UNCHANGED <<nconn, nsess, strayDialog, staleLogin>>

\* The retry timer fires: reconnect() on whatever connection is current.
RetryFires ==
  /\ armed /\ armed' = FALSE
  /\ IF curConn = 0 THEN UNCHANGED <<conn, nsess, sess, sock, asking>>
     ELSE /\ asking' = FALSE
          /\ StartFrom(curConn, ClosedConn(curConn), ClosedSess(curConn), ClosedSock(curConn))
  /\ UNCHANGED <<page, curConn, nconn, strayDialog, staleLogin>>

\* The user gives a password.  Without a connection, or without a challenge to
\* hash it with, the call throws and the dialog stays.
GivePassword ==
  LET w == conn[curConn].ws IN
  /\ asking /\ curConn # 0 /\ conn[curConn].hash # NoWs
  /\ conn' = [conn EXCEPT ![curConn].pw = TRUE]
  /\ asking' = FALSE /\ armed' = FALSE
  /\ sock' = SendLogin(sock, w)
  /\ staleLogin' = (staleLogin \/ GoesStale(w, conn[curConn].hash))
  /\ UNCHANGED <<page, curConn, nconn, nsess, sess, strayDialog>>

-----------------------------------------------------------------------------
(* The browser's sockets and the other ends.  What happens to a socket that *)
(* no session is going to read changes nothing and is left out.             *)

\* The server accepts the connection of session s.  If open() is still waited
\* for, the code behind that await runs at once.
IdSocketOpens(s) ==
  LET w == <<s, "id">> IN
  /\ sock[w].ready = "connecting"
  /\ sock' = [sock EXCEPT ![w].ready = "open", ![w].status = "open",
                          ![w].stage = IF sess[s].pc = "idOpen" THEN "paired" ELSE @]
  /\ sess' = IF sess[s].pc = "idOpen"
             THEN [sess EXCEPT ![s].pc = "idAnswer", ![s].waits = w] ELSE sess
  /\ UNCHANGED <<page, curConn, nconn, conn, nsess, asking, armed, strayDialog, staleLogin>>

\* connectRelay takes `_ws` only now, whoever owns it by now, asks for the
\* relay and begins secure(): with a public key it awaits its verification.
RelaySocketOpens(s) ==
  LET w == <<s, "relay">>
      opened == [Left(s, sock) EXCEPT ![w].ready = "open", ![w].status = "open",
                             ![w].stage = "paired"] IN
  /\ sess[s].pc = "relayOpen"
  /\ conn' = [conn EXCEPT ![sess[s].conn].ws = w]
  /\ IF sess[s].pk
     THEN sess' = [sess EXCEPT ![s].pc = "verify"] /\ sock' = opened
     ELSE /\ sess' = [sess EXCEPT ![s].pc = "loop", ![s].waits = w]
          /\ sock' = SendPublicKey(opened, w, 0)
  /\ UNCHANGED <<page, curConn, nconn, nsess, asking, armed, strayDialog, staleLogin>>

\* A connecting socket fails, or one closed while connecting is given up: the
\* open() still waited for is rejected with "Failed to connect", not retried.
SocketFails(s, kind) ==
  LET w == <<s, kind>> IN
  /\ Referred(w)
  /\ \/ sock[w].ready = "connecting"
     \/ sock[w].ready = "closing" /\ sess[s].pc = "idOpen" /\ kind = "id"
  /\ LET closed == Down(sock, w, "closed", "close") IN
     IF sess[s].pc = (IF kind = "id" THEN "idOpen" ELSE "relayOpen")
     THEN Throws(s, conn, closed, FALSE)
     ELSE ShowsNothing /\ sock' = closed /\ UNCHANGED <<conn, sess>>
  /\ UNCHANGED <<page, curConn, nconn, nsess, staleLogin>>

\* Mutant: the close handler leaves no reason behind.
SocketClosesSilently(s, kind) ==
  LET w == <<s, kind>> IN
  /\ sock[w].ready \in {"open", "closing"} /\ Referred(w)
  /\ sess[s].pc # "idOpen" \/ kind # "id"
  /\ sock' = Down(sock, w, "closed", "")
  /\ UNCHANGED <<page, curConn, nconn, conn, nsess, sess, asking, armed,
                 strayDialog, staleLogin>>

\* The close event, after close() or because the other end went away.
SocketCloses(s, kind) ==
  LET w == <<s, kind>> IN
  /\ sock[w].ready \in {"open", "closing"} /\ Referred(w)
  /\ sess[s].pc # "idOpen" \/ kind # "id"
  /\ sock' = Down(sock, w, "closed", "close")
  /\ UNCHANGED <<page, curConn, nconn, conn, nsess, sess, asking, armed,
                 strayDialog, staleLogin>>

\* hbbs answers the punch hole request.
AnswerArrives(s, m) ==
  LET w == <<s, "id">> IN
  /\ sock[w].ready = "open" /\ sock[w].stage = "paired"
  /\ Len(sock[w].buf) < MaxBuf
  /\ sock' = [sock EXCEPT ![w].buf = Append(@, m), ![w].stage = "in"]
  /\ UNCHANGED <<page, curConn, nconn, conn, nsess, sess, asking, armed,
                 strayDialog, staleLogin>>

\* The stages of the peer: it may first prove who it is and wait for the key;
\* it challenges; it answers a login; once that succeeded it sends anything.
PeerStep(from, m, keyed) ==
  CASE m = "signed_id"      -> IF from = "paired" THEN {"greeted"} ELSE {}
    [] m = "hash"           -> IF from = "paired" \/ (from = "greeted" /\ keyed)
                               THEN {"challenged"} ELSE {}
    [] m = "wrong_password" -> IF from = "asked" THEN {"challenged"} ELSE {}
    [] m = "login_error"    -> IF from = "asked" THEN {"challenged"} ELSE {}
    [] m = "peer_info"      -> IF from = "asked" THEN {"in"} ELSE {}
    [] m = "close_reason"   -> IF from \in {"challenged", "asked", "in"} THEN {from} ELSE {}
    [] OTHER                -> IF from = "in" THEN {from} ELSE {}

\* A message of the peer reaches the relay socket of session s; one that the
\* client's key does not open is lost in _recv_message.
PeerMessageArrives(s, m) ==
  LET w == <<s, "relay">> IN
  /\ sock[w].ready = "open" /\ Referred(w) /\ Len(sock[w].buf) < MaxBuf
  /\ \E to \in PeerStep(sock[w].stage, m, sock[w].pkey # -1) :
       sock' = [sock EXCEPT ![w].stage = to,
                            ![w].buf = IF InStep(sock, w) THEN Append(@, m) ELSE @]
  /\ UNCHANGED <<page, curConn, nconn, conn, nsess, sess, asking, armed,
                 strayDialog, staleLogin>>

-----------------------------------------------------------------------------
(* The sessions: one action per await that comes back                      *)

Polls(s) == sess[s].waits # NoWs
Inbox(s) == sock[sess[s].waits].buf
Popped(s) == [sock EXCEPT ![sess[s].waits].buf = Tail(@)]

\* Mutant: open() of the relay socket has no timeout.
OpenTimesOutAtHbbs(s) ==
  /\ sess[s].pc = "idOpen"
  /\ sess' = [sess EXCEPT ![s] = Ended(@, "shown")]
  /\ sock' = IF conn[sess[s].conn].open THEN sock ELSE Left(s, sock)
  /\ Shows(s, "message", TRUE)
  /\ UNCHANGED <<page, curConn, nconn, conn, nsess, staleLogin>>

\* open() has not come back in time; the socket itself is left connecting.
OpenTimesOut(s) ==
  LET c == sess[s].conn IN
  /\ sess[s].pc \in {"idOpen", "relayOpen"}
  /\ sess' = [sess EXCEPT ![s] = [Ended(@, "shown") EXCEPT !.gaveUp = sess[s].pc = "relayOpen"]]
  /\ sock' = IF conn[c].open THEN sock ELSE Left(s, sock)
  /\ Shows(s, "message", TRUE)
  /\ UNCHANGED <<page, curConn, nconn, conn, nsess, staleLogin>>

\* Mutant: next() goes on polling a socket that close() has closed.
NextRejectsWithReason(s) ==
  /\ Polls(s) /\ Inbox(s) = <<>> /\ sock[sess[s].waits].status # ""
  /\ Throws(s, conn, sock, TRUE)
  /\ UNCHANGED <<page, curConn, nconn, nsess, staleLogin>>

\* next() finds nothing and gives up: the socket is not open any more (the
\* reason is _status, which close() left empty), or nothing came in time.
NextRejects(s) ==
  LET status == sock[sess[s].waits].status IN
  /\ Polls(s) /\ Inbox(s) = <<>>
  /\ IF status = "" THEN Over(s, "hidden", conn, sock) /\ ShowsNothing
                     ELSE Throws(s, conn, sock, TRUE)
  /\ UNCHANGED <<page, curConn, nconn, nsess, staleLogin>>

\* _start has the answer of hbbs: it closes its socket and goes on to the
\* relay, or tells the user why it does not; it says nothing of a failure code
\* outside its switch, nor of a message that is no response.
AnswerRead(s) ==
  LET w == sess[s].waits
      m == Head(Inbox(s))
      closed == CloseWs(Popped(s), w)
      r == <<s, "relay">> IN
  /\ sess[s].pc = "idAnswer" /\ Inbox(s) # <<>>
  /\ CASE m \in {"relay_pk", "relay"} ->
            /\ sess' = [sess EXCEPT ![s].pc = "relayOpen", ![s].waits = NoWs,
                                    ![s].pk = (m = "relay_pk")]
            /\ sock' = [closed EXCEPT ![r] = [NoSock EXCEPT !.ready = "connecting"]]
            /\ ShowsNothing /\ UNCHANGED conn
       [] m = "refused" -> Throws(s, conn, closed, FALSE)
       [] OTHER         -> Over(s, "silent", conn, closed) /\ ShowsNothing
  /\ UNCHANGED <<page, curConn, nconn, nsess, staleLogin>>

\* secure() knows whether hbbs signed the key of this id.  If so it waits for
\* the peer's signed id; if not it sends an empty key and the loop begins.
\* Both use `_ws` as it is now.
KeyVerified(s) ==
  LET w == conn[sess[s].conn].ws IN
  /\ sess[s].pc = "verify"
  /\ \/ /\ sess' = [sess EXCEPT ![s].pc = "signed", ![s].waits = w]
        /\ ShowsNothing /\ UNCHANGED <<conn, sock>>
     \/ SendThrows(w) /\ \E retry \in BOOLEAN : Throws(s, conn, sock, retry)
     \/ /\ ~SendThrows(w) /\ ShowsNothing /\ UNCHANGED conn
        /\ sess' = [sess EXCEPT ![s].pc = "loop", ![s].pk = FALSE, ![s].waits = w]
        /\ sock' = SendPublicKey(sock, w, 0)
  /\ UNCHANGED <<page, curConn, nconn, nsess, staleLogin>>

\* Mutant: the secret key is set before the public_key message is sent, which
\* the peer then cannot read.
SecuredTooEarly(k, w, s) == [k EXCEPT ![w].key = s]

\* The sealed secret key of session s is sent, and what follows is encrypted.
Secured(k, w, s) == [SendPublicKey(k, w, s) EXCEPT ![w].key = s]

\* The first message of the peer.  Its id signed by that key: send the sealed
\* secret key and encrypt from now on.  Anything else, or a signature that
\* does not fit: send an empty key and go on without encryption.  What was signed
\* may fail to be decoded, and its key to be used, which throws.
SignedIdRead(s) ==
  LET w == conn[sess[s].conn].ws IN
  /\ sess[s].pc = "signed" /\ Inbox(s) # <<>>
  /\ \/ /\ SendThrows(w) \/ Head(Inbox(s)) = "signed_id"
        /\ \E retry \in BOOLEAN : Throws(s, conn, Popped(s), retry)
     \/ /\ ~SendThrows(w) /\ ShowsNothing /\ UNCHANGED conn
        /\ \E fits \in (IF Head(Inbox(s)) = "signed_id" THEN BOOLEAN ELSE {FALSE}) :
             /\ sess' = [sess EXCEPT ![s].pc = "loop", ![s].pk = FALSE, ![s].waits = w,
                                     ![s].secure = fits]
             /\ sock' = IF fits THEN Secured(Popped(s), w, s)
                                ELSE SendPublicKey(Popped(s), w, 0)
  /\ UNCHANGED <<page, curConn, nconn, nsess, staleLogin>>

\* msgLoop awaits the next message of `_ws`, which may have changed.
Loops(s) == [sess EXCEPT ![s].pc = "loop", ![s].waits = conn[sess[s].conn].ws]

\* Mutant: a challenge is only kept if the connection has none yet.
ChallengedOnce(c, w, has) ==
  [conn EXCEPT ![c].hash = IF @ = NoWs THEN w ELSE @, ![c].pw = has]

\* Connection c has the challenge of socket w, and a password or not.
Challenged(c, w, has) == [conn EXCEPT ![c].hash = w, ![c].pw = has]

\* The challenge: a password answers it at once; without one the user is asked
\* and a login without password is sent meanwhile.  _start has looked for a
\* stored or shared password; the model chooses here whether it found one.
HashRead(s) ==
  LET c == sess[s].conn
      w == conn[c].ws IN
  /\ \E has \in {TRUE, conn[c].pw} :
       LET cn == Challenged(c, sess[s].waits, has) IN
       /\ IF SendThrows(w)
          THEN \E retry \in BOOLEAN : Throws(s, cn, Popped(s), retry)
          ELSE /\ sess' = Loops(s) /\ sock' = SendLogin(Popped(s), w) /\ conn' = cn
               /\ IF has THEN ShowsNothing ELSE Shows(s, "password", FALSE)
       /\ staleLogin' = (staleLogin \/ (has /\ GoesStale(w, sess[s].waits)))
  /\ UNCHANGED <<page, curConn, nconn, nsess>>

\* Mutant: a login error can be retried.
LoginAnswerReadRetrying(s, m) ==
  LET c == sess[s].conn IN
  /\ sess' = Loops(s) /\ sock' = Popped(s)
  /\ \/ /\ m = "wrong_password" /\ conn' = [conn EXCEPT ![c].pw = FALSE]
        /\ Shows(s, "password", FALSE)
     \/ m = "login_error" /\ Shows(s, "message", TRUE) /\ UNCHANGED conn
     \/ m = "peer_info" /\ Shows(s, "message", FALSE) /\ UNCHANGED conn
  /\ UNCHANGED <<page, curConn, nconn, nsess, staleLogin>>

\* What the peer says to a login: ask again, tell the error and wait, or begin.
LoginAnswerRead(s, m) ==
  LET c == sess[s].conn IN
  /\ sess' = Loops(s) /\ sock' = Popped(s)
  /\ \/ /\ m = "wrong_password" /\ conn' = [conn EXCEPT ![c].pw = FALSE]
        /\ Shows(s, "password", FALSE)
     \/ m = "login_error" /\ Shows(s, "message", FALSE) /\ UNCHANGED conn
     \/ m = "peer_info" /\ Shows(s, "message", FALSE) /\ UNCHANGED conn
  /\ UNCHANGED <<page, curConn, nconn, nsess, staleLogin>>

\* A video frame; before loadVp9 has called back with the decoder, which may
\* take any time, the call on undefined throws.
FrameRead(s) ==
  /\ \/ sess' = Loops(s) /\ sock' = Popped(s) /\ ShowsNothing /\ UNCHANGED conn
     \/ Throws(s, conn, Popped(s), TRUE)
  /\ UNCHANGED <<page, curConn, nconn, nsess, staleLogin>>

\* A permission handleMisc has no name for ends the loop without a word.
PermissionRead(s) ==
  /\ Over(s, "silent", conn, Popped(s)) /\ ShowsNothing
  /\ UNCHANGED <<page, curConn, nconn, nsess, staleLogin>>

CloseReasonRead(s) ==
  LET c == sess[s].conn IN
  /\ \E retry \in BOOLEAN : Shows(s, "message", retry)
  /\ conn' = ClosedConn(c)
  /\ sock' = Left(s, CloseWs(Popped(s), conn[c].ws))
  /\ sess' = [ClosedSess(c) EXCEPT ![s] = Ended(sess[s], "shown")]
  /\ UNCHANGED <<page, curConn, nconn, nsess, staleLogin>>

\* A compressed payload is unpacked before the loop goes on; all other
\* messages leave the session as it is.
OtherRead(s, m) ==
  /\ sess' = IF m = "clip" THEN [sess EXCEPT ![s].pc = "unzip", ![s].waits = NoWs]
                           ELSE Loops(s)
  /\ sock' = Popped(s) /\ ShowsNothing
  /\ UNCHANGED <<page, curConn, nconn, conn, nsess, staleLogin>>

\* A test_delay is answered, on a `_ws` that a reconnection has put there.
ReplyThrows(s) ==
  /\ SendThrows(conn[sess[s].conn].ws)
  /\ \E retry \in BOOLEAN : Throws(s, conn, Popped(s), retry)
  /\ UNCHANGED <<page, curConn, nconn, nsess, staleLogin>>

MessageRead(s) ==
  /\ sess[s].pc = "loop" /\ Inbox(s) # <<>>
  /\ LET m == Head(Inbox(s)) IN
     \/ m = "hash" /\ HashRead(s)
     \/ LoginAnswerRead(s, m)
     \/ m = "video_frame" /\ FrameRead(s)
     \/ m = "permission" /\ PermissionRead(s)
     \/ m = "close_reason" /\ CloseReasonRead(s)
     \/ /\ m \in IdAnswers \cup {"signed_id", "clip", "other"}
        /\ OtherRead(s, m)
     \/ m = "other" /\ ReplyThrows(s)

Unpacked(s) ==
  /\ sess[s].pc = "unzip" /\ sess' = Loops(s)
  /\ UNCHANGED <<page, curConn, nconn, conn, nsess, sock, asking, armed,
                 strayDialog, staleLogin>>

\* One round of next(): it takes a message, gives up, or (time) comes back.
Poll(s) == AnswerRead(s) \/ SignedIdRead(s) \/ MessageRead(s) \/ NextRejects(s)

Browser(s) ==
  \/ IdSocketOpens(s) \/ RelaySocketOpens(s)
  \/ \E kind \in {"id", "relay"} : SocketFails(s, kind) \/ SocketCloses(s, kind)
  \/ \E m \in Sends(s, sess[s]) \cap IdAnswers : AnswerArrives(s, m)
  \/ \E m \in Sends(s, sess[s]) \cap PeerMessages : PeerMessageArrives(s, m)

Session(s) == Poll(s) \/ OpenTimesOut(s) \/ KeyVerified(s) \/ Unpacked(s)

Next ==
  \/ Connect \/ Leave \/ RetryFires \/ GivePassword
  \/ \E s \in Sess : Browser(s) \/ Session(s)

Spec == Init /\ [][Next]_vars

\* The timers of a session fire and the promises it awaits are settled: one
\* such step is enabled as long as the session runs.  The user, hbbs, hbbr and
\* the peer promise nothing.
Fairness == \A s \in Sess : WF_vars(Session(s))

FairSpec == Spec /\ Fairness
-----------------------------------------------------------------------------
TypeOK ==
  /\ page \in {"home", "remote"} /\ curConn \in Conns \cup {0}
  /\ (page = "remote") = (curConn # 0)
  /\ nconn \in 0..MaxConn /\ nsess \in 0..MaxSess
  /\ conn \in [Conns -> ConnType] /\ sess \in [Sess -> SessType]
  /\ sock \in [Ws -> SockType]
  /\ asking \in BOOLEAN
  /\ armed \in BOOLEAN /\ strayDialog \in BOOLEAN /\ staleLogin \in BOOLEAN

\* Two sessions of one Connection would read each other's messages from the
\* `_ws` they share.  reconnect() is only called by the retry timer, and that
\* only runs after a dialog of a session that is over: so no two sessions run
\* at once, unless a session whose connection was already closed has raised a
\* dialog (connection.ts 49-59, 377-380; main.dart.js 87594-87599).
OneSessionUnlessStray ==
  ~strayDialog => \A s, t \in Sess :
    sess[s].pc \in Running /\ sess[t].pc \in Running /\ sess[s].conn = sess[t].conn => s = t

\* close() leaves nothing of a connection behind: the timer is cleared, and no
\* socket of its sessions is open.  It can only miss the relay socket of a
\* session that was opening it or had the answer in hand, or had given up on
\* it (connection.ts 146-149, 338-343).
ClosedIsCutOff ==
  \A c \in Conns : ~conn[c].open =>
    /\ ~conn[c].timer
    /\ \A s \in Sess : sess[s].conn = c /\ sess[s].alone /\ sess[s].cut # "escapes" =>
         /\ sock[<<s, "id">>].ready \notin {"connecting", "open"}
         /\ sess[s].gaveUp \/ sock[<<s, "relay">>].ready \notin {"connecting", "open"}

\* What session s reads next is something the client has no case for: an answer
\* of hbbs that is neither a relay nor a failure it knows, or a permission it has
\* no name for.
HasNoCase(s) ==
  \/ /\ sess[s].pc = "idAnswer" /\ Inbox(s) # <<>>
     /\ Head(Inbox(s)) \notin {"relay_pk", "relay", "refused"}
  \/ sess[s].pc = "loop" /\ Inbox(s) # <<>> /\ Head(Inbox(s)) = "permission"

\* A session that comes to its end says so in a dialog.  It fails to in two cases
\* only: the message it reads is one the client has no case for
\* (connection.ts 101-131, 525), or its connection was closed and left it an empty
\* _status to be rejected with, an error without text, which msgbox drops
\* (globals.js 23, websock.ts 136-139).
FailureIsShown ==
  [][\A s \in Sess : sess[s].pc \in Running /\ sess'[s].pc = "done" =>
       sess'[s].end = "shown" \/ HasNoCase(s) \/ sess[s].cut # "no"]_sess

\* What connection_ready tells the user is true: in a secured session the
\* relay socket uses the secret key of this session and the peer has that very
\* key, unless the socket was lost before it came; in another session neither
\* end encrypts (connection.ts 155-156, 183-234).
SecureIsMutual ==
  \A s \in Sess :
    sess[s].pc \in {"loop", "unzip"} /\ sess[s].alone /\ sess[s].cut = "no" =>
      LET w == <<s, "relay">> IN
      IF sess[s].secure
      THEN /\ sock[w].key = s
           /\ sock[w].pkey = s \/ (sock[w].pkey = -1 /\ sock[w].ready = "closed")
      ELSE sock[w].key = 0 /\ sock[w].pkey \in {0, -1}

\* A password is only sent on the socket whose challenge it was hashed with,
\* although _hash outlives the session that set it; a stray dialog can break
\* that too (connection.ts 241-250, 358-375).
LoginAnswersItsChallenge == ~strayDialog => ~staleLogin

\* Every start comes to an end: the session reaches its message loop or is
\* over, whatever hbbs, hbbr, the peer and the user do (the timeouts of open()
\* and next(), websock.ts 81-85 and 136-144).
SessionsSettle == \A s \in Sess : sess[s].pc \in Starting ~> sess[s].pc \notin Starting

\* A session whose connection is closed reads what its socket had received and
\* ends, unless close() missed it or another session of the connection began.
CutSessionsEnd ==
  \A s \in Sess : sess[s].pc \in Running /\ sess[s].cut = "ends"
                    ~> sess[s].pc = "done" \/ ~sess[s].alone
=============================================================================
