------------------------ MODULE WebClientSocketProofs ------------------------
(* What WebClient promises of its sockets, its dialogs and its keys, for any *)
(* number of connections and sessions: a failed session shows why or is      *)
(* followed by another, a closed connection leaves no live socket, and a key *)
(* is used on both ends of a socket or on neither.                           *)
EXTENDS WebClientProofs

-----------------------------------------------------------------------------
(* Sockets: what the calls leave as it was                                 *)

Lives(k, w) == k[w].ready \in {"connecting", "open"}

\* It has no status: close() left none, or it never had one.
Mute(k, w) == k[w].status = ""

\* From the sockets k to j nothing happens to socket w but that it is read, or
\* takes a message if it can.
Line(k, j, w) == /\ j[w].ready = k[w].ready /\ j[w].status = k[w].status
                 /\ k[w].buf = <<>> => j[w].buf = <<>>

\* Nor does either end change its key.
Same(k, j, w) == Line(k, j, w) /\ j[w].key = k[w].key /\ j[w].pkey = k[w].pkey

LEMMA SameTrans ==
  ASSUME NEW k, NEW j, NEW h, NEW w
  PROVE  /\ Same(k, k, w)
         /\ Same(k, j, w) /\ Same(j, h, w) => Same(k, h, w)
         /\ Line(k, j, w) /\ Line(j, h, w) => Line(k, h, w)
         /\ Same(k, j, w) => Line(k, j, w)
         /\ j[w] = k[w] => Same(k, j, w)
  BY DEF Same, Line

LEMMA NoSuchWs == NoWs \notin Ws
  BY DEF NoWs, Ws, Sess

LEMMA DownFields ==
  ASSUME NEW k \in SockFs, NEW w \in AnyWs, NEW r, NEW st, NEW j, j = Down(k, w, r, st),
         NEW v \in Ws
  PROVE  /\ v # w => j[v] = k[v]
         /\ v = w => /\ j[v].ready = r /\ j[v].status = st /\ j[v].pkey = -1
                     /\ j[v].key = k[v].key /\ j[v].buf = k[v].buf
  <1>1. PICK x : x = [k[v] EXCEPT !.ready = r, !.status = st, !.pkey = -1, !.stage = "none"]
    OBVIOUS
  <1>2. k[v] \in SockType BY DEF SockFs
  <1>3. x.ready = r /\ x.status = st /\ x.pkey = -1 /\ x.key = k[v].key /\ x.buf = k[v].buf
    BY ONLY <1>1, <1>2 DEF SockType
  <1>4. CASE v # w
    <2>1. j[v] = k[v]
      BY <1>4 DEF Down, SockFs
    <2>2. QED BY <1>4, <2>1
  <1>5. CASE v = w
    <2>1. j[v] = x
      BY <1>1, <1>5 DEF Down, SockFs
    <2>2. QED BY <1>3, <1>5, <2>1
  <1>6. QED BY <1>4, <1>5

LEMMA CloseWsFields ==
  ASSUME NEW k \in SockFs, NEW w \in AnyWs, NEW j, j = CloseWs(k, w), NEW v \in Ws
  PROVE  /\ v # w => j[v] = k[v]
         /\ v = w => /\ j[v].ready \notin {"connecting", "open"}
                     /\ j[v].pkey = -1 /\ j[v].key = k[v].key /\ j[v].buf = k[v].buf
  <1>1. CASE w = NoWs
    <2>1. j = k BY <1>1 DEF CloseWs
    <2>2. v # w BY <1>1, NoSuchWs
    <2>3. QED BY <2>1, <2>2
  <1>2. CASE w # NoWs
    <2>1. PICK r : r = IF k[w].ready \in {"connecting", "open"} THEN "closing" ELSE k[w].ready
      OBVIOUS
    <2>2. j = Down(k, w, r, "") /\ r \notin {"connecting", "open"}
      BY <1>2, <2>1 DEF CloseWs
    <2>3. PICK st : st = "" OBVIOUS
    <2>4. j = Down(k, w, r, st) BY <2>2, <2>3
    <2>5. /\ v # w => j[v] = k[v]
          /\ v = w => /\ j[v].ready = r /\ j[v].status = st /\ j[v].pkey = -1
                      /\ j[v].key = k[v].key /\ j[v].buf = k[v].buf
      BY <2>4, DownFields
    <2>6. QED BY <2>2, <2>3, <2>5
  <1>3. QED BY <1>1, <1>2

LEMMA SendPublicKeyFields ==
  ASSUME NEW k \in SockFs, NEW w \in AnyWs, NEW x, NEW v \in Ws
  PROVE  /\ v # w => SendPublicKey(k, w, x)[v] = k[v]
         /\ Line(k, SendPublicKey(k, w, x), v)
         /\ v = w => /\ SendPublicKey(k, w, x)[v].key = k[v].key
                     /\ SendPublicKey(k, w, x)[v].pkey =
                          IF v[2] = "relay" /\ k[v].ready = "open" /\ k[v].pkey = -1
                          THEN x ELSE k[v].pkey
  <1>1. CASE ~(w[2] = "relay" /\ k[w].ready = "open" /\ k[w].pkey = -1)
    <2>1. SendPublicKey(k, w, x) = k BY <1>1 DEF SendPublicKey
    <2>2. QED BY <1>1, <2>1 DEF Line
  <1>2. CASE w[2] = "relay" /\ k[w].ready = "open" /\ k[w].pkey = -1
    <2>1. SendPublicKey(k, w, x) = [k EXCEPT ![w].pkey = x]
      BY <1>2 DEF SendPublicKey
    <2>2. PICK y : y = [k[v] EXCEPT !.pkey = x] OBVIOUS
    <2>3. k[v] \in SockType BY DEF SockFs
    <2>4. /\ y.pkey = x /\ y.key = k[v].key /\ y.ready = k[v].ready
          /\ y.status = k[v].status /\ y.buf = k[v].buf
      BY ONLY <2>2, <2>3 DEF SockType
    <2>5. SendPublicKey(k, w, x)[v] = IF v = w THEN y ELSE k[v]
      BY <2>1, <2>2 DEF SockFs
    <2>6. QED BY <1>2, <2>4, <2>5 DEF Line
  <1>3. QED BY <1>1, <1>2

LEMMA SecuredFields ==
  ASSUME NEW k \in SockFs, NEW w \in AnyWs, NEW s \in Sess, NEW v \in Ws
  PROVE  /\ v # w => Secured(k, w, s)[v] = k[v]
         /\ Line(k, Secured(k, w, s), v)
         /\ v = w => /\ Secured(k, w, s)[v].key = s
                     /\ Secured(k, w, s)[v].pkey =
                          IF v[2] = "relay" /\ k[v].ready = "open" /\ k[v].pkey = -1
                          THEN s ELSE k[v].pkey
  <1>1. PICK p \in SockFs : p = SendPublicKey(k, w, s) BY SendPublicKeyType
  <1>2. PICK y : y = [p[v] EXCEPT !.key = s] OBVIOUS
  <1>3. p[v] \in SockType BY DEF SockFs
  <1>4. /\ y.key = s /\ y.pkey = p[v].pkey /\ y.ready = p[v].ready
        /\ y.status = p[v].status /\ y.buf = p[v].buf
    BY ONLY <1>2, <1>3 DEF SockType
  <1>5. Secured(k, w, s)[v] = IF v = w THEN y ELSE p[v]
    BY <1>1, <1>2 DEF Secured, SockFs
  <1>6. /\ v # w => p[v] = k[v]
        /\ Line(k, p, v)
        /\ v = w => p[v].pkey = IF v[2] = "relay" /\ k[v].ready = "open" /\ k[v].pkey = -1
                                THEN s ELSE k[v].pkey
    BY <1>1, SendPublicKeyFields
  <1>7. Line(k, Secured(k, w, s), v)
    BY <1>4, <1>5, <1>6 DEF Line
  <1>8. QED BY <1>4, <1>5, <1>6, <1>7

LEMMA SendLoginSame ==
  ASSUME NEW k \in SockFs, NEW w, NEW v \in Ws
  PROVE  Same(k, SendLogin(k, w), v)
  <1>1. CASE SendLogin(k, w) = k
    BY <1>1, SameTrans
  <1>2. CASE SendLogin(k, w) = [k EXCEPT ![w].stage = "asked"]
    <2>1. PICK y : y = [k[v] EXCEPT !.stage = "asked"] OBVIOUS
    <2>2. k[v] \in SockType BY DEF SockFs
    <2>3. /\ y.key = k[v].key /\ y.pkey = k[v].pkey /\ y.ready = k[v].ready
          /\ y.status = k[v].status /\ y.buf = k[v].buf
      BY ONLY <2>1, <2>2 DEF SockType
    <2>4. SendLogin(k, w)[v] = IF v = w THEN y ELSE k[v]
      BY <1>2, <2>1 DEF SockFs
    <2>5. QED BY <2>3, <2>4 DEF Same, Line
  <1>3. QED BY <1>1, <1>2 DEF SendLogin

LEMMA PoppedSame ==
  ASSUME TInv, NEW s \in Sess, Inbox(s) # <<>>, NEW v \in Ws
  PROVE  Same(sock, Popped(s), v)
  <1>1. sock \in SockFs BY Pointers
  <1>2. PICK y : y = [sock[v] EXCEPT !.buf = Tail(@)] OBVIOUS
  <1>3. sock[v] \in SockType BY <1>1 DEF SockFs
  <1>4. /\ y.key = sock[v].key /\ y.pkey = sock[v].pkey /\ y.ready = sock[v].ready
        /\ y.status = sock[v].status
    BY ONLY <1>2, <1>3 DEF SockType
  <1>5. Popped(s)[v] = IF v = sess[s].waits THEN y ELSE sock[v]
    BY <1>1, <1>2 DEF Popped, SockFs
  <1>6. v = sess[s].waits => sock[v].buf # <<>>
    BY DEF Inbox
  <1>7. QED BY <1>4, <1>5, <1>6 DEF Same, Line

\* One socket gets the value x, the others stay.
LEMMA OneSocketFields ==
  ASSUME NEW k \in SockFs, NEW w, NEW x, NEW v \in Ws
  PROVE  [k EXCEPT ![w] = x][v] = IF v = w THEN x ELSE k[v]
  BY DEF SockFs

\* The garbage: a socket can be forgotten, but none becomes live by that.
LEMMA GarbageFields ==
  ASSUME NEW k \in SockFs, NEW j, NEW v \in Ws,
         \/ j = Swept(k)
         \/ \E s \in Sess : j = Left(s, k)
  PROVE  /\ j[v] = k[v] \/ j[v] = Garbage(k[v])
         /\ j[v] = Garbage(k[v]) => /\ j[v].key = 0 /\ j[v].pkey = -1 /\ j[v].buf = <<>>
                                    /\ j[v].ready \in {"none", "connecting", "open", "closed"}
         /\ Lives(j, v) => Lives(k, v)
         /\ k[v].buf = <<>> => j[v].buf = <<>>
  <1>1. j[v] = k[v] \/ j[v] = Garbage(k[v])
    BY DEF Left, Swept
  <1>2. PICK g : g = Garbage(k[v]) OBVIOUS
  <1>3. PICK r : r = IF k[v].ready \in {"none", "connecting", "open"} THEN k[v].ready ELSE "closed"
    OBVIOUS
  <1>4. g = [NoSock EXCEPT !.ready = r]
    BY <1>2, <1>3 DEF Garbage
  <1>5. g.key = 0 /\ g.pkey = -1 /\ g.buf = <<>> /\ g.ready = r
    BY <1>4 DEF NoSock
  <1>6. QED BY <1>1, <1>2, <1>3, <1>5 DEF Lives

\* Nothing that is still read is garbage.
LEMMA LeftKeeps ==
  ASSUME NEW k \in SockFs, NEW s \in Sess, NEW v \in Ws,
         v[1] # s \/ \E t \in Sess \ {s} : Reads(t, v)
  PROVE  Left(s, k)[v] = k[v]
  BY DEF Left

LEMMA SweptKeeps ==
  ASSUME NEW k \in SockFs, NEW v \in Ws, NEW t \in Sess, Reads(t, v)
  PROVE  Swept(k)[v] = k[v]
  BY DEF Swept, Referred

-----------------------------------------------------------------------------
(* What a step can do: eight kinds                                         *)

\* A session that has its relay socket.
Past == {"verify", "signed", "loop", "unzip"}

\* A session polls the socket to hbbs, or one that was `_ws`, and only in the
\* states that poll.
Polling(s) ==
  /\ sess[s].waits # NoWs => /\ sess[s].pc \in {"idAnswer", "signed", "loop"}
                             /\ sess[s].waits[1] \in 1..nsess
  /\ sess[s].pc = "idAnswer" => sess[s].waits = <<s, "id">>

ConnStays(d) == /\ conn'[d].ws = conn[d].ws /\ conn'[d].open = conn[d].open
                /\ conn'[d].timer = conn[d].timer

SessStays(t) == /\ sess'[t].conn = sess[t].conn /\ sess'[t].cut = sess[t].cut
                /\ sess'[t].alone = sess[t].alone /\ sess'[t].gaveUp = sess[t].gaveUp
                /\ sess'[t].end = sess[t].end

\* A socket opens, is lost, or takes a message.
Weathers(w) ==
  /\ Mute(sock', w) => Mute(sock, w)
  /\ Lives(sock', w) => Lives(sock, w)
  /\ sock'[w].key = sock[w].key
  /\ \/ sock'[w].pkey = sock[w].pkey /\ (sock'[w].ready = sock[w].ready \/ w[2] = "id")
     \/ sock'[w].pkey = -1 /\ sock'[w].ready = "closed"
  /\ sock[w].buf = <<>> /\ ~Lives(sock, w) => sock'[w].buf = <<>>

\* Only sockets change, and the shell.
Still ==
  /\ UNCHANGED <<curConn, nconn, nsess, sess>>
  /\ \A d \in Conns : ConnStays(d)
  /\ \A w \in Ws : Weathers(w)

\* Session s goes on in secure() or in its message loop, where fits tells
\* whether it begins to encrypt.
SendsKey(s, w, fits) ==
  /\ fits => sess'[s].secure
  /\ sess'[s].secure => fits \/ sess[s].secure
  /\ sock'[w].key = IF fits THEN s ELSE sock[w].key
  /\ sock'[w].pkey = IF w[2] = "relay" /\ sock[w].ready = "open" /\ sock[w].pkey = -1
                     THEN (IF fits THEN s ELSE 0) ELSE sock[w].pkey

Moves(s) ==
  /\ Settled
  /\ sess[s].pc \in Past /\ sess'[s].pc \in {"signed", "loop", "unzip"}
  /\ \A t \in Sess \ {s} : sess'[t] = sess[t]
  /\ SessStays(s)
  /\ sess'[s].waits = IF sess'[s].pc = "unzip" THEN NoWs ELSE conn[sess[s].conn].ws
  /\ sess'[s].pc = "signed" => sess'[s].secure = sess[s].secure
  /\ \A d \in Conns : ConnStays(d)
  /\ \A w \in Ws : Line(sock, sock', w)
  /\ \A w \in Ws : w # conn[sess[s].conn].ws => Same(sock, sock', w)
  /\ \A w \in Ws : w = conn[sess[s].conn].ws =>
       \/ /\ Same(sock, sock', w) /\ sess'[s].secure = sess[s].secure
          /\ \/ sess[s].pc = "verify" /\ sess'[s].pc = "signed"
             \/ sess[s].pc \in {"loop", "unzip"} /\ sess'[s].pc \in {"loop", "unzip"}
       \/ /\ sess[s].pc \in {"verify", "signed"} /\ sess'[s].pc = "loop"
          /\ \E fits \in BOOLEAN : SendsKey(s, w, fits)

\* Session s is over.
Finishes(s) ==
  /\ Settled
  /\ sess[s].pc \in Running /\ sess'[s].pc = "done" /\ sess'[s].waits = NoWs
  /\ sess'[s].conn = sess[s].conn /\ sess'[s].cut = sess[s].cut /\ sess'[s].alone = sess[s].alone
  /\ \A t \in Sess \ {s} : sess'[t] = sess[t]
  /\ sess'[s].end = "hidden" => sess[s].waits # NoWs /\ Mute(sock, sess[s].waits)
  /\ sess'[s].end \in {"shown", "hidden"} \/ HasNoCase(s)
  /\ \A d \in Conns : \/ ConnStays(d)
                      \/ /\ d = sess[s].conn /\ d # curConn /\ RunningOf(d) = {s}
                         /\ conn'[d] = NoConn
  /\ \A w \in Ws : /\ Lives(sock', w) => Lives(sock, w)
                   /\ w[1] # s => Same(sock, sock', w)
                   /\ Mute(sock', w) => \/ Mute(sock, w)
                                        \/ sess[s].pc = "idAnswer" /\ w = <<s, "id">>
                                        \/ \A t \in Sess \ {s} : ~Reads(t, w)
  /\ Lives(sock', <<s, "relay">>) =>
       \/ sess'[s].gaveUp
       \/ /\ sess[s].pc # "relayOpen"
          /\ sess'[s].gaveUp = sess[s].gaveUp \/ sess[s].pc = "idOpen"

\* The socket to hbbs opens for session s.
Opens(s) ==
  /\ Settled
  /\ sess[s].pc = "idOpen" /\ sess'[s].pc = "idAnswer" /\ sess'[s].waits = <<s, "id">>
  /\ SessStays(s) /\ sess'[s].secure = sess[s].secure
  /\ \A t \in Sess \ {s} : sess'[t] = sess[t]
  /\ \A d \in Conns : ConnStays(d)
  /\ \A w \in Ws : w # <<s, "id">> => sock'[w] = sock[w]
  /\ Lives(sock, <<s, "id">>) /\ sock'[<<s, "id">>].status = "open"

\* hbbs refers session s to a relay.
Refers(s) ==
  /\ Settled
  /\ sess[s].pc = "idAnswer" /\ sess'[s].pc = "relayOpen" /\ sess'[s].waits = NoWs
  /\ sock[<<s, "id">>].buf # <<>>
  /\ SessStays(s) /\ sess'[s].secure = sess[s].secure
  /\ \A t \in Sess \ {s} : sess'[t] = sess[t]
  /\ \A d \in Conns : ConnStays(d)
  /\ \A w \in Ws : w[1] # s => sock'[w] = sock[w]
  /\ ~Lives(sock', <<s, "id">>)
  /\ sock'[<<s, "relay">>].key = 0 /\ sock'[<<s, "relay">>].pkey = -1

\* The relay socket of session s opens and becomes `_ws`.
Relays(s) ==
  /\ Settled
  /\ sess[s].pc = "relayOpen"
  /\ \/ sess'[s].pc = "verify" /\ sess'[s].waits = sess[s].waits
     \/ sess'[s].pc = "loop" /\ sess'[s].waits = <<s, "relay">>
  /\ SessStays(s) /\ sess'[s].secure = sess[s].secure
  /\ \A t \in Sess \ {s} : sess'[t] = sess[t]
  /\ \A d \in Conns : \/ ConnStays(d) /\ d # sess[s].conn
                      \/ /\ d = sess[s].conn /\ conn'[d].ws = <<s, "relay">>
                         /\ conn'[d].open = conn[d].open /\ conn'[d].timer = conn[d].timer
  /\ \A w \in Ws : /\ w[1] # s => sock'[w] = sock[w]
                   /\ w # <<s, "relay">> =>
                        /\ Lives(sock', w) => Lives(sock, w)
                        /\ Mute(sock', w) => \/ Mute(sock, w)
                                             \/ \A t \in Sess \ {s} : ~Reads(t, w)
  /\ sock'[<<s, "relay">>].ready = "open" /\ sock'[<<s, "relay">>].status = "open"
  /\ sock'[<<s, "relay">>].key \in {0, sock[<<s, "relay">>].key}
  /\ sess'[s].pc = "verify" => sock'[<<s, "relay">>].pkey \in {-1, sock[<<s, "relay">>].pkey}
  /\ sess'[s].pc = "loop" => sock'[<<s, "relay">>].pkey \in {0, sock[<<s, "relay">>].pkey}

\* What close() of connection c does to session t.
CutBy(c, t) ==
  IF t \in RunningOf(c) /\ sess[t].cut = "no"
  THEN sess'[t].cut = IF OpensRelay(t) THEN "escapes" ELSE "ends"
  ELSE sess'[t].cut = sess[t].cut

\* What it does to the sockets, when session e will read no more.
ShutSockets(c, e, w) ==
  /\ Lives(sock', w) => Lives(sock, w)
  /\ sock[w].buf = <<>> => sock'[w].buf = <<>>
  /\ w = conn[c].ws => ~Lives(sock', w)
  /\ w # conn[c].ws /\ (\E t \in Sess \ {e} : Reads(t, w)) => Same(sock, sock', w)

\* Connection c is closed, by session e or (0) by the shell.
Shuts(c, e) ==
  /\ UNCHANGED <<nconn, nsess>> /\ (curConn' = curConn \/ (curConn' = 0 /\ c = curConn))
  /\ e \in Sess => /\ sess[e].pc = "loop" /\ sess[e].conn = c
                   /\ sess'[e].pc = "done" /\ sess'[e].waits = NoWs /\ sess'[e].conn = c
                   /\ sess'[e].cut = sess[e].cut /\ sess'[e].alone = sess[e].alone
                   /\ sess'[e].gaveUp = sess[e].gaveUp /\ sess'[e].end = "shown"
  /\ \A t \in Sess \ {e} :
       /\ sess'[t].pc = sess[t].pc /\ sess'[t].conn = sess[t].conn
       /\ sess'[t].waits = sess[t].waits /\ sess'[t].alone = sess[t].alone
       /\ sess'[t].gaveUp = sess[t].gaveUp /\ sess'[t].secure = sess[t].secure
       /\ sess'[t].end = sess[t].end /\ CutBy(c, t)
  /\ \A d \in Conns : \/ d # c /\ ConnStays(d)
                      \/ /\ d = c /\ ~conn'[d].open /\ ~conn'[d].timer
                         /\ \/ conn'[d].ws = conn[d].ws
                            \/ conn'[d].ws = NoWs /\ RunningOf(d) = {}
  /\ \A w \in Ws : ShutSockets(c, e, w)

\* Session s starts on connection c, whose sessions were cut off before.
Begins(s, c) ==
  /\ s = nsess + 1 /\ nsess' = s
  /\ curConn' = c /\ (curConn = 0 \/ curConn = c)
  /\ nconn <= nconn' /\ c <= nconn' /\ nconn' \in Nat
  /\ \A d \in Conns : d > nconn' => d > nconn
  /\ sess'[s].pc = "idOpen" /\ sess'[s].conn = c /\ sess'[s].waits = NoWs
  /\ sess'[s].cut = "no" /\ ~sess'[s].secure /\ ~sess'[s].gaveUp /\ sess'[s].end = "none"
  /\ sess'[s].alone = (RunningOf(c) = {})
  /\ \A t \in Sess \ {s} :
       \/ /\ sess[t].pc = "done" /\ sess'[t].pc = "done" /\ sess'[t].waits = NoWs
          /\ sess'[t].conn = 0 /\ sess'[t].end = "none"
       \/ /\ sess'[t].pc = sess[t].pc /\ sess'[t].conn = sess[t].conn
          /\ sess'[t].waits = sess[t].waits /\ sess'[t].gaveUp = sess[t].gaveUp
          /\ sess'[t].secure = sess[t].secure /\ sess'[t].end \in {sess[t].end, "none"}
          /\ sess'[t].alone = (sess[t].alone /\ t \notin RunningOf(c))
          /\ t \in RunningOf(c) => sess'[t].cut # "no"
          /\ t \notin RunningOf(c) => sess'[t].cut = sess[t].cut
          /\ sess'[t].cut = "no" => sess[t].cut = "no"
  /\ \A d \in Conns : \/ d # c /\ ConnStays(d)
                      \/ d = c /\ conn'[d].ws = <<s, "id">> /\ conn'[d].open
  /\ \A w \in Ws : w # <<s, "id">> => ShutSockets(c, 0, w)

-----------------------------------------------------------------------------
(* Which step is of which kind: the sockets and the servers                *)

LEMMA LinesLast ==
  ASSUME Settled, conn' = conn, sess' = sess, \A w \in Ws : Weathers(w)
  PROVE  Still
  BY DEF Settled, Still, ConnStays

LEMMA SameWeathers ==
  ASSUME NEW w, Same(sock, sock', w)
  PROVE  Weathers(w)
  BY DEF Same, Line, Weathers, Lives, Mute

LEMMA IdSocketOpensKind ==
  ASSUME TInv, NEW s \in Sess, IdSocketOpens(s)
  PROVE  Still \/ Opens(s)
  <1>1. PICK w \in Ws : w = <<s, "id">> /\ w[2] = "id"
    BY Pointers
  <1>2. sock[w] \in SockType /\ sock \in SockFs /\ sess[s] \in SessType /\ sess \in SessFs
    BY Pointers DEF SockFs
  <1>3. PICK x : x = [sock[w] EXCEPT !.ready = "open", !.status = "open",
                          !.stage = IF sess[s].pc = "idOpen" THEN "paired" ELSE @]
    OBVIOUS
  <1>4. /\ x.ready = "open" /\ x.status = "open" /\ x.key = sock[w].key
        /\ x.pkey = sock[w].pkey /\ x.buf = sock[w].buf
    BY ONLY <1>2, <1>3 DEF SockType
  <1>5. sock' = [sock EXCEPT ![w] = x]
    BY <1>1, <1>3 DEF IdSocketOpens
  <1>6. \A v \in Ws : sock'[v] = IF v = w THEN x ELSE sock[v]
    BY <1>2, <1>5 DEF SockFs
  <1>7. Lives(sock, w) /\ Settled /\ conn' = conn
    BY <1>1 DEF IdSocketOpens, Lives, Settled
  <1>8. CASE sess[s].pc = "idOpen"
    <2>1. sess' = [sess EXCEPT ![s].pc = "idAnswer", ![s].waits = w]
      BY <1>1, <1>8 DEF IdSocketOpens
    <2>2. PICK r : r = [sess[s] EXCEPT !.pc = "idAnswer", !.waits = w]
      OBVIOUS
    <2>3. /\ r.pc = "idAnswer" /\ r.waits = w /\ r.conn = sess[s].conn /\ r.cut = sess[s].cut
          /\ r.alone = sess[s].alone /\ r.gaveUp = sess[s].gaveUp /\ r.end = sess[s].end
          /\ r.secure = sess[s].secure
      BY ONLY <1>2, <2>2 DEF SessType
    <2>4. \A t \in Sess : sess'[t] = IF t = s THEN r ELSE sess[t]
      BY <1>2, <2>1, <2>2 DEF SessFs
    <2>5. SessStays(s) /\ \A d \in Conns : ConnStays(d)
      BY <1>7, <2>3, <2>4 DEF SessStays, ConnStays
    <2>6. QED BY <1>1, <1>4, <1>6, <1>7, <1>8, <2>3, <2>4, <2>5 DEF Opens
  <1>9. CASE sess[s].pc # "idOpen"
    <2>1. sess' = sess
      BY <1>9 DEF IdSocketOpens
    <2>2. \A v \in Ws : Weathers(v)
      BY <1>1, <1>4, <1>6, <1>7 DEF Weathers, Lives, Mute
    <2>3. QED BY <1>7, <2>1, <2>2, LinesLast
  <1>10. QED BY <1>8, <1>9

LEMMA RelaySocketOpensKind ==
  ASSUME TInv, NEW s \in Sess, RelaySocketOpens(s)
  PROVE  Relays(s)
  <1>1. PICK w \in Ws : w = <<s, "relay">> /\ w[1] = s
    BY Pointers
  <1>2. PICK k \in SockFs : k = Left(s, sock)
    BY Pointers, LeftType
  <1>3. PICK x : x = [k[w] EXCEPT !.ready = "open", !.status = "open", !.stage = "paired"]
    OBVIOUS
  <1>4. k[w] \in SockType /\ sock \in SockFs
    BY Pointers DEF SockFs
  <1>5. /\ x \in SockType /\ x.ready = "open" /\ x.status = "open"
        /\ x.key = k[w].key /\ x.pkey = k[w].pkey
    BY ONLY <1>3, <1>4 DEF SockType
  <1>6. PICK opened \in SockFs : opened = [k EXCEPT ![w] = x]
    BY <1>5, OneSocket
  <1>7. opened = [Left(s, sock) EXCEPT ![w].ready = "open", ![w].status = "open",
                                       ![w].stage = "paired"]
    BY <1>2, <1>3, <1>6
  <1>8. /\ sess[s].pc = "relayOpen" /\ sess[s].pc \in Running /\ Settled
        /\ conn' = [conn EXCEPT ![sess[s].conn].ws = w]
    BY <1>1 DEF RelaySocketOpens, Running, Starting, Settled
  <1>9. /\ sess[s] \in SessType /\ sess[s].conn \in Conns /\ conn[sess[s].conn] \in ConnType
        /\ sess \in SessFs /\ conn \in ConnFs
    BY <1>8, Pointers
  <1>10. ASSUME NEW d \in Conns
         PROVE  \/ ConnStays(d) /\ d # sess[s].conn
                \/ /\ d = sess[s].conn /\ conn'[d].ws = w
                   /\ conn'[d].open = conn[d].open /\ conn'[d].timer = conn[d].timer
    <2>1. PICK q : q = [conn[d] EXCEPT !.ws = w] OBVIOUS
    <2>2. conn[d] \in ConnType BY <1>9 DEF ConnFs
    <2>3. q.ws = w /\ q.open = conn[d].open /\ q.timer = conn[d].timer
      BY ONLY <2>1, <2>2 DEF ConnType
    <2>4. conn'[d] = IF d = sess[s].conn THEN q ELSE conn[d]
      BY <1>8, <1>9, <2>1 DEF ConnFs
    <2>5. QED BY <2>3, <2>4 DEF ConnStays
  <1>11. \A v \in Ws : v # w => opened[v] = k[v]
    BY <1>6 DEF SockFs
  <1>12. opened[w] = x
    BY <1>6 DEF SockFs
  <1>13. k[w].key \in {0, sock[w].key} /\ k[w].pkey \in {-1, sock[w].pkey}
    BY <1>2, <1>4, GarbageFields
  <1>14. ASSUME NEW v \in Ws, v # w
         PROVE  /\ v[1] # s => opened[v] = sock[v]
                /\ Lives(opened, v) => Lives(sock, v)
                /\ Mute(opened, v) => \/ Mute(sock, v)
                                      \/ \A t \in Sess \ {s} : ~Reads(t, v)
    <2>1. opened[v] = k[v] BY <1>11, <1>14
    <2>2. Lives(k, v) => Lives(sock, v) BY <1>2, <1>4, GarbageFields
    <2>3. v[1] # s \/ (\E t \in Sess \ {s} : Reads(t, v)) => k[v] = sock[v]
      BY <1>2, <1>4, LeftKeeps
    <2>4. QED BY <2>1, <2>2, <2>3 DEF Lives, Mute
  <1>15. CASE sess[s].pk
    <2>1. sess' = [sess EXCEPT ![s].pc = "verify"] /\ sock' = opened
      BY <1>1, <1>7, <1>15 DEF RelaySocketOpens
    <2>2. PICK r : r = [sess[s] EXCEPT !.pc = "verify"]
      OBVIOUS
    <2>3. /\ r.pc = "verify" /\ r.waits = sess[s].waits /\ r.conn = sess[s].conn
          /\ r.cut = sess[s].cut /\ r.alone = sess[s].alone /\ r.gaveUp = sess[s].gaveUp
          /\ r.end = sess[s].end /\ r.secure = sess[s].secure
      BY ONLY <1>9, <2>2 DEF SessType
    <2>4. sess'[s] = r /\ \A t \in Sess \ {s} : sess'[t] = sess[t]
      BY <1>9, <2>1, <2>2 DEF SessFs
    <2>5. SessStays(s)
      BY <2>3, <2>4 DEF SessStays
    <2>6. QED BY <1>1, <1>5, <1>8, <1>10, <1>12, <1>13, <1>14, <2>1, <2>3, <2>4, <2>5 DEF Relays
  <1>16. CASE ~sess[s].pk
    <2>1. /\ sess' = [sess EXCEPT ![s].pc = "loop", ![s].waits = w]
          /\ sock' = SendPublicKey(opened, w, 0)
      BY <1>1, <1>7, <1>16 DEF RelaySocketOpens
    <2>2. PICK r : r = [sess[s] EXCEPT !.pc = "loop", !.waits = w]
      OBVIOUS
    <2>3. /\ r.pc = "loop" /\ r.waits = w /\ r.conn = sess[s].conn
          /\ r.cut = sess[s].cut /\ r.alone = sess[s].alone /\ r.gaveUp = sess[s].gaveUp
          /\ r.end = sess[s].end /\ r.secure = sess[s].secure
      BY ONLY <1>9, <2>2 DEF SessType
    <2>4. sess'[s] = r /\ \A t \in Sess \ {s} : sess'[t] = sess[t]
      BY <1>9, <2>1, <2>2 DEF SessFs
    <2>5. SessStays(s)
      BY <2>3, <2>4 DEF SessStays
    <2>6. w \in AnyWs BY DEF AnyWs
    <2>7. \A v \in Ws : v # w => sock'[v] = opened[v]
      BY <2>1, <2>6, SendPublicKeyFields
    <2>8. /\ sock'[w].ready = "open" /\ sock'[w].status = "open"
          /\ sock'[w].key = k[w].key /\ sock'[w].pkey \in {0, sock[w].pkey}
      <3>1. /\ sock'[w].ready = opened[w].ready /\ sock'[w].status = opened[w].status
            /\ sock'[w].key = opened[w].key
            /\ sock'[w].pkey = IF w[2] = "relay" /\ opened[w].ready = "open" /\ opened[w].pkey = -1
                               THEN 0 ELSE opened[w].pkey
        BY <2>1, <2>6, SendPublicKeyFields DEF Line
      <3>2. w[2] = "relay" BY <1>1
      <3>3. QED BY <1>5, <1>12, <1>13, <3>1, <3>2
    <2>9. ASSUME NEW v \in Ws, v # w
          PROVE  /\ v[1] # s => sock'[v] = sock[v]
                 /\ Lives(sock', v) => Lives(sock, v)
                 /\ Mute(sock', v) => Mute(sock, v) \/ \A t \in Sess \ {s} : ~Reads(t, v)
      <3>1. sock'[v] = opened[v]
        BY <2>7, <2>9
      <3>2. (Lives(sock', v) <=> Lives(opened, v)) /\ (Mute(sock', v) <=> Mute(opened, v))
        BY <3>1 DEF Lives, Mute
      <3>3. QED BY <1>14, <2>9, <3>1, <3>2
    <2>10. QED BY <1>1, <1>8, <1>10, <1>13, <2>3, <2>4, <2>5, <2>8, <2>9 DEF Relays
  <1>17. QED BY <1>15, <1>16

\* Session s is over, and k is what its last step makes of the sockets.
LEMMA OverFinishes ==
  ASSUME TInv, NEW s \in Sess, sess[s].pc \in Running, Settled,
         NEW end \in Ends, NEW cn \in ConnFs, NEW k \in SockFs, Over(s, end, cn, k),
         end = "hidden" => sess[s].waits # NoWs /\ Mute(sock, sess[s].waits),
         end \in {"shown", "hidden"} \/ HasNoCase(s),
         \A d \in Conns : /\ cn[d].ws = conn[d].ws /\ cn[d].open = conn[d].open
                          /\ cn[d].timer = conn[d].timer,
         \A w \in Ws : /\ Lives(k, w) => Lives(sock, w)
                       /\ w[1] # s => Same(sock, k, w)
                       /\ Mute(k, w) => \/ Mute(sock, w)
                                        \/ sess[s].pc = "idAnswer" /\ w = <<s, "id">>,
         Lives(k, <<s, "relay">>) => sess[s].pc # "relayOpen"
  PROVE  Finishes(s)
  <1>1. sess[s] \in SessType /\ sess \in SessFs /\ <<s, "relay">> \in Ws /\ sess[s].conn \in Conns
    BY Pointers
  <1>2. PICK r : r = Ended(sess[s], end) OBVIOUS
  <1>3. /\ r.pc = "done" /\ r.waits = NoWs /\ r.conn = sess[s].conn /\ r.cut = sess[s].cut
        /\ r.alone = sess[s].alone /\ r.gaveUp = sess[s].gaveUp /\ r.end = end
    BY ONLY <1>1, <1>2 DEF Ended, SessType
  <1>4. \A t \in Sess : sess'[t] = IF t = s THEN r ELSE sess[t]
    BY <1>1, <1>2 DEF Over, SessFs
  <1>5. ASSUME NEW d \in Conns
        PROVE  \/ ConnStays(d)
               \/ /\ d = sess[s].conn /\ d # curConn /\ RunningOf(d) = {s}
                  /\ conn'[d] = NoConn
    <2>1. \/ conn' = cn
          \/ /\ sess[s].conn # curConn /\ RunningOf(sess[s].conn) = {s}
             /\ conn' = [cn EXCEPT ![sess[s].conn] = NoConn]
      BY DEF Over
    <2>2. CASE conn' = cn
      BY <2>2 DEF ConnStays
    <2>3. CASE /\ sess[s].conn # curConn /\ RunningOf(sess[s].conn) = {s}
               /\ conn' = [cn EXCEPT ![sess[s].conn] = NoConn]
      <3>1. CASE d = sess[s].conn
        <4>1. conn'[d] = NoConn BY <2>3, <3>1 DEF ConnFs
        <4>2. QED BY <2>3, <3>1, <4>1
      <3>2. CASE d # sess[s].conn
        <4>1. conn'[d] = cn[d] BY <2>3, <3>2 DEF ConnFs
        <4>2. QED BY <4>1 DEF ConnStays
      <3>3. QED BY <3>1, <3>2
    <2>4. QED BY <2>1, <2>2, <2>3
  <1>6. ASSUME NEW w \in Ws
        PROVE  /\ Lives(sock', w) => Lives(sock, w)
               /\ w[1] # s => Same(sock, sock', w)
               /\ Mute(sock', w) => \/ Mute(sock, w)
                                    \/ sess[s].pc = "idAnswer" /\ w = <<s, "id">>
                                    \/ \A t \in Sess \ {s} : ~Reads(t, w)
    <2>1. sock' = k \/ sock' = Left(s, k)
      BY DEF Over
    <2>2. CASE sock' = k
      BY <2>2
    <2>3. CASE sock' = Left(s, k)
      <3>1. Lives(sock', w) => Lives(k, w)
        BY <2>3, GarbageFields
      <3>2. w[1] # s \/ (\E t \in Sess \ {s} : Reads(t, w)) => sock'[w] = k[w]
        BY <2>3, LeftKeeps
      <3>3. CASE sock'[w] = k[w]
        BY <3>3 DEF Lives, Mute, Same, Line
      <3>4. CASE sock'[w] # k[w]
        BY <3>1, <3>2, <3>4
      <3>5. QED BY <3>3, <3>4
    <2>4. QED BY <2>1, <2>2, <2>3
  <1>7. Lives(sock', <<s, "relay">>) => sess[s].pc # "relayOpen"
    <2>1. sock' = k \/ sock' = Left(s, k)
      BY DEF Over
    <2>2. Lives(sock', <<s, "relay">>) => Lives(k, <<s, "relay">>)
      BY <1>1, <2>1, GarbageFields
    <2>3. QED BY <2>2
  <1>8. sess'[s] = r /\ \A t \in Sess \ {s} : sess'[t] = sess[t]
    BY <1>4
  <1>9. QED BY <1>3, <1>5, <1>6, <1>7, <1>8 DEF Finishes

LEMMA SocketFailsKind ==
  ASSUME TInv, NEW s \in Sess, NEW kind \in {"id", "relay"}, SocketFails(s, kind)
  PROVE  Still \/ Finishes(s)
  <1>1. PICK w \in Ws : w = <<s, kind>>
    BY DEF Ws
  <1>2. w = <<s, kind>> /\ w[1] = s
    BY <1>1
  <1>3. sock \in SockFs /\ conn \in ConnFs /\ w \in AnyWs
    BY Pointers DEF AnyWs
  <1>4. PICK k \in SockFs : k = Down(sock, w, "closed", "close")
    BY <1>3, DownType
  <1>5. PICK st : st = "close" OBVIOUS
  <1>6. PICK rd : rd = "closed" OBVIOUS
  <1>7. k = Down(sock, w, rd, st) BY <1>4, <1>5, <1>6
  <1>8. ASSUME NEW v \in Ws
        PROVE  /\ v # w => k[v] = sock[v]
               /\ v = w => /\ k[v].ready = "closed" /\ k[v].status = "close" /\ k[v].pkey = -1
                           /\ k[v].key = sock[v].key /\ k[v].buf = sock[v].buf
    <2>1. /\ v # w => k[v] = sock[v]
          /\ v = w => /\ k[v].ready = rd /\ k[v].status = st /\ k[v].pkey = -1
                      /\ k[v].key = sock[v].key /\ k[v].buf = sock[v].buf
      BY <1>3, <1>7, DownFields
    <2>2. QED BY <1>5, <1>6, <2>1
  <1>9. Settled
    BY DEF SocketFails, Settled
  <1>10. CASE sess[s].pc = (IF kind = "id" THEN "idOpen" ELSE "relayOpen")
    <2>1. "shown" \in Ends /\ Over(s, "shown", conn, k)
      BY <1>2, <1>4, <1>10 DEF SocketFails, Throws, Ends
    <2>2. sess[s].pc \in Running
      BY <1>10 DEF Running, Starting
    <2>3. ASSUME NEW v \in Ws
          PROVE  /\ Lives(k, v) => Lives(sock, v)
                 /\ v[1] # s => Same(sock, k, v)
                 /\ Mute(k, v) => Mute(sock, v)
      BY <1>2, <1>8 DEF Lives, Mute, Same, Line
    <2>4. ASSUME sess[s].pc = "relayOpen" PROVE ~Lives(k, <<s, "relay">>)
      <3>1. w = <<s, "relay">> BY <1>2, <1>10, <2>4
      <3>2. k[w].ready = "closed" BY <1>8
      <3>3. QED BY <3>1, <3>2 DEF Lives
    <2>5. Finishes(s)
      BY <1>3, <1>9, <2>1, <2>2, <2>3, <2>4, OverFinishes
    <2>6. QED BY <2>5
  <1>11. CASE sess[s].pc # (IF kind = "id" THEN "idOpen" ELSE "relayOpen")
    <2>1. sock' = k /\ UNCHANGED <<conn, sess>>
      BY <1>2, <1>4, <1>11 DEF SocketFails
    <2>2. \A v \in Ws : Weathers(v)
      BY <1>8, <2>1 DEF Weathers, Lives, Mute
    <2>3. QED BY <1>9, <2>1, <2>2, LinesLast
  <1>12. QED BY <1>10, <1>11

LEMMA SocketClosesKind ==
  ASSUME TInv, NEW s \in Sess, NEW kind \in {"id", "relay"}, SocketCloses(s, kind)
  PROVE  Still
  <1>1. PICK w \in Ws : w = <<s, kind>>
    BY DEF Ws
  <1>2. sock \in SockFs /\ w \in AnyWs
    BY Pointers DEF AnyWs
  <1>3. PICK st : st = "close" OBVIOUS
  <1>4. PICK rd : rd = "closed" OBVIOUS
  <1>5. sock' = Down(sock, w, rd, st) /\ Settled /\ sess' = sess /\ conn' = conn
    BY <1>1, <1>3, <1>4 DEF SocketCloses, Settled
  <1>6. ASSUME NEW v \in Ws PROVE Weathers(v)
    <2>1. /\ v # w => sock'[v] = sock[v]
          /\ v = w => /\ sock'[v].ready = rd /\ sock'[v].status = st /\ sock'[v].pkey = -1
                      /\ sock'[v].key = sock[v].key /\ sock'[v].buf = sock[v].buf
      BY <1>2, <1>5, DownFields
    <2>2. QED BY <1>3, <1>4, <2>1 DEF Weathers, Lives, Mute
  <1>7. QED BY <1>5, <1>6, LinesLast

LEMMA AnswerArrivesKind ==
  ASSUME TInv, NEW s \in Sess, NEW m \in IdAnswers, AnswerArrives(s, m)
  PROVE  Still
  <1>1. PICK w \in Ws : w = <<s, "id">>
    BY Pointers
  <1>2. sock[w] \in SockType /\ sock \in SockFs
    BY Pointers DEF SockFs
  <1>3. PICK x : x = [sock[w] EXCEPT !.buf = Append(@, m), !.stage = "in"]
    OBVIOUS
  <1>4. /\ x.ready = sock[w].ready /\ x.status = sock[w].status /\ x.key = sock[w].key
        /\ x.pkey = sock[w].pkey
    BY ONLY <1>2, <1>3 DEF SockType
  <1>5. sock' = [sock EXCEPT ![w] = x] /\ sock[w].ready = "open"
    BY <1>1, <1>2, <1>3 DEF AnswerArrives
  <1>6. \A v \in Ws : sock'[v] = IF v = w THEN x ELSE sock[v]
    BY <1>2, <1>5 DEF SockFs
  <1>7. \A v \in Ws : Weathers(v)
    BY <1>4, <1>5, <1>6 DEF Weathers, Lives, Mute
  <1>8. Settled /\ sess' = sess /\ conn' = conn
    BY DEF AnswerArrives, Settled
  <1>9. QED BY <1>7, <1>8, LinesLast

LEMMA PeerMessageArrivesKind ==
  ASSUME TInv, NEW s \in Sess, NEW m \in PeerMessages, PeerMessageArrives(s, m)
  PROVE  Still
  <1>1. PICK w \in Ws : w = <<s, "relay">>
    BY Pointers
  <1>2. sock[w] \in SockType /\ sock \in SockFs
    BY Pointers DEF SockFs
  <1>3. PICK to : sock' = [sock EXCEPT ![w].stage = to,
                      ![w].buf = IF InStep(sock, w) THEN Append(@, m) ELSE @]
    BY <1>1 DEF PeerMessageArrives
  <1>4. PICK b : b = IF InStep(sock, w) THEN Append(sock[w].buf, m) ELSE sock[w].buf
    OBVIOUS
  <1>5. PICK x : x = [sock[w] EXCEPT !.stage = to, !.buf = b]
    OBVIOUS
  <1>6. /\ x.ready = sock[w].ready /\ x.status = sock[w].status /\ x.key = sock[w].key
        /\ x.pkey = sock[w].pkey
    BY ONLY <1>2, <1>5 DEF SockType
  <1>7. sock' = [sock EXCEPT ![w] = x] /\ sock[w].ready = "open"
    <2>1. sock' = [sock EXCEPT ![w] = x]
      BY <1>2, <1>3, <1>4, <1>5
    <2>2. sock[w].ready = "open"
      BY <1>1 DEF PeerMessageArrives
    <2>3. QED BY <2>1, <2>2
  <1>8. \A v \in Ws : sock'[v] = IF v = w THEN x ELSE sock[v]
    BY <1>2, <1>7 DEF SockFs
  <1>9. \A v \in Ws : Weathers(v)
    BY <1>6, <1>7, <1>8 DEF Weathers, Lives, Mute
  <1>10. Settled /\ sess' = sess /\ conn' = conn
    BY DEF PeerMessageArrives, Settled
  <1>11. QED BY <1>9, <1>10, LinesLast

-----------------------------------------------------------------------------
(* Which step is of which kind: the sessions                               *)

\* A password or a challenge changes nothing else about a connection.
LEMMA PwStays ==
  ASSUME NEW cn \in ConnFs, NEW c \in Conns, NEW b, NEW j, j = [cn EXCEPT ![c].pw = b],
         NEW d \in Conns
  PROVE  j[d].ws = cn[d].ws /\ j[d].open = cn[d].open /\ j[d].timer = cn[d].timer
  <1>1. cn[d] \in ConnType
    BY DEF ConnFs
  <1>2. PICK q : q = [cn[d] EXCEPT !.pw = b] OBVIOUS
  <1>3. q.ws = cn[d].ws /\ q.open = cn[d].open /\ q.timer = cn[d].timer
    BY ONLY <1>1, <1>2 DEF ConnType
  <1>4. j[d] = IF d = c THEN q ELSE cn[d]
    BY <1>2 DEF ConnFs
  <1>5. QED BY <1>3, <1>4

LEMMA ChallengedStays ==
  ASSUME conn \in ConnFs, NEW c \in Conns, NEW w, NEW b, NEW j, j = Challenged(c, w, b),
         NEW d \in Conns
  PROVE  j[d].ws = conn[d].ws /\ j[d].open = conn[d].open /\ j[d].timer = conn[d].timer
  <1>1. conn[d] \in ConnType
    BY DEF ConnFs
  <1>2. PICK q : q = [conn[d] EXCEPT !.hash = w, !.pw = b] OBVIOUS
  <1>3. q.ws = conn[d].ws /\ q.open = conn[d].open /\ q.timer = conn[d].timer
    BY ONLY <1>1, <1>2 DEF ConnType
  <1>4. j[d] = IF d = c THEN q ELSE conn[d]
    BY <1>2 DEF ConnFs, Challenged
  <1>5. QED BY <1>3, <1>4

\* A session goes on in state st and waits for w.
LEMMA MoveFields ==
  ASSUME TInv, NEW s \in Sess, NEW st, NEW w,
         \/ sess' = [sess EXCEPT ![s].pc = st, ![s].waits = w]
         \/ sess' = [sess EXCEPT ![s].pc = st, ![s].pk = FALSE, ![s].waits = w]
  PROVE  /\ sess'[s].pc = st /\ sess'[s].waits = w /\ SessStays(s)
         /\ sess'[s].secure = sess[s].secure
         /\ \A t \in Sess \ {s} : sess'[t] = sess[t]
  <1>1. sess[s] \in SessType /\ sess \in SessFs
    BY Pointers
  <1>2. CASE sess' = [sess EXCEPT ![s].pc = st, ![s].waits = w]
    <2>1. PICK r : r = [sess[s] EXCEPT !.pc = st, !.waits = w] OBVIOUS
    <2>2. /\ r.pc = st /\ r.waits = w /\ r.conn = sess[s].conn /\ r.cut = sess[s].cut
          /\ r.alone = sess[s].alone /\ r.gaveUp = sess[s].gaveUp /\ r.end = sess[s].end
          /\ r.secure = sess[s].secure
      BY ONLY <1>1, <2>1 DEF SessType
    <2>3. sess'[s] = r /\ \A t \in Sess \ {s} : sess'[t] = sess[t]
      BY <1>1, <1>2, <2>1 DEF SessFs
    <2>4. QED BY <2>2, <2>3 DEF SessStays
  <1>3. CASE sess' = [sess EXCEPT ![s].pc = st, ![s].pk = FALSE, ![s].waits = w]
    <2>1. PICK r : r = [sess[s] EXCEPT !.pc = st, !.pk = FALSE, !.waits = w] OBVIOUS
    <2>2. /\ r.pc = st /\ r.waits = w /\ r.conn = sess[s].conn /\ r.cut = sess[s].cut
          /\ r.alone = sess[s].alone /\ r.gaveUp = sess[s].gaveUp /\ r.end = sess[s].end
          /\ r.secure = sess[s].secure
      BY ONLY <1>1, <2>1 DEF SessType
    <2>3. sess'[s] = r /\ \A t \in Sess \ {s} : sess'[t] = sess[t]
      BY <1>1, <1>3, <2>1 DEF SessFs
    <2>4. QED BY <2>2, <2>3 DEF SessStays
  <1>4. QED BY <1>2, <1>3

LEMMA SecureFields ==
  ASSUME TInv, NEW s \in Sess, NEW w, NEW fits,
         sess' = [sess EXCEPT ![s].pc = "loop", ![s].pk = FALSE, ![s].waits = w,
                              ![s].secure = fits]
  PROVE  /\ sess'[s].pc = "loop" /\ sess'[s].waits = w /\ SessStays(s)
         /\ sess'[s].secure = fits
         /\ \A t \in Sess \ {s} : sess'[t] = sess[t]
  <1>1. sess[s] \in SessType /\ sess \in SessFs
    BY Pointers
  <1>2. PICK r : r = [sess[s] EXCEPT !.pc = "loop", !.pk = FALSE, !.waits = w, !.secure = fits]
    OBVIOUS
  <1>3. /\ r.pc = "loop" /\ r.waits = w /\ r.conn = sess[s].conn /\ r.cut = sess[s].cut
        /\ r.alone = sess[s].alone /\ r.gaveUp = sess[s].gaveUp /\ r.end = sess[s].end
        /\ r.secure = fits
    BY ONLY <1>1, <1>2 DEF SessType
  <1>4. sess'[s] = r /\ \A t \in Sess \ {s} : sess'[t] = sess[t]
    BY <1>1, <1>2 DEF SessFs
  <1>5. QED BY <1>3, <1>4 DEF SessStays

\* The message loop goes on and sends no key.
LEMMA MovesSame ==
  ASSUME TInv, NEW s \in Sess, sess[s].pc \in {"loop", "unzip"}, Settled,
         \/ sess' = Loops(s)
         \/ sess' = [sess EXCEPT ![s].pc = "unzip", ![s].waits = NoWs],
         \A d \in Conns : ConnStays(d), \A w \in Ws : Same(sock, sock', w)
  PROVE  Moves(s)
  <1>1. \A w \in Ws : Line(sock, sock', w)
    BY DEF Same
  <1>2. sess[s].pc \in Past
    BY DEF Past
  <1>3. CASE sess' = Loops(s)
    <2>1. PICK st : st = "loop" OBVIOUS
    <2>2. PICK w : w = conn[sess[s].conn].ws OBVIOUS
    <2>3. sess' = [sess EXCEPT ![s].pc = st, ![s].waits = w]
      BY <1>3, <2>1, <2>2 DEF Loops
    <2>4. /\ sess'[s].pc = st /\ sess'[s].waits = w /\ SessStays(s)
          /\ sess'[s].secure = sess[s].secure
          /\ \A t \in Sess \ {s} : sess'[t] = sess[t]
      BY <2>3, MoveFields
    <2>5. sess'[s].pc = "loop" BY <2>1, <2>4
    <2>6. QED BY <1>1, <1>2, <2>2, <2>4, <2>5 DEF Moves
  <1>4. CASE sess' = [sess EXCEPT ![s].pc = "unzip", ![s].waits = NoWs]
    <2>1. PICK st : st = "unzip" OBVIOUS
    <2>2. sess' = [sess EXCEPT ![s].pc = st, ![s].waits = NoWs]
      BY <1>4, <2>1
    <2>3. /\ sess'[s].pc = st /\ sess'[s].waits = NoWs /\ SessStays(s)
          /\ sess'[s].secure = sess[s].secure
          /\ \A t \in Sess \ {s} : sess'[t] = sess[t]
      BY <2>2, MoveFields
    <2>4. sess'[s].pc = "unzip" BY <2>1, <2>3
    <2>5. QED BY <1>1, <1>2, <2>3, <2>4 DEF Moves
  <1>5. QED BY <1>3, <1>4

\* secure() has sent a key, or an empty one.
LEMMA MovesKey ==
  ASSUME TInv, NEW s \in Sess, sess[s].pc \in {"verify", "signed"}, Settled,
         NEW w, w = conn[sess[s].conn].ws, NEW fits \in BOOLEAN,
         sess'[s].pc = "loop", sess'[s].waits = w, SessStays(s),
         \A t \in Sess \ {s} : sess'[t] = sess[t],
         sess'[s].secure = fits \/ (~fits /\ sess'[s].secure = sess[s].secure),
         \A d \in Conns : ConnStays(d), NEW k \in SockFs, \A v \in Ws : Same(sock, k, v),
         sock' = IF fits THEN Secured(k, w, s) ELSE SendPublicKey(k, w, 0)
  PROVE  Moves(s)
  <1>1. sess[s].pc \in Past /\ sess[s].pc \in Running
    BY DEF Past, Running, Starting
  <1>2. w \in AnyWs
    BY <1>1, Pointers
  <1>3. ASSUME NEW v \in Ws
        PROVE  /\ v # w => sock'[v] = k[v]
               /\ Line(k, sock', v)
               /\ v = w => /\ sock'[v].key = IF fits THEN s ELSE k[v].key
                           /\ sock'[v].pkey = IF v[2] = "relay" /\ k[v].ready = "open"
                                                     /\ k[v].pkey = -1
                                              THEN (IF fits THEN s ELSE 0) ELSE k[v].pkey
    <2>1. CASE fits
      BY <1>2, <2>1, SecuredFields
    <2>2. CASE ~fits
      BY <1>2, <2>2, SendPublicKeyFields
    <2>3. QED BY <2>1, <2>2
  <1>4. ASSUME NEW v \in Ws
        PROVE  Line(sock, sock', v) /\ (v # w => Same(sock, sock', v))
    <2>1. Same(sock, k, v) /\ Line(k, sock', v) /\ (v # w => sock'[v] = k[v])
      BY <1>3
    <2>2. QED BY <2>1 DEF Same, Line
  <1>5. Settled /\ sess'[s].pc # "unzip" /\ sess'[s].pc # "signed"
    OBVIOUS
  <1>6. ASSUME NEW v \in Ws, v = w
        PROVE  SendsKey(s, v, fits)
    <2>1. sock[v].key = k[v].key /\ sock[v].pkey = k[v].pkey /\ sock[v].ready = k[v].ready
      BY DEF Same, Line
    <2>2. sock'[v].key = IF fits THEN s ELSE k[v].key
      BY <1>3, <1>6
    <2>3. sock'[v].pkey = IF v[2] = "relay" /\ k[v].ready = "open" /\ k[v].pkey = -1
                          THEN (IF fits THEN s ELSE 0) ELSE k[v].pkey
      BY <1>3, <1>6
    <2>4. QED BY <2>1, <2>2, <2>3 DEF SendsKey
  <1>7. \A v \in Ws : v = w => \E f \in BOOLEAN : SendsKey(s, v, f)
    BY <1>6
  <1>8. QED BY <1>1, <1>4, <1>5, <1>7 DEF Moves

\* A session ends and only reads from its sockets.
LEMMA EndsSame ==
  ASSUME TInv, NEW s \in Sess, sess[s].pc \in Running, sess[s].pc # "relayOpen", Settled,
         NEW end \in Ends, end # "hidden", end = "shown" \/ HasNoCase(s), NEW cn \in ConnFs, NEW k \in SockFs,
         \A d \in Conns : /\ cn[d].ws = conn[d].ws /\ cn[d].open = conn[d].open
                          /\ cn[d].timer = conn[d].timer,
         \A w \in Ws : Same(sock, k, w), Over(s, end, cn, k)
  PROVE  Finishes(s)
  <1>1. ASSUME NEW w \in Ws
        PROVE  /\ Lives(k, w) => Lives(sock, w)
               /\ w[1] # s => Same(sock, k, w)
               /\ Mute(k, w) => Mute(sock, w)
    BY DEF Same, Line, Lives, Mute
  <1>2. QED BY <1>1, OverFinishes

LEMMA ThrowsSame ==
  ASSUME TInv, NEW s \in Sess, sess[s].pc \in Running, sess[s].pc # "relayOpen", Settled,
         NEW cn \in ConnFs, NEW k \in SockFs, NEW retry,
         \A d \in Conns : /\ cn[d].ws = conn[d].ws /\ cn[d].open = conn[d].open
                          /\ cn[d].timer = conn[d].timer,
         \A w \in Ws : Same(sock, k, w), Throws(s, cn, k, retry)
  PROVE  Finishes(s)
  <1>1. PICK end \in Ends : end = "shown" BY DEF Ends
  <1>2. Over(s, end, cn, k) /\ end # "hidden" /\ end = "shown" BY <1>1 DEF Throws
  <1>3. QED BY <1>2, EndsSame

LEMMA GivePasswordKind ==
  ASSUME TInv, GivePassword
  PROVE  Still
  <1>1. curConn \in Conns /\ conn \in ConnFs /\ sock \in SockFs
    BY Current DEF GivePassword
  <1>2. PICK w : w = conn[curConn].ws OBVIOUS
  <1>3. /\ conn' = [conn EXCEPT ![curConn].pw = TRUE] /\ sock' = SendLogin(sock, w)
        /\ UNCHANGED <<curConn, nconn, nsess, sess>>
    BY <1>2 DEF GivePassword
  <1>4. \A d \in Conns : ConnStays(d)
    BY <1>1, <1>3, PwStays DEF ConnStays
  <1>5. \A v \in Ws : Weathers(v)
    BY <1>1, <1>3, SendLoginSame, SameWeathers
  <1>6. QED BY <1>3, <1>4, <1>5 DEF Still

LEMMA OpenTimesOutKind ==
  ASSUME TInv, NEW s \in Sess, OpenTimesOut(s)
  PROVE  Finishes(s)
  <1>1. sess[s] \in SessType /\ sess \in SessFs /\ sock \in SockFs
    BY Pointers
  <1>2. PICK g : g = (sess[s].pc = "relayOpen") OBVIOUS
  <1>3. PICK e : e = Ended(sess[s], "shown") OBVIOUS
  <1>4. PICK r : r = [e EXCEPT !.gaveUp = g] OBVIOUS
  <1>5. "shown" \in Ends BY DEF Ends
  <1>6. e \in SessType BY <1>1, <1>3, <1>5, EndedType
  <1>7. /\ e.pc = "done" /\ e.waits = NoWs /\ e.conn = sess[s].conn /\ e.cut = sess[s].cut
        /\ e.alone = sess[s].alone /\ e.end = "shown"
    BY ONLY <1>1, <1>3 DEF Ended, SessType
  <1>8. /\ r.pc = e.pc /\ r.waits = e.waits /\ r.conn = e.conn /\ r.cut = e.cut
        /\ r.alone = e.alone /\ r.end = e.end /\ r.gaveUp = g
    BY ONLY <1>4, <1>6 DEF SessType
  <1>9. sess' = [sess EXCEPT ![s] = r] /\ sess[s].pc \in {"idOpen", "relayOpen"}
        /\ (sock' = sock \/ sock' = Left(s, sock)) /\ conn' = conn /\ Settled
    BY <1>2, <1>3, <1>4 DEF OpenTimesOut, Settled
  <1>10. sess'[s] = r /\ \A t \in Sess \ {s} : sess'[t] = sess[t]
    BY <1>1, <1>9 DEF SessFs
  <1>11. sess[s].pc \in Running /\ \A d \in Conns : ConnStays(d)
    BY <1>9 DEF Running, Starting, ConnStays
  <1>12. ASSUME NEW w \in Ws
         PROVE  /\ Lives(sock', w) => Lives(sock, w)
                /\ w[1] # s => Same(sock, sock', w)
                /\ Mute(sock', w) => \/ Mute(sock, w)
                                     \/ \A t \in Sess \ {s} : ~Reads(t, w)
    <2>1. CASE sock'[w] = sock[w]
      BY <2>1 DEF Lives, Mute, Same, Line
    <2>2. CASE sock'[w] # sock[w]
      <3>1. sock' = Left(s, sock) BY <1>9, <2>2
      <3>2. Lives(sock', w) => Lives(sock, w) BY <1>1, <3>1, GarbageFields
      <3>3. w[1] = s /\ \A t \in Sess \ {s} : ~Reads(t, w)
        BY <1>1, <2>2, <3>1, LeftKeeps
      <3>4. QED BY <3>2, <3>3
    <2>3. QED BY <2>1, <2>2
  <1>13. sess'[s].gaveUp \/ sess[s].pc = "idOpen"
    BY <1>2, <1>8, <1>9, <1>10
  <1>14. sess'[s].end # "hidden" /\ sess'[s].end = "shown" BY <1>7, <1>8, <1>10
  <1>15. sess[s].pc = "idOpen" => sess[s].pc # "relayOpen" OBVIOUS
  <1>16. QED BY <1>7, <1>8, <1>9, <1>10, <1>11, <1>12, <1>13, <1>14, <1>15 DEF Finishes

LEMMA NextRejectsKind ==
  ASSUME TInv, NEW s \in Sess, Polling(s), NextRejects(s)
  PROVE  Finishes(s)
  <1>1. sess[s].waits # NoWs /\ Settled
    BY DEF NextRejects, Polls, Settled
  <1>2. sess[s].pc \in Running /\ sess[s].pc # "relayOpen"
    BY <1>1 DEF Polling, Running, Starting
  <1>3. conn \in ConnFs /\ sock \in SockFs
    BY Pointers
  <1>4. PICK end \in Ends : /\ Over(s, end, conn, sock)
                            /\ end = "hidden" => Mute(sock, sess[s].waits)
                            /\ end \in {"shown", "hidden"}
    BY DEF NextRejects, Throws, Ends, Mute
  <1>5. \A w \in Ws : Same(sock, sock, w)
    BY DEF Same, Line
  <1>6. QED BY <1>1, <1>2, <1>3, <1>4, <1>5, OverFinishes

LEMMA AnswerReadKind ==
  ASSUME TInv, NEW s \in Sess, Polling(s), AnswerRead(s)
  PROVE  Refers(s) \/ Finishes(s)
  <1>1. PICK w \in Ws : w = <<s, "id">> /\ w # <<s, "relay">>
    BY Pointers
  <1>2. PICK r \in Ws : r = <<s, "relay">> /\ r # w
    BY <1>1, Pointers
  <1>3. sess[s].pc = "idAnswer" /\ Inbox(s) # <<>> /\ Settled
    BY DEF AnswerRead, Settled
  <1>4. sess[s].waits = w /\ sock[w].buf # <<>>
    BY <1>1, <1>3 DEF Polling, Inbox
  <1>5. PICK p \in SockFs : p = Popped(s)
    BY <1>3, PoppedType
  <1>6. w \in AnyWs /\ conn \in ConnFs /\ sock \in SockFs
    BY Pointers DEF AnyWs
  <1>7. PICK closed \in SockFs : closed = CloseWs(p, w)
    BY <1>5, <1>6, CloseWsType
  <1>8. \A v \in Ws : v # w => p[v] = sock[v]
    BY <1>4, <1>5, <1>6 DEF Popped, SockFs
  <1>9. ASSUME NEW v \in Ws
        PROVE  /\ v # w => closed[v] = p[v]
               /\ v = w => closed[v].ready \notin {"connecting", "open"}
    BY <1>5, <1>6, <1>7, CloseWsFields
  <1>10. \A v \in Ws : v # w => closed[v] = sock[v]
    BY <1>8, <1>9
  <1>11. closed = CloseWs(Popped(s), sess[s].waits)
    BY <1>4, <1>5, <1>7
  <1>12. PICK m : m = Head(Inbox(s)) OBVIOUS
  <1>13. CASE m \in {"relay_pk", "relay"}
    <2>1. PICK x : x = [NoSock EXCEPT !.ready = "connecting"] OBVIOUS
    <2>2. x.key = 0 /\ x.pkey = -1
      BY <2>1 DEF NoSock
    <2>3. PICK pk : pk = (m = "relay_pk") OBVIOUS
    <2>4. /\ sess' = [sess EXCEPT ![s].pc = "relayOpen", ![s].waits = NoWs, ![s].pk = pk]
          /\ sock' = [closed EXCEPT ![r] = x] /\ conn' = conn
      BY <1>2, <1>11, <1>12, <1>13, <2>1, <2>3 DEF AnswerRead
    <2>5. PICK q : q = [sess[s] EXCEPT !.pc = "relayOpen", !.waits = NoWs, !.pk = pk] OBVIOUS
    <2>6. sess[s] \in SessType /\ sess \in SessFs
      BY Pointers
    <2>7. /\ q.pc = "relayOpen" /\ q.waits = NoWs /\ q.conn = sess[s].conn /\ q.cut = sess[s].cut
          /\ q.alone = sess[s].alone /\ q.gaveUp = sess[s].gaveUp /\ q.end = sess[s].end
          /\ q.secure = sess[s].secure
      BY ONLY <2>5, <2>6 DEF SessType
    <2>8. sess'[s] = q /\ \A t \in Sess \ {s} : sess'[t] = sess[t]
      BY <2>4, <2>5, <2>6 DEF SessFs
    <2>9. SessStays(s) /\ \A d \in Conns : ConnStays(d)
      BY <2>4, <2>7, <2>8 DEF SessStays, ConnStays
    <2>10. \A v \in Ws : sock'[v] = IF v = r THEN x ELSE closed[v]
      BY <2>4 DEF SockFs
    <2>11. \A v \in Ws : v[1] # s => sock'[v] = sock[v]
      BY <1>1, <1>2, <1>10, <2>10
    <2>12. ~Lives(sock', w)
      BY <1>2, <1>9, <2>10 DEF Lives
    <2>13. sock'[r].key = 0 /\ sock'[r].pkey = -1
      BY <2>2, <2>10
    <2>14. QED BY <1>1, <1>2, <1>3, <1>4, <2>7, <2>8, <2>9, <2>11, <2>12, <2>13 DEF Refers
  <1>14. CASE m \notin {"relay_pk", "relay"}
    <2>1. PICK end \in Ends : /\ end # "hidden" /\ Over(s, end, conn, closed)
                              /\ end = "shown" \/ HasNoCase(s)
      <3>1. CASE m = "refused"
        BY <1>11, <1>12, <1>14, <3>1 DEF AnswerRead, Throws, Ends
      <3>2. CASE m # "refused"
        <4>1. HasNoCase(s) BY <1>3, <1>12, <1>14, <3>2 DEF HasNoCase
        <4>2. QED BY <1>11, <1>12, <1>14, <3>2, <4>1 DEF AnswerRead, Ends
      <3>3. QED BY <3>1, <3>2
    <2>2. sess[s].pc \in Running /\ sess[s].pc # "relayOpen"
      BY <1>3 DEF Running, Starting
    <2>3. ASSUME NEW v \in Ws
          PROVE  /\ Lives(closed, v) => Lives(sock, v)
                 /\ v[1] # s => Same(sock, closed, v)
                 /\ Mute(closed, v) => Mute(sock, v) \/ (sess[s].pc = "idAnswer" /\ v = <<s, "id">>)
      <3>1. CASE v = w
        <4>1. ~Lives(closed, v) BY <1>9, <3>1 DEF Lives
        <4>2. v[1] = s BY <1>1, <3>1
        <4>3. QED BY <1>1, <1>3, <3>1, <4>1, <4>2
      <3>2. CASE v # w
        <4>1. closed[v] = sock[v] BY <1>10, <3>2
        <4>2. QED BY <4>1 DEF Lives, Mute, Same, Line
      <3>3. QED BY <3>1, <3>2
    <2>4. QED BY <1>3, <1>6, <2>1, <2>2, <2>3, OverFinishes
  <1>15. QED BY <1>13, <1>14

LEMMA KeyVerifiedKind ==
  ASSUME TInv, NEW s \in Sess, KeyVerified(s)
  PROVE  Moves(s) \/ Finishes(s)
  <1>1. sess[s].pc = "verify" /\ Settled
    BY DEF KeyVerified, Settled
  <1>2. sess[s].pc \in Running /\ sess[s].pc # "relayOpen" /\ sess[s].pc \in Past
    BY <1>1 DEF Running, Starting, Past
  <1>3. conn \in ConnFs /\ sock \in SockFs
    BY Pointers
  <1>4. PICK w : w = conn[sess[s].conn].ws OBVIOUS
  <1>5. \A v \in Ws : Same(sock, sock, v)
    BY DEF Same, Line
  <1>6. CASE sess' = [sess EXCEPT ![s].pc = "signed", ![s].waits = w] /\ UNCHANGED <<conn, sock>>
    <2>1. PICK st : st = "signed" OBVIOUS
    <2>2. sess' = [sess EXCEPT ![s].pc = st, ![s].waits = w]
      BY <1>6, <2>1
    <2>3. /\ sess'[s].pc = st /\ sess'[s].waits = w /\ SessStays(s)
          /\ sess'[s].secure = sess[s].secure
          /\ \A t \in Sess \ {s} : sess'[t] = sess[t]
      BY <2>2, MoveFields
    <2>4. sess'[s].pc = "signed" BY <2>1, <2>3
    <2>5. \A v \in Ws : Same(sock, sock', v) /\ Line(sock, sock', v)
      BY <1>6 DEF Same, Line
    <2>6. \A d \in Conns : ConnStays(d)
      BY <1>6 DEF ConnStays
    <2>7. QED BY <1>1, <1>2, <1>4, <2>3, <2>4, <2>5, <2>6 DEF Moves
  <1>7. CASE \E retry \in BOOLEAN : Throws(s, conn, sock, retry)
    BY <1>1, <1>2, <1>3, <1>5, <1>7, ThrowsSame
  <1>8. CASE /\ sess' = [sess EXCEPT ![s].pc = "loop", ![s].pk = FALSE, ![s].waits = w]
             /\ sock' = SendPublicKey(sock, w, 0) /\ conn' = conn
    <2>1. PICK st : st = "loop" OBVIOUS
    <2>2. sess' = [sess EXCEPT ![s].pc = st, ![s].pk = FALSE, ![s].waits = w]
      BY <1>8, <2>1
    <2>3. /\ sess'[s].pc = st /\ sess'[s].waits = w /\ SessStays(s)
          /\ sess'[s].secure = sess[s].secure
          /\ \A t \in Sess \ {s} : sess'[t] = sess[t]
      BY <2>2, MoveFields
    <2>4. sess'[s].pc = "loop" BY <2>1, <2>3
    <2>5. \A d \in Conns : ConnStays(d)
      BY <1>8 DEF ConnStays
    <2>6. PICK fits \in BOOLEAN : ~fits OBVIOUS
    <2>7. sock' = IF fits THEN Secured(sock, w, s) ELSE SendPublicKey(sock, w, 0)
      BY <1>8, <2>6
    <2>8. sess'[s].secure = fits \/ (~fits /\ sess'[s].secure = sess[s].secure)
      BY <2>3, <2>6
    <2>9. Moves(s)
      BY <1>1, <1>3, <1>4, <1>5, <2>3, <2>4, <2>5, <2>7, <2>8, MovesKey
    <2>10. QED BY <2>9
  <1>9. QED BY <1>4, <1>6, <1>7, <1>8 DEF KeyVerified

LEMMA SignedIdReadKind ==
  ASSUME TInv, NEW s \in Sess, SignedIdRead(s)
  PROVE  Moves(s) \/ Finishes(s)
  <1>1. sess[s].pc = "signed" /\ Settled /\ Inbox(s) # <<>>
    BY DEF SignedIdRead, Settled
  <1>2. sess[s].pc \in Running /\ sess[s].pc # "relayOpen"
    BY <1>1 DEF Running, Starting
  <1>3. conn \in ConnFs
    BY Pointers
  <1>4. PICK w : w = conn[sess[s].conn].ws OBVIOUS
  <1>5. PICK p \in SockFs : p = Popped(s)
    BY <1>1, PoppedType
  <1>6. \A v \in Ws : Same(sock, p, v)
    BY <1>1, <1>5, PoppedSame
  <1>7. CASE \E retry \in BOOLEAN : Throws(s, conn, Popped(s), retry)
    BY <1>1, <1>2, <1>3, <1>5, <1>6, <1>7, ThrowsSame
  <1>8. CASE /\ conn' = conn
             /\ \E fits \in BOOLEAN :
                  /\ sess' = [sess EXCEPT ![s].pc = "loop", ![s].pk = FALSE, ![s].waits = w,
                                          ![s].secure = fits]
                  /\ sock' = IF fits THEN Secured(p, w, s) ELSE SendPublicKey(p, w, 0)
    <2>1. PICK fits \in BOOLEAN :
                  /\ sess' = [sess EXCEPT ![s].pc = "loop", ![s].pk = FALSE, ![s].waits = w,
                                          ![s].secure = fits]
                  /\ sock' = IF fits THEN Secured(p, w, s) ELSE SendPublicKey(p, w, 0)
      BY <1>8
    <2>2. /\ sess'[s].pc = "loop" /\ sess'[s].waits = w /\ SessStays(s)
          /\ sess'[s].secure = fits
          /\ \A t \in Sess \ {s} : sess'[t] = sess[t]
      BY <2>1, SecureFields
    <2>3. \A d \in Conns : ConnStays(d)
      BY <1>8 DEF ConnStays
    <2>4. QED BY <1>1, <1>4, <1>6, <2>1, <2>2, <2>3, MovesKey
  <1>9. QED BY <1>4, <1>5, <1>7, <1>8 DEF SignedIdRead

LEMMA HashReadKind ==
  ASSUME TInv, NEW s \in Sess, sess[s].pc = "loop", Inbox(s) # <<>>, HashRead(s)
  PROVE  Moves(s) \/ Finishes(s)
  <1>1. sess[s].pc \in Running /\ sess[s].pc # "relayOpen" /\ Settled
    BY DEF Running, HashRead, Settled
  <1>2. sess[s].conn \in Conns /\ conn \in ConnFs
    BY <1>1, Pointers
  <1>3. PICK c \in Conns : c = sess[s].conn
    BY <1>2
  <1>4. PICK w : w = conn[c].ws OBVIOUS
  <1>5. PICK p \in SockFs : p = Popped(s)
    BY PoppedType
  <1>6. \A v \in Ws : Same(sock, p, v)
    BY <1>5, PoppedSame
  <1>7. PICK has \in {TRUE, conn[c].pw} :
          IF SendThrows(w)
          THEN \E retry \in BOOLEAN : Throws(s, Challenged(c, sess[s].waits, has), p, retry)
          ELSE /\ sess' = Loops(s) /\ sock' = SendLogin(p, w)
               /\ conn' = Challenged(c, sess[s].waits, has)
    BY <1>3, <1>4, <1>5 DEF HashRead
  <1>8. has \in BOOLEAN
    BY <1>2 DEF ConnFs, ConnType
  <1>9. sess[s].waits \in AnyWs
    BY Pointers
  <1>10. PICK cn \in ConnFs : cn = Challenged(c, sess[s].waits, has)
    BY <1>2, <1>8, <1>9 DEF Challenged, ConnFs, ConnType, AnyWs
  <1>11. \A d \in Conns : /\ cn[d].ws = conn[d].ws /\ cn[d].open = conn[d].open
                          /\ cn[d].timer = conn[d].timer
    BY <1>2, <1>3, <1>10, ChallengedStays
  <1>12. CASE SendThrows(w)
    <2>1. PICK retry : Throws(s, cn, p, retry)
      BY <1>7, <1>10, <1>12
    <2>2. QED BY <1>1, <1>6, <1>11, <2>1, ThrowsSame
  <1>13. CASE ~SendThrows(w)
    <2>1. sess' = Loops(s) /\ sock' = SendLogin(p, w) /\ conn' = cn
      BY <1>7, <1>10, <1>13
    <2>2. \A v \in Ws : Same(p, sock', v)
      BY <2>1, SendLoginSame
    <2>3. \A v \in Ws : Same(sock, sock', v)
      BY <1>6, <2>2, SameTrans
    <2>4. \A d \in Conns : ConnStays(d)
      BY <1>11, <2>1 DEF ConnStays
    <2>5. QED BY <1>1, <2>1, <2>3, <2>4, MovesSame
  <1>14. QED BY <1>12, <1>13

LEMMA LoginAnswerReadKind ==
  ASSUME TInv, NEW s \in Sess, sess[s].pc = "loop", Inbox(s) # <<>>, NEW m, LoginAnswerRead(s, m)
  PROVE  Moves(s)
  <1>1. Settled /\ sess' = Loops(s) /\ sock' = Popped(s)
    BY DEF LoginAnswerRead, Settled
  <1>2. sess[s].conn \in Conns /\ conn \in ConnFs
    BY Pointers DEF Running
  <1>3. \A v \in Ws : Same(sock, sock', v)
    BY <1>1, PoppedSame
  <1>4. conn' = conn \/ conn' = [conn EXCEPT ![sess[s].conn].pw = FALSE]
    BY DEF LoginAnswerRead
  <1>5. ASSUME NEW d \in Conns PROVE ConnStays(d)
    <2>1. CASE conn' = conn
      BY <2>1 DEF ConnStays
    <2>2. CASE conn' = [conn EXCEPT ![sess[s].conn].pw = FALSE]
      BY <1>2, <2>2, PwStays DEF ConnStays
    <2>3. QED BY <1>4, <2>1, <2>2
  <1>6. QED BY <1>1, <1>3, <1>5, MovesSame

LEMMA FrameReadKind ==
  ASSUME TInv, NEW s \in Sess, sess[s].pc = "loop", Inbox(s) # <<>>, FrameRead(s)
  PROVE  Moves(s) \/ Finishes(s)
  <1>1. sess[s].pc \in Running /\ sess[s].pc # "relayOpen" /\ Settled /\ conn \in ConnFs
    BY Pointers DEF Running, FrameRead, Settled
  <1>2. PICK p \in SockFs : p = Popped(s)
    BY PoppedType
  <1>3. \A v \in Ws : Same(sock, p, v)
    BY <1>2, PoppedSame
  <1>4. CASE sess' = Loops(s) /\ sock' = p /\ conn' = conn
    <2>1. \A d \in Conns : ConnStays(d)
      BY <1>4 DEF ConnStays
    <2>2. QED BY <1>1, <1>3, <1>4, <2>1, MovesSame
  <1>5. CASE \E retry : Throws(s, conn, p, retry)
    BY <1>1, <1>3, <1>5, ThrowsSame
  <1>6. QED BY <1>2, <1>4, <1>5 DEF FrameRead

LEMMA PermissionReadKind ==
  ASSUME TInv, NEW s \in Sess, sess[s].pc = "loop", Inbox(s) # <<>>,
         Head(Inbox(s)) = "permission", PermissionRead(s)
  PROVE  Finishes(s)
  <1>1. sess[s].pc \in Running /\ sess[s].pc # "relayOpen" /\ Settled /\ conn \in ConnFs
    BY Pointers DEF Running, PermissionRead, Settled
  <1>2. PICK p \in SockFs : p = Popped(s)
    BY PoppedType
  <1>3. \A v \in Ws : Same(sock, p, v)
    BY <1>2, PoppedSame
  <1>4. PICK end \in Ends : end = "silent" BY DEF Ends
  <1>5. Over(s, end, conn, p) /\ end # "hidden"
    BY <1>2, <1>4 DEF PermissionRead
  <1>6. HasNoCase(s) BY DEF HasNoCase
  <1>7. QED BY <1>1, <1>3, <1>5, <1>6, EndsSame

LEMMA ReplyThrowsKind ==
  ASSUME TInv, NEW s \in Sess, sess[s].pc = "loop", Inbox(s) # <<>>, ReplyThrows(s)
  PROVE  Finishes(s)
  <1>1. sess[s].pc \in Running /\ sess[s].pc # "relayOpen" /\ Settled /\ conn \in ConnFs
    BY Pointers DEF Running, ReplyThrows, Settled
  <1>2. PICK p \in SockFs : p = Popped(s)
    BY PoppedType
  <1>3. \A v \in Ws : Same(sock, p, v)
    BY <1>2, PoppedSame
  <1>4. PICK retry \in BOOLEAN : Throws(s, conn, p, retry)
    BY <1>2 DEF ReplyThrows
  <1>5. QED BY <1>1, <1>3, <1>4, ThrowsSame

LEMMA OtherReadKind ==
  ASSUME TInv, NEW s \in Sess, sess[s].pc = "loop", Inbox(s) # <<>>, NEW m, OtherRead(s, m)
  PROVE  Moves(s)
  <1>1. Settled /\ sock' = Popped(s) /\ conn' = conn
        /\ (sess' = Loops(s) \/ sess' = [sess EXCEPT ![s].pc = "unzip", ![s].waits = NoWs])
    BY DEF OtherRead, Settled
  <1>2. \A v \in Ws : Same(sock, sock', v)
    BY <1>1, PoppedSame
  <1>3. \A d \in Conns : ConnStays(d)
    BY <1>1 DEF ConnStays
  <1>4. QED BY <1>1, <1>2, <1>3, MovesSame

LEMMA UnpackedKind ==
  ASSUME TInv, NEW s \in Sess, Unpacked(s)
  PROVE  Moves(s)
  <1>1. sess[s].pc = "unzip" /\ Settled /\ sock' = sock /\ conn' = conn /\ sess' = Loops(s)
    BY DEF Unpacked, Settled
  <1>2. \A v \in Ws : Same(sock, sock', v)
    BY <1>1 DEF Same, Line
  <1>3. \A d \in Conns : ConnStays(d)
    BY <1>1 DEF ConnStays
  <1>4. QED BY <1>1, <1>2, <1>3, MovesSame

-----------------------------------------------------------------------------
(* Which step is of which kind: connections are closed and started         *)

LEMMA ClosedConnFields ==
  ASSUME TInv, NEW c \in Conns, NEW d \in Conns
  PROVE  /\ d # c => ClosedConn(c)[d] = conn[d]
         /\ d = c => /\ ~ClosedConn(c)[d].open /\ ~ClosedConn(c)[d].timer
                     /\ ClosedConn(c)[d].ws = conn[d].ws
  <1>1. conn[d] \in ConnType /\ conn \in ConnFs
    BY Current DEF ConnFs
  <1>2. PICK q : q = [conn[d] EXCEPT !.timer = FALSE, !.open = FALSE] OBVIOUS
  <1>3. ~q.open /\ ~q.timer /\ q.ws = conn[d].ws
    BY ONLY <1>1, <1>2 DEF ConnType
  <1>4. ClosedConn(c)[d] = IF d = c THEN q ELSE conn[d]
    BY <1>1, <1>2 DEF ClosedConn, ConnFs
  <1>5. QED BY <1>3, <1>4

\* close() marks the sessions that run, and nothing else about them.
LEMMA ClosedSessStays ==
  ASSUME TInv, NEW c \in Conns, NEW t \in Sess, NEW r, r = ClosedSess(c)[t]
  PROVE  /\ r.pc = sess[t].pc /\ r.conn = sess[t].conn /\ r.waits = sess[t].waits
         /\ r.alone = sess[t].alone /\ r.gaveUp = sess[t].gaveUp
         /\ r.secure = sess[t].secure /\ r.end = sess[t].end
         /\ IF t \in RunningOf(c) /\ sess[t].cut = "no"
            THEN r.cut = IF OpensRelay(t) THEN "escapes" ELSE "ends"
            ELSE r.cut = sess[t].cut
  <1>1. sess[t] \in SessType
    BY Pointers
  <1>2. PICK x : x = IF OpensRelay(t) THEN "escapes" ELSE "ends" OBVIOUS
  <1>3. PICK q : q = [sess[t] EXCEPT !.cut = x] OBVIOUS
  <1>4. /\ q.pc = sess[t].pc /\ q.conn = sess[t].conn /\ q.waits = sess[t].waits
        /\ q.alone = sess[t].alone /\ q.gaveUp = sess[t].gaveUp
        /\ q.secure = sess[t].secure /\ q.end = sess[t].end /\ q.cut = x
    BY ONLY <1>1, <1>3 DEF SessType
  <1>5. r = IF t \in RunningOf(c) /\ sess[t].cut = "no" THEN q ELSE sess[t]
    BY <1>2, <1>3 DEF ClosedSess
  <1>6. QED BY <1>2, <1>4, <1>5

LEMMA CloseReasonReadKind ==
  ASSUME TInv, NEW s \in Sess, sess[s].pc = "loop", Inbox(s) # <<>>, CloseReasonRead(s)
  PROVE  sess[s].conn \in Conns /\ Shuts(sess[s].conn, s)
  <1>1. sess[s].conn \in Conns /\ sess[s] \in SessType /\ conn[sess[s].conn].ws \in AnyWs
    BY Pointers DEF Running
  <1>2. PICK c \in Conns : c = sess[s].conn
    BY <1>1
  <1>3. PICK p \in SockFs : p = Popped(s)
    BY PoppedType
  <1>4. PICK k \in SockFs : k = CloseWs(p, conn[c].ws)
    BY <1>1, <1>2, <1>3, CloseWsType
  <1>5. PICK e : e = Ended(sess[s], "shown") OBVIOUS
  <1>6. /\ e.pc = "done" /\ e.waits = NoWs /\ e.conn = sess[s].conn /\ e.cut = sess[s].cut
        /\ e.alone = sess[s].alone /\ e.gaveUp = sess[s].gaveUp /\ e.end = "shown"
    BY ONLY <1>1, <1>5 DEF Ended, SessType
  <1>7. PICK ss \in SessFs : ss = ClosedSess(c)
    BY ClosedTypes
  <1>8. /\ conn' = ClosedConn(c) /\ sock' = Left(s, k) /\ sess' = [ss EXCEPT ![s] = e]
        /\ UNCHANGED <<curConn, nconn, nsess>>
    BY <1>2, <1>3, <1>4, <1>5, <1>7 DEF CloseReasonRead
  <1>9. sess'[s] = e /\ \A t \in Sess \ {s} : sess'[t] = ss[t]
    BY <1>7, <1>8 DEF SessFs
  <1>10. ASSUME NEW t \in Sess \ {s}
         PROVE  /\ sess'[t].pc = sess[t].pc /\ sess'[t].conn = sess[t].conn
                /\ sess'[t].waits = sess[t].waits /\ sess'[t].alone = sess[t].alone
                /\ sess'[t].gaveUp = sess[t].gaveUp /\ sess'[t].secure = sess[t].secure
                /\ sess'[t].end = sess[t].end /\ CutBy(c, t)
    <2>1. sess'[t] = ClosedSess(c)[t] /\ t \in Sess
      BY <1>7, <1>9
    <2>2. PICK r : r = sess'[t] OBVIOUS
    <2>3. /\ r.pc = sess[t].pc /\ r.conn = sess[t].conn /\ r.waits = sess[t].waits
          /\ r.alone = sess[t].alone /\ r.gaveUp = sess[t].gaveUp
          /\ r.secure = sess[t].secure /\ r.end = sess[t].end
          /\ IF t \in RunningOf(c) /\ sess[t].cut = "no"
             THEN r.cut = IF OpensRelay(t) THEN "escapes" ELSE "ends"
             ELSE r.cut = sess[t].cut
      BY <2>1, <2>2, ClosedSessStays
    <2>4. QED BY <2>2, <2>3 DEF CutBy
  <1>11. ASSUME NEW d \in Conns
         PROVE  \/ d # c /\ ConnStays(d)
                \/ /\ d = c /\ ~conn'[d].open /\ ~conn'[d].timer
                   /\ conn'[d].ws = conn[d].ws
    BY <1>8, ClosedConnFields DEF ConnStays
  <1>12. ASSUME NEW w \in Ws PROVE ShutSockets(c, s, w)
    <2>1. Same(sock, p, w)
      BY <1>3, PoppedSame
    <2>2. /\ w # conn[c].ws => k[w] = p[w]
          /\ w = conn[c].ws => ~Lives(k, w) /\ k[w].buf = p[w].buf
      BY <1>1, <1>2, <1>3, <1>4, CloseWsFields DEF Lives
    <2>3. /\ Lives(sock', w) => Lives(k, w)
          /\ k[w].buf = <<>> => sock'[w].buf = <<>>
      BY <1>4, <1>8, GarbageFields
    <2>4. (\E t \in Sess \ {s} : Reads(t, w)) => sock'[w] = k[w]
      BY <1>4, <1>8, LeftKeeps
    <2>5. Lives(k, w) => Lives(sock, w)
      BY <2>1, <2>2 DEF Same, Line, Lives
    <2>6. sock[w].buf = <<>> => k[w].buf = <<>>
      BY <2>1, <2>2 DEF Same, Line
    <2>7. w # conn[c].ws /\ (\E t \in Sess \ {s} : Reads(t, w)) => Same(sock, sock', w)
      BY <2>1, <2>2, <2>4 DEF Same, Line
    <2>8. QED BY <2>2, <2>3, <2>5, <2>6, <2>7 DEF ShutSockets
  <1>13. Shuts(c, s)
    BY <1>2, <1>6, <1>8, <1>9, <1>10, <1>11, <1>12 DEF Shuts
  <1>14. QED BY <1>2, <1>13

\* What close() does to the sockets, and then the sweep.
LEMMA ClosedSockFields ==
  ASSUME TInv, NEW c \in Conns, NEW k, k = ClosedSock(c), NEW w \in Ws
  PROVE  /\ Lives(k, w) => Lives(sock, w)
         /\ sock[w].buf = <<>> => k[w].buf = <<>>
         /\ w = conn[c].ws => ~Lives(k, w)
         /\ w # conn[c].ws => k[w] = sock[w]
  <1>1. sock \in SockFs /\ conn[c].ws \in AnyWs
    BY Current DEF ConnFs, ConnType, AnyWs
  <1>2. k = CloseWs(sock, conn[c].ws)
    BY DEF ClosedSock
  <1>3. /\ w # conn[c].ws => k[w] = sock[w]
        /\ w = conn[c].ws => ~Lives(k, w) /\ k[w].buf = sock[w].buf
    BY <1>1, <1>2, CloseWsFields DEF Lives
  <1>4. QED BY <1>3 DEF Lives

LEMMA SweptShuts ==
  ASSUME TInv, NEW c \in Conns, NEW k \in SockFs, NEW w \in Ws, sock'[w] = Swept(k)[w],
         /\ Lives(k, w) => Lives(sock, w)
         /\ sock[w].buf = <<>> => k[w].buf = <<>>
         /\ w = conn[c].ws => ~Lives(k, w)
         /\ w # conn[c].ws => k[w] = sock[w]
  PROVE  ShutSockets(c, 0, w)
  <1>1. PICK j : j = Swept(k) OBVIOUS
  <1>2. /\ Lives(j, w) => Lives(k, w)
        /\ k[w].buf = <<>> => j[w].buf = <<>>
    BY <1>1, GarbageFields
  <1>3. Lives(sock', w) => Lives(j, w)
    BY <1>1 DEF Lives
  <1>4. (\E t \in Sess : Reads(t, w)) => sock'[w] = k[w]
    BY SweptKeeps
  <1>5. QED BY <1>1, <1>2, <1>3, <1>4 DEF ShutSockets, Same, Line

LEMMA LeaveKind ==
  ASSUME TInv, Leave
  PROVE  curConn \in Conns /\ Shuts(curConn, 0)
  <1>1. curConn \in Conns
    BY LeaveType
  <1>2. PICK c \in Conns : c = curConn BY <1>1
  <1>3. 0 \notin Sess /\ Sess \ {0} = Sess
    BY DEF Sess
  <1>4. PICK k \in SockFs : k = ClosedSock(c)
    BY ClosedTypes
  <1>5. PICK cn \in ConnFs : cn = ClosedConn(c)
    BY ClosedTypes
  <1>6. /\ conn' = [cn EXCEPT ![c] = IF RunningOf(c) = {} THEN NoConn ELSE @]
        /\ sock' = Swept(k) /\ sess' = ClosedSess(c)
        /\ curConn' = 0 /\ UNCHANGED <<nconn, nsess>>
    BY <1>2, <1>4, <1>5 DEF Leave
  <1>7. ASSUME NEW t \in Sess
        PROVE  /\ sess'[t].pc = sess[t].pc /\ sess'[t].conn = sess[t].conn
               /\ sess'[t].waits = sess[t].waits /\ sess'[t].alone = sess[t].alone
               /\ sess'[t].gaveUp = sess[t].gaveUp /\ sess'[t].secure = sess[t].secure
               /\ sess'[t].end = sess[t].end /\ CutBy(c, t)
    <2>1. PICK r : r = sess'[t] OBVIOUS
    <2>2. /\ r.pc = sess[t].pc /\ r.conn = sess[t].conn /\ r.waits = sess[t].waits
          /\ r.alone = sess[t].alone /\ r.gaveUp = sess[t].gaveUp
          /\ r.secure = sess[t].secure /\ r.end = sess[t].end
          /\ IF t \in RunningOf(c) /\ sess[t].cut = "no"
             THEN r.cut = IF OpensRelay(t) THEN "escapes" ELSE "ends"
             ELSE r.cut = sess[t].cut
      BY <1>6, <2>1, ClosedSessStays
    <2>3. QED BY <2>1, <2>2 DEF CutBy
  <1>8. ASSUME NEW d \in Conns
        PROVE  \/ d # c /\ ConnStays(d)
               \/ /\ d = c /\ ~conn'[d].open /\ ~conn'[d].timer
                  /\ \/ conn'[d].ws = conn[d].ws
                     \/ conn'[d].ws = NoWs /\ RunningOf(d) = {}
    <2>1. /\ d # c => cn[d] = conn[d]
          /\ d = c => ~cn[d].open /\ ~cn[d].timer /\ cn[d].ws = conn[d].ws
      BY <1>5, ClosedConnFields
    <2>2. conn'[d] = IF d = c /\ RunningOf(c) = {} THEN NoConn ELSE cn[d]
      BY <1>6 DEF ConnFs
    <2>3. ~NoConn.open /\ ~NoConn.timer /\ NoConn.ws = NoWs
      BY DEF NoConn
    <2>4. QED BY <2>1, <2>2, <2>3 DEF ConnStays
  <1>9. ASSUME NEW w \in Ws PROVE ShutSockets(c, 0, w)
    <2>1. /\ Lives(k, w) => Lives(sock, w)
          /\ sock[w].buf = <<>> => k[w].buf = <<>>
          /\ w = conn[c].ws => ~Lives(k, w)
          /\ w # conn[c].ws => k[w] = sock[w]
      BY <1>4, ClosedSockFields
    <2>2. QED BY <1>6, <2>1, SweptShuts
  <1>10. Shuts(c, 0)
    BY <1>2, <1>3, <1>6, <1>7, <1>8, <1>9 DEF Shuts
  <1>11. QED BY <1>2, <1>10

\* A session starts where close() has run on its connection, or nothing had to.
LEMMA StartBegins ==
  ASSUME TInv, NEW c \in Conns, NEW cn \in ConnFs, NEW ss \in SessFs, NEW k \in SockFs,
         \A t \in Sess :
           /\ ss[t].pc = sess[t].pc /\ ss[t].conn = sess[t].conn /\ ss[t].waits = sess[t].waits
           /\ ss[t].alone = sess[t].alone /\ ss[t].gaveUp = sess[t].gaveUp
           /\ ss[t].secure = sess[t].secure /\ ss[t].end = sess[t].end
           /\ t \in RunningOf(c) => ss[t].cut # "no"
           /\ t \notin RunningOf(c) => ss[t].cut = sess[t].cut,
         \A d \in Conns : d # c => cn[d] = conn[d],
         \A w \in Ws : /\ Lives(k, w) => Lives(sock, w)
                       /\ sock[w].buf = <<>> => k[w].buf = <<>>
                       /\ w = conn[c].ws => ~Lives(k, w)
                       /\ w # conn[c].ws => k[w] = sock[w],
         StartFrom(c, cn, ss, k), curConn' = c, curConn = 0 \/ curConn = c,
         nconn <= nconn', c <= nconn', nconn \in Nat, nconn' \in Nat
  PROVE  \E s \in Sess : Begins(s, c)
  <1>1. PICK s \in Sess : s = nsess + 1 /\ nsess' = s
    BY DEF StartFrom
  <1>2. sess[s].pc = "none"
    BY <1>1, BoundsAssumption DEF TInv, TypeOK, AtWork, Sess
  <1>3. s \notin RunningOf(c) /\ ss[s].pc = "none"
    BY <1>2 DEF RunningOf, Running, Starting
  <1>4. PICK a : a = (RunningOf(c) = {}) OBVIOUS
  <1>5. PICK n : n = [NoSess EXCEPT !.pc = "idOpen", !.conn = c, !.alone = a]
    OBVIOUS
  <1>6. PICK m : m = [NoSess EXCEPT !.pc = "done"]
    OBVIOUS
  <1>7. PICK f : f = [t \in Sess |-> [ss[t] EXCEPT !.alone = FALSE]]
    OBVIOUS
  <1>8. PICK g : g = [t \in Sess |-> [ss[t] EXCEPT !.end = "none"]]
    OBVIOUS
  <1>9. \A t \in Sess : sess'[t] =
                CASE t = s -> n
                  [] t \in RunningOf(c) -> f[t]
                  [] ss[t].pc = "done" /\ ~StillOpen(t) -> m
                  [] OTHER -> g[t]
    BY <1>1, <1>4, <1>5, <1>6, <1>7, <1>8 DEF StartFrom
  <1>10. sess'[s] = n
    <2>1. sess'[s] = CASE s = s -> n
                       [] s \in RunningOf(c) -> f[s]
                       [] ss[s].pc = "done" /\ ~StillOpen(s) -> m
                       [] OTHER -> g[s]
      BY <1>9
    <2>2. QED BY ONLY <1>3, <2>1
  <1>11. /\ n.pc = "idOpen" /\ n.conn = c /\ n.waits = NoWs /\ n.cut = "no" /\ ~n.secure
         /\ ~n.gaveUp /\ n.end = "none" /\ n.alone = a
    BY <1>5 DEF NoSess
  <1>12. m.pc = "done" /\ m.waits = NoWs /\ m.conn = 0 /\ m.end = "none"
    BY <1>6 DEF NoSess
  <1>13. ASSUME NEW t \in Sess, NEW r, r = f[t] \/ r = g[t]
         PROVE  /\ r.pc = sess[t].pc /\ r.conn = sess[t].conn /\ r.waits = sess[t].waits
                /\ r.gaveUp = sess[t].gaveUp /\ r.secure = sess[t].secure
                /\ r.end \in {sess[t].end, "none"} /\ r.cut = ss[t].cut
                /\ r = f[t] => r.alone = FALSE
                /\ r = g[t] => r.alone = sess[t].alone
    <2>1. PICK b : b = ss[t] OBVIOUS
    <2>2. b \in SessType BY <2>1 DEF SessFs
    <2>3. PICK x : x = [b EXCEPT !.alone = FALSE] OBVIOUS
    <2>4. PICK y : y = [b EXCEPT !.end = "none"] OBVIOUS
    <2>5. /\ x.pc = b.pc /\ x.conn = b.conn /\ x.waits = b.waits /\ x.cut = b.cut
          /\ x.gaveUp = b.gaveUp /\ x.secure = b.secure /\ x.end = b.end /\ x.alone = FALSE
      BY ONLY <2>2, <2>3 DEF SessType
    <2>6. /\ y.pc = b.pc /\ y.conn = b.conn /\ y.waits = b.waits /\ y.cut = b.cut
          /\ y.gaveUp = b.gaveUp /\ y.secure = b.secure /\ y.alone = b.alone /\ y.end = "none"
      BY ONLY <2>2, <2>4 DEF SessType
    <2>7. f[t] = x /\ g[t] = y
      BY <1>7, <1>8, <2>1, <2>3, <2>4
    <2>8. QED BY <1>13, <2>1, <2>5, <2>6, <2>7
  <1>14. ASSUME NEW t \in Sess \ {s}
         PROVE  \/ /\ sess[t].pc = "done" /\ sess'[t].pc = "done" /\ sess'[t].waits = NoWs
                   /\ sess'[t].conn = 0 /\ sess'[t].end = "none"
                \/ /\ sess'[t].pc = sess[t].pc /\ sess'[t].conn = sess[t].conn
                   /\ sess'[t].waits = sess[t].waits /\ sess'[t].gaveUp = sess[t].gaveUp
                   /\ sess'[t].secure = sess[t].secure /\ sess'[t].end \in {sess[t].end, "none"}
                   /\ sess'[t].alone = (sess[t].alone /\ t \notin RunningOf(c))
                   /\ t \in RunningOf(c) => sess'[t].cut # "no"
                   /\ t \notin RunningOf(c) => sess'[t].cut = sess[t].cut
                   /\ sess'[t].cut = "no" => sess[t].cut = "no"
    <2>1. PICK r : r = sess'[t] OBVIOUS
    <2>2. sess[t].alone \in BOOLEAN
      BY Pointers DEF SessType
    <2>3. \/ r = m /\ ss[t].pc = "done"
          \/ r = f[t] /\ t \in RunningOf(c)
          \/ r = g[t] /\ t \notin RunningOf(c)
      <3>1. t \in RunningOf(c) => ss[t].pc # "done"
        BY DEF RunningOf, Running, Starting
      <3>2. QED BY <1>9, <2>1, <3>1
    <2>4. CASE r = m /\ ss[t].pc = "done"
      BY <1>12, <2>1, <2>4
    <2>5. CASE r # m \/ ss[t].pc # "done"
      <3>1. r = f[t] \/ r = g[t]
        BY <2>3, <2>5
      <3>2. /\ r.pc = sess[t].pc /\ r.conn = sess[t].conn /\ r.waits = sess[t].waits
            /\ r.gaveUp = sess[t].gaveUp /\ r.secure = sess[t].secure
            /\ r.end \in {sess[t].end, "none"} /\ r.cut = ss[t].cut
            /\ r = f[t] => r.alone = FALSE
            /\ r = g[t] => r.alone = sess[t].alone
        <4>1. t \in Sess OBVIOUS
        <4>2. QED BY ONLY <1>13, <3>1, <4>1
      <3>3. t \in Sess OBVIOUS
      <3>4. r.alone = (sess[t].alone /\ t \notin RunningOf(c))
        BY <2>2, <2>3, <2>5, <3>2
      <3>5. /\ t \in RunningOf(c) => r.cut # "no"
            /\ t \notin RunningOf(c) => r.cut = sess[t].cut
        BY <3>2, <3>3
      <3>6. r.cut = "no" => sess[t].cut = "no"
        BY <3>5
      <3>7. QED BY <2>1, <3>2, <3>4, <3>5, <3>6
    <2>6. QED BY <2>4, <2>5
  <1>15. ASSUME NEW d \in Conns
         PROVE  \/ d # c /\ ConnStays(d)
                \/ d = c /\ conn'[d].ws = <<s, "id">> /\ conn'[d].open
    <2>1. PICK w : w = <<s, "id">> OBVIOUS
    <2>2. conn' = [cn EXCEPT ![c].open = TRUE, ![c].timer = TRUE, ![c].ws = w]
      BY <1>1, <2>1 DEF StartFrom
    <2>3. PICK q : q = [cn[c] EXCEPT !.open = TRUE, !.timer = TRUE, !.ws = w] OBVIOUS
    <2>4. cn[c] \in ConnType BY DEF ConnFs
    <2>5. q.open /\ q.ws = w BY ONLY <2>3, <2>4 DEF ConnType
    <2>6. conn'[d] = IF d = c THEN q ELSE cn[d]
      BY <2>2, <2>3 DEF ConnFs
    <2>7. QED BY <2>1, <2>5, <2>6 DEF ConnStays
  <1>16. ASSUME NEW w \in Ws, w # <<s, "id">> PROVE ShutSockets(c, 0, w)
    <2>1. sock' = [v \in Ws |-> CASE v = <<s, "id">> -> [NoSock EXCEPT !.ready = "connecting"]
                                  [] OTHER -> Swept(k)[v]]
      BY <1>1 DEF StartFrom
    <2>2. sock'[w] = Swept(k)[w]
      BY <1>16, <2>1
    <2>3. QED BY <2>2, SweptShuts
  <1>17. sess'[s].alone = (RunningOf(c) = {})
    BY <1>4, <1>10, <1>11
  <1>18. \A d \in Conns : d > nconn' => d > nconn
    BY BoundsAssumption DEF Conns
  <1>19. Begins(s, c)
    BY <1>1, <1>10, <1>11, <1>14, <1>15, <1>16, <1>17, <1>18 DEF Begins
  <1>20. QED BY <1>19

LEMMA ConnectKind ==
  ASSUME TInv, OneInv, \A d \in Conns : d > nconn => conn[d].ws = NoWs, Connect
  PROVE  \E s \in Sess, c \in Conns : Begins(s, c)
  <1>1. PICK c \in Conns : c = nconn'
    BY ConnectType
  <1>2. StartFrom(c, conn, sess, sock) /\ c = nconn + 1 /\ curConn' = c
    BY <1>1, ConnectType
  <1>3. curConn = 0 /\ nconn \in Nat /\ nconn' \in Nat /\ nconn <= nconn' /\ c <= nconn'
    BY <1>1, <1>2, Current DEF Connect
  <1>4. \A t \in Sess : t \notin RunningOf(c)
    BY <1>2, <1>3, Pointers DEF OneInv, RunningOf, Conns
  <1>5. conn[c].ws = NoWs
    BY <1>2, <1>3 DEF Conns
  <1>6. \A w \in Ws : w # conn[c].ws
    BY <1>5, NoSuchWs
  <1>7. conn \in ConnFs /\ sess \in SessFs /\ sock \in SockFs
    BY Current
  <1>8. \E s \in Sess : Begins(s, c)
    BY <1>2, <1>3, <1>4, <1>6, <1>7, StartBegins
  <1>9. QED BY <1>8

LEMMA RetryFiresKind ==
  ASSUME TInv, OneInv, RetryFires
  PROVE  Still \/ \E s \in Sess, c \in Conns : Begins(s, c)
  <1>1. UNCHANGED <<page, curConn, nconn>>
    BY DEF RetryFires
  <1>2. CASE curConn = 0
    <2>1. UNCHANGED <<conn, nsess, sess, sock>>
      BY <1>2 DEF RetryFires
    <2>2. \A w \in Ws : Weathers(w)
      BY <2>1, SameTrans, SameWeathers
    <2>3. QED BY <1>1, <2>1, <2>2, LinesLast DEF Settled
  <1>3. CASE curConn # 0
    <2>1. PICK c \in Conns : c = curConn
      BY <1>3, Current
    <2>2. PICK h \in SessFs : h = ClosedSess(c)
      BY ClosedTypes
    <2>3. PICK cn \in ConnFs : cn = ClosedConn(c)
      BY ClosedTypes
    <2>4. PICK k \in SockFs : k = ClosedSock(c)
      BY ClosedTypes
    <2>5. StartFrom(c, cn, h, k)
      BY <1>3, <2>1, <2>2, <2>3, <2>4 DEF RetryFires
    <2>6. ASSUME NEW t \in Sess
          PROVE  /\ h[t].pc = sess[t].pc /\ h[t].conn = sess[t].conn /\ h[t].waits = sess[t].waits
                 /\ h[t].alone = sess[t].alone /\ h[t].gaveUp = sess[t].gaveUp
                 /\ h[t].secure = sess[t].secure /\ h[t].end = sess[t].end
                 /\ t \in RunningOf(c) => h[t].cut # "no"
                 /\ t \notin RunningOf(c) => h[t].cut = sess[t].cut
      <3>1. PICK r : r = h[t] OBVIOUS
      <3>2. /\ r.pc = sess[t].pc /\ r.conn = sess[t].conn /\ r.waits = sess[t].waits
            /\ r.alone = sess[t].alone /\ r.gaveUp = sess[t].gaveUp
            /\ r.secure = sess[t].secure /\ r.end = sess[t].end
            /\ IF t \in RunningOf(c) /\ sess[t].cut = "no"
               THEN r.cut = IF OpensRelay(t) THEN "escapes" ELSE "ends"
               ELSE r.cut = sess[t].cut
        BY <2>2, <3>1, ClosedSessStays
      <3>3. t \in RunningOf(c) => r.cut # "no"
        BY <3>2
      <3>4. QED BY <3>1, <3>2, <3>3
    <2>7. \A d \in Conns : d # c => cn[d] = conn[d]
      BY <2>3, ClosedConnFields
    <2>8. ASSUME NEW w \in Ws
          PROVE  /\ Lives(k, w) => Lives(sock, w)
                 /\ sock[w].buf = <<>> => k[w].buf = <<>>
                 /\ w = conn[c].ws => ~Lives(k, w)
                 /\ w # conn[c].ws => k[w] = sock[w]
      BY <2>4, ClosedSockFields
    <2>9. /\ nconn <= nconn' /\ c <= nconn' /\ nconn \in Nat /\ nconn' \in Nat
          /\ curConn' = c /\ curConn = c
      BY <1>1, <2>1, Current DEF OneInv
    <2>10. \E s \in Sess : Begins(s, c)
      BY <2>5, <2>6, <2>7, <2>8, <2>9, StartBegins
    <2>11. QED BY <2>10
  <1>4. QED BY <1>2, <1>3

-----------------------------------------------------------------------------
(* Every step is of one of the kinds                                       *)

AnyKind ==
  \/ Still
  \/ \E s \in Sess : Moves(s) \/ Finishes(s) \/ Opens(s) \/ Refers(s) \/ Relays(s)
  \/ \E c \in Conns, e \in Sess \cup {0} : Shuts(c, e)
  \/ \E s \in Sess, c \in Conns : Begins(s, c)

LEMMA StepKind ==
  ASSUME TInv, NEW s \in Sess, Polling(s), Browser(s) \/ Session(s)
  PROVE  AnyKind
  <1>1. CASE Browser(s)
    <2>1. CASE IdSocketOpens(s) BY <2>1, IdSocketOpensKind DEF AnyKind
    <2>2. CASE RelaySocketOpens(s) BY <2>2, RelaySocketOpensKind DEF AnyKind
    <2>3. CASE \E kind \in {"id", "relay"} : SocketFails(s, kind) \/ SocketCloses(s, kind)
      BY <2>3, SocketFailsKind, SocketClosesKind DEF AnyKind
    <2>4. CASE \E m \in Sends(s, sess[s]) \cap IdAnswers : AnswerArrives(s, m)
      BY <2>4, AnswerArrivesKind DEF AnyKind
    <2>5. CASE \E m \in Sends(s, sess[s]) \cap PeerMessages : PeerMessageArrives(s, m)
      BY <2>5, PeerMessageArrivesKind DEF AnyKind
    <2>6. QED BY <1>1, <2>1, <2>2, <2>3, <2>4, <2>5 DEF Browser
  <1>2. CASE MessageRead(s)
    <2>1. sess[s].pc = "loop" /\ Inbox(s) # <<>>
      BY <1>2 DEF MessageRead
    <2>2. CASE HashRead(s) BY <2>1, <2>2, HashReadKind DEF AnyKind
    <2>3. CASE LoginAnswerRead(s, Head(Inbox(s))) BY <2>1, <2>3, LoginAnswerReadKind DEF AnyKind
    <2>4. CASE FrameRead(s) BY <2>1, <2>4, FrameReadKind DEF AnyKind
    <2>5. CASE Head(Inbox(s)) = "permission" /\ PermissionRead(s)
      BY <2>1, <2>5, PermissionReadKind DEF AnyKind
    <2>6. CASE CloseReasonRead(s) BY <2>1, <2>6, CloseReasonReadKind DEF AnyKind
    <2>7. CASE \E m : OtherRead(s, m) BY <2>1, <2>7, OtherReadKind DEF AnyKind
    <2>8. CASE ReplyThrows(s) BY <2>1, <2>8, ReplyThrowsKind DEF AnyKind
    <2>9. QED BY <1>2, <2>2, <2>3, <2>4, <2>5, <2>6, <2>7, <2>8 DEF MessageRead
  <1>3. CASE Session(s) /\ ~MessageRead(s)
    <2>1. CASE AnswerRead(s) BY <2>1, AnswerReadKind DEF AnyKind
    <2>2. CASE SignedIdRead(s) BY <2>2, SignedIdReadKind DEF AnyKind
    <2>3. CASE NextRejects(s) BY <2>3, NextRejectsKind DEF AnyKind
    <2>4. CASE OpenTimesOut(s) BY <2>4, OpenTimesOutKind DEF AnyKind
    <2>5. CASE KeyVerified(s) BY <2>5, KeyVerifiedKind DEF AnyKind
    <2>6. CASE Unpacked(s) BY <2>6, UnpackedKind DEF AnyKind
    <2>7. QED BY <1>3, <2>1, <2>2, <2>3, <2>4, <2>5, <2>6 DEF Session, Poll
  <1>4. QED BY <1>1, <1>2, <1>3

-----------------------------------------------------------------------------
(* Which socket belongs to whom                                            *)

\* A session that polls what is `_ws` of a connection belongs to that one.
Exclusive(s) == \A d \in Conns :
                  sess[s].waits = conn[d].ws /\ conn[d].ws # NoWs => sess[s].conn = d

\* A relay socket that is not open yet is nobody's `_ws`, and nobody polls it.
Unborn(s) == sess[s].pc \in {"idOpen", "idAnswer", "relayOpen"} =>
               /\ \A d \in Conns : conn[d].ws # <<s, "relay">>
               /\ \A t \in Sess : sess[t].waits # <<s, "relay">>

\* A session without company so far has none now.
Lonely(s) == sess[s].pc \in Running /\ sess[s].alone =>
               \A t \in Sess : sess[t].pc \in Running /\ sess[t].conn = sess[s].conn => t = s

\* Only the current connection is open, and one not made yet has no `_ws`.
Latest(d) == /\ conn[d].open => d = curConn
             /\ conn[d].timer => conn[d].open
             /\ d > nconn => conn[d].ws = NoWs

Distinct == \A c, d \in Conns : conn[c].ws = conn[d].ws /\ conn[c].ws # NoWs => c = d

Wired == /\ \A s \in Sess : Polling(s) /\ Exclusive(s) /\ Unborn(s) /\ Lonely(s)
         /\ \A d \in Conns : Latest(d)
         /\ Distinct

LEMMA NextKind ==
  ASSUME AllInv, Wired, [Next]_vars
  PROVE  AnyKind
  <1>1. TInv /\ OneInv
    BY DEF AllInv
  <1>2. CASE Connect
    <2>1. \A d \in Conns : d > nconn => conn[d].ws = NoWs
      BY DEF Wired, Latest
    <2>2. QED BY <1>1, <1>2, <2>1, ConnectKind DEF AnyKind
  <1>3. CASE Leave
    <2>1. curConn \in Conns /\ Shuts(curConn, 0)
      BY <1>1, <1>3, LeaveKind
    <2>2. QED BY <2>1 DEF AnyKind
  <1>4. CASE RetryFires
    BY <1>1, <1>4, RetryFiresKind DEF AnyKind
  <1>5. CASE GivePassword
    BY <1>1, <1>5, GivePasswordKind DEF AnyKind
  <1>6. CASE \E s \in Sess : Browser(s) \/ Session(s)
    BY <1>1, <1>6, StepKind DEF Wired
  <1>7. CASE UNCHANGED vars
    <2>1. Settled /\ conn' = conn /\ sess' = sess /\ sock' = sock
      BY <1>7 DEF vars, Settled
    <2>2. \A w \in Ws : Weathers(w)
      BY <2>1, SameTrans, SameWeathers
    <2>3. QED BY <2>1, <2>2, LinesLast DEF AnyKind
  <1>8. QED BY <1>2, <1>3, <1>4, <1>5, <1>6, <1>7 DEF Next

LEMMA WiredStill ==
  ASSUME Wired, Still
  PROVE  Wired'
  <1>1. /\ UNCHANGED <<curConn, nconn, nsess, sess>>
        /\ \A d \in Conns : /\ conn'[d].ws = conn[d].ws /\ conn'[d].open = conn[d].open
                            /\ conn'[d].timer = conn[d].timer
    BY DEF Still, ConnStays
  <1>2. \A s \in Sess : Polling(s)' /\ Exclusive(s)' /\ Unborn(s)' /\ Lonely(s)'
    BY <1>1 DEF Wired, Polling, Exclusive, Unborn, Lonely
  <1>3. (\A d \in Conns : Latest(d)') /\ Distinct'
    BY <1>1 DEF Wired, Latest, Distinct
  <1>4. QED BY <1>2, <1>3 DEF Wired

LEMMA WiredMoves ==
  ASSUME AllInv, Wired, NEW s \in Sess, Moves(s)
  PROVE  Wired'
  <1>1. PICK w : w = conn[sess[s].conn].ws OBVIOUS
  <1>2. /\ sess[s].pc \in Past /\ sess'[s].pc \in {"signed", "loop", "unzip"}
        /\ sess'[s].conn = sess[s].conn /\ sess'[s].alone = sess[s].alone
        /\ \A t \in Sess \ {s} : sess'[t] = sess[t]
        /\ UNCHANGED <<curConn, nconn, nsess>>
        /\ sess'[s].waits = IF sess'[s].pc = "unzip" THEN NoWs ELSE w
        /\ \A d \in Conns : /\ conn'[d].ws = conn[d].ws /\ conn'[d].open = conn[d].open
                            /\ conn'[d].timer = conn[d].timer
    BY <1>1 DEF Moves, SessStays, ConnStays, Settled
  <1>3. sess[s].conn \in Conns /\ sess[s].pc \in Running /\ sess'[s].pc \in Running
    BY <1>2, Pointers DEF AllInv, Past, Running, Starting
  <1>4. w # NoWs => w[1] \in 1..nsess
    BY <1>1, <1>3 DEF AllInv, LoginInv, Owned
  <1>5. (\A d \in Conns : Latest(d)') /\ Distinct'
    BY <1>2 DEF Wired, Latest, Distinct
  <1>6. ASSUME NEW t \in Sess PROVE Polling(t)'
    <2>1. Polling(t)
      BY DEF Wired
    <2>2. QED BY <1>2, <1>4, <2>1 DEF Polling
  <1>7. ASSUME NEW t \in Sess PROVE Exclusive(t)'
    BY <1>1, <1>2, <1>3 DEF Wired, Exclusive, Distinct
  <1>8. ASSUME NEW t \in Sess PROVE Unborn(t)'
    <2>1. sess'[t].pc \in {"idOpen", "idAnswer", "relayOpen"} => t # s
      BY <1>2
    <2>2. NoWs # <<t, "relay">>
      BY DEF NoWs, Sess
    <2>3. PICK r : r = <<t, "relay">> OBVIOUS
    <2>4. ASSUME sess[t].pc \in {"idOpen", "idAnswer", "relayOpen"}
          PROVE  (\A d \in Conns : conn[d].ws # r) /\ (\A u \in Sess : sess[u].waits # r)
      BY <2>3, <2>4 DEF Wired, Unborn
    <2>5. ASSUME sess'[t].pc \in {"idOpen", "idAnswer", "relayOpen"}
          PROVE  (\A d \in Conns : conn'[d].ws # r) /\ (\A u \in Sess : sess'[u].waits # r)
      <3>1. (\A d \in Conns : conn[d].ws # r) /\ (\A u \in Sess : sess[u].waits # r)
        BY <1>2, <2>1, <2>4, <2>5
      <3>2. w # r BY <1>1, <1>3, <3>1
      <3>3. QED BY <1>2, <2>2, <2>3, <3>1, <3>2
    <2>6. QED BY <2>3, <2>5 DEF Unborn
  <1>9. ASSUME NEW t \in Sess PROVE Lonely(t)'
    BY <1>2, <1>3 DEF Wired, Lonely
  <1>10. QED BY <1>5, <1>6, <1>7, <1>8, <1>9 DEF Wired

LEMMA WiredFinishes ==
  ASSUME AllInv, Wired, NEW s \in Sess, Finishes(s)
  PROVE  Wired'
  <1>1. /\ sess[s].pc \in Running /\ sess'[s].pc = "done" /\ sess'[s].waits = NoWs
        /\ sess'[s].conn = sess[s].conn /\ sess'[s].alone = sess[s].alone
        /\ \A t \in Sess \ {s} : sess'[t] = sess[t]
        /\ UNCHANGED <<curConn, nconn, nsess>>
    BY DEF Finishes, Settled
  <1>2. "done" \notin Running
    BY DEF Running, Starting
  <1>3. ASSUME NEW d \in Conns
        PROVE  /\ conn'[d].ws = conn[d].ws \/ conn'[d].ws = NoWs
               /\ conn'[d].open => conn[d].open
               /\ conn'[d].timer => conn[d].timer /\ conn'[d].open = conn[d].open
    <2>1. ConnStays(d) \/ conn'[d] = NoConn
      BY DEF Finishes
    <2>2. NoConn.ws = NoWs /\ ~NoConn.open /\ ~NoConn.timer
      BY DEF NoConn
    <2>3. QED BY <2>1, <2>2 DEF ConnStays
  <1>4. ASSUME NEW d \in Conns PROVE Latest(d)'
    BY <1>1, <1>3 DEF Wired, Latest
  <1>5. Distinct'
    BY <1>3 DEF Wired, Distinct
  <1>6. ASSUME NEW t \in Sess PROVE Polling(t)'
    BY <1>1 DEF Wired, Polling
  <1>7. ASSUME NEW t \in Sess PROVE Exclusive(t)'
    BY <1>1, <1>3 DEF Wired, Exclusive
  <1>8. ASSUME NEW t \in Sess PROVE Unborn(t)'
    <2>1. NoWs # <<t, "relay">>
      BY DEF NoWs, Sess
    <2>2. QED BY <1>1, <1>3, <2>1 DEF Wired, Unborn
  <1>9. ASSUME NEW t \in Sess PROVE Lonely(t)'
    BY <1>1, <1>2 DEF Wired, Lonely
  <1>10. QED BY <1>4, <1>5, <1>6, <1>7, <1>8, <1>9 DEF Wired

LEMMA WiredOpens ==
  ASSUME AllInv, Wired, NEW s \in Sess, Opens(s)
  PROVE  Wired'
  <1>1. PICK w \in Ws : w = <<s, "id">> /\ w[1] = s /\ w[2] = "id"
    BY Pointers DEF AllInv
  <1>2. /\ sess[s].pc = "idOpen" /\ sess'[s].pc = "idAnswer" /\ sess'[s].waits = w
        /\ sess'[s].conn = sess[s].conn /\ sess'[s].alone = sess[s].alone
        /\ \A t \in Sess \ {s} : sess'[t] = sess[t]
        /\ UNCHANGED <<curConn, nconn, nsess>>
        /\ \A d \in Conns : /\ conn'[d].ws = conn[d].ws /\ conn'[d].open = conn[d].open
                            /\ conn'[d].timer = conn[d].timer
    BY <1>1 DEF Opens, SessStays, ConnStays, Settled
  <1>3. sess[s].pc \in Running /\ sess'[s].pc \in Running
    BY <1>2 DEF Running, Starting
  <1>4. w[1] \in 1..nsess
    BY <1>1, <1>2, BoundsAssumption DEF AllInv, TInv, TypeOK, AtWork, Sess
  <1>5. (\A d \in Conns : Latest(d)') /\ Distinct'
    BY <1>2 DEF Wired, Latest, Distinct
  <1>6. ASSUME NEW t \in Sess PROVE Polling(t)'
    <2>1. Polling(t)
      BY DEF Wired
    <2>2. QED BY <1>1, <1>2, <1>4, <2>1 DEF Polling
  <1>7. ASSUME NEW t \in Sess PROVE Exclusive(t)'
    <2>1. CASE t = s
      <3>1. ASSUME NEW d \in Conns, conn[d].ws = w PROVE sess[s].conn = d
        <4>1. conn[d].ws # NoWs BY <3>1, <1>1, NoSuchWs
        <4>2. sess[conn[d].ws[1]].pc \in Running => sess[conn[d].ws[1]].conn = d
          BY <4>1 DEF AllInv, LoginInv, Owned
        <4>3. conn[d].ws[1] = s BY <1>1, <3>1
        <4>4. QED BY <1>3, <4>2, <4>3
      <3>2. QED BY <1>2, <2>1, <3>1 DEF Exclusive
    <2>2. CASE t # s
      BY <1>2, <2>2 DEF Wired, Exclusive
    <2>3. QED BY <2>1, <2>2
  <1>8. ASSUME NEW t \in Sess PROVE Unborn(t)'
    <2>1. PICK r \in Ws : r = <<t, "relay">> /\ r[2] = "relay"
      BY Pointers DEF AllInv
    <2>2. w # r BY <1>1, <2>1
    <2>3. sess[t].pc \in {"idOpen", "idAnswer", "relayOpen"} =>
            (\A d \in Conns : conn[d].ws # r) /\ (\A u \in Sess : sess[u].waits # r)
      BY <2>1 DEF Wired, Unborn
    <2>4. sess'[t].pc \in {"idOpen", "idAnswer", "relayOpen"} =>
            (\A d \in Conns : conn'[d].ws # r) /\ (\A u \in Sess : sess'[u].waits # r)
      BY <1>2, <2>2, <2>3
    <2>5. QED BY <2>1, <2>4 DEF Unborn
  <1>9. ASSUME NEW t \in Sess PROVE Lonely(t)'
    BY <1>2, <1>3 DEF Wired, Lonely
  <1>10. QED BY <1>5, <1>6, <1>7, <1>8, <1>9 DEF Wired

LEMMA WiredRefers ==
  ASSUME AllInv, Wired, NEW s \in Sess, Refers(s)
  PROVE  Wired'
  <1>1. /\ sess[s].pc = "idAnswer" /\ sess'[s].pc = "relayOpen" /\ sess'[s].waits = NoWs
        /\ sess'[s].conn = sess[s].conn /\ sess'[s].alone = sess[s].alone
        /\ \A t \in Sess \ {s} : sess'[t] = sess[t]
        /\ UNCHANGED <<curConn, nconn, nsess>>
        /\ \A d \in Conns : /\ conn'[d].ws = conn[d].ws /\ conn'[d].open = conn[d].open
                            /\ conn'[d].timer = conn[d].timer
    BY DEF Refers, SessStays, ConnStays, Settled
  <1>2. sess[s].pc \in Running /\ sess'[s].pc \in Running
    BY <1>1 DEF Running, Starting
  <1>3. (\A d \in Conns : Latest(d)') /\ Distinct'
    BY <1>1 DEF Wired, Latest, Distinct
  <1>4. ASSUME NEW t \in Sess PROVE Polling(t)'
    BY <1>1 DEF Wired, Polling
  <1>5. ASSUME NEW t \in Sess PROVE Exclusive(t)'
    BY <1>1 DEF Wired, Exclusive
  <1>6. ASSUME NEW t \in Sess PROVE Unborn(t)'
    <2>1. PICK r : r = <<t, "relay">> OBVIOUS
    <2>2. NoWs # r BY <2>1 DEF NoWs, Sess
    <2>3. sess[t].pc \in {"idOpen", "idAnswer", "relayOpen"} =>
            (\A d \in Conns : conn[d].ws # r) /\ (\A u \in Sess : sess[u].waits # r)
      BY <2>1 DEF Wired, Unborn
    <2>4. sess'[t].pc \in {"idOpen", "idAnswer", "relayOpen"} =>
            (\A d \in Conns : conn'[d].ws # r) /\ (\A u \in Sess : sess'[u].waits # r)
      BY <1>1, <2>2, <2>3
    <2>5. QED BY <2>1, <2>4 DEF Unborn
  <1>7. ASSUME NEW t \in Sess PROVE Lonely(t)'
    BY <1>1, <1>2 DEF Wired, Lonely
  <1>8. QED BY <1>3, <1>4, <1>5, <1>6, <1>7 DEF Wired

LEMMA WiredRelays ==
  ASSUME AllInv, Wired, NEW s \in Sess, Relays(s)
  PROVE  Wired'
  <1>1. PICK w \in Ws : w = <<s, "relay">> /\ w[1] = s /\ w # NoWs
    BY Pointers, NoSuchWs DEF AllInv
  <1>2. PICK c : c = sess[s].conn OBVIOUS
  <1>3. /\ sess[s].pc = "relayOpen" /\ sess'[s].pc \in {"verify", "loop"}
        /\ sess'[s].conn = c /\ sess'[s].alone = sess[s].alone
        /\ sess'[s].pc = "verify" => sess'[s].waits = sess[s].waits
        /\ sess'[s].pc = "loop" => sess'[s].waits = w
        /\ \A t \in Sess \ {s} : sess'[t] = sess[t]
        /\ UNCHANGED <<curConn, nconn, nsess>>
    BY <1>1, <1>2 DEF Relays, SessStays, Settled
  <1>4. \A d \in Conns : /\ conn'[d].ws = IF d = c THEN w ELSE conn[d].ws
                         /\ conn'[d].open = conn[d].open /\ conn'[d].timer = conn[d].timer
    BY <1>1, <1>2 DEF Relays, ConnStays
  <1>5. sess[s].pc \in Running /\ sess'[s].pc \in Running /\ c \in Conns /\ c <= nconn
    BY <1>2, <1>3, Pointers DEF AllInv, OneInv, Running, Starting
  <1>6. sess[s].waits = NoWs
    BY <1>3 DEF Wired, Polling
  <1>7. (\A d \in Conns : conn[d].ws # w) /\ (\A u \in Sess : sess[u].waits # w)
    BY <1>1, <1>3 DEF Wired, Unborn
  <1>8. w[1] \in 1..nsess
    BY <1>1, <1>3, BoundsAssumption DEF AllInv, TInv, TypeOK, AtWork, Sess
  <1>9. ASSUME NEW d \in Conns PROVE Latest(d)'
    <2>1. nconn \in Nat BY Current DEF AllInv
    <2>2. QED BY <1>3, <1>4, <1>5, <2>1 DEF Wired, Latest, Conns
  <1>10. Distinct'
    BY <1>4, <1>7 DEF Wired, Distinct
  <1>11. ASSUME NEW t \in Sess PROVE Polling(t)'
    <2>1. Polling(t)
      BY DEF Wired
    <2>2. QED BY <1>3, <1>6, <1>8, <2>1 DEF Polling
  <1>12. ASSUME NEW t \in Sess PROVE Exclusive(t)'
    <2>1. sess'[t].waits = sess[t].waits \/ (t = s /\ sess'[t].waits = w)
      BY <1>3
    <2>2. sess'[t].conn = sess[t].conn
      BY <1>2, <1>3
    <2>3. QED BY <1>1, <1>2, <1>4, <1>7, <2>1, <2>2 DEF Wired, Exclusive
  <1>13. ASSUME NEW t \in Sess PROVE Unborn(t)'
    <2>1. PICK r \in Ws : r = <<t, "relay">> /\ r[1] = t
      BY Pointers DEF AllInv
    <2>2. sess'[t].pc \in {"idOpen", "idAnswer", "relayOpen"} => t # s /\ w # r
      BY <1>1, <1>3, <2>1
    <2>3. sess[t].pc \in {"idOpen", "idAnswer", "relayOpen"} =>
            (\A d \in Conns : conn[d].ws # r) /\ (\A u \in Sess : sess[u].waits # r)
      BY <2>1 DEF Wired, Unborn
    <2>4. sess'[t].pc \in {"idOpen", "idAnswer", "relayOpen"} =>
            (\A d \in Conns : conn'[d].ws # r) /\ (\A u \in Sess : sess'[u].waits # r)
      BY <1>3, <1>4, <2>2, <2>3
    <2>5. QED BY <2>1, <2>4 DEF Unborn
  <1>14. ASSUME NEW t \in Sess PROVE Lonely(t)'
    BY <1>2, <1>3, <1>5 DEF Wired, Lonely
  <1>15. QED BY <1>9, <1>10, <1>11, <1>12, <1>13, <1>14 DEF Wired

LEMMA WiredShuts ==
  ASSUME AllInv, Wired, NEW c \in Conns, NEW e \in Sess \cup {0}, Shuts(c, e)
  PROVE  Wired'
  <1>1. /\ UNCHANGED <<nconn, nsess>> /\ (curConn' = curConn \/ (curConn' = 0 /\ c = curConn))
        /\ e \in Sess => /\ sess[e].pc = "loop" /\ sess[e].conn = c
                         /\ sess'[e].pc = "done" /\ sess'[e].waits = NoWs /\ sess'[e].conn = c
                         /\ sess'[e].alone = sess[e].alone
        /\ \A t \in Sess \ {e} :
             /\ sess'[t].pc = sess[t].pc /\ sess'[t].conn = sess[t].conn
             /\ sess'[t].waits = sess[t].waits /\ sess'[t].alone = sess[t].alone
    BY DEF Shuts
  <1>2. \A d \in Conns : \/ d # c /\ ConnStays(d)
                         \/ /\ d = c /\ ~conn'[d].open /\ ~conn'[d].timer
                            /\ conn'[d].ws = conn[d].ws \/ conn'[d].ws = NoWs
    BY DEF Shuts
  <1>3. ASSUME NEW d \in Conns PROVE Latest(d)'
    <2>1. Latest(d) BY DEF Wired
    <2>2. QED BY <1>1, <1>2, <2>1 DEF Latest, ConnStays
  <1>4. \A d \in Conns : conn'[d].ws = conn[d].ws \/ conn'[d].ws = NoWs
    BY <1>2 DEF ConnStays
  <1>5. Distinct'
    BY <1>4 DEF Wired, Distinct
  <1>6. \A t \in Sess : /\ sess'[t].pc = sess[t].pc \/ sess'[t].pc = "done"
                        /\ sess'[t].conn = sess[t].conn /\ sess'[t].alone = sess[t].alone
                        /\ sess'[t].waits = NoWs
                           \/ (sess'[t].waits = sess[t].waits /\ sess'[t].pc = sess[t].pc)
                        /\ sess'[t].pc = "idAnswer" => sess'[t].waits = sess[t].waits
    BY <1>1
  <1>7. ASSUME NEW t \in Sess PROVE Polling(t)'
    BY <1>1, <1>6 DEF Wired, Polling
  <1>8. ASSUME NEW t \in Sess PROVE Exclusive(t)'
    BY <1>4, <1>6 DEF Wired, Exclusive
  <1>9. ASSUME NEW t \in Sess PROVE Unborn(t)'
    <2>1. PICK r : r = <<t, "relay">> OBVIOUS
    <2>2. NoWs # r BY <2>1 DEF NoWs, Sess
    <2>3. sess[t].pc \in {"idOpen", "idAnswer", "relayOpen"} =>
            (\A d \in Conns : conn[d].ws # r) /\ (\A u \in Sess : sess[u].waits # r)
      BY <2>1 DEF Wired, Unborn
    <2>4. sess'[t].pc \in {"idOpen", "idAnswer", "relayOpen"} =>
            (\A d \in Conns : conn'[d].ws # r) /\ (\A u \in Sess : sess'[u].waits # r)
      BY <1>4, <1>6, <2>2, <2>3
    <2>5. QED BY <2>1, <2>4 DEF Unborn
  <1>10. ASSUME NEW t \in Sess PROVE Lonely(t)'
    <2>1. \A u \in Sess : sess'[u].pc \in Running => sess[u].pc \in Running
      BY <1>6 DEF Running, Starting
    <2>2. QED BY <1>6, <2>1 DEF Wired, Lonely
  <1>11. QED BY <1>3, <1>5, <1>7, <1>8, <1>9, <1>10 DEF Wired

LEMMA WiredBegins ==
  ASSUME AllInv, Wired, NEW s \in Sess, NEW c \in Conns, Begins(s, c)
  PROVE  Wired'
  <1>1. PICK w \in Ws : w = <<s, "id">> /\ w[1] = s /\ w[2] = "id" /\ w # NoWs
    BY Pointers, NoSuchWs DEF AllInv
  <1>2. /\ s = nsess + 1 /\ nsess' = s /\ nsess \in Nat
        /\ curConn' = c /\ (curConn = 0 \/ curConn = c)
        /\ nconn <= nconn' /\ c <= nconn' /\ nconn' \in Nat
        /\ \A d \in Conns : d > nconn' => d > nconn
    BY BoundsAssumption DEF Begins, AllInv, TInv, TypeOK
  <1>3. /\ sess'[s].pc = "idOpen" /\ sess'[s].conn = c /\ sess'[s].waits = NoWs
        /\ sess'[s].alone => \A t \in Sess : ~(sess[t].conn = c /\ sess[t].pc \in Running)
    BY DEF Begins, RunningOf
  <1>4. \A t \in Sess \ {s} :
          /\ sess'[t].pc = sess[t].pc
          /\ sess'[t].waits = NoWs \/ sess'[t].waits = sess[t].waits
          /\ sess[t].pc # "done" => sess'[t].waits = sess[t].waits
          /\ \/ sess[t].pc = "done" /\ sess'[t].waits = NoWs
             \/ /\ sess'[t].conn = sess[t].conn
                /\ sess'[t].alone => sess[t].alone /\ ~(sess[t].conn = c /\ sess[t].pc \in Running)
    <2>1. ASSUME NEW t \in Sess \ {s}
          PROVE  \/ /\ sess[t].pc = "done" /\ sess'[t].pc = "done" /\ sess'[t].waits = NoWs
                 \/ /\ sess'[t].pc = sess[t].pc /\ sess'[t].waits = sess[t].waits
                    /\ sess'[t].conn = sess[t].conn
                    /\ sess'[t].alone = (sess[t].alone /\ t \notin RunningOf(c))
      BY DEF Begins
    <2>2. \A t \in Sess : sess[t].conn = c /\ sess[t].pc \in Running => t \in RunningOf(c)
      BY DEF RunningOf
    <2>3. ASSUME NEW t \in Sess \ {s}, sess'[t].alone = (sess[t].alone /\ t \notin RunningOf(c))
          PROVE  sess'[t].alone => sess[t].alone /\ ~(sess[t].conn = c /\ sess[t].pc \in Running)
      <3>1. sess'[t].alone => sess[t].alone /\ t \notin RunningOf(c)
        BY <2>3
      <3>2. QED BY <3>1, <2>2
    <2>4. QED
      <3>1. SUFFICES ASSUME NEW t \in Sess \ {s}
                     PROVE  /\ sess'[t].pc = sess[t].pc
                            /\ sess'[t].waits = NoWs \/ sess'[t].waits = sess[t].waits
                            /\ sess[t].pc # "done" => sess'[t].waits = sess[t].waits
                            /\ \/ sess[t].pc = "done" /\ sess'[t].waits = NoWs
                               \/ /\ sess'[t].conn = sess[t].conn
                                  /\ sess'[t].alone => sess[t].alone
                                                        /\ ~(sess[t].conn = c /\ sess[t].pc \in Running)
        OBVIOUS
      <3>2. QED BY <2>1, <2>3
  <1>5. \A d \in Conns : \/ d # c /\ ConnStays(d)
                         \/ d = c /\ conn'[d].ws = w /\ conn'[d].open
    BY <1>1 DEF Begins
  <1>6. \A d \in Conns : conn[d].ws # w
    <2>1. ASSUME NEW d \in Conns, conn[d].ws # NoWs PROVE conn[d].ws[1] \in 1..nsess
      BY <2>1 DEF AllInv, LoginInv, Owned
    <2>2. w[1] \notin 1..nsess BY <1>1, <1>2
    <2>3. QED BY <1>1, <2>1, <2>2
  <1>7. \A t \in Sess : sess[t].waits # w
    <2>1. ASSUME NEW t \in Sess, sess[t].waits # NoWs PROVE sess[t].waits[1] \in 1..nsess
      BY <2>1 DEF Wired, Polling
    <2>2. w[1] \notin 1..nsess BY <1>1, <1>2
    <2>3. QED BY <1>1, <2>1, <2>2
  <1>8. ASSUME NEW d \in Conns PROVE Latest(d)'
    <2>1. Latest(d) BY DEF Wired
    <2>2. d # 0 BY DEF Conns
    <2>3. d > nconn' => d # c
      BY <1>2 DEF Conns
    <2>4. QED BY <1>2, <1>5, <2>1, <2>2, <2>3 DEF Latest, ConnStays
  <1>9. Distinct'
    BY <1>5, <1>6 DEF Wired, Distinct, ConnStays
  <1>10. ASSUME NEW t \in Sess PROVE Polling(t)'
    <2>1. Polling(t) BY DEF Wired
    <2>2. CASE t = s BY <1>3, <2>2 DEF Polling
    <2>3. CASE t # s
      <3>1. \A i \in 1..nsess : i \in 1..nsess' BY <1>2
      <3>2. QED BY <1>4, <2>1, <2>3, <3>1 DEF Polling
    <2>4. QED BY <2>2, <2>3
  <1>11. ASSUME NEW t \in Sess PROVE Exclusive(t)'
    <2>1. CASE sess'[t].waits = NoWs
      BY <2>1 DEF Exclusive
    <2>2. CASE sess'[t].waits # NoWs
      <3>1. t # s /\ sess'[t].waits = sess[t].waits /\ sess'[t].conn = sess[t].conn
        BY <1>3, <1>4, <2>2
      <3>2. QED BY <1>5, <1>7, <3>1 DEF Wired, Exclusive, ConnStays
    <2>3. QED BY <2>1, <2>2
  <1>12. ASSUME NEW t \in Sess PROVE Unborn(t)'
    <2>1. PICK r \in Ws : r = <<t, "relay">> /\ r[1] = t /\ r[2] = "relay"
      BY Pointers DEF AllInv
    <2>2. NoWs # r BY <2>1 DEF NoWs, Sess
    <2>3. w # r BY <1>1, <2>1
    <2>4. t = s => (\A d \in Conns : conn[d].ws # r) /\ (\A u \in Sess : sess[u].waits # r)
      <3>1. ASSUME t = s, NEW d \in Conns, conn[d].ws = r PROVE FALSE
        <4>1. conn[d].ws[1] \in 1..nsess
          BY <2>2, <3>1 DEF AllInv, LoginInv, Owned
        <4>2. QED BY <1>2, <2>1, <3>1, <4>1
      <3>2. ASSUME t = s, NEW u \in Sess, sess[u].waits = r PROVE FALSE
        <4>1. sess[u].waits[1] \in 1..nsess
          BY <2>2, <3>2 DEF Wired, Polling
        <4>2. QED BY <1>2, <2>1, <3>2, <4>1
      <3>3. QED BY <3>1, <3>2
    <2>5. sess'[t].pc \in {"idOpen", "idAnswer", "relayOpen"} /\ t # s =>
            (\A d \in Conns : conn[d].ws # r) /\ (\A u \in Sess : sess[u].waits # r)
      BY <1>4, <2>1 DEF Wired, Unborn
    <2>6. sess'[t].pc \in {"idOpen", "idAnswer", "relayOpen"} =>
            (\A d \in Conns : conn'[d].ws # r) /\ (\A u \in Sess : sess'[u].waits # r)
      BY <1>3, <1>4, <1>5, <2>2, <2>3, <2>4, <2>5 DEF ConnStays
    <2>7. QED BY <2>1, <2>6 DEF Unborn
  <1>13. ASSUME NEW t \in Sess PROVE Lonely(t)'
    <2>1. "done" \notin Running BY DEF Running, Starting
    <2>2. CASE t = s
      BY <1>3, <1>4, <2>1, <2>2 DEF Lonely
    <2>3. CASE t # s
      BY <1>3, <1>4, <2>1, <2>3 DEF Wired, Lonely
    <2>4. QED BY <2>2, <2>3
  <1>14. QED BY <1>8, <1>9, <1>10, <1>11, <1>12, <1>13 DEF Wired

LEMMA WiredNext ==
  ASSUME AllInv, Wired, [Next]_vars
  PROVE  Wired'
  <1>1. AnyKind BY NextKind
  <1>2. QED BY <1>1, WiredStill, WiredMoves, WiredFinishes, WiredOpens, WiredRefers,
               WiredRelays, WiredShuts, WiredBegins DEF AnyKind

LEMMA WiredInit == Init => Wired
  <1> SUFFICES ASSUME Init PROVE Wired
    OBVIOUS
  <1>1. \A s \in Sess : sess[s] = NoSess BY DEF Init
  <1>2. \A d \in Conns : conn[d] = NoConn BY DEF Init
  <1>3. NoSess.pc = "none" /\ NoSess.waits = NoWs BY DEF NoSess
  <1>4. NoConn.ws = NoWs /\ ~NoConn.open /\ ~NoConn.timer BY DEF NoConn
  <1>5. QED BY <1>1, <1>2, <1>3, <1>4 DEF Wired, Polling, Exclusive, Unborn, Lonely, Latest,
                                         Distinct, Running, Starting

-----------------------------------------------------------------------------
(* A session whose connection was not closed never meets an empty _status   *)

\* What a session past its relay socket would poll, and what it polls, is a
\* socket with a status.
Alive(s) ==
  sess[s].pc \in Running /\ sess[s].cut = "no" =>
    /\ sess[s].pc \in Past => LET w == conn[sess[s].conn].ws IN
                              w # NoWs /\ w[2] = "relay" /\ ~Mute(sock, w)
    /\ sess[s].pc \in {"signed", "loop"} => sess[s].waits # NoWs /\ sess[s].waits[2] = "relay"
    /\ sess[s].waits # NoWs => ~Mute(sock, sess[s].waits)

\* So an error without text is that of a connection that was closed.
HiddenIsCut == \A s \in Sess : sess[s].end = "hidden" => sess[s].cut # "no"

ShownInv == HiddenIsCut /\ \A s \in Sess : Alive(s)

\* What a session reads is its own, what it polls, or its `_ws`.
LEMMA ReadsOnly ==
  ASSUME TInv, NEW t \in Sess, NEW w \in Ws, Reads(t, w)
  PROVE  /\ sess[t].pc \in Running /\ sess[t].conn \in Conns
         /\ \/ w = <<t, "id">> \/ w = <<t, "relay">>
            \/ w = sess[t].waits /\ w # NoWs
            \/ w = conn[sess[t].conn].ws /\ w # NoWs
  <1>1. sess[t] \in SessType BY Pointers
  <1>2. sess[t].pc \in Pcs BY <1>1 DEF SessType
  <1>3. sess[t].pc \in Running
    BY <1>2 DEF Reads, Pcs, Running, Starting
  <1>4. sess[t].conn \in Conns
    BY <1>3, Pointers
  <1>5. \/ w = <<t, "id">> \/ w = <<t, "relay">>
        \/ w = sess[t].waits \/ w = conn[sess[t].conn].ws
    BY DEF Reads
  <1>6. w # NoWs BY NoSuchWs
  <1>7. QED BY <1>3, <1>4, <1>5, <1>6

LEMMA ReadsItsOwn ==
  ASSUME NEW t \in Sess
  PROVE  /\ sess[t].pc \in Past => Reads(t, conn[sess[t].conn].ws) /\ Reads(t, sess[t].waits)
         /\ sess[t].pc = "idAnswer" => Reads(t, sess[t].waits)
         /\ sess[t].pc = "idOpen" => Reads(t, <<t, "id">>)
         /\ sess[t].pc = "relayOpen" => Reads(t, <<t, "relay">>)
  BY DEF Reads, Past

\* It reads no socket that was not made yet, ...
LEMMA ReadsMade ==
  ASSUME AllInv, Wired, NEW t \in Sess, NEW w \in Ws, Reads(t, w)
  PROVE  w[1] \in 1..nsess
  <1>1. /\ sess[t].pc \in Running /\ sess[t].conn \in Conns
        /\ \/ w = <<t, "id">> \/ w = <<t, "relay">>
           \/ w = sess[t].waits /\ w # NoWs
           \/ w = conn[sess[t].conn].ws /\ w # NoWs
    BY ReadsOnly DEF AllInv
  <1>2. CASE w = <<t, "id">> \/ w = <<t, "relay">>
    <2>1. w[1] = t BY <1>2
    <2>2. t \in 1..nsess
      BY <1>1, BoundsAssumption DEF AllInv, TInv, TypeOK, AtWork, Sess, Running, Starting
    <2>3. QED BY <2>1, <2>2
  <1>3. CASE w = sess[t].waits /\ w # NoWs
    BY <1>3 DEF Wired, Polling
  <1>4. CASE w = conn[sess[t].conn].ws /\ w # NoWs
    BY <1>1, <1>4 DEF AllInv, LoginInv, Owned
  <1>5. QED BY <1>1, <1>2, <1>3, <1>4

\* ... nor the `_ws` of another connection.
LEMMA ReadsElsewhere ==
  ASSUME AllInv, Wired, NEW t \in Sess, NEW w \in Ws, Reads(t, w),
         NEW c \in Conns, sess[t].conn # c
  PROVE  w # conn[c].ws
  <1>1. /\ sess[t].pc \in Running /\ sess[t].conn \in Conns
        /\ \/ w = <<t, "id">> \/ w = <<t, "relay">>
           \/ w = sess[t].waits /\ w # NoWs
           \/ w = conn[sess[t].conn].ws /\ w # NoWs
    BY ReadsOnly DEF AllInv
  <1>2. CASE w = <<t, "id">> \/ w = <<t, "relay">>
    <2>1. w[1] = t BY <1>2
    <2>2. w # NoWs BY NoSuchWs
    <2>3. QED BY <1>1, <2>1, <2>2 DEF AllInv, LoginInv, Owned
  <1>3. CASE w = sess[t].waits /\ w # NoWs
    BY <1>3 DEF Wired, Exclusive
  <1>4. CASE w = conn[sess[t].conn].ws /\ w # NoWs
    BY <1>1, <1>4 DEF Wired, Distinct
  <1>5. QED BY <1>1, <1>2, <1>3, <1>4

\* A session that stays where it is stays alive if no socket it reads falls
\* silent.
LEMMA AliveOn ==
  ASSUME TInv, NEW t \in Sess, Alive(t), Polling(t),
         /\ sess'[t].pc = sess[t].pc /\ sess'[t].conn = sess[t].conn
         /\ sess'[t].waits = sess[t].waits /\ (sess'[t].cut = "no" => sess[t].cut = "no"),
         sess[t].pc \in Running /\ sess'[t].cut = "no" =>
           /\ \/ conn'[sess[t].conn].ws = conn[sess[t].conn].ws
              \/ \E r \in Ws : conn'[sess[t].conn].ws = r /\ r[2] = "relay" /\ ~Mute(sock', r)
           /\ \A w \in Ws : Reads(t, w) /\ (w[2] = "relay" \/ w[1] = t) =>
                              (Mute(sock', w) => Mute(sock, w))
  PROVE  Alive(t)'
  <1>1. SUFFICES ASSUME sess[t].pc \in Running, sess'[t].cut = "no"
                 PROVE  Alive(t)'
    BY DEF Alive
  <1>2. PICK p : p = sess[t].waits OBVIOUS
  <1>3. PICK v : v = conn[sess[t].conn].ws OBVIOUS
  <1>4. PICK u : u = conn'[sess[t].conn].ws OBVIOUS
  <1>5. p \in AnyWs /\ v \in AnyWs
    BY <1>1, <1>2, <1>3, Pointers
  <1>6. /\ sess[t].pc \in Past => v # NoWs /\ v[2] = "relay" /\ ~Mute(sock, v)
        /\ sess[t].pc \in {"signed", "loop"} => p # NoWs /\ p[2] = "relay"
        /\ p # NoWs => ~Mute(sock, p)
    BY <1>1, <1>2, <1>3 DEF Alive
  <1>7. ASSUME sess[t].pc \in Past PROVE u # NoWs /\ u[2] = "relay" /\ ~Mute(sock', u)
    <2>1. v \in Ws /\ Reads(t, v)
      BY <1>3, <1>5, <1>6, <1>7, ReadsItsOwn DEF AnyWs
    <2>2. ~Mute(sock', v)
      BY <1>1, <1>6, <1>7, <2>1
    <2>3. CASE u = v BY <1>6, <1>7, <2>2, <2>3
    <2>4. CASE u # v
      BY <1>1, <1>3, <1>4, <2>4, NoSuchWs
    <2>5. QED BY <2>3, <2>4
  <1>8. ASSUME p # NoWs PROVE ~Mute(sock', p)
    <2>1. sess[t].pc \in {"idAnswer", "signed", "loop"}
      BY <1>2, <1>8 DEF Polling
    <2>2. p \in Ws /\ Reads(t, p)
      BY <1>2, <1>5, <1>8, <2>1, ReadsItsOwn DEF AnyWs, Past
    <2>3. p[2] = "relay" \/ p[1] = t
      <3>1. sess[t].pc = "idAnswer" => p[1] = t BY <1>2 DEF Polling
      <3>2. QED BY <1>6, <2>1, <3>1
    <2>4. QED BY <1>1, <1>6, <1>8, <2>2, <2>3
  <1>9. /\ sess'[t].pc \in Past => u # NoWs /\ u[2] = "relay" /\ ~Mute(sock', u)
        /\ sess'[t].pc \in {"signed", "loop"} => p # NoWs /\ p[2] = "relay"
        /\ p # NoWs => ~Mute(sock', p)
    BY <1>6, <1>7, <1>8
  <1>10. sess'[t].waits = p /\ conn'[sess'[t].conn].ws = u
    BY <1>2, <1>4
  <1>11. QED BY ONLY <1>9, <1>10 DEF Alive

-----------------------------------------------------------------------------
LEMMA LineMute ==
  ASSUME NEW w, Line(sock, sock', w)
  PROVE  Mute(sock', w) <=> Mute(sock, w)
  BY DEF Line, Mute

LEMMA SameMute ==
  ASSUME NEW w
  PROVE  /\ Same(sock, sock', w) => (Mute(sock', w) => Mute(sock, w))
         /\ sock'[w] = sock[w] => (Mute(sock', w) => Mute(sock, w))
         /\ sock'[w].status = "open" => ~Mute(sock', w)
  BY DEF Same, Line, Mute

\* The sessions that are not the one of the step.
LEMMA ShownOthers ==
  ASSUME ShownInv, NEW s, NEW t \in Sess, sess'[t] = sess[t]
  PROVE  sess'[t].end = "hidden" => sess'[t].cut # "no"
  BY DEF ShownInv, HiddenIsCut

LEMMA ShownStill ==
  ASSUME AllInv, Wired, ShownInv, Still
  PROVE  ShownInv'
  <1>1. sess' = sess /\ \A d \in Conns : conn'[d].ws = conn[d].ws
    BY DEF Still, ConnStays
  <1>2. \A w \in Ws : Mute(sock', w) => Mute(sock, w)
    BY DEF Still, Weathers
  <1>3. ASSUME NEW t \in Sess PROVE Alive(t)'
    <2>1. TInv /\ Alive(t) /\ Polling(t)
      BY DEF AllInv, ShownInv, Wired
    <2>2. sess[t].pc \in Running => conn'[sess[t].conn].ws = conn[sess[t].conn].ws
      BY <1>1, <2>1, Pointers
    <2>3. QED BY <1>1, <1>2, <2>1, <2>2, AliveOn
  <1>4. HiddenIsCut'
    BY <1>1 DEF ShownInv, HiddenIsCut
  <1>5. QED BY <1>3, <1>4 DEF ShownInv

LEMMA ShownMoves ==
  ASSUME AllInv, Wired, ShownInv, NEW s \in Sess, Moves(s)
  PROVE  ShownInv'
  <1>1. PICK v : v = conn[sess[s].conn].ws OBVIOUS
  <1>2. /\ sess[s].pc \in Past /\ sess'[s].pc \in {"signed", "loop", "unzip"}
        /\ sess'[s].conn = sess[s].conn /\ sess'[s].cut = sess[s].cut /\ sess'[s].end = sess[s].end
        /\ \A t \in Sess \ {s} : sess'[t] = sess[t]
        /\ sess'[s].waits = IF sess'[s].pc = "unzip" THEN NoWs ELSE v
        /\ \A d \in Conns : conn'[d].ws = conn[d].ws
    BY <1>1 DEF Moves, SessStays, ConnStays
  <1>3. \A w \in Ws : Mute(sock', w) <=> Mute(sock, w)
    BY LineMute DEF Moves
  <1>4. sess[s].pc \in Running /\ sess[s].conn \in Conns /\ v \in AnyWs
    BY <1>1, <1>2, Pointers DEF AllInv, Past, Running, Starting
  <1>5. ASSUME NEW t \in Sess, t # s PROVE Alive(t)'
    <2>1. TInv /\ Alive(t) /\ Polling(t) /\ sess'[t] = sess[t]
      BY <1>2, <1>5 DEF AllInv, ShownInv, Wired
    <2>2. sess[t].pc \in Running => conn'[sess[t].conn].ws = conn[sess[t].conn].ws
      BY <1>2, <2>1, Pointers
    <2>3. QED BY <1>3, <2>1, <2>2, AliveOn
  <1>6. Alive(s)'
    <2>1. SUFFICES ASSUME sess[s].cut = "no" PROVE Alive(s)'
      BY <1>2 DEF Alive
    <2>2. v # NoWs /\ v[2] = "relay" /\ ~Mute(sock, v)
      BY <1>1, <1>2, <1>4, <2>1 DEF ShownInv, Alive
    <2>3. ~Mute(sock', v)
      BY <1>3, <1>4, <2>2 DEF AnyWs
    <2>4. conn'[sess'[s].conn].ws = v
      BY <1>1, <1>2, <1>4
    <2>5. QED BY <1>2, <2>2, <2>3, <2>4 DEF Alive
  <1>7. HiddenIsCut'
    BY <1>2 DEF ShownInv, HiddenIsCut
  <1>8. QED BY <1>5, <1>6, <1>7 DEF ShownInv

LEMMA ShownFinishes ==
  ASSUME AllInv, Wired, ShownInv, NEW s \in Sess, Finishes(s)
  PROVE  ShownInv'
  <1>1. /\ sess[s].pc \in Running /\ sess'[s].pc = "done"
        /\ sess'[s].cut = sess[s].cut
        /\ \A t \in Sess \ {s} : sess'[t] = sess[t]
        /\ sess'[s].end = "hidden" => sess[s].waits # NoWs /\ Mute(sock, sess[s].waits)
    BY DEF Finishes
  <1>2. ASSUME NEW t \in Sess, t # s PROVE Alive(t)'
    <2>1. TInv /\ Alive(t) /\ Polling(t) /\ sess'[t] = sess[t]
      BY <1>1, <1>2 DEF AllInv, ShownInv, Wired
    <2>2. ASSUME sess[t].pc \in Running
          PROVE  conn'[sess[t].conn].ws = conn[sess[t].conn].ws
      <3>1. sess[t].conn \in Conns /\ t \in RunningOf(sess[t].conn)
        BY <2>1, <2>2, Pointers DEF RunningOf
      <3>2. ConnStays(sess[t].conn)
        BY <1>2, <3>1 DEF Finishes
      <3>3. QED BY <3>2 DEF ConnStays
    <2>3. ASSUME NEW w \in Ws, Reads(t, w), w[2] = "relay" \/ w[1] = t
          PROVE  Mute(sock', w) => Mute(sock, w)
      <3>1. w # <<s, "id">> BY <1>2, <2>3
      <3>2. QED BY <1>2, <2>3, <3>1 DEF Finishes
    <2>4. QED BY <2>1, <2>2, <2>3, AliveOn
  <1>3. Alive(s)'
    BY <1>1 DEF Alive, Running, Starting
  <1>4. sess'[s].end = "hidden" => sess'[s].cut # "no"
    BY <1>1 DEF ShownInv, Alive
  <1>5. HiddenIsCut'
    BY <1>1, <1>4 DEF ShownInv, HiddenIsCut
  <1>6. QED BY <1>2, <1>3, <1>5 DEF ShownInv

LEMMA ShownOpens ==
  ASSUME AllInv, Wired, ShownInv, NEW s \in Sess, Opens(s)
  PROVE  ShownInv'
  <1>1. PICK v : v = <<s, "id">> OBVIOUS
  <1>2. /\ sess'[s].pc = "idAnswer" /\ sess'[s].waits = v
        /\ sess'[s].cut = sess[s].cut /\ sess'[s].end = sess[s].end
        /\ \A t \in Sess \ {s} : sess'[t] = sess[t]
        /\ \A d \in Conns : conn'[d].ws = conn[d].ws
        /\ \A w \in Ws : w # v => sock'[w] = sock[w]
        /\ sock'[v].status = "open"
    BY <1>1 DEF Opens, SessStays, ConnStays
  <1>3. ~Mute(sock', v)
    BY <1>2, SameMute
  <1>4. ASSUME NEW t \in Sess, t # s PROVE Alive(t)'
    <2>1. TInv /\ Alive(t) /\ Polling(t) /\ sess'[t] = sess[t]
      BY <1>2, <1>4 DEF AllInv, ShownInv, Wired
    <2>2. sess[t].pc \in Running => conn'[sess[t].conn].ws = conn[sess[t].conn].ws
      BY <1>2, <2>1, Pointers
    <2>3. ASSUME NEW w \in Ws PROVE Mute(sock', w) => Mute(sock, w)
      <3>1. w = v \/ sock'[w] = sock[w] BY <1>2
      <3>2. QED BY <1>3, <3>1, SameMute
    <2>4. QED BY <2>1, <2>2, <2>3, AliveOn
  <1>5. Alive(s)'
    BY <1>2, <1>3 DEF Alive, Past
  <1>6. HiddenIsCut'
    BY <1>2 DEF ShownInv, HiddenIsCut
  <1>7. QED BY <1>4, <1>5, <1>6 DEF ShownInv

LEMMA ShownRefers ==
  ASSUME AllInv, Wired, ShownInv, NEW s \in Sess, Refers(s)
  PROVE  ShownInv'
  <1>1. /\ sess[s].pc = "idAnswer" /\ sess'[s].pc = "relayOpen" /\ sess'[s].waits = NoWs
        /\ sess'[s].cut = sess[s].cut /\ sess'[s].end = sess[s].end
        /\ \A t \in Sess \ {s} : sess'[t] = sess[t]
        /\ \A d \in Conns : conn'[d].ws = conn[d].ws
        /\ \A w \in Ws : w[1] # s => sock'[w] = sock[w]
    BY DEF Refers, SessStays, ConnStays
  <1>2. ASSUME NEW t \in Sess, t # s PROVE Alive(t)'
    <2>1. TInv /\ Alive(t) /\ Polling(t) /\ sess'[t] = sess[t]
      BY <1>1, <1>2 DEF AllInv, ShownInv, Wired
    <2>2. sess[t].pc \in Running => conn'[sess[t].conn].ws = conn[sess[t].conn].ws
      BY <1>1, <2>1, Pointers
    <2>3. ASSUME NEW w \in Ws, Reads(t, w), w[2] = "relay" \/ w[1] = t
          PROVE  Mute(sock', w) => Mute(sock, w)
      <3>1. ASSUME w[1] = s PROVE FALSE
        <4>1. PICK r \in Ws : r = <<s, "relay">>
          BY Pointers DEF AllInv
        <4>2. w = r
          BY <1>2, <2>3, <3>1, <4>1 DEF Ws
        <4>3. (\A d \in Conns : conn[d].ws # r) /\ (\A u \in Sess : sess[u].waits # r)
          BY <1>1, <4>1 DEF Wired, Unborn
        <4>4. /\ sess[t].conn \in Conns
              /\ \/ w = <<t, "id">> \/ w = <<t, "relay">>
                 \/ w = sess[t].waits
                 \/ w = conn[sess[t].conn].ws
          BY <2>1, <2>3, ReadsOnly
        <4>5. w # <<t, "id">> /\ w # <<t, "relay">>
          BY <1>2, <3>1
        <4>6. QED BY <4>2, <4>3, <4>4, <4>5
      <3>2. QED BY <1>1, <3>1, SameMute
    <2>4. QED BY <2>1, <2>2, <2>3, AliveOn
  <1>3. Alive(s)'
    BY <1>1 DEF Alive, Past
  <1>4. HiddenIsCut'
    BY <1>1 DEF ShownInv, HiddenIsCut
  <1>5. QED BY <1>2, <1>3, <1>4 DEF ShownInv

LEMMA ShownRelays ==
  ASSUME AllInv, Wired, ShownInv, NEW s \in Sess, Relays(s)
  PROVE  ShownInv'
  <1>1. PICK r \in Ws : r = <<s, "relay">> /\ r[2] = "relay" /\ r # NoWs
    BY Pointers, NoSuchWs DEF AllInv
  <1>2. /\ sess[s].pc = "relayOpen"
        /\ \/ sess'[s].pc = "verify" /\ sess'[s].waits = sess[s].waits
           \/ sess'[s].pc = "loop" /\ sess'[s].waits = r
        /\ sess'[s].conn = sess[s].conn
        /\ sess'[s].cut = sess[s].cut /\ sess'[s].end = sess[s].end
        /\ \A t \in Sess \ {s} : sess'[t] = sess[t]
        /\ \A d \in Conns : conn'[d].ws = IF d = sess[s].conn THEN r ELSE conn[d].ws
        /\ sock'[r].status = "open"
    BY <1>1 DEF Relays, SessStays, ConnStays
  <1>3. ~Mute(sock', r)
    BY <1>2, SameMute
  <1>4. sess[s].pc \in Running /\ sess[s].waits = NoWs
    BY <1>2 DEF Wired, Polling, Running, Starting
  <1>5. sess[s].conn \in Conns
    BY <1>4, Pointers DEF AllInv
  <1>6. ASSUME NEW t \in Sess, t # s PROVE Alive(t)'
    <2>1. TInv /\ Alive(t) /\ Polling(t) /\ sess'[t] = sess[t]
      BY <1>2, <1>6 DEF AllInv, ShownInv, Wired
    <2>2. ASSUME sess[t].pc \in Running
          PROVE  \/ conn'[sess[t].conn].ws = conn[sess[t].conn].ws
                 \/ \E x \in Ws : conn'[sess[t].conn].ws = x /\ x[2] = "relay" /\ ~Mute(sock', x)
      <3>1. sess[t].conn \in Conns BY <2>1, <2>2, Pointers
      <3>2. QED BY <1>1, <1>2, <1>3, <3>1
    <2>3. ASSUME NEW w \in Ws, Reads(t, w) PROVE Mute(sock', w) => Mute(sock, w)
      <3>1. w = r \/ (Mute(sock', w) => Mute(sock, w))
        BY <1>1, <1>6, <2>3 DEF Relays
      <3>2. QED BY <1>3, <3>1
    <2>4. QED BY <2>1, <2>2, <2>3, AliveOn
  <1>7. Alive(s)'
    <2>1. conn'[sess'[s].conn].ws = r
      BY <1>2, <1>5
    <2>2. sess'[s].waits = r \/ (sess'[s].waits = NoWs /\ sess'[s].pc = "verify")
      <3>1. \/ sess'[s].pc = "verify" /\ sess'[s].waits = sess[s].waits
            \/ sess'[s].pc = "loop" /\ sess'[s].waits = r
        BY <1>2
      <3>2. QED BY <1>4, <3>1
    <2>3. QED BY <1>1, <1>3, <2>1, <2>2 DEF Alive
  <1>8. HiddenIsCut'
    BY <1>2 DEF ShownInv, HiddenIsCut
  <1>9. QED BY <1>6, <1>7, <1>8 DEF ShownInv

LEMMA ShownShuts ==
  ASSUME AllInv, Wired, ShownInv, NEW c \in Conns, NEW e \in Sess \cup {0}, Shuts(c, e)
  PROVE  ShownInv'
  <1>1. /\ e \in Sess => sess'[e].pc = "done" /\ sess'[e].end = "shown"
        /\ \A t \in Sess \ {e} :
             /\ sess'[t].pc = sess[t].pc /\ sess'[t].conn = sess[t].conn
             /\ sess'[t].waits = sess[t].waits /\ sess'[t].end = sess[t].end
    BY DEF Shuts
  <1>2. ASSUME NEW t \in Sess, t # e
        PROVE  /\ sess'[t].cut = "no" => sess[t].cut = "no"
               /\ sess'[t].cut = "no" /\ sess[t].pc \in Running => sess[t].conn # c
    <2>1. CutBy(c, t) BY <1>2 DEF Shuts
    <2>2. CASE t \in RunningOf(c) /\ sess[t].cut = "no"
      BY <2>1, <2>2 DEF CutBy
    <2>3. CASE ~(t \in RunningOf(c) /\ sess[t].cut = "no")
      <3>1. sess'[t].cut = sess[t].cut BY <2>1, <2>3 DEF CutBy
      <3>2. QED BY <2>3, <3>1 DEF RunningOf
    <2>4. QED BY <2>2, <2>3
  <1>3. ASSUME NEW t \in Sess, t # e PROVE Alive(t)'
    <2>1. TInv /\ Alive(t) /\ Polling(t)
      BY DEF AllInv, ShownInv, Wired
    <2>2. ASSUME sess[t].pc \in Running, sess'[t].cut = "no"
          PROVE  conn'[sess[t].conn].ws = conn[sess[t].conn].ws
      <3>1. sess[t].conn \in Conns /\ sess[t].conn # c
        BY <1>2, <1>3, <2>1, <2>2, Pointers
      <3>2. ConnStays(sess[t].conn) BY <3>1 DEF Shuts
      <3>3. QED BY <3>2 DEF ConnStays
    <2>3. ASSUME sess[t].pc \in Running, sess'[t].cut = "no", NEW w \in Ws, Reads(t, w)
          PROVE  Mute(sock', w) => Mute(sock, w)
      <3>1. w # conn[c].ws
        BY <1>2, <1>3, <2>3, ReadsElsewhere
      <3>2. Same(sock, sock', w)
        BY <1>3, <2>3, <3>1 DEF Shuts, ShutSockets
      <3>3. QED BY <3>2, SameMute
    <2>4. QED BY <1>1, <1>2, <1>3, <2>1, <2>2, <2>3, AliveOn
  <1>4. e \in Sess => Alive(e)'
    BY <1>1 DEF Alive, Running, Starting
  <1>5. HiddenIsCut'
    <2>1. ASSUME NEW t \in Sess PROVE sess'[t].end = "hidden" => sess'[t].cut # "no"
      <3>1. CASE t = e BY <1>1, <3>1
      <3>2. CASE t # e
        BY <1>1, <1>2, <3>2 DEF ShownInv, HiddenIsCut
      <3>3. QED BY <3>1, <3>2
    <2>2. QED BY <2>1 DEF HiddenIsCut
  <1>6. QED BY <1>3, <1>4, <1>5 DEF ShownInv

LEMMA ShownBegins ==
  ASSUME AllInv, Wired, ShownInv, NEW s \in Sess, NEW c \in Conns, Begins(s, c)
  PROVE  ShownInv'
  <1>1. /\ s = nsess + 1 /\ nsess \in Nat
        /\ sess'[s].pc = "idOpen" /\ sess'[s].waits = NoWs /\ sess'[s].end = "none"
    BY BoundsAssumption DEF Begins, AllInv, TInv, TypeOK
  <1>2. ASSUME NEW t \in Sess, t # s
        PROVE  \/ sess'[t].pc = "done" /\ sess'[t].end = "none"
               \/ /\ sess'[t].pc = sess[t].pc /\ sess'[t].conn = sess[t].conn
                  /\ sess'[t].waits = sess[t].waits /\ sess'[t].end \in {sess[t].end, "none"}
                  /\ sess'[t].cut = "no" => sess[t].cut = "no"
                  /\ sess'[t].cut = "no" /\ sess[t].pc \in Running => sess[t].conn # c
    <2>1. sess[t].pc \in Running /\ sess[t].conn = c => t \in RunningOf(c)
      BY DEF RunningOf
    <2>2. QED BY <1>2, <2>1 DEF Begins
  <1>3. ASSUME NEW t \in Sess, t # s PROVE Alive(t)'
    <2>1. TInv /\ Alive(t) /\ Polling(t)
      BY DEF AllInv, ShownInv, Wired
    <2>2. CASE sess'[t].pc = "done"
      BY <2>2 DEF Alive, Running, Starting
    <2>3. ASSUME sess'[t].pc # "done", sess[t].pc \in Running, sess'[t].cut = "no"
          PROVE  conn'[sess[t].conn].ws = conn[sess[t].conn].ws
      <3>1. sess[t].conn \in Conns /\ sess[t].conn # c
        BY <1>2, <1>3, <2>1, <2>3, Pointers
      <3>2. ConnStays(sess[t].conn) BY <3>1 DEF Begins
      <3>3. QED BY <3>2 DEF ConnStays
    <2>4. ASSUME sess'[t].pc # "done", sess[t].pc \in Running, sess'[t].cut = "no",
                 NEW w \in Ws, Reads(t, w)
          PROVE  Mute(sock', w) => Mute(sock, w)
      <3>1. sess[t].conn # c BY <1>2, <1>3, <2>4
      <3>2. w # conn[c].ws
        BY <2>4, <3>1, ReadsElsewhere
      <3>3. w # <<s, "id">>
        <4>1. w[1] \in 1..nsess BY <2>4, ReadsMade
        <4>2. QED BY <1>1, <4>1
      <3>4. t \in Sess \ {0} BY DEF Sess
      <3>5. Same(sock, sock', w)
        BY <2>4, <3>2, <3>3, <3>4 DEF Begins, ShutSockets
      <3>6. QED BY <3>5, SameMute
    <2>5. CASE sess'[t].pc # "done"
      BY <1>2, <1>3, <2>1, <2>3, <2>4, <2>5, AliveOn
    <2>6. QED BY <2>2, <2>5
  <1>4. Alive(s)'
    BY <1>1 DEF Alive, Past
  <1>5. HiddenIsCut'
    <2>1. ASSUME NEW t \in Sess PROVE sess'[t].end = "hidden" => sess'[t].cut # "no"
      <3>1. CASE t = s BY <1>1, <3>1
      <3>2. CASE t # s
        BY <1>2, <3>2 DEF ShownInv, HiddenIsCut
      <3>3. QED BY <3>1, <3>2
    <2>2. QED BY <2>1 DEF HiddenIsCut
  <1>6. QED BY <1>3, <1>4, <1>5 DEF ShownInv

LEMMA ShownNext ==
  ASSUME AllInv, Wired, ShownInv, [Next]_vars
  PROVE  ShownInv'
  <1>1. AnyKind BY NextKind
  <1>2. QED BY <1>1, ShownStill, ShownMoves, ShownFinishes, ShownOpens, ShownRefers,
               ShownRelays, ShownShuts, ShownBegins DEF AnyKind

LEMMA InitRest ==
  ASSUME Init
  PROVE  /\ nsess = 0 /\ nconn = 0 /\ curConn = 0
         /\ \A d \in Conns : conn[d].ws = NoWs /\ ~conn[d].open /\ ~conn[d].timer
         /\ \A t \in Sess : /\ sess[t].pc = "none" /\ sess[t].conn = 0 /\ sess[t].waits = NoWs
                            /\ sess[t].end = "none" /\ sess[t].cut = "no" /\ sess[t].alone
         /\ \A w \in Ws : ~Lives(sock, w)
  BY DEF Init, NoConn, NoSess, NoSock, Lives

LEMMA AllInvInit == Init => AllInv
  <1>1. Init => LoginInv
    BY DEF Init, LoginInv, Owned, AtRelay, Heard, Asks, NoConn, NoSess
  <1>2. Init => OneInv
    BY DEF Init, OneInv, OneSessionUnlessStray, NoSess, Running, Starting
  <1>3. QED BY <1>1, <1>2, TInvInit DEF AllInv

LEMMA AllInvNext == AllInv /\ [Next]_vars => AllInv'
  BY TInvNext, OneInvNext, LoginInvNext DEF AllInv

\* What a step that ends a session shows the user.
LEMMA ShownStep ==
  ASSUME AllInv, Wired, ShownInv, ShownInv', [Next]_vars, NEW s \in Sess,
         sess[s].pc \in Running, sess'[s].pc = "done"
  PROVE  sess'[s].end = "shown" \/ HasNoCase(s) \/ sess[s].cut # "no"
  <1>0. sess[s].pc # "done" BY DEF Running, Starting
  <1>1. AnyKind BY NextKind
  <1>2. CASE Finishes(s)
    <2>1. /\ sess'[s].end \in {"shown", "hidden"} \/ HasNoCase(s)
          /\ sess'[s].cut = sess[s].cut
      BY <1>2 DEF Finishes
    <2>2. QED BY <2>1 DEF ShownInv, HiddenIsCut
  <1>3. CASE \E c \in Conns : Shuts(c, s)
    BY <1>3 DEF Shuts
  <1>4. ASSUME NEW t \in Sess,
               Moves(t) \/ Finishes(t) \/ Opens(t) \/ Refers(t) \/ Relays(t)
        PROVE  Finishes(s)
    <2>1. CASE t = s
      BY <1>0, <1>4, <2>1 DEF Moves, Opens, Refers, Relays
    <2>2. CASE t # s
      <3>1. sess'[s] = sess[s]
        BY <1>4, <2>2 DEF Moves, Finishes, Opens, Refers, Relays
      <3>2. QED BY <1>0, <3>1
    <2>3. QED BY <2>1, <2>2
  <1>5. ASSUME NEW c \in Conns, NEW e \in Sess \cup {0}, Shuts(c, e) PROVE e = s
    BY <1>0, <1>5 DEF Shuts
  <1>6. ASSUME NEW t \in Sess, NEW c \in Conns, Begins(t, c) PROVE FALSE
    <2>1. CASE t = s BY <1>6, <2>1 DEF Begins
    <2>2. CASE t # s BY <1>0, <1>6, <2>2 DEF Begins
    <2>3. QED BY <2>1, <2>2
  <1>7. ~Still BY <1>0 DEF Still
  <1>8. QED BY <1>1, <1>2, <1>3, <1>4, <1>5, <1>6, <1>7 DEF AnyKind

\* A session never ends in silence but for two reasons: it read a message the
\* client has no case for, or its connection was closed.  While the connection is
\* open no session ever polls a socket without a _status, so the reason next()
\* rejects with is a text (globals.js 23, websock.ts 136-139).
THEOREM FailuresAreShown == Spec => FailureIsShown
  <1>1. Init => AllInv /\ Wired
    BY AllInvInit, WiredInit
  <1>2. Init => ShownInv
    <2>1. "none" \notin Running BY DEF Running, Starting
    <2>2. QED BY <2>1, InitRest DEF ShownInv, HiddenIsCut, Alive
  <1>3. AllInv /\ [Next]_vars => AllInv'
    BY AllInvNext
  <1>4. AllInv /\ Wired /\ [Next]_vars => Wired'
    BY WiredNext
  <1>5. AllInv /\ Wired /\ ShownInv /\ [Next]_vars => ShownInv'
    BY ShownNext
  <1>6. AllInv /\ Wired /\ ShownInv /\ ShownInv' /\ [Next]_vars =>
          [\A s \in Sess : sess[s].pc \in Running /\ sess'[s].pc = "done" =>
             sess'[s].end = "shown" \/ HasNoCase(s) \/ sess[s].cut # "no"]_sess
    BY ShownStep
  <1>7. QED BY <1>1, <1>2, <1>3, <1>4, <1>5, <1>6, PTL DEF Spec, FailureIsShown

-----------------------------------------------------------------------------
(* What close() leaves of a connection                                     *)

\* A session without company whose socket is `_ws` still has none, ...
Sole(s) == \A c \in Conns : sess[s].alone /\ sess[s].conn = c /\ conn[c].ws[1] = s =>
             \A t \in Sess : sess[t].pc \in Running /\ sess[t].conn = c => t = s

\* ... and nobody opens its connection again once it was closed.
Severed(s) == \A c \in Conns :
                sess[s].pc \in Running /\ sess[s].alone /\ sess[s].cut # "no" /\ sess[s].conn = c
                  => ~conn[c].open

\* Its relay socket does not exist before hbbs referred it to a relay.
Unconnected(s) == sess[s].pc \in {"none", "idOpen", "idAnswer"} => ~Lives(sock, <<s, "relay">>)

\* The sockets i and r of session s: one that lives is `_ws` of the open
\* connection c, or what the session opens or has given up to open.
Held(s, c, i, r) ==
  /\ Lives(sock, i) => conn[c].open /\ conn[c].ws = i /\ sess[s].pc # "relayOpen"
  /\ Lives(sock, r) => \/ sess[s].gaveUp
                       \/ conn[c].open /\ (sess[s].pc = "relayOpen" \/ conn[c].ws = r)
  /\ sess[s].pc = "relayOpen" => conn[c].open
  /\ sess[s].pc = "idAnswer" /\ ~conn[c].open => sock[i].buf = <<>>

Tethered(s) == \A c \in Conns : sess[s].alone /\ sess[s].cut # "escapes" /\ sess[s].conn = c =>
                 Held(s, c, <<s, "id">>, <<s, "relay">>)

ShutInv == \A s \in Sess : Sole(s) /\ Severed(s) /\ Unconnected(s) /\ Tethered(s)

LEMMA HeldOn ==
  ASSUME NEW t, NEW c, NEW i, NEW r, Held(t, c, i, r),
         conn'[c].open = conn[c].open, conn[c].open => conn'[c].ws = conn[c].ws,
         sess'[t].pc = sess[t].pc, sess'[t].gaveUp = sess[t].gaveUp,
         Lives(sock', i) => Lives(sock, i), Lives(sock', r) => Lives(sock, r),
         sock[i].buf = <<>> /\ ~Lives(sock, i) => sock'[i].buf = <<>>
  PROVE  Held(t, c, i, r)'
  BY DEF Held

LEMMA SameLives ==
  ASSUME NEW w
  PROVE  /\ Same(sock, sock', w) \/ Line(sock, sock', w) =>
              /\ Lives(sock', w) <=> Lives(sock, w)
              /\ sock[w].buf = <<>> => sock'[w].buf = <<>>
         /\ sock'[w] = sock[w] =>
              /\ Lives(sock', w) <=> Lives(sock, w)
              /\ sock[w].buf = <<>> => sock'[w].buf = <<>>
  BY DEF Same, Line, Lives

LEMMA NobodysWs == \A s \in Sess : NoWs[1] # s
  BY DEF NoWs, Sess

LEMMA Halves ==
  ASSUME NEW s \in Sess
  PROVE  \E i \in Ws, r \in Ws : /\ i = <<s, "id">> /\ i[1] = s /\ i[2] = "id"
                                 /\ r = <<s, "relay">> /\ r[1] = s /\ r[2] = "relay"
  <1>1. PICK i : i = <<s, "id">> OBVIOUS
  <1>2. PICK r : r = <<s, "relay">> OBVIOUS
  <1>3. i \in Ws /\ i[1] = s /\ i[2] = "id" BY <1>1 DEF Ws
  <1>4. r \in Ws /\ r[1] = s /\ r[2] = "relay" BY <1>2 DEF Ws
  <1>5. QED BY <1>1, <1>2, <1>3, <1>4

LEMMA ShutStill ==
  ASSUME ShutInv, Still
  PROVE  ShutInv'
  <1>1. /\ sess' = sess
        /\ \A d \in Conns : conn'[d].ws = conn[d].ws /\ conn'[d].open = conn[d].open
    BY DEF Still, ConnStays
  <1>2. \A w \in Ws : /\ Lives(sock', w) => Lives(sock, w)
                      /\ sock[w].buf = <<>> /\ ~Lives(sock, w) => sock'[w].buf = <<>>
    BY DEF Still, Weathers
  <1>3. ASSUME NEW t \in Sess PROVE Sole(t)' /\ Severed(t)' /\ Unconnected(t)' /\ Tethered(t)'
    <2>1. PICK i \in Ws, r \in Ws : i = <<t, "id">> /\ r = <<t, "relay">>
      BY Halves
    <2>2. Sole(t)' /\ Severed(t)'
      BY <1>1 DEF ShutInv, Sole, Severed
    <2>3. Unconnected(t)'
      BY <1>1, <1>2, <2>1 DEF ShutInv, Unconnected
    <2>4. ASSUME NEW c \in Conns, sess[t].alone, sess[t].cut # "escapes", sess[t].conn = c
          PROVE  Held(t, c, i, r)'
      <3>1. Held(t, c, i, r) BY <2>1, <2>4 DEF ShutInv, Tethered
      <3>2. QED BY <1>1, <1>2, <3>1, HeldOn
    <2>5. Tethered(t)'
      BY <1>1, <2>1, <2>4 DEF Tethered
    <2>6. QED BY <2>2, <2>3, <2>5
  <1>4. QED BY <1>3 DEF ShutInv

LEMMA ShutMoves ==
  ASSUME ShutInv, NEW s \in Sess, Moves(s)
  PROVE  ShutInv'
  <1>1. /\ \A d \in Conns : conn'[d].ws = conn[d].ws /\ conn'[d].open = conn[d].open
        /\ sess[s].pc \in Past /\ sess'[s].pc \in {"signed", "loop", "unzip"}
        /\ \A t \in Sess : /\ sess'[t].conn = sess[t].conn /\ sess'[t].alone = sess[t].alone
                           /\ sess'[t].cut = sess[t].cut /\ sess'[t].gaveUp = sess[t].gaveUp
                           /\ t # s => sess'[t].pc = sess[t].pc
    BY DEF Moves, ConnStays, SessStays
  <1>2. \A t \in Sess : sess'[t].pc \in Running => sess[t].pc \in Running
    BY <1>1 DEF Past, Running, Starting
  <1>3. \A w \in Ws : /\ Lives(sock', w) => Lives(sock, w)
                      /\ sock[w].buf = <<>> => sock'[w].buf = <<>>
    BY SameLives DEF Moves
  <1>4. ASSUME NEW t \in Sess PROVE Sole(t)' /\ Severed(t)' /\ Unconnected(t)' /\ Tethered(t)'
    <2>1. PICK i \in Ws, r \in Ws : i = <<t, "id">> /\ r = <<t, "relay">>
      BY Halves
    <2>2. Sole(t)' /\ Severed(t)'
      BY <1>1, <1>2 DEF ShutInv, Sole, Severed
    <2>3. Unconnected(t)'
      BY <1>1, <1>3, <2>1 DEF ShutInv, Unconnected
    <2>4. ASSUME NEW c \in Conns, sess[t].alone, sess[t].cut # "escapes", sess[t].conn = c
          PROVE  Held(t, c, i, r)'
      <3>1. Held(t, c, i, r) BY <2>1, <2>4 DEF ShutInv, Tethered
      <3>2. CASE t # s BY <1>1, <1>3, <3>1, <3>2, HeldOn
      <3>3. CASE t = s BY <1>1, <1>3, <3>1, <3>3 DEF Held, Past
      <3>4. QED BY <3>2, <3>3
    <2>5. Tethered(t)'
      BY <1>1, <2>1, <2>4 DEF Tethered
    <2>6. QED BY <2>2, <2>3, <2>5
  <1>5. QED BY <1>4 DEF ShutInv

LEMMA ShutFinishes ==
  ASSUME AllInv, Wired, ShutInv, NEW s \in Sess, Finishes(s)
  PROVE  ShutInv'
  <1>1. /\ sess[s].pc \in Running /\ sess'[s].pc = "done"
        /\ sess'[s].conn = sess[s].conn /\ sess'[s].cut = sess[s].cut
        /\ sess'[s].alone = sess[s].alone
        /\ \A t \in Sess \ {s} : sess'[t] = sess[t]
    BY DEF Finishes
  <1>2. "done" \notin Running BY DEF Running, Starting
  <1>3. ASSUME NEW d \in Conns
        PROVE  /\ conn'[d].open = conn[d].open
               /\ conn'[d].ws = conn[d].ws \/ (conn'[d].ws = NoWs /\ ~conn[d].open)
    <2>1. CASE ConnStays(d) BY <2>1 DEF ConnStays
    <2>2. CASE d # curConn /\ conn'[d] = NoConn
      <3>1. ~conn[d].open BY <2>2 DEF Wired, Latest
      <3>2. conn[d] \in ConnType BY Current DEF AllInv, ConnFs
      <3>3. conn[d].open \in BOOLEAN BY <3>2 DEF ConnType
      <3>4. NoConn.ws = NoWs /\ NoConn.open = FALSE BY DEF NoConn
      <3>5. QED BY <2>2, <3>1, <3>3, <3>4
    <2>3. QED BY <2>1, <2>2 DEF Finishes
  <1>4. \A w \in Ws : /\ Lives(sock', w) => Lives(sock, w)
                      /\ w[1] # s => (sock[w].buf = <<>> => sock'[w].buf = <<>>)
    BY SameLives DEF Finishes
  <1>5. ASSUME NEW t \in Sess PROVE Sole(t)' /\ Severed(t)' /\ Unconnected(t)' /\ Tethered(t)'
    <2>1. PICK i \in Ws, r \in Ws : i = <<t, "id">> /\ i[1] = t /\ r = <<t, "relay">>
      BY Halves
    <2>2. \A u \in Sess : /\ sess'[u].pc \in Running => sess'[u] = sess[u]
                          /\ sess'[u].conn = sess[u].conn /\ sess'[u].alone = sess[u].alone
                          /\ sess'[u].cut = sess[u].cut
      BY <1>1, <1>2
    <2>3. Sole(t)'
      BY <1>3, <2>2, NobodysWs DEF ShutInv, Sole
    <2>4. Severed(t)'
      BY <1>3, <2>2 DEF ShutInv, Severed
    <2>5. Unconnected(t)'
      BY <1>1, <1>4, <2>1 DEF ShutInv, Unconnected
    <2>6. ASSUME NEW c \in Conns, sess[t].alone, sess[t].cut # "escapes", sess[t].conn = c
          PROVE  Held(t, c, i, r)'
      <3>1. Held(t, c, i, r) BY <2>1, <2>6 DEF ShutInv, Tethered
      <3>2. CASE t # s
        BY <1>1, <1>3, <1>4, <2>1, <3>1, <3>2, HeldOn
      <3>3. CASE t = s
        <4>1. Lives(sock', r) => \/ sess'[s].gaveUp
                                 \/ /\ sess[s].pc # "relayOpen"
                                    /\ sess'[s].gaveUp = sess[s].gaveUp \/ sess[s].pc = "idOpen"
          BY <2>1, <3>3 DEF Finishes
        <4>2. sess[s].pc = "idOpen" => ~Lives(sock, r)
          BY <2>1, <3>3 DEF ShutInv, Unconnected
        <4>3. Lives(sock', r) => sess'[s].gaveUp \/ (conn[c].open /\ conn[c].ws = r)
          BY <1>4, <3>1, <3>3, <4>1, <4>2 DEF Held
        <4>4. QED BY <1>1, <1>3, <1>4, <3>1, <3>3, <4>3 DEF Held
      <3>4. QED BY <3>2, <3>3
    <2>7. Tethered(t)'
      BY <2>1, <2>2, <2>6 DEF Tethered
    <2>8. QED BY <2>3, <2>4, <2>5, <2>7
  <1>6. QED BY <1>5 DEF ShutInv

LEMMA ShutOpens ==
  ASSUME ShutInv, NEW s \in Sess, Opens(s)
  PROVE  ShutInv'
  <1>1. PICK v \in Ws : v = <<s, "id">> /\ v[1] = s /\ v[2] = "id"
    BY Halves
  <1>2. /\ \A d \in Conns : conn'[d].ws = conn[d].ws /\ conn'[d].open = conn[d].open
        /\ sess[s].pc = "idOpen" /\ sess'[s].pc = "idAnswer"
        /\ \A t \in Sess : /\ sess'[t].conn = sess[t].conn /\ sess'[t].alone = sess[t].alone
                           /\ sess'[t].cut = sess[t].cut /\ sess'[t].gaveUp = sess[t].gaveUp
                           /\ t # s => sess'[t].pc = sess[t].pc
        /\ Lives(sock, v)
    BY <1>1 DEF Opens, ConnStays, SessStays
  <1>3. \A t \in Sess : sess'[t].pc \in Running => sess[t].pc \in Running
    BY <1>2 DEF Running, Starting
  <1>4. \A w \in Ws : /\ Lives(sock', w) => Lives(sock, w)
                      /\ w # v => (sock[w].buf = <<>> => sock'[w].buf = <<>>)
    <2>1. \A w \in Ws : w # v => sock'[w] = sock[w]
      BY <1>1 DEF Opens
    <2>2. QED BY <1>2, <2>1, SameLives
  <1>5. ASSUME NEW t \in Sess PROVE Sole(t)' /\ Severed(t)' /\ Unconnected(t)' /\ Tethered(t)'
    <2>1. PICK i \in Ws, r \in Ws : i = <<t, "id">> /\ i[1] = t /\ r = <<t, "relay">>
      BY Halves
    <2>2. Sole(t)' /\ Severed(t)'
      BY <1>2, <1>3 DEF ShutInv, Sole, Severed
    <2>3. Unconnected(t)'
      BY <1>2, <1>4, <2>1 DEF ShutInv, Unconnected
    <2>4. ASSUME NEW c \in Conns, sess[t].alone, sess[t].cut # "escapes", sess[t].conn = c
          PROVE  Held(t, c, i, r)'
      <3>1. Held(t, c, i, r) BY <2>1, <2>4 DEF ShutInv, Tethered
      <3>2. CASE t # s
        <4>1. i # v BY <1>1, <2>1, <3>2
        <4>2. QED BY <1>2, <1>4, <3>1, <3>2, <4>1, HeldOn
      <3>3. CASE t = s
        <4>1. i = v BY <1>1, <2>1, <3>3
        <4>2. ~Lives(sock, r)
          BY <1>2, <2>1, <3>3 DEF ShutInv, Unconnected
        <4>3. conn[c].open BY <1>2, <3>1, <4>1 DEF Held
        <4>4. QED BY <1>2, <1>4, <3>1, <3>3, <4>2, <4>3 DEF Held
      <3>4. QED BY <3>2, <3>3
    <2>5. Tethered(t)'
      BY <1>2, <2>1, <2>4 DEF Tethered
    <2>6. QED BY <2>2, <2>3, <2>5
  <1>6. QED BY <1>5 DEF ShutInv

LEMMA ShutRefers ==
  ASSUME ShutInv, NEW s \in Sess, Refers(s)
  PROVE  ShutInv'
  <1>1. /\ \A d \in Conns : conn'[d].ws = conn[d].ws /\ conn'[d].open = conn[d].open
        /\ sess[s].pc = "idAnswer" /\ sess'[s].pc = "relayOpen"
        /\ \A t \in Sess : /\ sess'[t].conn = sess[t].conn /\ sess'[t].alone = sess[t].alone
                           /\ sess'[t].cut = sess[t].cut /\ sess'[t].gaveUp = sess[t].gaveUp
                           /\ t # s => sess'[t].pc = sess[t].pc
        /\ \A w \in Ws : w[1] # s => sock'[w] = sock[w]
    BY DEF Refers, ConnStays, SessStays
  <1>2. \A t \in Sess : sess'[t].pc \in Running => sess[t].pc \in Running
    BY <1>1 DEF Running, Starting
  <1>3. \A w \in Ws : w[1] # s => /\ Lives(sock', w) => Lives(sock, w)
                                  /\ sock[w].buf = <<>> => sock'[w].buf = <<>>
    BY <1>1, SameLives
  <1>4. ASSUME NEW t \in Sess PROVE Sole(t)' /\ Severed(t)' /\ Unconnected(t)' /\ Tethered(t)'
    <2>1. PICK i \in Ws, r \in Ws : /\ i = <<t, "id">> /\ i[1] = t
                                    /\ r = <<t, "relay">> /\ r[1] = t
      BY Halves
    <2>2. Sole(t)' /\ Severed(t)'
      BY <1>1, <1>2 DEF ShutInv, Sole, Severed
    <2>3. Unconnected(t)'
      BY <1>1, <1>3, <2>1 DEF ShutInv, Unconnected
    <2>4. ASSUME NEW c \in Conns, sess[t].alone, sess[t].cut # "escapes", sess[t].conn = c
          PROVE  Held(t, c, i, r)'
      <3>1. Held(t, c, i, r) BY <2>1, <2>4 DEF ShutInv, Tethered
      <3>2. CASE t # s
        BY <1>1, <1>3, <2>1, <3>1, <3>2, HeldOn
      <3>3. CASE t = s
        <4>1. sock[i].buf # <<>> /\ ~Lives(sock', i)
          BY <2>1, <3>3 DEF Refers
        <4>2. conn[c].open BY <1>1, <3>1, <3>3, <4>1 DEF Held
        <4>3. QED BY <1>1, <3>3, <4>1, <4>2 DEF Held
      <3>4. QED BY <3>2, <3>3
    <2>5. Tethered(t)'
      BY <1>1, <2>1, <2>4 DEF Tethered
    <2>6. QED BY <2>2, <2>3, <2>5
  <1>5. QED BY <1>4 DEF ShutInv

-----------------------------------------------------------------------------
LEMMA ShutRelays ==
  ASSUME AllInv, Wired, ShutInv, NEW s \in Sess, Relays(s)
  PROVE  ShutInv'
  <1>1. PICK v \in Ws : v = <<s, "relay">> /\ v[1] = s /\ v[2] = "relay"
    BY Halves
  <1>2. PICK c \in Conns : c = sess[s].conn
    BY Pointers DEF AllInv, Relays, Running, Starting
  <1>3. /\ \A d \in Conns : /\ conn'[d].ws = IF d = c THEN v ELSE conn[d].ws
                            /\ conn'[d].open = conn[d].open
        /\ sess[s].pc = "relayOpen" /\ sess'[s].pc \in {"verify", "loop"}
        /\ \A t \in Sess : /\ sess'[t].conn = sess[t].conn /\ sess'[t].alone = sess[t].alone
                           /\ sess'[t].cut = sess[t].cut /\ sess'[t].gaveUp = sess[t].gaveUp
                           /\ t # s => sess'[t].pc = sess[t].pc
    BY <1>1, <1>2 DEF Relays, ConnStays, SessStays
  <1>4. sess[s].pc \in Running /\ \A t \in Sess : sess'[t].pc \in Running => sess[t].pc \in Running
    BY <1>3 DEF Running, Starting
  <1>5. \A w \in Ws : /\ w # v => (Lives(sock', w) => Lives(sock, w))
                      /\ w[1] # s => (sock[w].buf = <<>> => sock'[w].buf = <<>>)
    <2>1. \A w \in Ws : w[1] # s => sock'[w] = sock[w]
      BY DEF Relays
    <2>2. \A w \in Ws : w # v => (Lives(sock', w) => Lives(sock, w))
      BY <1>1 DEF Relays
    <2>3. QED BY <2>1, <2>2, SameLives
  <1>6. ASSUME NEW t \in Sess PROVE Sole(t)' /\ Severed(t)' /\ Unconnected(t)' /\ Tethered(t)'
    <2>1. PICK i \in Ws, r \in Ws : /\ i = <<t, "id">> /\ i[1] = t /\ i[2] = "id"
                                    /\ r = <<t, "relay">> /\ r[1] = t
      BY Halves
    <2>2. ASSUME NEW d \in Conns, sess[t].alone, sess[t].conn = d, conn'[d].ws[1] = t,
                 NEW u \in Sess, sess[u].pc \in Running, sess[u].conn = d
          PROVE  u = t
      <3>1. CASE d = c
        <4>1. t = s BY <1>1, <1>3, <2>2, <3>1
        <4>2. QED BY <1>2, <1>4, <2>2, <3>1, <4>1 DEF Wired, Lonely
      <3>2. CASE d # c
        <4>1. conn[d].ws[1] = t BY <1>3, <2>2, <3>2
        <4>2. QED BY <2>2, <4>1 DEF ShutInv, Sole
      <3>3. QED BY <3>1, <3>2
    <2>3. Sole(t)'
      BY <1>3, <1>4, <2>2 DEF Sole
    <2>4. Severed(t)'
      BY <1>3, <1>4 DEF ShutInv, Severed
    <2>5. Unconnected(t)'
      <3>1. ASSUME sess'[t].pc \in {"none", "idOpen", "idAnswer"} PROVE ~Lives(sock', r)
        <4>1. t # s BY <1>3, <3>1
        <4>2. ~Lives(sock, r) BY <1>3, <2>1, <3>1, <4>1 DEF ShutInv, Unconnected
        <4>3. r # v BY <1>1, <2>1, <4>1
        <4>4. QED BY <1>5, <4>2, <4>3
      <3>2. QED BY <2>1, <3>1 DEF Unconnected
    <2>6. ASSUME NEW d \in Conns, sess[t].alone, sess[t].cut # "escapes", sess[t].conn = d
          PROVE  Held(t, d, i, r)'
      <3>1. Held(t, d, i, r) BY <2>1, <2>6 DEF ShutInv, Tethered
      <3>2. i # v BY <1>1, <2>1
      <3>3. CASE t # s /\ d # c
        <4>1. r # v BY <1>1, <2>1, <3>3
        <4>2. QED BY <1>3, <1>5, <2>1, <3>1, <3>2, <3>3, <4>1, HeldOn
      <3>4. CASE t # s /\ d = c
        <4>1. r # v BY <1>1, <2>1, <3>4
        <4>2. sess[t].pc # "relayOpen"
          BY <1>2, <1>4, <2>6, <3>4 DEF Wired, Lonely, Running, Starting
        <4>3. conn[d].ws[1] # t
          BY <1>2, <1>4, <2>6, <3>4 DEF ShutInv, Sole
        <4>4. conn[d].ws # i /\ conn[d].ws # r
          BY <2>1, <4>3
        <4>5. ~Lives(sock, i) /\ (Lives(sock, r) => sess[t].gaveUp)
          BY <3>1, <4>2, <4>4 DEF Held
        <4>6. ~Lives(sock', i) /\ (Lives(sock', r) => sess[t].gaveUp)
          BY <1>5, <3>2, <4>1, <4>5
        <4>7. sock[i].buf = <<>> => sock'[i].buf = <<>>
          BY <1>5, <2>1, <3>4
        <4>8. QED BY <1>3, <3>1, <3>4, <4>2, <4>6, <4>7 DEF Held
      <3>5. CASE t = s
        <4>1. ~Lives(sock', i)
          BY <1>3, <1>5, <3>1, <3>2, <3>5 DEF Held
        <4>2. conn[d].open /\ d = c
          BY <1>2, <1>3, <2>6, <3>1, <3>5 DEF Held
        <4>3. conn'[d].ws = r /\ conn'[d].open
          BY <1>1, <1>3, <2>1, <3>5, <4>2
        <4>4. QED BY <1>3, <3>5, <4>1, <4>3 DEF Held
      <3>6. QED BY <3>3, <3>4, <3>5
    <2>7. Tethered(t)'
      BY <1>3, <2>1, <2>6 DEF Tethered
    <2>8. QED BY <2>3, <2>4, <2>5, <2>7
  <1>7. QED BY <1>6 DEF ShutInv

\* What close() of connection c leaves of a session of it.
LEMMA CutHeld ==
  ASSUME NEW t \in Sess, NEW c \in Conns, NEW i, NEW r, Held(t, c, i, r),
         sess'[t].pc = sess[t].pc, sess'[t].gaveUp = sess[t].gaveUp,
         sess[t].pc # "relayOpen", sess[t].pc = "idAnswer" => sock[i].buf = <<>>,
         Lives(sock', i) => Lives(sock, i), Lives(sock', r) => Lives(sock, r),
         i = conn[c].ws => ~Lives(sock', i), r = conn[c].ws => ~Lives(sock', r),
         sock[i].buf = <<>> => sock'[i].buf = <<>>
  PROVE  Held(t, c, i, r)'
  BY DEF Held

LEMMA ShutShuts ==
  ASSUME AllInv, Wired, ShutInv, NEW c \in Conns, NEW e \in Sess \cup {0}, Shuts(c, e)
  PROVE  ShutInv'
  <1>1. /\ e \in Sess => /\ sess[e].pc = "loop" /\ sess[e].conn = c
                         /\ sess'[e].pc = "done" /\ sess'[e].conn = c
                         /\ sess'[e].cut = sess[e].cut /\ sess'[e].alone = sess[e].alone
                         /\ sess'[e].gaveUp = sess[e].gaveUp
        /\ \A t \in Sess \ {e} :
             /\ sess'[t].pc = sess[t].pc /\ sess'[t].conn = sess[t].conn
             /\ sess'[t].alone = sess[t].alone /\ sess'[t].gaveUp = sess[t].gaveUp
             /\ CutBy(c, t)
        /\ \A d \in Conns : d # c => ConnStays(d)
        /\ ~conn'[c].open /\ (conn'[c].ws = conn[c].ws \/ conn'[c].ws = NoWs)
    BY DEF Shuts
  <1>2. \A t \in Sess : /\ sess'[t].conn = sess[t].conn /\ sess'[t].alone = sess[t].alone
                        /\ sess'[t].pc = sess[t].pc \/ sess'[t].pc = "done"
    BY <1>1
  <1>3. \A t \in Sess : sess'[t].pc \in Running => sess[t].pc \in Running
    BY <1>2 DEF Running, Starting
  <1>4. \A d \in Conns : /\ conn'[d].ws = conn[d].ws \/ conn'[d].ws = NoWs
                         /\ d # c => conn'[d].ws = conn[d].ws /\ conn'[d].open = conn[d].open
    BY <1>1 DEF ConnStays
  <1>5. \A w \in Ws : /\ Lives(sock', w) => Lives(sock, w)
                      /\ sock[w].buf = <<>> => sock'[w].buf = <<>>
                      /\ w = conn[c].ws => ~Lives(sock', w)
    BY DEF Shuts, ShutSockets
  <1>6. ASSUME NEW t \in Sess, sess[t].pc \notin Running \/ sess[t].conn # c \/ sess[t].cut # "no"
        PROVE  sess'[t].cut = sess[t].cut
    <2>1. CASE t = e BY <1>1, <2>1
    <2>2. CASE t # e
      <3>1. CutBy(c, t) BY <1>1, <2>2
      <3>2. QED BY <1>6, <3>1 DEF CutBy, RunningOf
    <2>3. QED BY <2>1, <2>2
  <1>7. ASSUME NEW t \in Sess PROVE Sole(t)' /\ Severed(t)' /\ Unconnected(t)' /\ Tethered(t)'
    <2>1. PICK i \in Ws, r \in Ws : i = <<t, "id">> /\ r = <<t, "relay">>
      BY Halves
    <2>2. Sole(t)'
      BY <1>2, <1>3, <1>4, NobodysWs DEF ShutInv, Sole
    <2>3. ASSUME NEW d \in Conns, sess[t].pc \in Running, sess[t].alone,
                 sess'[t].cut # "no", sess[t].conn = d
          PROVE  ~conn'[d].open
      <3>1. CASE d = c BY <1>1, <3>1
      <3>2. CASE d # c
        <4>1. sess'[t].cut = sess[t].cut BY <1>6, <2>3, <3>2
        <4>2. ~conn[d].open BY <2>3, <4>1 DEF ShutInv, Severed
        <4>3. QED BY <1>4, <3>2, <4>2
      <3>3. QED BY <3>1, <3>2
    <2>4. Severed(t)'
      BY <1>2, <1>3, <2>3 DEF Severed
    <2>5. Unconnected(t)'
      BY <1>2, <1>5, <2>1 DEF ShutInv, Unconnected
    <2>6. ASSUME NEW d \in Conns, sess[t].alone, sess'[t].cut # "escapes", sess[t].conn = d
          PROVE  Held(t, d, i, r)'
      <3>1. sess[t].cut # "escapes"
        BY <1>6, <2>6
      <3>2. Held(t, d, i, r) BY <2>1, <2>6, <3>1 DEF ShutInv, Tethered
      <3>3. CASE d # c
        <4>1. t # e BY <1>1, <2>6, <3>3
        <4>2. QED BY <1>1, <1>4, <1>5, <3>2, <3>3, <4>1, HeldOn
      <3>4. CASE d = c /\ t = e
        <4>1. sess[t].pc = "loop" /\ sess'[t].pc = "done" /\ sess'[t].gaveUp = sess[t].gaveUp
          BY <1>1, <3>4
        <4>2. ~Lives(sock', i) /\ (Lives(sock', r) => sess[t].gaveUp)
          BY <1>5, <3>2, <3>4, <4>1 DEF Held
        <4>3. QED BY <4>1, <4>2 DEF Held
      <3>5. CASE d = c /\ t # e
        <4>1. /\ sess'[t].pc = sess[t].pc /\ sess'[t].gaveUp = sess[t].gaveUp /\ CutBy(c, t)
          BY <1>1, <3>5
        <4>2. sess[t].pc # "relayOpen" /\ (sess[t].pc = "idAnswer" => sock[i].buf = <<>>)
          <5>1. CASE sess[t].pc \in Running /\ sess[t].cut = "no"
            <6>1. ~OpensRelay(t)
              BY <2>6, <3>5, <4>1, <5>1 DEF CutBy, RunningOf
            <6>2. sess[t].pc = "idAnswer" => sess[t].waits = i
              BY <2>1 DEF Wired, Polling
            <6>3. QED BY <6>1, <6>2 DEF OpensRelay
          <5>2. CASE sess[t].pc \in Running /\ sess[t].cut # "no"
            <6>1. ~conn[c].open
              BY <2>6, <3>5, <5>2 DEF ShutInv, Severed
            <6>2. QED BY <3>2, <3>5, <6>1 DEF Held
          <5>3. CASE sess[t].pc \notin Running
            BY <5>3 DEF Running, Starting
          <5>4. QED BY <5>1, <5>2, <5>3
        <4>3. QED BY <1>5, <3>2, <3>5, <4>1, <4>2, CutHeld
      <3>6. QED BY <3>3, <3>4, <3>5
    <2>7. Tethered(t)'
      BY <1>2, <2>1, <2>6 DEF Tethered
    <2>8. QED BY <2>2, <2>4, <2>5, <2>7
  <1>8. QED BY <1>7 DEF ShutInv

-----------------------------------------------------------------------------
\* What a start on connection c finds of the other sessions, those that are
\* over and forgotten aside.
LEMMA BeginsOthers ==
  ASSUME NEW s \in Sess, NEW c \in Conns, Begins(s, c), NEW t \in Sess, t # s
  PROVE  \/ sess'[t].pc = "done" /\ sess'[t].conn = 0
         \/ /\ sess'[t].pc = sess[t].pc /\ sess'[t].conn = sess[t].conn
            /\ sess'[t].gaveUp = sess[t].gaveUp /\ sess'[t].secure = sess[t].secure
            /\ sess'[t].alone => sess[t].alone /\ ~(sess[t].pc \in Running /\ sess[t].conn = c)
            /\ sess[t].pc \notin Running \/ sess[t].conn # c => sess'[t].cut = sess[t].cut
  <1>1. t \in RunningOf(c) <=> sess[t].pc \in Running /\ sess[t].conn = c
    BY DEF RunningOf
  <1>2. \/ sess'[t].pc = "done" /\ sess'[t].conn = 0
        \/ /\ sess'[t].pc = sess[t].pc /\ sess'[t].conn = sess[t].conn
           /\ sess'[t].gaveUp = sess[t].gaveUp /\ sess'[t].secure = sess[t].secure
           /\ sess'[t].alone = (sess[t].alone /\ t \notin RunningOf(c))
           /\ t \notin RunningOf(c) => sess'[t].cut = sess[t].cut
    BY DEF Begins
  <1>3. sess'[t].alone = (sess[t].alone /\ t \notin RunningOf(c)) =>
          (sess'[t].alone => sess[t].alone /\ t \notin RunningOf(c))
    OBVIOUS
  <1>4. QED BY <1>1, <1>2, <1>3

LEMMA ShutBegins ==
  ASSUME AllInv, Wired, ShutInv, NEW s \in Sess, NEW c \in Conns, Begins(s, c)
  PROVE  ShutInv'
  <1>1. PICK v \in Ws : v = <<s, "id">> /\ v[1] = s /\ v[2] = "id"
    BY Halves
  <1>2. /\ s = nsess + 1 /\ nsess \in Nat
        /\ sess'[s].pc = "idOpen" /\ sess'[s].conn = c /\ sess'[s].cut = "no"
        /\ sess'[s].alone => \A t \in Sess : ~(sess[t].pc \in Running /\ sess[t].conn = c)
    <2>1. s = nsess + 1 /\ nsess \in Nat
      BY BoundsAssumption DEF Begins, AllInv, TInv, TypeOK
    <2>2. /\ sess'[s].pc = "idOpen" /\ sess'[s].conn = c /\ sess'[s].cut = "no"
          /\ sess'[s].alone => \A t \in Sess : ~(sess[t].pc \in Running /\ sess[t].conn = c)
      BY DEF Begins, RunningOf
    <2>3. QED BY <2>1, <2>2
  <1>3. sess[s].pc = "none"
    BY <1>2 DEF AllInv, TInv, AtWork
  <1>4. /\ \A d \in Conns : d # c => conn'[d].ws = conn[d].ws /\ conn'[d].open = conn[d].open
        /\ conn'[c].ws = v /\ conn'[c].open
    BY <1>1 DEF Begins, ConnStays
  <1>5. \A w \in Ws : w # v => /\ Lives(sock', w) => Lives(sock, w)
                               /\ sock[w].buf = <<>> => sock'[w].buf = <<>>
                               /\ w = conn[c].ws => ~Lives(sock', w)
    BY <1>1 DEF Begins, ShutSockets
  <1>6. \A t \in Sess : t # s /\ sess'[t].pc \in Running =>
          /\ sess[t].pc \in Running /\ sess'[t].conn = sess[t].conn
    <2>1. "done" \notin Running BY DEF Running, Starting
    <2>2. QED BY <2>1, BeginsOthers
  <1>7. 0 \notin Conns BY DEF Conns
  <1>8. ASSUME NEW t \in Sess PROVE Sole(t)' /\ Severed(t)' /\ Unconnected(t)' /\ Tethered(t)'
    <2>1. PICK i \in Ws, r \in Ws : /\ i = <<t, "id">> /\ i[1] = t /\ i[2] = "id"
                                    /\ r = <<t, "relay">> /\ r[1] = t /\ r[2] = "relay"
      BY Halves
    <2>2. r # v BY <1>1, <2>1
    <2>3. CASE t = s
      <3>1. ASSUME sess'[t].alone, NEW u \in Sess, sess'[u].pc \in Running, sess'[u].conn = c
            PROVE  u = t
        BY <1>2, <1>6, <2>3, <3>1
      <3>2. Sole(t)'
        BY <1>2, <2>3, <3>1 DEF Sole
      <3>3. Severed(t)'
        BY <1>2, <2>3 DEF Severed
      <3>4. ~Lives(sock', r)
        BY <1>3, <1>5, <2>1, <2>2, <2>3 DEF ShutInv, Unconnected
      <3>5. Unconnected(t)'
        BY <2>1, <3>4 DEF Unconnected
      <3>6. conn'[c].ws = i BY <1>1, <1>4, <2>1, <2>3
      <3>7. Held(t, c, i, r)'
        BY <1>2, <1>4, <2>3, <3>4, <3>6 DEF Held
      <3>8. Tethered(t)'
        BY <1>2, <2>1, <2>3, <3>7 DEF Tethered
      <3>9. QED BY <3>2, <3>3, <3>5, <3>8
    <2>4. CASE t # s /\ sess'[t].pc = "done" /\ sess'[t].conn = 0
      BY <1>7, <2>4 DEF Sole, Severed, Unconnected, Tethered
    <2>5. CASE t # s /\ ~(sess'[t].pc = "done" /\ sess'[t].conn = 0)
      <3>1. /\ sess'[t].pc = sess[t].pc /\ sess'[t].conn = sess[t].conn
            /\ sess'[t].gaveUp = sess[t].gaveUp
            /\ sess'[t].alone => sess[t].alone /\ ~(sess[t].pc \in Running /\ sess[t].conn = c)
            /\ sess[t].pc \notin Running \/ sess[t].conn # c => sess'[t].cut = sess[t].cut
        BY <2>5, BeginsOthers
      <3>2. i # v BY <1>1, <2>1, <2>5
      <3>3. ASSUME NEW d \in Conns, sess'[t].alone, sess[t].conn = d, conn'[d].ws[1] = t,
                   NEW u \in Sess, sess'[u].pc \in Running, sess'[u].conn = d
            PROVE  u = t
        <4>1. d # c BY <1>1, <1>4, <2>5, <3>3
        <4>2. conn[d].ws[1] = t BY <1>4, <3>3, <4>1
        <4>3. sess[u].pc \in Running /\ sess[u].conn = d
          BY <1>2, <1>6, <3>3, <4>1
        <4>4. QED BY <3>1, <3>3, <4>2, <4>3 DEF ShutInv, Sole
      <3>4. Sole(t)'
        BY <3>1, <3>3 DEF Sole
      <3>5. ASSUME NEW d \in Conns, sess[t].pc \in Running, sess'[t].alone,
                   sess'[t].cut # "no", sess[t].conn = d
            PROVE  ~conn'[d].open
        <4>1. d # c /\ sess'[t].cut = sess[t].cut BY <3>1, <3>5
        <4>2. ~conn[d].open BY <3>1, <3>5, <4>1 DEF ShutInv, Severed
        <4>3. QED BY <1>4, <4>1, <4>2
      <3>6. Severed(t)'
        BY <3>1, <3>5 DEF Severed
      <3>7. Unconnected(t)'
        BY <1>5, <2>1, <2>2, <3>1 DEF ShutInv, Unconnected
      <3>8. ASSUME NEW d \in Conns, sess'[t].alone, sess'[t].cut # "escapes", sess[t].conn = d
            PROVE  Held(t, d, i, r)'
        <4>1. sess[t].alone /\ sess[t].cut # "escapes"
          BY <3>1, <3>8
        <4>2. Held(t, d, i, r) BY <2>1, <3>8, <4>1 DEF ShutInv, Tethered
        <4>3. CASE d # c
          BY <1>4, <1>5, <2>2, <3>1, <3>2, <4>2, <4>3, HeldOn
        <4>4. CASE d = c
          <5>1. sess[t].pc # "relayOpen" /\ sess[t].pc # "idAnswer"
            BY <3>1, <3>8, <4>4 DEF Running, Starting
          <5>2. QED BY <1>5, <2>2, <3>1, <3>2, <4>2, <4>4, <5>1, CutHeld
        <4>5. QED BY <4>3, <4>4
      <3>9. Tethered(t)'
        BY <2>1, <3>1, <3>8 DEF Tethered
      <3>10. QED BY <3>4, <3>6, <3>7, <3>9
    <2>6. QED BY <2>3, <2>4, <2>5
  <1>9. QED BY <1>8 DEF ShutInv

LEMMA ShutNext ==
  ASSUME AllInv, Wired, ShutInv, [Next]_vars
  PROVE  ShutInv'
  <1>1. AnyKind BY NextKind
  <1>2. QED BY <1>1, ShutStill, ShutMoves, ShutFinishes, ShutOpens, ShutRefers,
               ShutRelays, ShutShuts, ShutBegins DEF AnyKind

LEMMA ShutInit ==
  ASSUME Init
  PROVE  ShutInv
  <1>1. "none" \notin Running BY DEF Running, Starting
  <1>2. \A d \in Conns : d # 0 BY DEF Conns
  <1>3. ASSUME NEW t \in Sess PROVE ~Lives(sock, <<t, "relay">>)
    BY Halves, InitRest
  <1>4. QED BY <1>1, <1>2, <1>3, InitRest DEF ShutInv, Sole, Severed, Unconnected, Tethered

\* close() leaves nothing of a connection behind: no timer, and no socket of a
\* session without company that it did not miss while that was opening its
\* relay socket (connection.ts 146-149, 338-343).
THEOREM ClosedConnectionsAreCutOff == Spec => []ClosedIsCutOff
  <1>1. Init => AllInv /\ Wired /\ ShutInv
    BY AllInvInit, WiredInit, ShutInit
  <1>2. AllInv /\ [Next]_vars => AllInv'
    BY AllInvNext
  <1>3. AllInv /\ Wired /\ [Next]_vars => Wired'
    BY WiredNext
  <1>4. AllInv /\ Wired /\ ShutInv /\ [Next]_vars => ShutInv'
    BY ShutNext
  <1>5. Wired /\ ShutInv => ClosedIsCutOff
    <2>1. SUFFICES ASSUME Wired, ShutInv, NEW c \in Conns, ~conn[c].open
                   PROVE  /\ ~conn[c].timer
                          /\ \A s \in Sess : sess[s].conn = c /\ sess[s].alone
                                            /\ sess[s].cut # "escapes" =>
                               /\ sock[<<s, "id">>].ready \notin {"connecting", "open"}
                               /\ sess[s].gaveUp
                                  \/ sock[<<s, "relay">>].ready \notin {"connecting", "open"}
      BY DEF ClosedIsCutOff
    <2>2. ~conn[c].timer BY <2>1 DEF Wired, Latest
    <2>3. ASSUME NEW s \in Sess, sess[s].conn = c, sess[s].alone, sess[s].cut # "escapes"
          PROVE  ~Lives(sock, <<s, "id">>) /\ (sess[s].gaveUp \/ ~Lives(sock, <<s, "relay">>))
      <3>1. Held(s, c, <<s, "id">>, <<s, "relay">>)
        BY <2>1, <2>3 DEF ShutInv, Tethered
      <3>2. QED BY <2>1, <3>1 DEF Held
    <2>4. QED BY <2>2, <2>3 DEF Lives
  <1>6. QED BY <1>1, <1>2, <1>3, <1>4, <1>5, PTL DEF Spec

-----------------------------------------------------------------------------
(* The keys of the two ends                                                *)

\* The relay socket r of session s on connection c: no key until secure() has
\* settled, then the one of this session at both ends or none at either.
Keyed(s, c, r) ==
  /\ sess[s].pc \in Starting => ~sess[s].secure
  /\ sess[s].pc \in {"relayOpen", "verify", "signed"} => sock[r].key = 0 /\ sock[r].pkey = -1
  /\ sess[s].pc \in Past => /\ conn[c].ws = r /\ sock[r].ready \in {"open", "closed"}
                            /\ sock[r].ready = "closed" => sock[r].pkey = -1
  /\ sess[s].pc \in {"loop", "unzip"} =>
       IF sess[s].secure THEN sock[r].key = s /\ (sock[r].ready = "open" => sock[r].pkey = s)
                         ELSE sock[r].key = 0 /\ sock[r].pkey \in {0, -1}

HasKey(s) == \A c \in Conns :
  sess[s].pc \in Running /\ sess[s].alone /\ sess[s].cut = "no" /\ sess[s].conn = c
    => Keyed(s, c, <<s, "relay">>)

KeyInv == \A s \in Sess : HasKey(s)

\* The socket uses the same keys, or is lost.
Carries(w) == /\ sock'[w].key = sock[w].key
              /\ \/ sock'[w].pkey = sock[w].pkey /\ sock'[w].ready = sock[w].ready
                 \/ sock'[w].pkey = -1 /\ sock'[w].ready = "closed"

LEMMA SameCarries ==
  ASSUME NEW w
  PROVE  (Same(sock, sock', w) \/ sock'[w] = sock[w]) => Carries(w)
  BY DEF Same, Line, Carries

LEMMA KeyedOn ==
  ASSUME NEW t, NEW c, NEW r, Keyed(t, c, r),
         sess'[t].pc = sess[t].pc, sess'[t].secure = sess[t].secure,
         conn'[c].ws = conn[c].ws,
         sess[t].pc = "relayOpen" \/ sess[t].pc \in Past => Carries(r)
  PROVE  Keyed(t, c, r)'
  <1>1. sess[t].pc \in {"verify", "signed", "loop", "unzip"} => sess[t].pc \in Past
    BY DEF Past
  <1>2. sess[t].pc \in {"relayOpen", "verify", "signed"} => sock'[r].key = 0 /\ sock'[r].pkey = -1
    BY <1>1 DEF Keyed, Carries
  <1>3. sess[t].pc \in Past => /\ conn'[c].ws = r /\ sock'[r].ready \in {"open", "closed"}
                               /\ sock'[r].ready = "closed" => sock'[r].pkey = -1
    BY <1>1 DEF Keyed, Carries
  <1>4. sess[t].pc \in {"loop", "unzip"} =>
          IF sess[t].secure THEN sock'[r].key = t /\ (sock'[r].ready = "open" => sock'[r].pkey = t)
                            ELSE sock'[r].key = 0 /\ sock'[r].pkey \in {0, -1}
    BY <1>1 DEF Keyed, Carries
  <1>5. QED BY <1>2, <1>3, <1>4 DEF Keyed

\* A session other than the one of the step, whose socket keeps its keys.
LEMMA HasKeyOn ==
  ASSUME NEW t \in Sess, HasKey(t),
         sess'[t].pc = sess[t].pc, sess'[t].secure = sess[t].secure, sess'[t].conn = sess[t].conn,
         sess'[t].alone => sess[t].alone, sess'[t].cut = "no" => sess[t].cut = "no",
         \A c \in Conns, r \in Ws :
           /\ sess[t].pc \in Running /\ sess'[t].alone /\ sess'[t].cut = "no" /\ sess[t].conn = c
           /\ r = <<t, "relay">>
           => /\ conn'[c].ws = conn[c].ws
              /\ Reads(t, r) => Carries(r)
  PROVE  HasKey(t)'
  <1>1. PICK r \in Ws : r = <<t, "relay">>
    BY Halves
  <1>2. ASSUME NEW c \in Conns, sess[t].pc \in Running, sess'[t].alone, sess'[t].cut = "no",
               sess[t].conn = c
        PROVE  Keyed(t, c, r)'
    <2>1. Keyed(t, c, r) BY <1>1, <1>2 DEF HasKey
    <2>2. conn'[c].ws = conn[c].ws /\ (Reads(t, r) => Carries(r))
      BY <1>1, <1>2
    <2>3. sess[t].pc \in Past => conn[c].ws = r BY <2>1 DEF Keyed
    <2>4. sess[t].pc = "relayOpen" \/ sess[t].pc \in Past => Reads(t, r)
      BY <1>1, <1>2, <2>3, ReadsItsOwn
    <2>5. QED BY <2>1, <2>2, <2>4, KeyedOn
  <1>3. QED BY <1>1, <1>2 DEF HasKey

LEMMA KeyStill ==
  ASSUME KeyInv, Still
  PROVE  KeyInv'
  <1>1. sess' = sess /\ \A d \in Conns : conn'[d].ws = conn[d].ws
    BY DEF Still, ConnStays
  <1>2. ASSUME NEW t \in Sess PROVE HasKey(t)'
    <2>1. ASSUME NEW r \in Ws, r = <<t, "relay">> PROVE Carries(r)
      <3>1. Weathers(r) /\ r[2] # "id" BY <2>1 DEF Still
      <3>2. QED BY <3>1 DEF Weathers, Carries
    <2>2. HasKey(t) BY DEF KeyInv
    <2>3. QED BY <1>1, <2>1, <2>2, HasKeyOn
  <1>3. QED BY <1>2 DEF KeyInv

LEMMA KeyMoves ==
  ASSUME AllInv, Wired, KeyInv, NEW s \in Sess, Moves(s)
  PROVE  KeyInv'
  <1>1. PICK c \in Conns : c = sess[s].conn
    BY Pointers DEF AllInv, Moves, Past, Running, Starting
  <1>2. PICK v : v = conn[c].ws OBVIOUS
  <1>3. /\ sess[s].pc \in Past /\ sess'[s].pc \in {"signed", "loop", "unzip"}
        /\ \A t \in Sess \ {s} : sess'[t] = sess[t]
        /\ sess'[s].conn = c /\ sess'[s].alone = sess[s].alone /\ sess'[s].cut = sess[s].cut
        /\ sess'[s].pc = "signed" => sess'[s].secure = sess[s].secure
        /\ \A d \in Conns : conn'[d].ws = conn[d].ws
        /\ \A w \in Ws : w # v => Same(sock, sock', w)
    BY <1>1, <1>2 DEF Moves, SessStays, ConnStays
  <1>4. sess[s].pc \in Running
    BY <1>3 DEF Past, Running, Starting
  <1>5. ASSUME NEW t \in Sess, t # s PROVE HasKey(t)'
    <2>1. ASSUME sess[t].pc \in Running, sess[t].alone, NEW r \in Ws, r = <<t, "relay">>
          PROVE  Carries(r)
      <3>1. r # v
        <4>1. SUFFICES ASSUME r = v PROVE FALSE OBVIOUS
        <4>2. v # NoWs /\ v[1] = t BY <2>1, <4>1, NoSuchWs
        <4>3. sess[t].conn = c
          BY <1>2, <2>1, <4>2 DEF AllInv, LoginInv, Owned
        <4>4. QED BY <1>1, <1>4, <1>5, <2>1, <4>3 DEF Wired, Lonely
      <3>2. QED BY <1>3, <3>1, SameCarries
    <2>2. HasKey(t) /\ sess'[t] = sess[t] BY <1>3, <1>5 DEF KeyInv
    <2>3. QED BY <1>3, <2>1, <2>2, HasKeyOn
  <1>6. HasKey(s)'
    <2>1. PICK r \in Ws : r = <<s, "relay">> /\ r[2] = "relay"
      BY Halves
    <2>2. SUFFICES ASSUME sess[s].alone, sess[s].cut = "no"
                   PROVE  Keyed(s, c, r)'
      BY <1>3, <2>1 DEF HasKey
    <2>3. Keyed(s, c, r)
      BY <1>1, <1>4, <2>1, <2>2 DEF KeyInv, HasKey
    <2>4. v = r /\ sock[r].ready \in {"open", "closed"}
      BY <1>2, <1>3, <2>3 DEF Keyed
    <2>5. conn'[c].ws = r BY <1>2, <1>3, <2>4
    <2>6. Line(sock, sock', r)
      BY DEF Moves
    <2>7. \/ /\ Same(sock, sock', r) /\ sess'[s].secure = sess[s].secure
             /\ \/ sess[s].pc = "verify" /\ sess'[s].pc = "signed"
                \/ sess[s].pc \in {"loop", "unzip"} /\ sess'[s].pc \in {"loop", "unzip"}
          \/ /\ sess[s].pc \in {"verify", "signed"} /\ sess'[s].pc = "loop"
             /\ \E fits \in BOOLEAN : SendsKey(s, r, fits)
      BY <1>1, <1>2, <2>4 DEF Moves
    <2>8. CASE Same(sock, sock', r) /\ sess'[s].secure = sess[s].secure
                 /\ sess[s].pc = "verify" /\ sess'[s].pc = "signed"
      BY <2>3, <2>4, <2>5, <2>8 DEF Keyed, Same, Line, Past, Starting
    <2>9. CASE Same(sock, sock', r) /\ sess'[s].secure = sess[s].secure
                 /\ sess[s].pc \in {"loop", "unzip"} /\ sess'[s].pc \in {"loop", "unzip"}
      BY <2>3, <2>4, <2>5, <2>9 DEF Keyed, Same, Line, Past, Starting
    <2>10. ASSUME sess[s].pc \in {"verify", "signed"}, sess'[s].pc = "loop",
                  NEW fits \in BOOLEAN, SendsKey(s, r, fits)
           PROVE  Keyed(s, c, r)'
      <3>1. sock[r].key = 0 /\ sock[r].pkey = -1 /\ ~sess[s].secure
        BY <2>3, <2>10 DEF Keyed, Starting
      <3>2. sock'[r].ready = sock[r].ready
        BY <2>6 DEF Line
      <3>3. CASE fits
        <4>1. /\ sess'[s].secure /\ sock'[r].key = s
              /\ sock'[r].pkey = IF sock[r].ready = "open" THEN s ELSE -1
          BY <2>1, <2>10, <3>1, <3>3 DEF SendsKey
        <4>2. QED BY <2>4, <2>5, <2>10, <3>2, <4>1 DEF Keyed, Starting
      <3>4. CASE ~fits
        <4>1. /\ ~sess'[s].secure /\ sock'[r].key = 0
              /\ sock'[r].pkey = IF sock[r].ready = "open" THEN 0 ELSE -1
          BY <2>1, <2>10, <3>1, <3>4 DEF SendsKey
        <4>2. QED BY <2>4, <2>5, <2>10, <3>2, <4>1 DEF Keyed, Starting
      <3>5. QED BY <3>3, <3>4
    <2>11. QED BY <2>7, <2>8, <2>9, <2>10
  <1>7. QED BY <1>5, <1>6 DEF KeyInv

LEMMA KeyFinishes ==
  ASSUME AllInv, KeyInv, NEW s \in Sess, Finishes(s)
  PROVE  KeyInv'
  <1>1. ASSUME NEW t \in Sess, t # s PROVE HasKey(t)'
    <2>1. HasKey(t) /\ sess'[t] = sess[t] BY <1>1 DEF KeyInv, Finishes
    <2>2. ASSUME NEW c \in Conns, sess[t].pc \in Running, sess[t].conn = c
          PROVE  conn'[c].ws = conn[c].ws
      <3>1. RunningOf(c) # {s} BY <1>1, <2>2 DEF RunningOf
      <3>2. ConnStays(c) BY <3>1 DEF Finishes
      <3>3. QED BY <3>2 DEF ConnStays
    <2>3. ASSUME NEW r \in Ws, r = <<t, "relay">> PROVE Carries(r)
      <3>1. r[1] # s BY <1>1, <2>3
      <3>2. Same(sock, sock', r) BY <3>1 DEF Finishes
      <3>3. QED BY <3>2, SameCarries
    <2>4. QED BY <2>1, <2>2, <2>3, HasKeyOn
  <1>2. HasKey(s)'
    BY DEF Finishes, HasKey, Running, Starting
  <1>3. QED BY <1>1, <1>2 DEF KeyInv

LEMMA KeyOpens ==
  ASSUME KeyInv, NEW s \in Sess, Opens(s)
  PROVE  KeyInv'
  <1>1. \A d \in Conns : conn'[d].ws = conn[d].ws
    BY DEF Opens, ConnStays
  <1>2. ASSUME NEW t \in Sess, t # s PROVE HasKey(t)'
    <2>1. HasKey(t) /\ sess'[t] = sess[t] BY <1>2 DEF KeyInv, Opens
    <2>2. ASSUME NEW r \in Ws, r = <<t, "relay">> PROVE Carries(r)
      <3>1. r # <<s, "id">> BY <1>2, <2>2
      <3>2. QED BY <3>1, SameCarries DEF Opens
    <2>3. QED BY <1>1, <2>1, <2>2, HasKeyOn
  <1>3. /\ sess[s].pc = "idOpen" /\ sess'[s].pc = "idAnswer"
        /\ sess'[s].conn = sess[s].conn /\ sess'[s].alone = sess[s].alone
        /\ sess'[s].cut = sess[s].cut /\ sess'[s].secure = sess[s].secure
    BY DEF Opens, SessStays
  <1>4. HasKey(s)'
    BY <1>3 DEF KeyInv, HasKey, Keyed, Running, Starting, Past
  <1>5. QED BY <1>2, <1>4 DEF KeyInv

LEMMA KeyRefers ==
  ASSUME KeyInv, NEW s \in Sess, Refers(s)
  PROVE  KeyInv'
  <1>1. \A d \in Conns : conn'[d].ws = conn[d].ws
    BY DEF Refers, ConnStays
  <1>2. ASSUME NEW t \in Sess, t # s PROVE HasKey(t)'
    <2>1. HasKey(t) /\ sess'[t] = sess[t] BY <1>2 DEF KeyInv, Refers
    <2>2. ASSUME NEW r \in Ws, r = <<t, "relay">> PROVE Carries(r)
      <3>1. r[1] # s BY <1>2, <2>2
      <3>2. QED BY <3>1, SameCarries DEF Refers
    <2>3. QED BY <1>1, <2>1, <2>2, HasKeyOn
  <1>3. /\ sess[s].pc = "idAnswer" /\ sess'[s].pc = "relayOpen"
        /\ sess'[s].conn = sess[s].conn /\ sess'[s].alone = sess[s].alone
        /\ sess'[s].cut = sess[s].cut /\ sess'[s].secure = sess[s].secure
        /\ sock'[<<s, "relay">>].key = 0 /\ sock'[<<s, "relay">>].pkey = -1
    BY DEF Refers, SessStays
  <1>4. HasKey(s)'
    BY <1>3 DEF KeyInv, HasKey, Keyed, Running, Starting, Past
  <1>5. QED BY <1>2, <1>4 DEF KeyInv

LEMMA KeyRelays ==
  ASSUME AllInv, Wired, KeyInv, NEW s \in Sess, Relays(s)
  PROVE  KeyInv'
  <1>1. PICK r \in Ws : r = <<s, "relay">>
    BY Halves
  <1>2. PICK c \in Conns : c = sess[s].conn
    BY Pointers DEF AllInv, Relays, Running, Starting
  <1>3. /\ sess[s].pc = "relayOpen" /\ sess'[s].pc \in {"verify", "loop"}
        /\ \A t \in Sess \ {s} : sess'[t] = sess[t]
        /\ sess'[s].conn = c /\ sess'[s].alone = sess[s].alone
        /\ sess'[s].cut = sess[s].cut /\ sess'[s].secure = sess[s].secure
        /\ \A d \in Conns : conn'[d].ws = IF d = c THEN r ELSE conn[d].ws
        /\ \A w \in Ws : w[1] # s => sock'[w] = sock[w]
        /\ sock'[r].ready = "open"
        /\ sock'[r].key \in {0, sock[r].key}
        /\ sess'[s].pc = "verify" => sock'[r].pkey \in {-1, sock[r].pkey}
        /\ sess'[s].pc = "loop" => sock'[r].pkey \in {0, sock[r].pkey}
    BY <1>1, <1>2 DEF Relays, SessStays, ConnStays
  <1>4. sess[s].pc \in Running
    BY <1>3 DEF Running, Starting
  <1>5. ASSUME NEW t \in Sess, t # s PROVE HasKey(t)'
    <2>1. HasKey(t) /\ sess'[t] = sess[t] BY <1>3, <1>5 DEF KeyInv
    <2>2. ASSUME NEW w \in Ws, w = <<t, "relay">> PROVE Carries(w)
      <3>1. w[1] # s BY <1>5, <2>2
      <3>2. QED BY <1>3, <3>1, SameCarries
    <2>3. ASSUME NEW d \in Conns, sess[t].pc \in Running, sess[t].alone, sess[t].conn = d
          PROVE  conn'[d].ws = conn[d].ws
      <3>1. d # c BY <1>2, <1>4, <1>5, <2>3 DEF Wired, Lonely
      <3>2. QED BY <1>3, <3>1
    <2>4. QED BY <2>1, <2>2, <2>3, HasKeyOn
  <1>6. HasKey(s)'
    <2>1. SUFFICES ASSUME sess[s].alone, sess[s].cut = "no"
                   PROVE  Keyed(s, c, r)'
      BY <1>1, <1>3 DEF HasKey
    <2>2. Keyed(s, c, r)
      BY <1>1, <1>2, <1>4, <2>1 DEF KeyInv, HasKey
    <2>3. sock[r].key = 0 /\ sock[r].pkey = -1 /\ ~sess[s].secure
      BY <1>3, <2>2 DEF Keyed, Starting
    <2>4. conn'[c].ws = r /\ sock'[r].key = 0 /\ ~sess'[s].secure
      BY <1>3, <2>3
    <2>5. /\ sess'[s].pc = "verify" => sock'[r].pkey = -1
          /\ sess'[s].pc = "loop" => sock'[r].pkey \in {0, -1}
      BY <1>3, <2>3
    <2>6. QED BY <1>3, <2>4, <2>5 DEF Keyed
  <1>7. QED BY <1>5, <1>6 DEF KeyInv

LEMMA KeyShuts ==
  ASSUME AllInv, Wired, KeyInv, NEW c \in Conns, NEW e \in Sess \cup {0}, Shuts(c, e)
  PROVE  KeyInv'
  <1>1. ASSUME NEW t \in Sess, t = e PROVE HasKey(t)'
    <2>1. sess'[t].pc = "done" BY <1>1 DEF Shuts
    <2>2. QED BY <2>1 DEF HasKey, Running, Starting
  <1>2. ASSUME NEW t \in Sess, t # e PROVE HasKey(t)'
    <2>1. /\ sess'[t].pc = sess[t].pc /\ sess'[t].conn = sess[t].conn
          /\ sess'[t].alone = sess[t].alone /\ sess'[t].secure = sess[t].secure
          /\ CutBy(c, t) /\ HasKey(t)
      BY <1>2 DEF Shuts, KeyInv
    <2>2. /\ sess'[t].cut = "no" => sess[t].cut = "no"
          /\ sess'[t].cut = "no" /\ sess[t].pc \in Running => sess[t].conn # c
      <3>1. CASE t \in RunningOf(c) /\ sess[t].cut = "no"
        BY <2>1, <3>1 DEF CutBy
      <3>2. CASE ~(t \in RunningOf(c) /\ sess[t].cut = "no")
        <4>1. sess'[t].cut = sess[t].cut BY <2>1, <3>2 DEF CutBy
        <4>2. QED BY <3>2, <4>1 DEF RunningOf
      <3>3. QED BY <3>1, <3>2
    <2>3. ASSUME NEW d \in Conns, d # c PROVE conn'[d].ws = conn[d].ws
      BY <2>3 DEF Shuts, ConnStays
    <2>4. ASSUME NEW r \in Ws, sess[t].conn # c, Reads(t, r) PROVE Carries(r)
      <3>1. r # conn[c].ws BY <2>4, ReadsElsewhere
      <3>2. Same(sock, sock', r)
        BY <1>2, <2>4, <3>1 DEF Shuts, ShutSockets
      <3>3. QED BY <3>2, SameCarries
    <2>5. QED BY <2>1, <2>2, <2>3, <2>4, HasKeyOn
  <1>3. QED BY <1>1, <1>2 DEF KeyInv

LEMMA KeyBegins ==
  ASSUME AllInv, Wired, KeyInv, NEW s \in Sess, NEW c \in Conns, Begins(s, c)
  PROVE  KeyInv'
  <1>1. s = nsess + 1 /\ nsess \in Nat
    BY BoundsAssumption DEF Begins, AllInv, TInv, TypeOK
  <1>2. HasKey(s)'
    <2>1. sess'[s].pc = "idOpen" /\ ~sess'[s].secure BY DEF Begins
    <2>2. QED BY <2>1 DEF HasKey, Keyed, Past
  <1>3. ASSUME NEW t \in Sess, t # s PROVE HasKey(t)'
    <2>1. CASE sess'[t].pc = "done"
      BY <2>1 DEF HasKey, Running, Starting
    <2>2. CASE sess'[t].pc # "done"
      <3>1. /\ sess'[t].pc = sess[t].pc /\ sess'[t].conn = sess[t].conn
            /\ sess'[t].secure = sess[t].secure
            /\ sess'[t].alone => sess[t].alone /\ ~(sess[t].pc \in Running /\ sess[t].conn = c)
            /\ sess[t].pc \notin Running \/ sess[t].conn # c => sess'[t].cut = sess[t].cut
        BY <1>3, <2>2, BeginsOthers
      <3>2. sess'[t].cut = "no" => sess[t].cut = "no"
        BY <1>3, <2>2 DEF Begins
      <3>3. ASSUME NEW d \in Conns, d # c PROVE conn'[d].ws = conn[d].ws
        BY <3>3 DEF Begins, ConnStays
      <3>4. ASSUME NEW r \in Ws, sess[t].conn # c, Reads(t, r) PROVE Carries(r)
        <4>1. r # conn[c].ws BY <3>4, ReadsElsewhere
        <4>2. r # <<s, "id">>
          <5>1. r[1] \in 1..nsess BY <3>4, ReadsMade
          <5>2. QED BY <1>1, <5>1
        <4>3. t \in Sess \ {0} BY DEF Sess
        <4>4. Same(sock, sock', r)
          BY <3>4, <4>1, <4>2, <4>3 DEF Begins, ShutSockets
        <4>5. QED BY <4>4, SameCarries
      <3>5. HasKey(t) BY DEF KeyInv
      <3>6. QED BY <3>1, <3>2, <3>3, <3>4, <3>5, HasKeyOn
    <2>3. QED BY <2>1, <2>2
  <1>4. QED BY <1>2, <1>3 DEF KeyInv

LEMMA KeyNext ==
  ASSUME AllInv, Wired, KeyInv, [Next]_vars
  PROVE  KeyInv'
  <1>1. AnyKind BY NextKind
  <1>2. QED BY <1>1, KeyStill, KeyMoves, KeyFinishes, KeyOpens, KeyRefers,
               KeyRelays, KeyShuts, KeyBegins DEF AnyKind

\* What connection_ready tells the user is true: the two ends of a secured
\* session use its own secret key, those of any other use none, although two
\* sessions can share the `_ws` that secure() sends on (connection.ts 155-156,
\* 183-234).
THEOREM SecurityIsMutual == Spec => []SecureIsMutual
  <1>1. Init => AllInv /\ Wired
    BY AllInvInit, WiredInit
  <1>2. Init => KeyInv
    <2>1. "none" \notin Running BY DEF Running, Starting
    <2>2. QED BY <2>1, InitRest DEF KeyInv, HasKey
  <1>3. AllInv /\ [Next]_vars => AllInv'
    BY AllInvNext
  <1>4. AllInv /\ Wired /\ [Next]_vars => Wired'
    BY WiredNext
  <1>5. AllInv /\ Wired /\ KeyInv /\ [Next]_vars => KeyInv'
    BY KeyNext
  <1>6. AllInv /\ KeyInv => SecureIsMutual
    <2>1. SUFFICES ASSUME AllInv, KeyInv, NEW s \in Sess, sess[s].pc \in {"loop", "unzip"},
                          sess[s].alone, sess[s].cut = "no", NEW w, w = <<s, "relay">>
                   PROVE  IF sess[s].secure
                          THEN /\ sock[w].key = s
                               /\ sock[w].pkey = s
                                  \/ (sock[w].pkey = -1 /\ sock[w].ready = "closed")
                          ELSE sock[w].key = 0 /\ sock[w].pkey \in {0, -1}
      BY DEF SecureIsMutual
    <2>2. sess[s].pc \in Running /\ sess[s].pc \in Past
      BY <2>1 DEF Running, Starting, Past
    <2>3. sess[s].conn \in Conns
      BY <2>1, <2>2, Pointers DEF AllInv
    <2>4. Keyed(s, sess[s].conn, w)
      BY <2>1, <2>2, <2>3 DEF KeyInv, HasKey
    <2>5. QED BY <2>1, <2>2, <2>4 DEF Keyed
  <1>7. QED BY <1>1, <1>2, <1>3, <1>4, <1>5, <1>6, PTL DEF Spec
=============================================================================
