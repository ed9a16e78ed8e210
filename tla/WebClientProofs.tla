--------------------------- MODULE WebClientProofs ---------------------------
(* Theorems about WebClient, for any number of connections and sessions and *)
(* whatever the servers and the peer send.                                  *)
EXTENDS WebClient, TLAPS, SequenceTheorems

-----------------------------------------------------------------------------
(* Types                                                                   *)

SockFs == [Ws -> SockType]
ConnFs == [Conns -> ConnType]
SessFs == [Sess -> SessType]
AnyWs  == Ws \cup {NoWs}

\* A session at work has a connection, only a session at work polls, and no
\* session is touched before it starts.
AtWork == \A s \in Sess : /\ sess[s].pc \in Running => sess[s].conn \in Conns
                          /\ sess[s].waits # NoWs => sess[s].pc \in Running
                          /\ sess[s].pc # "none" => s <= nsess

TInv == TypeOK /\ AtWork

LEMMA Blanks == NoConn \in ConnType /\ NoSess \in SessType /\ NoSock \in SockType
  <1>1. NoConn \in ConnType
    BY DEF NoConn, ConnType
  <1>2. NoSess \in SessType
    BY DEF NoSess, SessType, Pcs, Ends
  <1>3. <<>> \in Seq(IdAnswers \cup PeerMessages)
    OBVIOUS
  <1>4. NoSock \in SockType
    BY <1>3 DEF NoSock, SockType
  <1>5. QED BY <1>1, <1>2, <1>4

\* One socket gets the value x.
LEMMA OneSocket ==
  ASSUME NEW k \in SockFs, NEW w \in Ws, NEW x \in SockType
  PROVE  [k EXCEPT ![w] = x] \in SockFs
  BY DEF SockFs

\* The calls of Websock and what the other ends make of them.
LEMMA DownType ==
  ASSUME NEW k \in SockFs, NEW w \in AnyWs, NEW r \in {"none", "connecting", "open", "closing", "closed"},
         NEW st \in {"", "open", "close"}
  PROVE  Down(k, w, r, st) \in SockFs
  <1>1. CASE w \in Ws
    <2>1. k[w] \in SockType BY <1>1 DEF SockFs
    <2>2. [k[w] EXCEPT !.ready = r, !.status = st, !.pkey = -1, !.stage = "none"] \in SockType
      BY <2>1 DEF SockType
    <2>3. Down(k, w, r, st) = [k EXCEPT ![w] = [k[w] EXCEPT !.ready = r, !.status = st, !.pkey = -1, !.stage = "none"]]
      BY <1>1 DEF Down, SockFs
    <2>4. QED BY <2>2, <2>3 DEF SockFs
  <1>2. CASE w \notin Ws
    BY <1>2 DEF Down, SockFs
  <1>3. QED BY <1>1, <1>2

LEMMA CloseWsType ==
  ASSUME NEW k \in SockFs, NEW w \in AnyWs
  PROVE  CloseWs(k, w) \in SockFs
  <1>1. CASE w = NoWs BY <1>1 DEF CloseWs
  <1>2. CASE w # NoWs
    <2>1. k[w] \in SockType BY <1>2 DEF SockFs, AnyWs
    <2>2. (IF k[w].ready \in {"connecting", "open"} THEN "closing" ELSE k[w].ready)
             \in {"none", "connecting", "open", "closing", "closed"}
      BY <2>1 DEF SockType
    <2>3. QED BY <1>2, <2>2, DownType DEF CloseWs
  <1>3. QED BY <1>1, <1>2

LEMMA SendPublicKeyType ==
  ASSUME NEW k \in SockFs, NEW w \in AnyWs, NEW x \in Sess \cup {0}
  PROVE  SendPublicKey(k, w, x) \in SockFs
  <1>1. CASE SendPublicKey(k, w, x) = k
    BY <1>1
  <1>2. CASE SendPublicKey(k, w, x) = [k EXCEPT ![w].pkey = x]
    <2>1. CASE w \in Ws
      <3>1. k[w] \in SockType BY <2>1 DEF SockFs
      <3>2. [k[w] EXCEPT !.pkey = x] \in SockType
        BY <3>1 DEF SockType
      <3>3. [k EXCEPT ![w].pkey = x] = [k EXCEPT ![w] = [k[w] EXCEPT !.pkey = x]]
        BY <2>1 DEF SockFs
      <3>4. QED BY <1>2, <3>2, <3>3 DEF SockFs
    <2>2. CASE w \notin Ws
      BY <1>2, <2>2 DEF SockFs
    <2>3. QED BY <2>1, <2>2
  <1>3. QED BY <1>1, <1>2 DEF SendPublicKey

LEMMA SecuredType ==
  ASSUME NEW k \in SockFs, NEW w \in AnyWs, NEW s \in Sess
  PROVE  Secured(k, w, s) \in SockFs
  <1>1. PICK p \in SockFs : p = SendPublicKey(k, w, s) BY SendPublicKeyType
  <1>2. [p EXCEPT ![w].key = s] \in SockFs
    <2>1. CASE w \in Ws
      <3>1. PICK x : x = [p[w] EXCEPT !.key = s] OBVIOUS
      <3>2. p[w] \in SockType BY <2>1 DEF SockFs
      <3>3. x \in SockType BY ONLY <3>1, <3>2, s \in Sess DEF SockType
      <3>4. [p EXCEPT ![w].key = s] = [p EXCEPT ![w] = x] BY <3>1
      <3>5. QED BY <2>1, <3>3, <3>4, OneSocket
    <2>2. CASE w \notin Ws
      BY <2>2 DEF SockFs
    <2>3. QED BY <2>1, <2>2
  <1>3. QED BY <1>1, <1>2 DEF Secured

LEMMA SendLoginType ==
  ASSUME NEW k \in SockFs, NEW w \in AnyWs
  PROVE  SendLogin(k, w) \in SockFs
  <1>1. CASE SendLogin(k, w) = k
    BY <1>1
  <1>2. CASE SendLogin(k, w) = [k EXCEPT ![w].stage = "asked"]
    <2>1. CASE w \in Ws
      <3>1. PICK x : x = [k[w] EXCEPT !.stage = "asked"] OBVIOUS
      <3>2. k[w] \in SockType BY <2>1 DEF SockFs
      <3>3. x \in SockType BY ONLY <3>1, <3>2 DEF SockType
      <3>4. [k EXCEPT ![w].stage = "asked"] = [k EXCEPT ![w] = x] BY <2>1, <3>1 DEF SockFs
      <3>5. [k EXCEPT ![w] = x] \in SockFs BY <2>1, <3>3, OneSocket
      <3>6. SendLogin(k, w) = [k EXCEPT ![w] = x] BY <1>2, <3>4
      <3>7. QED BY <3>5, <3>6
    <2>2. CASE w \notin Ws
      BY <1>2, <2>2 DEF SockFs
    <2>3. QED BY <2>1, <2>2
  <1>3. QED BY <1>1, <1>2 DEF SendLogin

LEMMA GarbageType ==
  ASSUME NEW k \in SockType
  PROVE  Garbage(k) \in SockType
  <1>1. PICK r : r = IF k.ready \in {"none", "connecting", "open"} THEN k.ready ELSE "closed"
    OBVIOUS
  <1>2. r \in {"none", "connecting", "open", "closing", "closed"}
    BY <1>1
  <1>3. PICK b \in SockType : b = NoSock
    BY Blanks
  <1>4. [b EXCEPT !.ready = r] \in SockType
    BY ONLY <1>2, b \in SockType DEF SockType
  <1>5. QED BY <1>1, <1>3, <1>4 DEF Garbage

LEMMA LeftType ==
  ASSUME NEW k \in SockFs, NEW s \in Sess
  PROVE  Left(s, k) \in SockFs /\ Swept(k) \in SockFs
  BY GarbageType DEF Left, Swept, SockFs

\* A password is kept or forgotten.
LEMMA PwType ==
  ASSUME NEW cn \in ConnFs, NEW c \in Conns, NEW has \in BOOLEAN
  PROVE  [cn EXCEPT ![c].pw = has] \in ConnFs
  <1>1. PICK r : r = [cn[c] EXCEPT !.pw = has] OBVIOUS
  <1>2. cn[c] \in ConnType BY DEF ConnFs
  <1>3. r \in ConnType BY ONLY <1>1, <1>2, has \in BOOLEAN DEF ConnType
  <1>4. [cn EXCEPT ![c].pw = has] = [cn EXCEPT ![c] = r] BY <1>1
  <1>5. QED BY <1>3, <1>4 DEF ConnFs

LEMMA PoppedType ==
  ASSUME TInv, NEW s \in Sess, Inbox(s) # <<>>
  PROVE  Popped(s) \in SockFs
  <1>1. sock \in SockFs /\ sess[s].waits \in AnyWs
    BY DEF TInv, TypeOK, SockFs, SessType, AnyWs
  <1>2. CASE sess[s].waits \in Ws
    <2>1. sock[sess[s].waits] \in SockType BY <1>1, <1>2 DEF SockFs
    <2>2. Tail(sock[sess[s].waits].buf) \in Seq(IdAnswers \cup PeerMessages)
      BY <2>1, HeadTailProperties DEF SockType, Inbox
    <2>3. [sock[sess[s].waits] EXCEPT !.buf = Tail(@)] \in SockType
      BY <2>1, <2>2 DEF SockType
    <2>4. QED BY <1>1, <1>2, <2>3 DEF Popped, SockFs
  <1>3. CASE sess[s].waits \notin Ws
    BY <1>1, <1>3 DEF Popped, SockFs
  <1>4. QED BY <1>2, <1>3

LEMMA ClosedTypes ==
  ASSUME TInv, NEW c \in Conns
  PROVE  /\ ClosedConn(c) \in ConnFs
         /\ ClosedSock(c) \in SockFs
         /\ ClosedSess(c) \in SessFs
  <1>1. sock \in SockFs /\ conn \in ConnFs /\ sess \in SessFs /\ conn[c].ws \in AnyWs
    BY DEF TInv, TypeOK, SockFs, ConnFs, SessFs, ConnType, AnyWs
  <1>2. ClosedConn(c) \in ConnFs
    BY <1>1 DEF ClosedConn, ConnFs, ConnType
  <1>3. ClosedSock(c) \in SockFs
    BY <1>1, CloseWsType DEF ClosedSock
  <1>4. ClosedSess(c) \in SessFs
    BY <1>1 DEF ClosedSess, SessFs, SessType
  <1>5. QED BY <1>2, <1>3, <1>4

\* closed: the fields ClosedSess leaves alone.
LEMMA ClosedSessFields ==
  ASSUME TInv, NEW c \in Conns, NEW t \in Sess
  PROVE  /\ ClosedSess(c)[t].pc = sess[t].pc /\ ClosedSess(c)[t].conn = sess[t].conn
         /\ ClosedSess(c)[t].waits = sess[t].waits
         /\ ClosedSess(c)[t].cut = "no" => sess[t].cut = "no" /\ t \notin RunningOf(c)
  BY DEF ClosedSess, TInv, TypeOK, SessType

LEMMA EndedType ==
  ASSUME NEW r \in SessType, NEW end \in Ends
  PROVE  /\ Ended(r, end) \in SessType
         /\ Ended(r, end).pc = "done" /\ Ended(r, end).waits = NoWs
         /\ Ended(r, end).conn = r.conn /\ Ended(r, end).cut = r.cut
  BY DEF Ended, SessType, Pcs

LEMMA OverType ==
  ASSUME TInv, NEW s \in Sess, sess[s].pc \in Running, NEW end \in Ends,
         NEW cn \in ConnFs, NEW k \in SockFs, Over(s, end, cn, k), nsess' = nsess
  PROVE  /\ sess' \in SessFs /\ sock' \in SockFs /\ conn' \in ConnFs /\ AtWork'
         /\ sess' = [sess EXCEPT ![s] = Ended(sess[s], end)]
  <1>1. sess \in SessFs /\ sess[s] \in SessType
    BY DEF TInv, TypeOK, SessFs
  <1>2. sess' = [sess EXCEPT ![s] = Ended(sess[s], end)]
    BY DEF Over
  <1>3. PICK e \in SessType : e = Ended(sess[s], end) /\ e.pc = "done" /\ e.waits = NoWs
    BY <1>1, EndedType
  <1>4. \A t \in Sess : sess'[t] = IF t = s THEN e ELSE sess[t]
    BY <1>1, <1>2, <1>3 DEF SessFs
  <1>5. sess' \in SessFs
    BY <1>1, <1>2, <1>3 DEF SessFs
  <1>6. AtWork'
    BY <1>3, <1>4 DEF AtWork, Running, Starting, TInv, Over
  <1>7. conn' \in ConnFs
    BY Blanks DEF Over, ConnFs
  <1>8. sock' \in SockFs
    BY LeftType DEF Over
  <1>9. QED BY <1>2, <1>5, <1>6, <1>7, <1>8

\* What StartFrom makes of the sessions: the new one is untouched before, and
\* of the others the fields named here stay, unless all of a session is
\* forgotten that is over.
LEMMA StartSess ==
  ASSUME TInv, NEW c \in Conns, NEW cn, NEW ss \in SessFs, NEW k,
         \A t \in Sess : ss[t].pc = sess[t].pc /\ ss[t].conn = sess[t].conn
                         /\ ss[t].waits = sess[t].waits,
         StartFrom(c, cn, ss, k)
  PROVE  \E s \in Sess :
           /\ s = nsess + 1 /\ nsess' = s /\ sess' \in SessFs
           /\ sess'[s].pc = "idOpen" /\ sess'[s].conn = c
           /\ \A t \in Sess \ {s} :
                \/ sess[t].pc = "done" /\ sess'[t].pc = "done" /\ sess'[t].waits = NoWs
                \/ /\ sess'[t].pc = sess[t].pc /\ sess'[t].conn = sess[t].conn
                   /\ sess'[t].waits = sess[t].waits /\ sess'[t].cut = ss[t].cut
  <1>1. PICK s \in Sess : s = nsess + 1 /\ nsess' = s
    BY DEF StartFrom
  <1>2. sess[s].pc = "none"
    BY <1>1, BoundsAssumption DEF TInv, TypeOK, AtWork, Sess
  <1>3. s \notin RunningOf(c) /\ ss[s].pc = "none"
    BY <1>2 DEF RunningOf, Running, Starting
  <1>4. PICK n : n = [NoSess EXCEPT !.pc = "idOpen", !.conn = c, !.alone = RunningOf(c) = {}]
    OBVIOUS
  <1>5. PICK m : m = [NoSess EXCEPT !.pc = "done"]
    OBVIOUS
  <1>6. PICK f : f = [t \in Sess |-> [ss[t] EXCEPT !.alone = FALSE]]
    OBVIOUS
  <1>7. PICK g : g = [t \in Sess |-> [ss[t] EXCEPT !.end = "none"]]
    OBVIOUS
  <1>8. \A t \in Sess : sess'[t] =
                CASE t = s -> n
                  [] t \in RunningOf(c) -> f[t]
                  [] ss[t].pc = "done" /\ ~StillOpen(t) -> m
                  [] OTHER -> g[t]
    BY <1>1, <1>4, <1>5, <1>6, <1>7 DEF StartFrom
  <1>9. sess'[s] = n
    <2>1. sess'[s] = CASE s = s -> n
                       [] s \in RunningOf(c) -> f[s]
                       [] ss[s].pc = "done" /\ ~StillOpen(s) -> m
                       [] OTHER -> g[s]
      BY <1>8
    <2>2. QED BY ONLY <1>3, <2>1
  <1>10. n \in SessType /\ n.pc = "idOpen" /\ n.conn = c
    BY <1>4, Blanks DEF NoSess, SessType, Pcs
  <1>11. m \in SessType /\ m.pc = "done" /\ m.waits = NoWs
    BY <1>5, Blanks DEF NoSess, SessType, Pcs
  <1>12. ASSUME NEW t \in Sess, NEW a, a = f[t] \/ a = g[t]
         PROVE  /\ a \in SessType
                /\ a.pc = sess[t].pc /\ a.conn = sess[t].conn
                /\ a.waits = sess[t].waits /\ a.cut = ss[t].cut
    <2>1. PICK b : b = ss[t] OBVIOUS
    <2>2. b \in SessType BY <2>1 DEF SessFs
    <2>3. a = [b EXCEPT !.alone = FALSE] \/ a = [b EXCEPT !.end = "none"]
      BY <1>6, <1>7, <1>12, <2>1
    <2>4. a \in SessType /\ a.pc = b.pc /\ a.conn = b.conn /\ a.waits = b.waits /\ a.cut = b.cut
      BY ONLY <2>2, <2>3 DEF SessType, Ends
    <2>5. QED BY <2>1, <2>4
  <1>13. ASSUME NEW t \in Sess \ {s}
         PROVE  /\ sess'[t] \in SessType
                /\ \/ sess[t].pc = "done" /\ sess'[t].pc = "done" /\ sess'[t].waits = NoWs
                   \/ /\ sess'[t].pc = sess[t].pc /\ sess'[t].conn = sess[t].conn
                      /\ sess'[t].waits = sess[t].waits /\ sess'[t].cut = ss[t].cut
    <2>1. \/ sess'[t] = f[t] \/ sess'[t] = g[t]
          \/ sess'[t] = m /\ ss[t].pc = "done"
      BY <1>8
    <2>2. CASE sess'[t] = f[t] \/ sess'[t] = g[t]
      BY <1>12, <2>2
    <2>3. CASE sess'[t] = m /\ ss[t].pc = "done"
      BY <1>11, <2>3
    <2>4. QED BY <2>1, <2>2, <2>3
  <1>14. sess' \in SessFs
    <2>1. \A t \in Sess : sess'[t] \in SessType
      BY <1>9, <1>10, <1>13
    <2>2. QED BY <1>1, <2>1 DEF StartFrom, SessFs
  <1>15. QED BY <1>1, <1>9, <1>10, <1>13, <1>14

LEMMA StartType ==
  ASSUME TInv, NEW c \in Conns, NEW cn \in ConnFs, NEW ss \in SessFs, NEW k \in SockFs,
         \A t \in Sess : ss[t].pc = sess[t].pc /\ ss[t].conn = sess[t].conn
                         /\ ss[t].waits = sess[t].waits,
         StartFrom(c, cn, ss, k)
  PROVE  /\ nsess' \in 0..MaxSess
         /\ conn' \in ConnFs /\ sess' \in SessFs /\ sock' \in SockFs /\ AtWork'
  <1>1. PICK s \in Sess :
           /\ s = nsess + 1 /\ nsess' = s /\ sess' \in SessFs
           /\ sess'[s].pc = "idOpen" /\ sess'[s].conn = c
           /\ \A t \in Sess \ {s} :
                \/ sess[t].pc = "done" /\ sess'[t].pc = "done" /\ sess'[t].waits = NoWs
                \/ /\ sess'[t].pc = sess[t].pc /\ sess'[t].conn = sess[t].conn
                   /\ sess'[t].waits = sess[t].waits /\ sess'[t].cut = ss[t].cut
    BY StartSess
  <1>2. nsess' \in 0..MaxSess
    BY <1>1, BoundsAssumption DEF Sess
  <1>3. nsess \in Nat
    BY BoundsAssumption DEF TInv, TypeOK
  <1>4. <<s, "id">> \in Ws
    BY DEF Ws
  <1>5. conn' \in ConnFs
    <2>1. conn' = [cn EXCEPT ![c].open = TRUE, ![c].timer = TRUE, ![c].ws = <<s, "id">>]
      BY <1>1 DEF StartFrom
    <2>2. PICK w \in AnyWs : w = <<s, "id">>
      BY <1>4 DEF AnyWs
    <2>3. PICK r : r = [cn[c] EXCEPT !.open = TRUE, !.timer = TRUE, !.ws = w]
      OBVIOUS
    <2>4. cn[c] \in ConnType BY DEF ConnFs
    <2>5. r \in ConnType BY ONLY <2>3, <2>4, w \in AnyWs DEF ConnType, AnyWs
    <2>6. conn' = [cn EXCEPT ![c] = r]
      BY <2>1, <2>2, <2>3 DEF ConnFs
    <2>7. QED BY <2>5, <2>6 DEF ConnFs
  <1>6. sess' \in SessFs
    BY <1>1
  <1>7. AtWork'
    <2>1. ASSUME NEW t \in Sess
          PROVE  /\ sess'[t].pc \in Running => sess'[t].conn \in Conns
                 /\ sess'[t].waits # NoWs => sess'[t].pc \in Running
                 /\ sess'[t].pc # "none" => t <= nsess'
      <3>1. /\ t \in Nat /\ (sess[t].pc # "none" => t <= nsess)
            /\ sess[t].pc \in Running => sess[t].conn \in Conns
            /\ sess[t].waits # NoWs => sess[t].pc \in Running
        BY DEF Sess, TInv, AtWork
      <3>2. CASE t = s
        BY <1>1, <3>1, <3>2 DEF Running, Starting
      <3>3. CASE t # s
        <4>1. CASE sess[t].pc = "done" /\ sess'[t].pc = "done" /\ sess'[t].waits = NoWs
          BY <1>1, <1>3, <3>1, <4>1 DEF Running, Starting
        <4>2. CASE /\ sess'[t].pc = sess[t].pc /\ sess'[t].conn = sess[t].conn
                   /\ sess'[t].waits = sess[t].waits
          BY <1>1, <1>3, <3>1, <4>2
        <4>3. QED BY <1>1, <3>3, <4>1, <4>2
      <3>4. QED BY <3>2, <3>3
    <2>2. QED BY <2>1 DEF AtWork
  <1>8. PICK blank : blank = [NoSock EXCEPT !.ready = "connecting"]
    OBVIOUS
  <1>9. blank \in SockType
    BY <1>8, Blanks DEF SockType
  <1>10. sock' \in SockFs
    <2>1. sock' = [w \in Ws |-> CASE w = <<s, "id">> -> blank [] OTHER -> Swept(k)[w]]
      BY <1>1, <1>8 DEF StartFrom
    <2>2. QED BY <1>9, <2>1, LeftType DEF SockFs
  <1>11. QED BY <1>2, <1>5, <1>6, <1>7, <1>10

-----------------------------------------------------------------------------
(* What every step of a session, a socket or a server has in common        *)

Settled == UNCHANGED <<page, curConn, nconn, nsess>>

\* No session starts, and none that runs is taken over or joined up again.
Calm == /\ Settled
        /\ \A t \in Sess :
             /\ sess'[t].pc \in Running => sess[t].pc \in Running /\ sess'[t].conn = sess[t].conn
             /\ sess'[t].cut = "no" => sess[t].cut = "no"

\* The timer is left alone, or session s raises a dialog, and arms the timer
\* only by that dialog being its last.
Dialog(s) == \/ UNCHANGED <<armed, strayDialog>>
             \/ /\ sess[s].pc \in Running
                /\ strayDialog' = (strayDialog \/ sess[s].cut # "no")
                /\ armed' => armed \/ sess'[s].pc = "done"

Flags == asking' \in BOOLEAN /\ armed' \in BOOLEAN /\ strayDialog' \in BOOLEAN

Good(s) == TInv' /\ Calm /\ Dialog(s)

LEMMA TypesKept ==
  ASSUME TInv, Settled, Flags, staleLogin' \in BOOLEAN,
         conn' \in ConnFs, sess' \in SessFs, sock' \in SockFs
  PROVE  TypeOK'
  BY DEF TInv, TypeOK, Settled, Flags, ConnFs, SessFs, SockFs

LEMMA Nothing ==
  ASSUME TInv, NEW s \in Sess, ShowsNothing
  PROVE  Flags /\ Dialog(s)
  BY DEF ShowsNothing, Flags, Dialog, TInv, TypeOK

LEMMA Something ==
  ASSUME TInv, NEW s \in Sess, sess[s].pc \in Running, NEW kind, NEW retry \in BOOLEAN,
         Shows(s, kind, retry), retry => kind = "password" \/ sess'[s].pc = "done"
  PROVE  Flags /\ Dialog(s)
  <1>1. armed \in BOOLEAN /\ strayDialog \in BOOLEAN
    BY DEF TInv, TypeOK
  <1>2. Flags
    BY <1>1 DEF Shows, Flags
  <1>3. strayDialog' = (strayDialog \/ sess[s].cut # "no")
    BY DEF Shows
  <1>4. armed' => armed \/ sess'[s].pc = "done"
    BY <1>1 DEF Shows
  <1>5. QED BY <1>2, <1>3, <1>4 DEF Dialog

\* The pointers of a session that runs.
LEMMA Pointers ==
  ASSUME TInv, NEW s \in Sess
  PROVE  /\ sess[s] \in SessType /\ sess[s].waits \in AnyWs
         /\ conn \in ConnFs /\ sess \in SessFs /\ sock \in SockFs
         /\ <<s, "id">> \in Ws /\ <<s, "relay">> \in Ws
         /\ sess[s].waits # NoWs => sess[s].pc \in Running
         /\ sess[s].pc \in Running =>
              /\ sess[s].conn \in Conns /\ conn[sess[s].conn] \in ConnType
              /\ conn[sess[s].conn].ws \in AnyWs
  <1>1. /\ sess[s] \in SessType /\ conn \in ConnFs /\ sess \in SessFs /\ sock \in SockFs
    BY DEF TInv, TypeOK, ConnFs, SessFs, SockFs
  <1>2. sess[s].waits \in AnyWs
    BY <1>1 DEF SessType, AnyWs
  <1>3. <<s, "id">> \in Ws /\ <<s, "relay">> \in Ws
    BY DEF Ws
  <1>4. /\ sess[s].waits # NoWs => sess[s].pc \in Running
        /\ sess[s].pc \in Running => sess[s].conn \in Conns
    BY DEF TInv, AtWork
  <1>5. ASSUME sess[s].pc \in Running
        PROVE  conn[sess[s].conn] \in ConnType /\ conn[sess[s].conn].ws \in AnyWs
    <2>1. conn[sess[s].conn] \in ConnType BY <1>1, <1>4, <1>5 DEF ConnFs
    <2>2. QED BY <2>1 DEF ConnType, AnyWs
  <1>6. QED BY <1>1, <1>2, <1>3, <1>4, <1>5

\* Session s moves on: r is what becomes of it.
LEMMA MovesOn ==
  ASSUME TInv, NEW s \in Sess, sess[s].pc \in Running, NEW r \in SessType, Settled,
         r.conn = sess[s].conn, r.cut = sess[s].cut, r.waits # NoWs => r.pc \in Running,
         sess' = [sess EXCEPT ![s] = r]
  PROVE  sess' \in SessFs /\ AtWork' /\ Calm /\ sess'[s] = r
  <1>1. sess \in SessFs BY DEF TInv, TypeOK, SessFs
  <1>2. sess' \in SessFs BY <1>1 DEF SessFs
  <1>3. \A t \in Sess : sess'[t] = IF t = s THEN r ELSE sess[t]
    BY <1>1 DEF SessFs
  <1>4. AtWork'
    BY <1>3 DEF TInv, AtWork, Settled, Running, Starting
  <1>5. Calm
    BY <1>3 DEF Calm
  <1>6. QED BY <1>2, <1>3, <1>4, <1>5

\* No session moves.
LEMMA Stays ==
  ASSUME TInv, Settled, sess' = sess
  PROVE  sess' \in SessFs /\ AtWork' /\ Calm
  BY DEF TInv, TypeOK, SessFs, AtWork, Calm, Settled

LEMMA Ending ==
  ASSUME TInv, NEW s \in Sess, sess[s].pc \in Running, Settled, staleLogin' \in BOOLEAN,
         NEW end \in Ends, NEW cn \in ConnFs, NEW k \in SockFs, Over(s, end, cn, k)
  PROVE  /\ Flags => TypeOK'
         /\ AtWork' /\ Calm /\ sess'[s].pc = "done"
  <1>1. PICK e \in SessType : e = Ended(sess[s], end)
    BY Pointers, EndedType
  <1>2. e.pc = "done" /\ e.waits = NoWs /\ e.conn = sess[s].conn /\ e.cut = sess[s].cut
    BY <1>1, Pointers, EndedType
  <1>3. sess' = [sess EXCEPT ![s] = e]
    BY <1>1 DEF Over
  <1>4. sess' \in SessFs /\ AtWork' /\ Calm /\ sess'[s] = e
    BY <1>2, <1>3, MovesOn
  <1>5. conn' \in ConnFs
    BY Blanks DEF Over, ConnFs
  <1>6. sock' \in SockFs
    BY LeftType DEF Over
  <1>7. QED BY <1>2, <1>4, <1>5, <1>6, TypesKept

\* The session ends without a word.
LEMMA EndsQuietly ==
  ASSUME TInv, NEW s \in Sess, sess[s].pc \in Running, Settled, staleLogin' \in BOOLEAN,
         NEW end \in Ends, NEW cn \in ConnFs, NEW k \in SockFs, Over(s, end, cn, k),
         ShowsNothing
  PROVE  Good(s)
  BY Ending, Nothing DEF Good, TInv

\* The session ends with a dialog.
LEMMA EndsLoudly ==
  ASSUME TInv, NEW s \in Sess, sess[s].pc \in Running, Settled, staleLogin' \in BOOLEAN,
         NEW cn \in ConnFs, NEW k \in SockFs, NEW retry \in BOOLEAN, Throws(s, cn, k, retry)
  PROVE  Good(s)
  <1>1. "shown" \in Ends /\ Over(s, "shown", cn, k) /\ Shows(s, "message", retry)
    BY DEF Throws, Ends
  <1>2. /\ Flags => TypeOK'
        /\ AtWork' /\ Calm /\ sess'[s].pc = "done"
    BY <1>1, Ending
  <1>3. Flags /\ Dialog(s)
    BY <1>1, <1>2, Something
  <1>4. QED BY <1>2, <1>3 DEF Good, TInv

\* The session goes on.
LEMMA GoesOn ==
  ASSUME TInv, NEW s \in Sess, sess[s].pc \in Running, Settled, staleLogin' \in BOOLEAN,
         NEW r \in SessType, r.conn = sess[s].conn, r.cut = sess[s].cut,
         r.waits # NoWs => r.pc \in Running, sess' = [sess EXCEPT ![s] = r],
         conn' \in ConnFs, sock' \in SockFs, Flags /\ Dialog(s)
  PROVE  Good(s)
  BY MovesOn, TypesKept DEF Good, TInv

\* Only a socket changes.
LEMMA OnlySockets ==
  ASSUME TInv, NEW s \in Sess, Settled, sess' = sess, conn' = conn, sock' \in SockFs,
         UNCHANGED <<asking, armed, strayDialog, staleLogin>>
  PROVE  Good(s)
  <1>1. conn' \in ConnFs /\ staleLogin' \in BOOLEAN
    BY DEF TInv, TypeOK, ConnFs
  <1>2. Flags /\ Dialog(s)
    BY Nothing DEF ShowsNothing
  <1>3. QED BY <1>1, <1>2, Stays, TypesKept DEF Good, TInv

-----------------------------------------------------------------------------
(* The sockets and the servers                                             *)

LEMMA IdSocketOpensGood ==
  ASSUME TInv, NEW s \in Sess, IdSocketOpens(s)
  PROVE  Good(s)
  <1>1. PICK w \in Ws : w = <<s, "id">>
    BY Pointers
  <1>2. sock[w] \in SockType /\ sock \in SockFs
    BY Pointers DEF SockFs
  <1>3. PICK x : x = [sock[w] EXCEPT !.ready = "open", !.status = "open",
                          !.stage = IF sess[s].pc = "idOpen" THEN "paired" ELSE @]
    OBVIOUS
  <1>4. x \in SockType
    BY ONLY <1>2, <1>3 DEF SockType
  <1>5. sock' = [sock EXCEPT ![w] = x]
    BY <1>1, <1>3 DEF IdSocketOpens
  <1>6. sock' \in SockFs
    BY <1>2, <1>4, <1>5, OneSocket
  <1>7. /\ Settled /\ conn' = conn
        /\ UNCHANGED <<asking, armed, strayDialog, staleLogin>>
    BY DEF IdSocketOpens, Settled
  <1>8. CASE sess[s].pc = "idOpen"
    <2>1. sess[s] \in SessType /\ conn' \in ConnFs
      BY <1>7, Pointers
    <2>2. PICK r : r = [sess[s] EXCEPT !.pc = "idAnswer", !.waits = w]
      OBVIOUS
    <2>3. /\ r \in SessType /\ r.conn = sess[s].conn /\ r.cut = sess[s].cut
          /\ r.pc = "idAnswer"
      BY <2>1, <2>2 DEF SessType, Pcs
    <2>4. sess' = [sess EXCEPT ![s] = r]
      BY <1>1, <1>8, <2>2 DEF IdSocketOpens
    <2>5. staleLogin' \in BOOLEAN /\ Flags /\ Dialog(s)
      BY <1>7, Nothing DEF ShowsNothing, TInv, TypeOK
    <2>6. sess[s].pc \in Running /\ r.pc \in Running
      BY <1>8, <2>3 DEF Running, Starting
    <2>7. QED BY <1>6, <1>7, <2>1, <2>3, <2>4, <2>5, <2>6, GoesOn
  <1>9. CASE sess[s].pc # "idOpen"
    <2>1. sess' = sess
      BY <1>9 DEF IdSocketOpens
    <2>2. QED BY <1>6, <1>7, <2>1, OnlySockets
  <1>10. QED BY <1>8, <1>9

LEMMA RelaySocketOpensGood ==
  ASSUME TInv, NEW s \in Sess, RelaySocketOpens(s)
  PROVE  Good(s)
  <1>1. PICK w \in Ws : w = <<s, "relay">>
    BY Pointers
  <1>2. PICK k \in SockFs : k = Left(s, sock)
    BY Pointers, LeftType
  <1>3. PICK x : x = [k[w] EXCEPT !.ready = "open", !.status = "open", !.stage = "paired"]
    OBVIOUS
  <1>4. k[w] \in SockType
    BY DEF SockFs
  <1>5. x \in SockType
    BY ONLY <1>3, <1>4 DEF SockType
  <1>6. PICK opened \in SockFs : opened = [k EXCEPT ![w] = x]
    BY <1>5, OneSocket
  <1>7. opened = [Left(s, sock) EXCEPT ![w].ready = "open", ![w].status = "open",
                                       ![w].stage = "paired"]
    BY <1>2, <1>3, <1>6
  <1>8. sess[s].pc = "relayOpen" /\ sess[s].pc \in Running
    BY DEF RelaySocketOpens, Running, Starting
  <1>9. sess[s] \in SessType /\ sess[s].conn \in Conns /\ conn[sess[s].conn] \in ConnType
    BY <1>8, Pointers
  <1>10. conn' \in ConnFs
    <2>1. PICK v \in AnyWs : v = w BY DEF AnyWs
    <2>2. PICK q : q = [conn[sess[s].conn] EXCEPT !.ws = v] OBVIOUS
    <2>3. q \in ConnType BY <1>9, <2>2 DEF ConnType, AnyWs
    <2>4. conn' = [conn EXCEPT ![sess[s].conn] = q]
      BY <1>1, <2>1, <2>2 DEF RelaySocketOpens
    <2>5. QED BY <2>3, <2>4, Pointers DEF ConnFs
  <1>11. Settled /\ Flags /\ Dialog(s) /\ staleLogin' \in BOOLEAN
    BY Nothing DEF RelaySocketOpens, Settled, ShowsNothing, TInv, TypeOK
  <1>12. CASE sess[s].pk
    <2>1. sess' = [sess EXCEPT ![s].pc = "verify"] /\ sock' = opened
      BY <1>1, <1>7, <1>12 DEF RelaySocketOpens
    <2>2. PICK r : r = [sess[s] EXCEPT !.pc = "verify"]
      OBVIOUS
    <2>3. /\ r \in SessType /\ r.conn = sess[s].conn /\ r.cut = sess[s].cut
          /\ r.pc = "verify"
      BY <1>9, <2>2 DEF SessType, Pcs
    <2>4. sess' = [sess EXCEPT ![s] = r] /\ r.pc \in Running
      BY <2>1, <2>2, <2>3 DEF Running, Starting
    <2>5. QED BY <1>8, <1>10, <1>11, <2>1, <2>3, <2>4, GoesOn
  <1>13. CASE ~sess[s].pk
    <2>1. /\ sess' = [sess EXCEPT ![s].pc = "loop", ![s].waits = w]
          /\ sock' = SendPublicKey(opened, w, 0)
      BY <1>1, <1>7, <1>13 DEF RelaySocketOpens
    <2>2. PICK r : r = [sess[s] EXCEPT !.pc = "loop", !.waits = w]
      OBVIOUS
    <2>3. /\ r \in SessType /\ r.conn = sess[s].conn /\ r.cut = sess[s].cut
          /\ r.pc = "loop"
      BY <1>9, <2>2 DEF SessType, Pcs
    <2>4. sess' = [sess EXCEPT ![s] = r] /\ r.pc \in Running
      BY <2>1, <2>2, <2>3 DEF Running, Starting
    <2>5. sock' \in SockFs
      BY <2>1, SendPublicKeyType DEF AnyWs
    <2>6. QED BY <1>8, <1>10, <1>11, <2>3, <2>4, <2>5, GoesOn
  <1>14. QED BY <1>12, <1>13

LEMMA SocketFailsGood ==
  ASSUME TInv, NEW s \in Sess, NEW kind \in {"id", "relay"}, SocketFails(s, kind)
  PROVE  Good(s)
  <1>1. PICK w \in Ws : w = <<s, kind>>
    BY DEF Ws
  <1>2. PICK closed \in SockFs : closed = Down(sock, w, "closed", "close")
    BY Pointers, DownType DEF AnyWs
  <1>3. Settled /\ staleLogin' = staleLogin /\ staleLogin' \in BOOLEAN
    BY DEF SocketFails, Settled, TInv, TypeOK
  <1>4. CASE sess[s].pc = (IF kind = "id" THEN "idOpen" ELSE "relayOpen")
    <2>1. Throws(s, conn, closed, FALSE)
      BY <1>1, <1>2, <1>4 DEF SocketFails
    <2>2. sess[s].pc \in Running /\ conn \in ConnFs
      BY <1>4, Pointers DEF Running, Starting
    <2>3. QED BY <1>3, <2>1, <2>2, EndsLoudly
  <1>5. CASE sess[s].pc # (IF kind = "id" THEN "idOpen" ELSE "relayOpen")
    <2>1. ShowsNothing /\ sock' = closed /\ UNCHANGED <<conn, sess>>
      BY <1>1, <1>2, <1>5 DEF SocketFails
    <2>2. QED BY <1>3, <2>1, OnlySockets DEF ShowsNothing
  <1>6. QED BY <1>4, <1>5

LEMMA SocketClosesGood ==
  ASSUME TInv, NEW s \in Sess, NEW kind \in {"id", "relay"}, SocketCloses(s, kind)
  PROVE  Good(s)
  <1>1. PICK w \in Ws : w = <<s, kind>>
    BY DEF Ws
  <1>2. sock' = Down(sock, w, "closed", "close")
    BY <1>1 DEF SocketCloses
  <1>3. sock' \in SockFs
    BY <1>2, Pointers, DownType DEF AnyWs
  <1>4. Settled /\ UNCHANGED <<sess, conn, asking, armed, strayDialog, staleLogin>>
    BY DEF SocketCloses, Settled
  <1>5. QED BY <1>3, <1>4, OnlySockets

Texts == Seq(IdAnswers \cup PeerMessages)

LEMMA AnswerArrivesGood ==
  ASSUME TInv, NEW s \in Sess, NEW m \in IdAnswers, AnswerArrives(s, m)
  PROVE  Good(s)
  <1>1. PICK w \in Ws : w = <<s, "id">>
    BY Pointers
  <1>2. sock[w] \in SockType /\ sock \in SockFs
    BY Pointers DEF SockFs
  <1>3. PICK b \in Texts : b = Append(sock[w].buf, m)
    BY <1>2, AppendProperties DEF SockType, Texts
  <1>4. PICK x : x = [sock[w] EXCEPT !.buf = b, !.stage = "in"]
    OBVIOUS
  <1>5. x \in SockType
    BY ONLY <1>2, <1>4, b \in Texts DEF SockType, Texts
  <1>6. sock' = [sock EXCEPT ![w] = x]
    BY <1>1, <1>2, <1>3, <1>4 DEF AnswerArrives
  <1>7. sock' \in SockFs
    BY <1>2, <1>5, <1>6, OneSocket
  <1>8. Settled /\ UNCHANGED <<sess, conn, asking, armed, strayDialog, staleLogin>>
    BY DEF AnswerArrives, Settled
  <1>9. QED BY <1>7, <1>8, OnlySockets

Stages == {"none", "paired", "greeted", "challenged", "asked", "in"}

LEMMA PeerMessageArrivesGood ==
  ASSUME TInv, NEW s \in Sess, NEW m \in PeerMessages, PeerMessageArrives(s, m)
  PROVE  Good(s)
  <1>1. PICK w \in Ws : w = <<s, "relay">>
    BY Pointers
  <1>2. sock[w] \in SockType /\ sock \in SockFs
    BY Pointers DEF SockFs
  <1>3. PICK to \in PeerStep(sock[w].stage, m, sock[w].pkey # -1) :
          sock' = [sock EXCEPT ![w].stage = to,
                               ![w].buf = IF InStep(sock, w) THEN Append(@, m) ELSE @]
    BY <1>1 DEF PeerMessageArrives
  <1>4. sock[w].stage \in Stages /\ sock[w].buf \in Texts
    BY <1>2 DEF SockType, Stages, Texts
  <1>5. to \in Stages
    BY <1>3, <1>4 DEF PeerStep, PeerMessages, Stages
  <1>6. PICK b \in Texts : b = IF InStep(sock, w) THEN Append(sock[w].buf, m) ELSE sock[w].buf
    BY <1>4, AppendProperties DEF Texts
  <1>7. PICK x : x = [sock[w] EXCEPT !.stage = to, !.buf = b]
    OBVIOUS
  <1>8. x \in SockType
    BY ONLY <1>2, <1>5, <1>7, b \in Texts DEF SockType, Texts, Stages
  <1>9. sock' = [sock EXCEPT ![w] = x]
    BY <1>2, <1>3, <1>6, <1>7
  <1>10. sock' \in SockFs
    BY <1>2, <1>8, <1>9, OneSocket
  <1>11. Settled /\ UNCHANGED <<sess, conn, asking, armed, strayDialog, staleLogin>>
    BY DEF PeerMessageArrives, Settled
  <1>12. QED BY <1>10, <1>11, OnlySockets

-----------------------------------------------------------------------------
(* The sessions                                                            *)

LEMMA OpenTimesOutGood ==
  ASSUME TInv, NEW s \in Sess, OpenTimesOut(s)
  PROVE  Good(s)
  <1>1. sess[s].pc \in Running /\ sess[s] \in SessType
    BY Pointers DEF OpenTimesOut, Running, Starting
  <1>2. PICK e \in SessType : e = Ended(sess[s], "shown")
    BY <1>1, EndedType DEF Ends
  <1>3. e.pc = "done" /\ e.waits = NoWs /\ e.conn = sess[s].conn /\ e.cut = sess[s].cut
    BY <1>1, <1>2, EndedType DEF Ends
  <1>4. PICK late \in BOOLEAN : late = (sess[s].pc = "relayOpen")
    OBVIOUS
  <1>5. PICK r : r = [e EXCEPT !.gaveUp = late]
    OBVIOUS
  <1>6. /\ r \in SessType /\ r.pc = e.pc /\ r.waits = e.waits
        /\ r.conn = e.conn /\ r.cut = e.cut
    BY ONLY <1>5, e \in SessType, late \in BOOLEAN DEF SessType
  <1>7. sess' = [sess EXCEPT ![s] = r]
    BY <1>2, <1>4, <1>5 DEF OpenTimesOut
  <1>8. Settled /\ staleLogin' \in BOOLEAN /\ conn' \in ConnFs
    BY Pointers DEF OpenTimesOut, Settled, TInv, TypeOK
  <1>9. sock' \in SockFs
    BY Pointers, LeftType DEF OpenTimesOut
  <1>10. sess'[s] = r
    BY <1>7, Pointers DEF SessFs
  <1>11. Flags /\ Dialog(s)
    BY <1>1, <1>3, <1>6, <1>10, Something DEF OpenTimesOut
  <1>12. QED BY <1>1, <1>3, <1>6, <1>7, <1>8, <1>9, <1>11, GoesOn

LEMMA NextRejectsGood ==
  ASSUME TInv, NEW s \in Sess, NextRejects(s)
  PROVE  Good(s)
  <1>1. sess[s].pc \in Running /\ conn \in ConnFs /\ sock \in SockFs
    BY Pointers DEF NextRejects, Polls
  <1>2. Settled /\ staleLogin' \in BOOLEAN
    BY DEF NextRejects, Settled, TInv, TypeOK
  <1>3. CASE Over(s, "hidden", conn, sock) /\ ShowsNothing
    BY <1>1, <1>2, <1>3, EndsQuietly DEF Ends
  <1>4. CASE Throws(s, conn, sock, TRUE)
    BY <1>1, <1>2, <1>4, EndsLoudly
  <1>5. QED BY <1>3, <1>4 DEF NextRejects

LEMMA AnswerReadGood ==
  ASSUME TInv, NEW s \in Sess, AnswerRead(s)
  PROVE  Good(s)
  <1>1. /\ sess[s].pc = "idAnswer" /\ sess[s].pc \in Running /\ sess[s] \in SessType
        /\ conn \in ConnFs /\ sock \in SockFs /\ sess[s].waits \in AnyWs
        /\ Inbox(s) # <<>>
    BY Pointers DEF AnswerRead, Running, Starting
  <1>2. PICK w \in AnyWs : w = sess[s].waits
    BY <1>1
  <1>3. PICK k \in SockFs : k = CloseWs(Popped(s), w)
    BY <1>1, PoppedType, CloseWsType
  <1>4. PICK m : m = Head(Inbox(s))
    OBVIOUS
  <1>5. Settled /\ staleLogin' \in BOOLEAN
    BY DEF AnswerRead, Settled, TInv, TypeOK
  <1>6. CASE m \in {"relay_pk", "relay"}
    <2>1. /\ sess' = [sess EXCEPT ![s].pc = "relayOpen", ![s].waits = NoWs,
                                    ![s].pk = (m = "relay_pk")]
          /\ sock' = [k EXCEPT ![<<s, "relay">>] = [NoSock EXCEPT !.ready = "connecting"]]
          /\ ShowsNothing /\ UNCHANGED conn
      BY <1>2, <1>3, <1>4, <1>6 DEF AnswerRead
    <2>2. PICK pk \in BOOLEAN : pk = (m = "relay_pk")
      OBVIOUS
    <2>3. PICK r : r = [sess[s] EXCEPT !.pc = "relayOpen", !.waits = NoWs, !.pk = pk]
      OBVIOUS
    <2>4. /\ r \in SessType /\ r.conn = sess[s].conn /\ r.cut = sess[s].cut
          /\ r.waits = NoWs
      BY <1>1, <2>3 DEF SessType, Pcs
    <2>5. sess' = [sess EXCEPT ![s] = r]
      BY <2>1, <2>2, <2>3
    <2>6. [NoSock EXCEPT !.ready = "connecting"] \in SockType
      BY Blanks DEF SockType
    <2>7. sock' \in SockFs
      BY <2>1, <2>6, OneSocket, Pointers
    <2>8. Flags /\ Dialog(s)
      BY <2>1, Nothing
    <2>9. conn' \in ConnFs
      BY <1>1, <2>1
    <2>10. QED BY <1>1, <1>5, <2>4, <2>5, <2>7, <2>8, <2>9, GoesOn
  <1>7. CASE m = "refused"
    <2>1. Throws(s, conn, k, FALSE)
      BY <1>2, <1>3, <1>4, <1>7 DEF AnswerRead
    <2>2. QED BY <1>1, <1>5, <2>1, EndsLoudly
  <1>8. CASE m \notin {"relay_pk", "relay", "refused"}
    <2>1. Over(s, "silent", conn, k) /\ ShowsNothing
      BY <1>2, <1>3, <1>4, <1>8 DEF AnswerRead
    <2>2. QED BY <1>1, <1>5, <2>1, EndsQuietly DEF Ends
  <1>9. QED BY <1>6, <1>7, <1>8

\* Session s enters the message loop, after secure() or for another round.
LEMMA LoopsOn ==
  ASSUME TInv, NEW s \in Sess, sess[s].pc \in Running, Settled, staleLogin' \in BOOLEAN,
         conn' \in ConnFs, sock' \in SockFs, Flags /\ Dialog(s), NEW w \in AnyWs,
         \/ sess' = [sess EXCEPT ![s].pc = "loop", ![s].waits = w]
         \/ sess' = [sess EXCEPT ![s].pc = "loop", ![s].pk = FALSE, ![s].waits = w]
         \/ \E fits \in BOOLEAN :
              sess' = [sess EXCEPT ![s].pc = "loop", ![s].pk = FALSE, ![s].waits = w,
                                   ![s].secure = fits]
         \/ sess' = [sess EXCEPT ![s].pc = "signed", ![s].waits = w]
  PROVE  Good(s)
  <1>1. sess[s] \in SessType /\ sess \in SessFs
    BY Pointers
  <1>2. PICK v \in SessType : v = sess[s]
    BY <1>1
  <1>3. \E r : /\ sess' = [sess EXCEPT ![s] = r]
               /\ r \in SessType /\ r.conn = v.conn /\ r.cut = v.cut
               /\ r.pc \in {"loop", "signed"}
    <2>1. CASE sess' = [sess EXCEPT ![s].pc = "loop", ![s].waits = w]
      <3>1. PICK r : r = [v EXCEPT !.pc = "loop", !.waits = w]
        OBVIOUS
      <3>2. /\ r \in SessType /\ r.conn = v.conn /\ r.cut = v.cut
            /\ r.pc \in {"loop", "signed"}
        BY ONLY <3>1, v \in SessType, w \in AnyWs DEF SessType, Pcs, AnyWs
      <3>3. sess' = [sess EXCEPT ![s] = r]
        BY <1>2, <2>1, <3>1
      <3>4. QED BY <3>2, <3>3
    <2>2. CASE sess' = [sess EXCEPT ![s].pc = "loop", ![s].pk = FALSE, ![s].waits = w]
      <3>1. PICK r : r = [v EXCEPT !.pc = "loop", !.pk = FALSE, !.waits = w]
        OBVIOUS
      <3>2. /\ r \in SessType /\ r.conn = v.conn /\ r.cut = v.cut
            /\ r.pc \in {"loop", "signed"}
        BY ONLY <3>1, v \in SessType, w \in AnyWs DEF SessType, Pcs, AnyWs
      <3>3. sess' = [sess EXCEPT ![s] = r]
        BY <1>2, <2>2, <3>1
      <3>4. QED BY <3>2, <3>3
    <2>3. ASSUME NEW fits \in BOOLEAN,
                 sess' = [sess EXCEPT ![s].pc = "loop", ![s].pk = FALSE, ![s].waits = w,
                                      ![s].secure = fits]
          PROVE  \E r : /\ sess' = [sess EXCEPT ![s] = r]
                        /\ r \in SessType /\ r.conn = v.conn /\ r.cut = v.cut
                        /\ r.pc \in {"loop", "signed"}
      <3>1. PICK r : r = [v EXCEPT !.pc = "loop", !.pk = FALSE, !.waits = w, !.secure = fits]
        OBVIOUS
      <3>2. /\ r \in SessType /\ r.conn = v.conn /\ r.cut = v.cut
            /\ r.pc \in {"loop", "signed"}
        BY ONLY <3>1, v \in SessType, w \in AnyWs, fits \in BOOLEAN
           DEF SessType, Pcs, AnyWs
      <3>3. sess' = [sess EXCEPT ![s] = r]
        BY <1>2, <2>3, <3>1
      <3>4. QED BY <3>2, <3>3
    <2>4. CASE sess' = [sess EXCEPT ![s].pc = "signed", ![s].waits = w]
      <3>1. PICK r : r = [v EXCEPT !.pc = "signed", !.waits = w]
        OBVIOUS
      <3>2. /\ r \in SessType /\ r.conn = v.conn /\ r.cut = v.cut
            /\ r.pc \in {"loop", "signed"}
        BY ONLY <3>1, v \in SessType, w \in AnyWs DEF SessType, Pcs, AnyWs
      <3>3. sess' = [sess EXCEPT ![s] = r]
        BY <1>2, <2>4, <3>1
      <3>4. QED BY <3>2, <3>3
    <2>5. QED BY <2>1, <2>2, <2>3, <2>4
  <1>4. PICK r : /\ sess' = [sess EXCEPT ![s] = r]
                 /\ r \in SessType /\ r.conn = v.conn /\ r.cut = v.cut
                 /\ r.pc \in {"loop", "signed"}
    BY <1>3
  <1>5. r.pc \in Running
    BY <1>4 DEF Running, Starting
  <1>6. QED BY <1>2, <1>4, <1>5, GoesOn

LEMMA KeyVerifiedGood ==
  ASSUME TInv, NEW s \in Sess, KeyVerified(s)
  PROVE  Good(s)
  <1>1. /\ sess[s].pc \in Running /\ conn \in ConnFs /\ sock \in SockFs
        /\ Settled /\ staleLogin' \in BOOLEAN
    BY Pointers DEF KeyVerified, Running, Starting, Settled, TInv, TypeOK
  <1>2. PICK w \in AnyWs : w = conn[sess[s].conn].ws
    BY <1>1, Pointers
  <1>3. CASE /\ sess' = [sess EXCEPT ![s].pc = "signed", ![s].waits = w]
             /\ ShowsNothing /\ UNCHANGED <<conn, sock>>
    <2>1. Flags /\ Dialog(s)
      BY <1>3, Nothing
    <2>2. conn' \in ConnFs /\ sock' \in SockFs
      BY <1>1, <1>3
    <2>3. QED BY <1>1, <1>3, <2>1, <2>2, LoopsOn
  <1>4. CASE \E retry \in BOOLEAN : Throws(s, conn, sock, retry)
    BY <1>1, <1>4, EndsLoudly
  <1>5. CASE /\ ShowsNothing /\ UNCHANGED conn
             /\ sess' = [sess EXCEPT ![s].pc = "loop", ![s].pk = FALSE, ![s].waits = w]
             /\ sock' = SendPublicKey(sock, w, 0)
    <2>1. Flags /\ Dialog(s)
      BY <1>5, Nothing
    <2>2. conn' \in ConnFs /\ sock' \in SockFs
      BY <1>1, <1>5, SendPublicKeyType
    <2>3. QED BY <1>1, <1>5, <2>1, <2>2, LoopsOn
  <1>6. QED BY <1>2, <1>3, <1>4, <1>5 DEF KeyVerified

LEMMA SignedIdReadGood ==
  ASSUME TInv, NEW s \in Sess, SignedIdRead(s)
  PROVE  Good(s)
  <1>1. /\ sess[s].pc \in Running /\ conn \in ConnFs
        /\ Settled /\ staleLogin' \in BOOLEAN
    BY Pointers DEF SignedIdRead, Running, Starting, Settled, TInv, TypeOK
  <1>2. PICK w \in AnyWs : w = conn[sess[s].conn].ws
    BY <1>1, Pointers
  <1>3. PICK k \in SockFs : k = Popped(s)
    BY PoppedType DEF SignedIdRead
  <1>4. CASE \E retry \in BOOLEAN : Throws(s, conn, k, retry)
    BY <1>1, <1>4, EndsLoudly
  <1>5. CASE /\ ShowsNothing /\ UNCHANGED conn
             /\ \E fits \in BOOLEAN :
                  /\ sess' = [sess EXCEPT ![s].pc = "loop", ![s].pk = FALSE, ![s].waits = w,
                                          ![s].secure = fits]
                  /\ sock' = IF fits THEN Secured(k, w, s) ELSE SendPublicKey(k, w, 0)
    <2>1. Flags /\ Dialog(s)
      BY <1>5, Nothing
    <2>2. conn' \in ConnFs
      BY <1>1, <1>5
    <2>3. Secured(k, w, s) \in SockFs /\ SendPublicKey(k, w, 0) \in SockFs
      BY SecuredType, SendPublicKeyType
    <2>4. sock' \in SockFs
      BY <1>5, <2>3
    <2>5. QED BY <1>1, <1>5, <2>1, <2>2, <2>4, LoopsOn
  <1>6. QED BY <1>2, <1>3, <1>4, <1>5 DEF SignedIdRead

LEMMA HashReadGood ==
  ASSUME TInv, NEW s \in Sess, sess[s].pc = "loop", Inbox(s) # <<>>, HashRead(s)
  PROVE  Good(s)
  <1>1. /\ sess[s].pc \in Running /\ conn \in ConnFs /\ Settled
        /\ sess[s].conn \in Conns /\ sess[s].waits \in AnyWs
    BY Pointers DEF HashRead, Running, Starting, Settled
  <1>2. PICK c \in Conns : c = sess[s].conn
    BY <1>1
  <1>3. PICK w \in AnyWs : w = conn[c].ws
    BY <1>1, <1>2, Pointers
  <1>4. PICK k \in SockFs : k = Popped(s)
    BY PoppedType
  <1>5. PICK has \in {TRUE, conn[c].pw} :
          /\ IF SendThrows(w)
             THEN \E retry \in BOOLEAN : Throws(s, Challenged(c, sess[s].waits, has), k, retry)
             ELSE /\ sess' = Loops(s) /\ sock' = SendLogin(k, w)
                  /\ conn' = Challenged(c, sess[s].waits, has)
                  /\ IF has THEN ShowsNothing ELSE Shows(s, "password", FALSE)
          /\ staleLogin' = (staleLogin \/ (has /\ GoesStale(w, sess[s].waits)))
    BY <1>2, <1>3, <1>4 DEF HashRead
  <1>6. conn[c] \in ConnType
    BY <1>1 DEF ConnFs
  <1>7. has \in BOOLEAN
    BY <1>6 DEF ConnType
  <1>8. PICK cn \in ConnFs : cn = Challenged(c, sess[s].waits, has)
    <2>1. PICK h \in AnyWs : h = sess[s].waits
      BY <1>1
    <2>2. PICK q : q = [conn[c] EXCEPT !.hash = h, !.pw = has]
      OBVIOUS
    <2>3. q \in ConnType
      BY ONLY <1>6, <1>7, <2>2, h \in AnyWs DEF ConnType, AnyWs
    <2>4. Challenged(c, sess[s].waits, has) = [conn EXCEPT ![c] = q]
      BY <1>1, <2>1, <2>2 DEF Challenged
    <2>5. [conn EXCEPT ![c] = q] \in ConnFs
      BY <1>1, <2>3 DEF ConnFs
    <2>6. QED BY <2>4, <2>5
  <1>9. staleLogin' \in BOOLEAN
    BY <1>5, <1>7 DEF TInv, TypeOK, GoesStale
  <1>10. CASE SendThrows(w)
    BY <1>1, <1>5, <1>8, <1>9, <1>10, EndsLoudly
  <1>11. CASE ~SendThrows(w)
    <2>1. sess' = [sess EXCEPT ![s].pc = "loop", ![s].waits = w]
      BY <1>2, <1>3, <1>5, <1>11 DEF Loops
    <2>2. conn' \in ConnFs /\ sock' \in SockFs
      BY <1>5, <1>8, <1>11, SendLoginType
    <2>3. Flags /\ Dialog(s)
      BY <1>1, <1>5, <1>11, Nothing, Something
    <2>4. QED BY <1>1, <1>9, <2>1, <2>2, <2>3, LoopsOn
  <1>12. QED BY <1>10, <1>11

LEMMA LoginAnswerReadGood ==
  ASSUME TInv, NEW s \in Sess, sess[s].pc = "loop", Inbox(s) # <<>>, NEW m, LoginAnswerRead(s, m)
  PROVE  Good(s)
  <1>1. /\ sess[s].pc \in Running /\ conn \in ConnFs /\ Settled /\ staleLogin' \in BOOLEAN
        /\ sess[s].conn \in Conns
    BY Pointers DEF LoginAnswerRead, Running, Starting, Settled, TInv, TypeOK
  <1>2. PICK w \in AnyWs : w = conn[sess[s].conn].ws
    BY <1>1, Pointers
  <1>3. sess' = [sess EXCEPT ![s].pc = "loop", ![s].waits = w]
    BY <1>2 DEF LoginAnswerRead, Loops
  <1>4. sock' \in SockFs
    BY PoppedType DEF LoginAnswerRead
  <1>5. conn' \in ConnFs
    BY <1>1, PwType DEF LoginAnswerRead
  <1>6. \E kind : Shows(s, kind, FALSE)
    BY DEF LoginAnswerRead
  <1>7. Flags /\ Dialog(s)
    BY <1>1, <1>6, Something
  <1>8. QED BY <1>1, <1>3, <1>4, <1>5, <1>7, LoopsOn

LEMMA FrameReadGood ==
  ASSUME TInv, NEW s \in Sess, sess[s].pc = "loop", Inbox(s) # <<>>, FrameRead(s)
  PROVE  Good(s)
  <1>1. /\ sess[s].pc \in Running /\ conn \in ConnFs /\ Settled /\ staleLogin' \in BOOLEAN
    BY Pointers DEF FrameRead, Running, Starting, Settled, TInv, TypeOK
  <1>2. PICK w \in AnyWs : w = conn[sess[s].conn].ws
    BY <1>1, Pointers
  <1>3. Popped(s) \in SockFs
    BY PoppedType
  <1>4. CASE sess' = Loops(s) /\ sock' = Popped(s) /\ ShowsNothing /\ UNCHANGED conn
    <2>1. sess' = [sess EXCEPT ![s].pc = "loop", ![s].waits = w]
      BY <1>2, <1>4 DEF Loops
    <2>2. Flags /\ Dialog(s)
      BY <1>4, Nothing
    <2>3. conn' \in ConnFs /\ sock' \in SockFs
      BY <1>1, <1>3, <1>4
    <2>4. QED BY <1>1, <2>1, <2>2, <2>3, LoopsOn
  <1>5. CASE Throws(s, conn, Popped(s), TRUE)
    BY <1>1, <1>3, <1>5, EndsLoudly
  <1>6. QED BY <1>4, <1>5 DEF FrameRead

LEMMA ReplyThrowsGood ==
  ASSUME TInv, NEW s \in Sess, sess[s].pc = "loop", Inbox(s) # <<>>, ReplyThrows(s)
  PROVE  Good(s)
  <1>1. /\ sess[s].pc \in Running /\ conn \in ConnFs /\ Settled /\ staleLogin' \in BOOLEAN
    BY Pointers DEF ReplyThrows, Running, Starting, Settled, TInv, TypeOK
  <1>2. Popped(s) \in SockFs
    BY PoppedType
  <1>3. PICK retry \in BOOLEAN : Throws(s, conn, Popped(s), retry)
    BY DEF ReplyThrows
  <1>4. QED BY <1>1, <1>2, <1>3, EndsLoudly

LEMMA PermissionReadGood ==
  ASSUME TInv, NEW s \in Sess, sess[s].pc = "loop", Inbox(s) # <<>>, PermissionRead(s)
  PROVE  Good(s)
  <1>1. /\ sess[s].pc \in Running /\ conn \in ConnFs /\ Settled /\ staleLogin' \in BOOLEAN
    BY Pointers DEF PermissionRead, Running, Starting, Settled, TInv, TypeOK
  <1>2. Popped(s) \in SockFs
    BY PoppedType
  <1>3. "silent" \in Ends /\ Over(s, "silent", conn, Popped(s)) /\ ShowsNothing
    BY DEF PermissionRead, Ends
  <1>4. QED BY <1>1, <1>2, <1>3, EndsQuietly

LEMMA CloseReasonReadGood ==
  ASSUME TInv, NEW s \in Sess, sess[s].pc = "loop", Inbox(s) # <<>>, CloseReasonRead(s)
  PROVE  Good(s)
  <1>1. /\ sess[s].pc \in Running /\ conn \in ConnFs /\ Settled /\ staleLogin' \in BOOLEAN
        /\ sess[s] \in SessType
    BY Pointers DEF CloseReasonRead, Running, Starting, Settled, TInv, TypeOK
  <1>2. PICK c \in Conns : c = sess[s].conn
    BY <1>1, Pointers
  <1>3. conn[c].ws \in AnyWs
    BY <1>1, <1>2, Pointers
  <1>4. conn' \in ConnFs
    BY <1>2, ClosedTypes DEF CloseReasonRead
  <1>5. PICK k \in SockFs : k = CloseWs(Popped(s), conn[c].ws)
    BY <1>3, PoppedType, CloseWsType
  <1>6. sock' \in SockFs
    BY <1>2, <1>5, LeftType DEF CloseReasonRead
  <1>7. PICK e \in SessType : e = Ended(sess[s], "shown")
    BY <1>1, EndedType DEF Ends
  <1>8. e.pc = "done" /\ e.waits = NoWs /\ e.conn = sess[s].conn /\ e.cut = sess[s].cut
    BY <1>1, <1>7, EndedType DEF Ends
  <1>9. PICK h \in SessFs : h = ClosedSess(c)
    BY ClosedTypes
  <1>10. sess' = [h EXCEPT ![s] = e]
    BY <1>2, <1>7, <1>9 DEF CloseReasonRead
  <1>11. sess' \in SessFs
    BY <1>10 DEF SessFs
  <1>12. \A t \in Sess : sess'[t] = IF t = s THEN e ELSE h[t]
    BY <1>10 DEF SessFs
  <1>13. \A t \in Sess : /\ h[t].pc = sess[t].pc /\ h[t].conn = sess[t].conn
                         /\ h[t].waits = sess[t].waits
                         /\ h[t].cut = "no" => sess[t].cut = "no"
    BY <1>9, ClosedSessFields
  <1>14. AtWork'
    <2>1. nsess' = nsess BY <1>1 DEF Settled
    <2>2. ASSUME NEW t \in Sess
          PROVE  /\ sess'[t].pc \in Running => sess'[t].conn \in Conns
                 /\ sess'[t].waits # NoWs => sess'[t].pc \in Running
                 /\ sess'[t].pc # "none" => t <= nsess'
      BY <1>1, <1>8, <1>12, <1>13, <2>1 DEF TInv, AtWork, Running, Starting
    <2>3. QED BY <2>2 DEF AtWork
  <1>15. Calm
    BY <1>1, <1>8, <1>12, <1>13 DEF Calm, Running, Starting
  <1>16. Flags /\ Dialog(s)
    BY <1>1, <1>8, <1>12, Something DEF CloseReasonRead
  <1>17. QED BY <1>1, <1>4, <1>6, <1>11, <1>14, <1>15, <1>16, TypesKept DEF Good, TInv

LEMMA OtherReadGood ==
  ASSUME TInv, NEW s \in Sess, sess[s].pc = "loop", Inbox(s) # <<>>, NEW m, OtherRead(s, m)
  PROVE  Good(s)
  <1>1. /\ sess[s].pc \in Running /\ conn' \in ConnFs /\ Settled /\ staleLogin' \in BOOLEAN
        /\ sess[s] \in SessType
    BY Pointers DEF OtherRead, Running, Starting, Settled, TInv, TypeOK
  <1>2. sock' \in SockFs
    BY PoppedType DEF OtherRead
  <1>3. Flags /\ Dialog(s)
    BY Nothing DEF OtherRead
  <1>4. CASE m = "clip"
    <2>1. PICK r : r = [sess[s] EXCEPT !.pc = "unzip", !.waits = NoWs]
      OBVIOUS
    <2>2. r \in SessType /\ r.conn = sess[s].conn /\ r.cut = sess[s].cut /\ r.waits = NoWs
      BY <1>1, <2>1 DEF SessType, Pcs
    <2>3. sess' = [sess EXCEPT ![s] = r]
      BY <1>4, <2>1 DEF OtherRead
    <2>4. QED BY <1>1, <1>2, <1>3, <2>2, <2>3, GoesOn
  <1>5. CASE m # "clip"
    <2>1. PICK w \in AnyWs : w = conn[sess[s].conn].ws
      BY <1>1, Pointers
    <2>2. sess' = [sess EXCEPT ![s].pc = "loop", ![s].waits = w]
      BY <1>5, <2>1 DEF OtherRead, Loops
    <2>3. QED BY <1>1, <1>2, <1>3, <2>2, LoopsOn
  <1>6. QED BY <1>4, <1>5

LEMMA UnpackedGood ==
  ASSUME TInv, NEW s \in Sess, Unpacked(s)
  PROVE  Good(s)
  <1>1. /\ sess[s].pc \in Running /\ conn' \in ConnFs /\ sock' \in SockFs
        /\ Settled /\ staleLogin' \in BOOLEAN
    BY Pointers DEF Unpacked, Running, Starting, Settled, TInv, TypeOK
  <1>2. Flags /\ Dialog(s)
    BY Nothing DEF Unpacked, ShowsNothing
  <1>3. PICK w \in AnyWs : w = conn[sess[s].conn].ws
    BY <1>1, Pointers
  <1>4. sess' = [sess EXCEPT ![s].pc = "loop", ![s].waits = w]
    BY <1>3 DEF Unpacked, Loops
  <1>5. QED BY <1>1, <1>2, <1>4, LoopsOn

LEMMA StepGood ==
  ASSUME TInv, NEW s \in Sess, Browser(s) \/ Session(s)
  PROVE  Good(s)
  <1>1. CASE Browser(s)
    <2>1. CASE IdSocketOpens(s) BY <2>1, IdSocketOpensGood
    <2>2. CASE RelaySocketOpens(s) BY <2>2, RelaySocketOpensGood
    <2>3. CASE \E kind \in {"id", "relay"} : SocketFails(s, kind) \/ SocketCloses(s, kind)
      BY <2>3, SocketFailsGood, SocketClosesGood
    <2>4. CASE \E m \in Sends(s, sess[s]) \cap IdAnswers : AnswerArrives(s, m)
      BY <2>4, AnswerArrivesGood
    <2>5. CASE \E m \in Sends(s, sess[s]) \cap PeerMessages : PeerMessageArrives(s, m)
      BY <2>5, PeerMessageArrivesGood
    <2>6. QED BY <1>1, <2>1, <2>2, <2>3, <2>4, <2>5 DEF Browser
  <1>2. CASE MessageRead(s)
    <2>1. sess[s].pc = "loop" /\ Inbox(s) # <<>>
      BY <1>2 DEF MessageRead
    <2>2. CASE HashRead(s) BY <2>1, <2>2, HashReadGood
    <2>3. CASE \E m : LoginAnswerRead(s, m) BY <2>1, <2>3, LoginAnswerReadGood
    <2>4. CASE FrameRead(s) BY <2>1, <2>4, FrameReadGood
    <2>5. CASE PermissionRead(s) BY <2>1, <2>5, PermissionReadGood
    <2>6. CASE CloseReasonRead(s) BY <2>1, <2>6, CloseReasonReadGood
    <2>7. CASE \E m : OtherRead(s, m) BY <2>1, <2>7, OtherReadGood
    <2>8. CASE ReplyThrows(s) BY <2>1, <2>8, ReplyThrowsGood
    <2>9. QED BY <1>2, <2>2, <2>3, <2>4, <2>5, <2>6, <2>7, <2>8 DEF MessageRead
  <1>3. CASE Session(s) /\ ~MessageRead(s)
    <2>1. CASE AnswerRead(s) BY <2>1, AnswerReadGood
    <2>2. CASE SignedIdRead(s) BY <2>2, SignedIdReadGood
    <2>3. CASE NextRejects(s) BY <2>3, NextRejectsGood
    <2>4. CASE OpenTimesOut(s) BY <2>4, OpenTimesOutGood
    <2>5. CASE KeyVerified(s) BY <2>5, KeyVerifiedGood
    <2>6. CASE Unpacked(s) BY <2>6, UnpackedGood
    <2>7. QED BY <1>3, <2>1, <2>2, <2>3, <2>4, <2>5, <2>6 DEF Session, Poll
  <1>4. QED BY <1>1, <1>2, <1>3

-----------------------------------------------------------------------------
(* The user and the timer                                                  *)

LEMMA Current ==
  ASSUME TInv
  PROVE  /\ nconn \in Nat /\ curConn \in Nat /\ (page = "remote") = (curConn # 0)
         /\ curConn # 0 => curConn \in Conns
         /\ asking \in BOOLEAN /\ armed \in BOOLEAN
         /\ strayDialog \in BOOLEAN /\ staleLogin \in BOOLEAN
         /\ conn \in ConnFs /\ sess \in SessFs /\ sock \in SockFs
  BY BoundsAssumption DEF TInv, TypeOK, Conns, ConnFs, SessFs, SockFs

LEMMA ConnectType ==
  ASSUME TInv, Connect
  PROVE  TInv' /\ nconn' = nconn + 1 /\ curConn' = nconn' /\ nconn' \in Conns
         /\ StartFrom(nconn', conn, sess, sock)
  <1>1. /\ nconn' = nconn + 1 /\ curConn' = nconn' /\ page' = "remote"
        /\ StartFrom(nconn', conn, sess, sock)
        /\ UNCHANGED <<asking, armed, strayDialog, staleLogin>>
    BY DEF Connect
  <1>2. nconn' \in Conns /\ nconn' \in 0..MaxConn /\ nconn' # 0
    BY <1>1, Current, BoundsAssumption DEF Connect, Conns
  <1>3. PICK c \in Conns : c = nconn'
    BY <1>2
  <1>4. StartFrom(c, conn, sess, sock)
    BY <1>1, <1>3
  <1>5. /\ nsess' \in 0..MaxSess /\ conn' \in ConnFs /\ sess' \in SessFs
        /\ sock' \in SockFs /\ AtWork'
    BY <1>4, Current, StartType
  <1>6. TypeOK'
    BY <1>1, <1>2, <1>5, Current DEF TypeOK, ConnFs, SessFs, SockFs
  <1>7. QED BY <1>1, <1>2, <1>5, <1>6 DEF TInv

LEMMA LeaveType ==
  ASSUME TInv, Leave
  PROVE  TInv' /\ curConn \in Conns
  <1>1. curConn \in Conns
    BY Current DEF Leave
  <1>2. PICK c \in Conns : c = curConn
    BY <1>1
  <1>3. PICK h \in SessFs : h = ClosedSess(c)
    BY ClosedTypes
  <1>4. sess' = h /\ nsess' = nsess
    BY <1>2, <1>3 DEF Leave
  <1>5. AtWork'
    <2>1. ASSUME NEW t \in Sess
          PROVE  /\ sess'[t].pc = sess[t].pc /\ sess'[t].conn = sess[t].conn
                 /\ sess'[t].waits = sess[t].waits
      BY <1>3, <1>4, ClosedSessFields
    <2>2. QED BY <1>4, <2>1 DEF TInv, AtWork
  <1>6. PICK k \in SockFs : k = ClosedSock(c)
    BY ClosedTypes
  <1>7. sock' \in SockFs
    <2>1. sock' = Swept(k)
      BY <1>2, <1>6 DEF Leave
    <2>2. CASE \E s : s \in Sess
      BY <2>1, <2>2, LeftType
    <2>3. CASE ~\E s : s \in Sess
      BY <2>1, <2>3 DEF Swept, SockFs, Ws
    <2>4. QED BY <2>2, <2>3
  <1>8. conn' \in ConnFs
    <2>1. ClosedConn(c) \in ConnFs
      BY ClosedTypes
    <2>2. \/ conn' = [ClosedConn(c) EXCEPT ![c] = NoConn]
          \/ conn' = [ClosedConn(c) EXCEPT ![c] = @]
      BY <1>2 DEF Leave
    <2>3. QED BY <2>1, <2>2, Blanks DEF ConnFs
  <1>9. TypeOK'
    BY <1>1, <1>4, <1>7, <1>8, Current DEF Leave, TypeOK, TInv, ConnFs, SessFs, SockFs
  <1>10. QED BY <1>1, <1>5, <1>9 DEF TInv

LEMMA RetryFiresType ==
  ASSUME TInv, RetryFires
  PROVE  /\ TInv' /\ armed /\ armed' = FALSE
         /\ \/ curConn = 0 /\ sess' = sess
            \/ /\ curConn \in Conns
               /\ StartFrom(curConn, ClosedConn(curConn), ClosedSess(curConn), ClosedSock(curConn))
  <1>1. CASE curConn = 0
    <2>1. UNCHANGED <<page, curConn, nconn, conn, nsess, sess, sock, asking, strayDialog, staleLogin>>
      BY <1>1 DEF RetryFires
    <2>2. armed /\ armed' = FALSE
      BY DEF RetryFires
    <2>3. QED BY <1>1, <2>1, <2>2 DEF TInv, TypeOK, AtWork
  <1>2. CASE curConn # 0
    <2>1. PICK c \in Conns : c = curConn
      BY <1>2, Current
    <2>2. PICK h \in SessFs : h = ClosedSess(c)
      BY ClosedTypes
    <2>3. /\ StartFrom(c, ClosedConn(c), h, ClosedSock(c))
          /\ armed /\ armed' = FALSE /\ asking' = FALSE
          /\ UNCHANGED <<page, curConn, nconn, strayDialog, staleLogin>>
      BY <1>2, <2>1, <2>2 DEF RetryFires
    <2>4. \A t \in Sess : h[t].pc = sess[t].pc /\ h[t].conn = sess[t].conn
                         /\ h[t].waits = sess[t].waits
      BY <2>2, ClosedSessFields
    <2>5. /\ nsess' \in 0..MaxSess /\ conn' \in ConnFs /\ sess' \in SessFs
          /\ sock' \in SockFs /\ AtWork'
      BY <2>3, <2>4, ClosedTypes, StartType
    <2>6. TypeOK'
      BY <2>3, <2>5 DEF TInv, TypeOK, ConnFs, SessFs, SockFs
    <2>7. QED BY <2>1, <2>2, <2>3, <2>5, <2>6 DEF TInv
  <1>3. QED BY <1>1, <1>2

LEMMA GivePasswordType ==
  ASSUME TInv, GivePassword
  PROVE  TInv'
  <1>1. PICK c \in Conns : c = curConn
    BY Current DEF GivePassword
  <1>2. conn[c].ws \in AnyWs
    BY Current DEF ConnFs, ConnType, AnyWs
  <1>3. sock' \in SockFs
    BY <1>1, <1>2, Current, SendLoginType DEF GivePassword
  <1>4. conn' \in ConnFs
    BY <1>1, Current, PwType DEF GivePassword
  <1>5. /\ UNCHANGED <<page, curConn, nconn, nsess, sess, strayDialog>>
        /\ asking' = FALSE /\ armed' = FALSE
    BY DEF GivePassword
  <1>6. staleLogin' \in BOOLEAN
    BY Current DEF GivePassword, GoesStale
  <1>7. AtWork'
    BY <1>5 DEF TInv, AtWork
  <1>8. TypeOK'
    BY <1>3, <1>4, <1>5, <1>6 DEF TInv, TypeOK, ConnFs, SessFs, SockFs
  <1>9. QED BY <1>7, <1>8 DEF TInv

LEMMA TInvInit == Init => TInv
  <1> SUFFICES ASSUME Init PROVE TInv
    OBVIOUS
  <1>1. TypeOK
    <2>1. conn \in ConnFs /\ sess \in SessFs /\ sock \in SockFs
      BY Blanks DEF Init, ConnFs, SessFs, SockFs
    <2>2. page = "home" /\ curConn = 0 /\ nconn = 0 /\ nsess = 0
      BY DEF Init
    <2>3. /\ page \in {"home", "remote"} /\ curConn \in Conns \cup {0}
          /\ nconn \in 0..MaxConn /\ nsess \in 0..MaxSess
          /\ (page = "remote") = (curConn # 0)
      BY <2>2, BoundsAssumption
    <2>4. /\ asking \in BOOLEAN /\ armed \in BOOLEAN
          /\ strayDialog \in BOOLEAN /\ staleLogin \in BOOLEAN
      BY Zenon DEF Init
    <2>5. QED BY <2>1, <2>3, <2>4 DEF TypeOK, ConnFs, SessFs, SockFs
  <1>2. AtWork
    BY DEF Init, AtWork, NoSess, Running, Starting
  <1>3. QED BY <1>1, <1>2 DEF TInv

LEMMA TInvNext == TInv /\ [Next]_vars => TInv'
  <1> SUFFICES ASSUME TInv, [Next]_vars PROVE TInv'
    OBVIOUS
  <1>1. CASE Connect BY <1>1, ConnectType
  <1>2. CASE Leave BY <1>2, LeaveType
  <1>3. CASE RetryFires BY <1>3, RetryFiresType
  <1>4. CASE GivePassword BY <1>4, GivePasswordType
  <1>5. CASE \E s \in Sess : Browser(s) \/ Session(s)
    BY <1>5, StepGood DEF Good
  <1>6. CASE UNCHANGED vars
    BY <1>6 DEF vars, TInv, TypeOK, AtWork
  <1>7. QED BY <1>1, <1>2, <1>3, <1>4, <1>5, <1>6 DEF Next

\* The fields keep their types for any number of connections and sessions and
\* whatever hbbs and the peer send (connection.ts, websock.ts, globals.js).
THEOREM TypeCorrect == Spec => []TypeOK
  <1>1. TInv => TypeOK
    BY DEF TInv
  <1>2. QED BY <1>1, TInvInit, TInvNext, PTL DEF Spec

-----------------------------------------------------------------------------
(* One session at a time                                                   *)

\* Why the retry timer finds no session at work: the sessions whose connection
\* was never closed all belong to the current one, of which there is one at
\* most, and the timer runs only when that one is over.  A dialog of a session
\* cut off before is what can break it.
OneInv == /\ curConn <= nconn
          /\ \A s \in Sess : sess[s].pc \in Running =>
               /\ sess[s].conn <= nconn
               /\ sess[s].cut = "no" => sess[s].conn = curConn
          /\ OneSessionUnlessStray
          /\ ~strayDialog /\ armed =>
               /\ curConn # 0
               /\ \A s \in Sess : sess[s].pc \in Running => sess[s].conn # curConn

LEMMA OneInvGood ==
  ASSUME TInv, OneInv, NEW s \in Sess, Good(s)
  PROVE  OneInv'
  <1>1. /\ Settled /\ curConn' = curConn /\ nconn' = nconn
        /\ \A t \in Sess :
             /\ sess'[t].pc \in Running => sess[t].pc \in Running /\ sess'[t].conn = sess[t].conn
             /\ sess'[t].cut = "no" => sess[t].cut = "no"
    BY DEF Good, Calm, Settled
  <1>2. /\ curConn' <= nconn'
        /\ \A t \in Sess : sess'[t].pc \in Running =>
             /\ sess'[t].conn <= nconn'
             /\ sess'[t].cut = "no" => sess'[t].conn = curConn'
    BY <1>1 DEF OneInv
  <1>3. ~strayDialog' => ~strayDialog
    <2>1. \/ strayDialog' = strayDialog
          \/ strayDialog' = (strayDialog \/ sess[s].cut # "no")
      BY DEF Good, Dialog
    <2>2. QED BY <2>1
  <1>4. OneSessionUnlessStray'
    BY <1>1, <1>3 DEF OneInv, OneSessionUnlessStray
  <1>5. ASSUME ~strayDialog', armed'
        PROVE  /\ curConn' # 0
               /\ \A t \in Sess : sess'[t].pc \in Running => sess'[t].conn # curConn'
    <2>1. CASE armed
      BY <1>1, <1>3, <1>5, <2>1 DEF OneInv
    <2>2. CASE ~armed
      <3>1. /\ sess[s].pc \in Running /\ sess[s].cut = "no" /\ sess'[s].pc = "done"
        <4>1. CASE UNCHANGED <<armed, strayDialog>>
          BY <1>5, <2>2, <4>1
        <4>2. CASE /\ sess[s].pc \in Running
                   /\ strayDialog' = (strayDialog \/ sess[s].cut # "no")
                   /\ armed' => armed \/ sess'[s].pc = "done"
          BY <1>5, <2>2, <4>2
        <4>3. QED BY <4>1, <4>2 DEF Good, Dialog
      <3>2. sess[s].conn = curConn /\ curConn # 0
        <4>1. sess[s].conn = curConn
          BY <3>1 DEF OneInv
        <4>2. sess[s].conn \in Conns
          BY <3>1, Pointers
        <4>3. QED BY <4>1, <4>2 DEF Conns
      <3>3. ASSUME NEW t \in Sess, sess'[t].pc \in Running, sess'[t].conn = curConn'
            PROVE  FALSE
        <4>1. t = s
          BY <1>1, <1>3, <1>5, <3>1, <3>2, <3>3 DEF OneInv, OneSessionUnlessStray
        <4>2. QED BY <3>1, <3>3, <4>1 DEF Running, Starting
      <3>4. QED BY <1>1, <3>2, <3>3
    <2>3. QED BY <2>1, <2>2
  <1>6. QED BY <1>2, <1>4, <1>5 DEF OneInv

\* A session starts on connection c, which has none at work if no stray dialog
\* was raised.
LEMMA OneInvStart ==
  ASSUME TInv, OneInv, NEW c \in Conns, NEW cn, NEW ss \in SessFs, NEW k,
         \A t \in Sess : /\ ss[t].pc = sess[t].pc /\ ss[t].conn = sess[t].conn
                         /\ ss[t].waits = sess[t].waits
                         /\ ss[t].cut = "no" => sess[t].cut = "no",
         StartFrom(c, cn, ss, k),
         nconn' \in Nat, nconn <= nconn', curConn' = c, c <= nconn', strayDialog' = strayDialog,
         curConn # 0 => curConn = c, ~strayDialog => ~armed',
         ~strayDialog => \A t \in Sess : sess[t].pc \in Running => sess[t].conn # c
  PROVE  OneInv'
  <1>1. PICK s \in Sess :
           /\ s = nsess + 1 /\ nsess' = s /\ sess' \in SessFs
           /\ sess'[s].pc = "idOpen" /\ sess'[s].conn = c
           /\ \A t \in Sess \ {s} :
                \/ sess[t].pc = "done" /\ sess'[t].pc = "done" /\ sess'[t].waits = NoWs
                \/ /\ sess'[t].pc = sess[t].pc /\ sess'[t].conn = sess[t].conn
                   /\ sess'[t].waits = sess[t].waits /\ sess'[t].cut = ss[t].cut
    BY StartSess
  <1>2. ASSUME NEW t \in Sess \ {s}, sess'[t].pc \in Running
        PROVE  /\ sess[t].pc \in Running /\ sess'[t].conn = sess[t].conn
               /\ sess'[t].cut = "no" => sess[t].cut = "no"
               /\ sess[t].conn \in Conns
    <2>1. /\ sess'[t].pc = sess[t].pc /\ sess'[t].conn = sess[t].conn
          /\ sess'[t].cut = ss[t].cut
      BY <1>1, <1>2 DEF Running, Starting
    <2>2. sess[t].pc \in Running
      BY <1>2, <2>1
    <2>3. sess[t].conn \in Conns
      BY <2>2, Pointers
    <2>4. QED BY <2>1, <2>2, <2>3
  <1>3. ASSUME NEW t \in Sess, sess'[t].pc \in Running
        PROVE  /\ sess'[t].conn <= nconn'
               /\ sess'[t].cut = "no" => sess'[t].conn = curConn'
    <2>1. CASE t = s BY <1>1, <2>1
    <2>2. CASE t # s
      BY <1>2, <1>3, <2>2, Current DEF OneInv, Conns
    <2>3. QED BY <2>1, <2>2
  <1>4. OneSessionUnlessStray'
    <2>1. ASSUME ~strayDialog', NEW t \in Sess, NEW u \in Sess, sess'[t].pc \in Running,
                 sess'[u].pc \in Running, sess'[t].conn = sess'[u].conn
          PROVE  t = u
      <3>1. CASE t # s /\ u # s
        BY <1>2, <2>1, <3>1 DEF OneInv, OneSessionUnlessStray
      <3>2. CASE t # s /\ u = s
        BY <1>1, <1>2, <2>1, <3>2
      <3>3. CASE t = s /\ u # s
        BY <1>1, <1>2, <2>1, <3>3
      <3>4. QED BY <3>1, <3>2, <3>3
    <2>2. QED BY <2>1 DEF OneSessionUnlessStray
  <1>5. QED BY <1>3, <1>4 DEF OneInv

LEMMA OneInvNext == TInv /\ OneInv /\ [Next]_vars => OneInv'
  <1> SUFFICES ASSUME TInv, OneInv, [Next]_vars PROVE OneInv'
    OBVIOUS
  <1>1. CASE Connect
    <2>1. PICK c \in Conns : c = nconn'
      BY <1>1, ConnectType
    <2>2. StartFrom(c, conn, sess, sock) /\ nconn' = nconn + 1 /\ curConn' = c
      BY <1>1, <2>1, ConnectType
    <2>3. curConn = 0 /\ strayDialog' = strayDialog /\ armed' = armed
      BY <1>1, Current DEF Connect
    <2>4. /\ nconn' \in Nat /\ nconn <= nconn' /\ c <= nconn'
          /\ \A t \in Sess : sess[t].pc \in Running => sess[t].conn # c
      BY <2>1, <2>2, Current, Pointers DEF OneInv, Conns
    <2>5. ~strayDialog => ~armed'
      BY <2>3 DEF OneInv
    <2>6. QED BY <2>2, <2>3, <2>4, <2>5, Current, OneInvStart
  <1>2. CASE Leave
    <2>1. PICK c \in Conns : c = curConn
      BY <1>2, LeaveType
    <2>2. /\ sess' = ClosedSess(c) /\ nconn' = nconn /\ curConn' = 0 /\ armed' = FALSE
          /\ strayDialog' = strayDialog
      BY <1>2, <2>1 DEF Leave
    <2>3. ASSUME NEW t \in Sess
          PROVE  /\ sess'[t].pc = sess[t].pc /\ sess'[t].conn = sess[t].conn
                 /\ sess'[t].cut = "no" => sess[t].cut = "no" /\ t \notin RunningOf(c)
      BY <2>2, ClosedSessFields
    <2>4. ASSUME NEW t \in Sess, sess'[t].pc \in Running
          PROVE  sess'[t].conn <= nconn' /\ sess'[t].cut # "no"
      BY <2>1, <2>2, <2>3, <2>4 DEF OneInv, RunningOf
    <2>5. OneSessionUnlessStray'
      BY <2>2, <2>3 DEF OneInv, OneSessionUnlessStray
    <2>6. curConn' <= nconn'
      BY <2>2, Current
    <2>7. QED BY <2>2, <2>4, <2>5, <2>6 DEF OneInv
  <1>3. CASE RetryFires
    <2>1. armed /\ armed' = FALSE /\ UNCHANGED <<curConn, nconn, strayDialog>>
      BY <1>3 DEF RetryFires
    <2>2. CASE curConn = 0 /\ sess' = sess
      BY <2>1, <2>2 DEF OneInv, OneSessionUnlessStray
    <2>3. CASE curConn \in Conns
      <3>1. PICK c \in Conns : c = curConn
        BY <2>3
      <3>2. CASE curConn = 0 /\ sess' = sess
        BY <2>2, <3>2
      <3>3. CASE StartFrom(curConn, ClosedConn(curConn), ClosedSess(curConn), ClosedSock(curConn))
        <4>1. PICK h \in SessFs : h = ClosedSess(c)
          BY ClosedTypes
        <4>2. StartFrom(c, ClosedConn(c), h, ClosedSock(c))
          BY <3>1, <3>3, <4>1
        <4>3. \A t \in Sess : /\ h[t].pc = sess[t].pc /\ h[t].conn = sess[t].conn
                              /\ h[t].waits = sess[t].waits
                              /\ h[t].cut = "no" => sess[t].cut = "no"
          BY <4>1, ClosedSessFields
        <4>4. ~strayDialog => \A t \in Sess : sess[t].pc \in Running => sess[t].conn # c
          BY <2>1, <3>1 DEF OneInv
        <4>5. nconn' \in Nat /\ nconn <= nconn' /\ curConn' = c /\ c <= nconn'
          BY <2>1, <3>1, Current DEF OneInv
        <4>6. QED BY <2>1, <3>1, <4>2, <4>3, <4>4, <4>5, OneInvStart
      <3>4. QED BY <1>3, <3>2, <3>3, RetryFiresType
    <2>4. QED BY <1>3, <2>2, <2>3, RetryFiresType
  <1>4. CASE GivePassword
    <2>1. UNCHANGED <<curConn, nconn, sess, strayDialog>> /\ armed' = FALSE
      BY <1>4 DEF GivePassword
    <2>2. QED BY <2>1 DEF OneInv, OneSessionUnlessStray
  <1>5. CASE \E s \in Sess : Browser(s) \/ Session(s)
    BY <1>5, StepGood, OneInvGood
  <1>6. CASE UNCHANGED vars
    BY <1>6 DEF vars, OneInv, OneSessionUnlessStray
  <1>7. QED BY <1>1, <1>2, <1>3, <1>4, <1>5, <1>6 DEF Next

\* Two sessions of one Connection object are never at work together, however
\* many connections and retries there are, unless a session whose connection
\* was already closed has raised a dialog (connection.ts 49-59, 377-380).
THEOREM OneSessionAtATime == Spec => []OneSessionUnlessStray
  <1>1. Init => OneInv
    BY DEF Init, OneInv, OneSessionUnlessStray, NoSess, Running, Starting
  <1>2. OneInv => OneSessionUnlessStray
    BY DEF OneInv
  <1>3. QED BY <1>1, <1>2, TInvInit, TInvNext, OneInvNext, PTL DEF Spec

-----------------------------------------------------------------------------
(* Logins and challenges                                                   *)

\* A login was asked for on socket w, or its refusal waits there to be read.
Answered(k, w) == \/ k[w].stage = "asked"
                  \/ \E i \in 1..Len(k[w].buf) : k[w].buf[i] = "wrong_password"

\* From the sockets k to j no socket was asked or refused anew.
Tame(k, j) == \A w \in Ws : Answered(j, w) => Answered(k, w)

LEMMA TameTrans ==
  ASSUME NEW k, NEW j, NEW h, Tame(k, j), Tame(j, h)
  PROVE  Tame(k, h)
  BY DEF Tame

LEMMA DownTame ==
  ASSUME NEW k \in SockFs, NEW w \in AnyWs, NEW r, NEW st
  PROVE  Tame(k, Down(k, w, r, st))
  <1>1. ASSUME NEW v \in Ws, Answered(Down(k, w, r, st), v)
        PROVE  Answered(k, v)
    <2>1. CASE v = w
      <3>1. PICK x : x = [k[v] EXCEPT !.ready = r, !.status = st, !.pkey = -1, !.stage = "none"]
        OBVIOUS
      <3>2. Down(k, w, r, st)[v] = x
        BY <2>1, <3>1 DEF Down, SockFs
      <3>3. k[v] \in SockType BY DEF SockFs
      <3>4. x.stage = "none" /\ x.buf = k[v].buf
        BY ONLY <3>1, <3>3 DEF SockType
      <3>5. QED BY <1>1, <3>2, <3>4 DEF Answered
    <2>2. CASE v # w
      <3>1. Down(k, w, r, st)[v] = k[v]
        BY <2>2 DEF Down, SockFs
      <3>2. QED BY <1>1, <3>1 DEF Answered
    <2>3. QED BY <2>1, <2>2
  <1>2. QED BY <1>1 DEF Tame

LEMMA CloseWsTame ==
  ASSUME NEW k \in SockFs, NEW w \in AnyWs
  PROVE  Tame(k, CloseWs(k, w))
  BY DownTame DEF CloseWs, Tame

LEMMA FieldTame ==
  ASSUME NEW k \in SockFs, NEW j, NEW w, \A v \in Ws : v # w => j[v] = k[v],
         w \in Ws => j[w].stage = k[w].stage /\ j[w].buf = k[w].buf
  PROVE  Tame(k, j)
  BY DEF Tame, Answered

LEMMA SendPublicKeyTame ==
  ASSUME NEW k \in SockFs, NEW w \in AnyWs, NEW x
  PROVE  Tame(k, SendPublicKey(k, w, x))
  <1>1. CASE SendPublicKey(k, w, x) = k
    BY <1>1 DEF Tame
  <1>2. CASE SendPublicKey(k, w, x) = [k EXCEPT ![w].pkey = x]
    <2>1. PICK j : j = SendPublicKey(k, w, x) OBVIOUS
    <2>2. \A v \in Ws : v # w => j[v] = k[v]
      BY <1>2, <2>1 DEF SockFs
    <2>3. ASSUME w \in Ws PROVE j[w].stage = k[w].stage /\ j[w].buf = k[w].buf
      <3>1. j[w] = [k[w] EXCEPT !.pkey = x] BY <1>2, <2>1, <2>3 DEF SockFs
      <3>2. k[w] \in SockType BY <2>3 DEF SockFs
      <3>3. QED BY <3>1, <3>2 DEF SockType
    <2>4. QED BY <2>1, <2>2, <2>3, FieldTame
  <1>3. QED BY <1>1, <1>2 DEF SendPublicKey

LEMMA SecuredTame ==
  ASSUME NEW k \in SockFs, NEW w \in AnyWs, NEW s \in Sess
  PROVE  Tame(k, Secured(k, w, s))
  <1>1. PICK p \in SockFs : p = SendPublicKey(k, w, s) BY SendPublicKeyType
  <1>2. PICK j : j = [p EXCEPT ![w].key = s] OBVIOUS
  <1>3. \A v \in Ws : v # w => j[v] = p[v]
    BY <1>2 DEF SockFs
  <1>4. ASSUME w \in Ws PROVE j[w].stage = p[w].stage /\ j[w].buf = p[w].buf
    <2>1. j[w] = [p[w] EXCEPT !.key = s] BY <1>2, <1>4 DEF SockFs
    <2>2. p[w] \in SockType BY <1>4 DEF SockFs
    <2>3. QED BY <2>1, <2>2 DEF SockType
  <1>5. Tame(p, j) BY <1>3, <1>4, FieldTame
  <1>6. Tame(k, p) BY <1>1, SendPublicKeyTame
  <1>7. Secured(k, w, s) = j BY <1>1, <1>2 DEF Secured
  <1>8. QED BY <1>5, <1>6, <1>7, TameTrans

LEMMA BlankUnanswered ==
  ASSUME NEW k, NEW w, k[w].stage = "none", k[w].buf = <<>>
  PROVE  ~Answered(k, w)
  BY DEF Answered

LEMMA GarbageTame ==
  ASSUME NEW k \in SockFs, NEW s
  PROVE  Tame(k, Left(s, k)) /\ Tame(k, Swept(k))
  <1>1. ASSUME NEW x PROVE Garbage(x).stage = "none" /\ Garbage(x).buf = <<>>
    BY DEF Garbage, NoSock
  <1>2. ASSUME NEW v \in Ws, NEW j, j = Left(s, k) \/ j = Swept(k), Answered(j, v)
        PROVE  Answered(k, v)
    <2>1. j[v] = k[v] \/ j[v] = Garbage(k[v])
      BY <1>2 DEF Left, Swept
    <2>2. CASE j[v] = k[v]
      BY <1>2, <2>2 DEF Answered
    <2>3. CASE j[v] = Garbage(k[v])
      BY <1>1, <1>2, <2>3, BlankUnanswered
    <2>4. QED BY <2>1, <2>2, <2>3
  <1>3. QED BY <1>2 DEF Tame

LEMMA PoppedTame ==
  ASSUME TInv, NEW s \in Sess, Inbox(s) # <<>>
  PROVE  Tame(sock, Popped(s))
  <1>1. sock \in SockFs /\ sess[s].waits \in AnyWs
    BY Pointers
  <1>2. PICK w : w = sess[s].waits
    OBVIOUS
  <1>3. ASSUME NEW v \in Ws, Answered(Popped(s), v)
        PROVE  Answered(sock, v)
    <2>1. CASE v # w
      <3>1. Popped(s)[v] = sock[v]
        BY <1>1, <1>2, <2>1 DEF Popped, SockFs
      <3>2. QED BY <1>3, <3>1 DEF Answered
    <2>2. CASE v = w
      <3>1. sock[v] \in SockType BY <1>1 DEF SockFs
      <3>2. Popped(s)[v] = [sock[v] EXCEPT !.buf = Tail(sock[v].buf)]
        BY <1>1, <1>2, <2>2 DEF Popped, SockFs
      <3>3. Popped(s)[v].stage = sock[v].stage /\ Popped(s)[v].buf = Tail(sock[v].buf)
        BY <3>1, <3>2 DEF SockType
      <3>4. PICK b : b = sock[v].buf OBVIOUS
      <3>5. b \in Seq(IdAnswers \cup PeerMessages) /\ b # <<>>
        BY <1>2, <2>2, <3>1, <3>4 DEF SockType, Inbox
      <3>6. /\ Len(Tail(b)) = Len(b) - 1 /\ Len(b) \in Nat
            /\ \A i \in 1..Len(Tail(b)) : Tail(b)[i] = b[i + 1]
        BY <3>5
      <3>7. ASSUME NEW i \in 1..Len(Tail(b)), Tail(b)[i] = "wrong_password"
            PROVE  \E n \in 1..Len(b) : b[n] = "wrong_password"
        <4>1. i + 1 \in 1..Len(b) /\ b[i + 1] = "wrong_password"
          BY <3>6, <3>7
        <4>2. QED BY <4>1
      <3>8. QED BY <1>3, <3>3, <3>4, <3>7 DEF Answered
    <2>3. QED BY <2>1, <2>2
  <1>4. QED BY <1>3 DEF Tame

LEMMA SendLoginTame ==
  ASSUME NEW k \in SockFs, NEW w, NEW v \in Ws, v # w, Answered(SendLogin(k, w), v)
  PROVE  Answered(k, v)
  <1>1. SendLogin(k, w)[v] = k[v]
    BY DEF SendLogin, SockFs
  <1>2. QED BY <1>1 DEF Answered

LEMMA FreshTame ==
  ASSUME NEW k \in SockFs, NEW w
  PROVE  Tame(k, [k EXCEPT ![w] = [NoSock EXCEPT !.ready = "connecting"]])
  <1>1. PICK x : x = [NoSock EXCEPT !.ready = "connecting"] OBVIOUS
  <1>2. x.stage = "none" /\ x.buf = <<>> BY <1>1 DEF NoSock
  <1>3. ASSUME NEW v \in Ws, Answered([k EXCEPT ![w] = x], v) PROVE Answered(k, v)
    <2>1. CASE v = w
      <3>1. [k EXCEPT ![w] = x][v] = x BY <2>1 DEF SockFs
      <3>2. QED BY <1>2, <1>3, <3>1, BlankUnanswered
    <2>2. CASE v # w
      <3>1. [k EXCEPT ![w] = x][v] = k[v] BY <2>2 DEF SockFs
      <3>2. QED BY <1>3, <3>1 DEF Answered
    <2>3. QED BY <2>1, <2>2
  <1>4. QED BY <1>1, <1>3 DEF Tame

\* A socket that opens was neither asked nor refused, nor is it by that.
LEMMA OpenedTame ==
  ASSUME NEW k \in SockFs, NEW w \in Ws, NEW x \in SockType,
         x.buf = k[w].buf, x.stage = k[w].stage \/ x.stage = "paired"
  PROVE  Tame(k, [k EXCEPT ![w] = x])
  <1>1. ASSUME NEW v \in Ws, Answered([k EXCEPT ![w] = x], v) PROVE Answered(k, v)
    <2>1. CASE v = w
      <3>1. [k EXCEPT ![w] = x][v] = x BY <2>1 DEF SockFs
      <3>2. QED BY <1>1, <2>1, <3>1 DEF Answered
    <2>2. CASE v # w
      <3>1. [k EXCEPT ![w] = x][v] = k[v] BY <2>2 DEF SockFs
      <3>2. QED BY <1>1, <3>1 DEF Answered
    <2>3. QED BY <2>1, <2>2
  <1>2. QED BY <1>1 DEF Tame

\* A message arrives: a refusal only where a login was asked for.
LEMMA ArrivalTame ==
  ASSUME NEW k \in SockFs, NEW w \in Ws, NEW m \in IdAnswers \cup PeerMessages, NEW x \in SockType,
         x.buf = k[w].buf \/ x.buf = Append(k[w].buf, m),
         x.stage = "asked" => k[w].stage = "asked",
         m = "wrong_password" => k[w].stage = "asked"
  PROVE  Tame(k, [k EXCEPT ![w] = x])
  <1>1. ASSUME NEW v \in Ws, Answered([k EXCEPT ![w] = x], v) PROVE Answered(k, v)
    <2>1. CASE v = w
      <3>1. [k EXCEPT ![w] = x][v] = x BY <2>1 DEF SockFs
      <3>2. CASE x.stage = "asked"
        BY <2>1, <3>2 DEF Answered
      <3>3. CASE \E i \in 1..Len(x.buf) : x.buf[i] = "wrong_password"
        <4>1. PICK b \in Texts : b = k[w].buf
          BY DEF SockFs, SockType, Texts
        <4>2. CASE x.buf = b
          BY <2>1, <3>3, <4>1, <4>2 DEF Answered
        <4>3. CASE x.buf = Append(b, m)
          <5>1. PICK i \in 1..Len(x.buf) : x.buf[i] = "wrong_password"
            BY <3>3
          <5>2. /\ Len(b) \in Nat /\ Len(x.buf) = Len(b) + 1
                /\ \A n \in 1..Len(b) : Append(b, m)[n] = b[n]
                /\ Append(b, m)[Len(b) + 1] = m
            BY <4>3 DEF Texts
          <5>3. CASE i = Len(b) + 1
            BY <2>1, <4>3, <5>1, <5>2, <5>3 DEF Answered
          <5>4. CASE i # Len(b) + 1
            <6>1. i \in 1..Len(b) /\ b[i] = "wrong_password"
              BY <4>3, <5>1, <5>2, <5>4
            <6>2. QED BY <2>1, <4>1, <6>1 DEF Answered
          <5>5. QED BY <5>3, <5>4
        <4>4. QED BY <4>1, <4>2, <4>3
      <3>4. QED BY <1>1, <3>1, <3>2, <3>3 DEF Answered
    <2>2. CASE v # w
      <3>1. [k EXCEPT ![w] = x][v] = k[v] BY <2>2 DEF SockFs
      <3>2. QED BY <1>1, <3>1 DEF Answered
    <2>3. QED BY <2>1, <2>2
  <1>2. QED BY <1>1 DEF Tame

-----------------------------------------------------------------------------
(* Why the challenge in hand is that of the socket a password goes out on  *)

\* `_ws` of a connection is a socket of one of its own sessions.
Owned == \A c \in Conns : conn[c].ws # NoWs =>
           /\ conn[c].ws[1] \in 1..nsess
           /\ sess[conn[c].ws[1]].pc \in Running => sess[conn[c].ws[1]].conn = c

\* A session that has its relay has made it `_ws`, and reads from nothing else.
AtRelay(s) ==
  /\ sess[s].pc \in {"verify", "signed", "loop", "unzip"} =>
       conn[sess[s].conn].ws = <<s, "relay">>
  /\ sess[s].pc \in {"signed", "loop"} => sess[s].waits = <<s, "relay">>

\* A login goes out on its relay socket only after its challenge was read.
Heard(s) ==
  sess[s].pc \in {"relayOpen", "verify", "signed", "loop", "unzip"}
    /\ Answered(sock, <<s, "relay">>) => conn[sess[s].conn].hash = <<s, "relay">>

\* While the user is asked, the challenge is that of `_ws`, and no session of
\* the current connection is on its way to another.
Asks == asking =>
          /\ curConn # 0 /\ conn[curConn].hash = conn[curConn].ws
          /\ \A s \in Sess : sess[s].pc \in Running /\ sess[s].conn = curConn
                               => sess[s].pc \in {"loop", "unzip"}

LoginInv == /\ Owned
            /\ ~strayDialog => /\ \A s \in Sess : AtRelay(s) /\ Heard(s)
                               /\ Asks /\ ~staleLogin

AllInv == TInv /\ OneInv /\ LoginInv

\* `_ws` and `_hash` of connection d stay.
KeepsConn(d) == conn'[d].ws = conn[d].ws /\ conn'[d].hash = conn[d].hash

\* What a step of session s has to show: the other sessions are not concerned.
LEMMA LoginStep ==
  ASSUME AllInv, NEW s \in Sess, Good(s),
         \A d \in Conns : \/ KeepsConn(d)
                          \/ /\ sess[s].pc \in Running /\ d = sess[s].conn
                             /\ conn'[d].ws \in {conn[d].ws, NoWs, <<s, "relay">>},
         \A t \in Sess \ {s} : sess'[t].pc \in Running =>
              /\ sess'[t].pc = sess[t].pc /\ sess'[t].waits = sess[t].waits
              /\ ~strayDialog /\ Answered(sock', <<t, "relay">>) => Answered(sock, <<t, "relay">>),
         ~strayDialog /\ ~strayDialog' => AtRelay(s)' /\ Heard(s)' /\ Asks' /\ ~staleLogin'
  PROVE  LoginInv'
  <1>1. /\ curConn' = curConn /\ nsess' = nsess /\ nsess \in Nat /\ TInv /\ OneInv
        /\ \A t \in Sess : sess'[t].pc \in Running =>
             sess[t].pc \in Running /\ sess'[t].conn = sess[t].conn
    BY BoundsAssumption DEF Good, Calm, Settled, AllInv, TInv, TypeOK
  <1>2. Owned'
    <2>1. ASSUME NEW d \in Conns, conn'[d].ws # NoWs
          PROVE  /\ conn'[d].ws[1] \in 1..nsess
                 /\ sess'[conn'[d].ws[1]].pc \in Running => sess'[conn'[d].ws[1]].conn = d
      <3>1. conn[d].ws \in AnyWs
        BY <1>1, Current DEF ConnFs, ConnType, AnyWs
      <3>2. CASE conn'[d].ws = conn[d].ws
        <4>1. /\ conn[d].ws[1] \in 1..nsess
              /\ sess[conn[d].ws[1]].pc \in Running => sess[conn[d].ws[1]].conn = d
          BY <2>1, <3>2 DEF AllInv, LoginInv, Owned
        <4>2. conn[d].ws[1] \in Sess
          BY <2>1, <3>1, <3>2 DEF AnyWs, Ws
        <4>3. QED BY <1>1, <3>2, <4>1, <4>2
      <3>3. CASE conn'[d].ws = <<s, "relay">> /\ sess[s].pc \in Running /\ d = sess[s].conn
        <4>1. s \in 1..nsess
          BY <1>1, <3>3 DEF TInv, AtWork, Sess, Running, Starting
        <4>2. QED BY <1>1, <3>3, <4>1
      <3>4. QED BY <2>1, <3>2, <3>3 DEF KeepsConn
    <2>2. QED BY <1>1, <2>1 DEF Owned
  <1>3. ~strayDialog' => ~strayDialog
    <2>1. \/ strayDialog' = strayDialog
          \/ strayDialog' = (strayDialog \/ sess[s].cut # "no")
      BY DEF Good, Dialog
    <2>2. QED BY <2>1
  <1>4. ASSUME ~strayDialog', NEW t \in Sess \ {s}
        PROVE  AtRelay(t)' /\ Heard(t)'
    <2>1. CASE sess'[t].pc \notin Running
      BY <2>1 DEF AtRelay, Heard, Running, Starting
    <2>2. CASE sess'[t].pc \in Running
      <3>1. /\ sess[t].pc \in Running /\ sess'[t].conn = sess[t].conn
            /\ sess'[t].pc = sess[t].pc /\ sess'[t].waits = sess[t].waits
            /\ Answered(sock', <<t, "relay">>) => Answered(sock, <<t, "relay">>)
        BY <1>1, <1>3, <1>4, <2>2
      <3>2. sess[t].conn \in Conns
        BY <1>1, <3>1, Pointers
      <3>3. ~(sess[s].pc \in Running /\ sess[t].conn = sess[s].conn)
        BY <1>1, <1>3, <1>4, <3>1 DEF OneInv, OneSessionUnlessStray
      <3>4. KeepsConn(sess[t].conn)
        BY <3>2, <3>3
      <3>5. AtRelay(t) /\ Heard(t)
        BY <1>3, <1>4 DEF AllInv, LoginInv
      <3>6. AtRelay(t)'
        BY <3>1, <3>4, <3>5 DEF AtRelay, KeepsConn
      <3>7. Heard(t)'
        BY <3>1, <3>4, <3>5 DEF Heard, KeepsConn
      <3>8. QED BY <3>6, <3>7
    <2>3. QED BY <2>1, <2>2
  <1>5. QED BY <1>2, <1>3, <1>4 DEF LoginInv

LEMMA RelayIsWs == ASSUME NEW s \in Sess PROVE <<s, "relay">> \in Ws /\ <<s, "id">> \in Ws
  BY DEF Ws

\* Only sockets change, and none is asked or refused anew.
LEMMA LoginStill ==
  ASSUME AllInv, NEW s \in Sess, Good(s), Tame(sock, sock'),
         UNCHANGED <<sess, conn, asking, staleLogin>>
  PROVE  LoginInv'
  <1>1. \A d \in Conns : KeepsConn(d)
    BY DEF KeepsConn
  <1>2. ASSUME NEW t \in Sess, Answered(sock', <<t, "relay">>)
        PROVE  Answered(sock, <<t, "relay">>)
    BY <1>2, RelayIsWs DEF Tame
  <1>3. ASSUME ~strayDialog, ~strayDialog'
        PROVE  AtRelay(s)' /\ Heard(s)' /\ Asks' /\ ~staleLogin'
    <2>1. AtRelay(s) /\ Heard(s) /\ Asks /\ ~staleLogin
      BY <1>3 DEF AllInv, LoginInv
    <2>2. AtRelay(s)' BY <2>1 DEF AtRelay
    <2>3. Heard(s)' BY <1>2, <2>1 DEF Heard
    <2>4. curConn' = curConn BY DEF Good, Calm, Settled
    <2>5. Asks' BY <2>1, <2>4 DEF Asks
    <2>6. QED BY <2>1, <2>2, <2>3, <2>5
  <1>4. QED BY <1>1, <1>2, <1>3, LoginStep

\* Session s goes on in its loop, or towards it from the relay.
LEMMA LoginMoves ==
  ASSUME AllInv, NEW s \in Sess, Good(s), sess[s].pc \in {"verify", "signed", "loop", "unzip"},
         \A t \in Sess \ {s} : sess'[t] = sess[t],
         sess'[s].pc \in {"signed", "loop", "unzip"},
         sess'[s].pc # "unzip" => sess'[s].waits = conn[sess[s].conn].ws,
         sess[s].pc \in {"loop", "unzip"} => sess'[s].pc \in {"loop", "unzip"},
         \A d \in Conns : KeepsConn(d), Tame(sock, sock'), staleLogin' = staleLogin,
         ~strayDialog /\ asking' =>
           \/ asking
           \/ /\ strayDialog' = (strayDialog \/ sess[s].cut # "no")
              /\ sess[s].pc = "loop" /\ Answered(sock, <<s, "relay">>)
  PROVE  LoginInv'
  <1>1. ASSUME NEW t \in Sess, Answered(sock', <<t, "relay">>)
        PROVE  Answered(sock, <<t, "relay">>)
    BY <1>1, RelayIsWs DEF Tame
  <1>2. /\ sess[s].pc \in Running /\ sess'[s].pc \in Running /\ sess'[s].conn = sess[s].conn
        /\ curConn' = curConn
    BY DEF Running, Starting, Good, Calm, Settled
  <1>3. sess[s].conn \in Conns /\ TInv /\ OneInv
    BY <1>2, Pointers DEF AllInv
  <1>4. KeepsConn(sess[s].conn) BY <1>3
  <1>5. ASSUME ~strayDialog, ~strayDialog'
        PROVE  AtRelay(s)' /\ Heard(s)' /\ Asks' /\ ~staleLogin'
    <2>1. AtRelay(s) /\ Heard(s) /\ Asks /\ ~staleLogin
      BY <1>5 DEF AllInv, LoginInv
    <2>2. conn[sess[s].conn].ws = <<s, "relay">>
      BY <2>1 DEF AtRelay
    <2>3. AtRelay(s)'
      BY <1>2, <1>4, <2>2 DEF AtRelay, KeepsConn
    <2>4. Heard(s)'
      BY <1>1, <1>2, <1>4, <2>1 DEF Heard, KeepsConn
    <2>5. ASSUME ~asking' PROVE Asks'
      BY <2>5 DEF Asks
    <2>6. ASSUME asking PROVE Asks'
      <3>1. /\ curConn # 0 /\ conn[curConn].hash = conn[curConn].ws
            /\ \A t \in Sess : sess[t].pc \in Running /\ sess[t].conn = curConn
                                 => sess[t].pc \in {"loop", "unzip"}
        BY <2>1, <2>6 DEF Asks
      <3>2. KeepsConn(curConn)
        BY <1>3, <3>1, Current
      <3>3. ASSUME NEW t \in Sess, sess'[t].pc \in Running, sess'[t].conn = curConn
            PROVE  sess'[t].pc \in {"loop", "unzip"}
        <4>1. CASE t = s BY <1>2, <3>1, <3>3, <4>1
        <4>2. CASE t # s BY <3>1, <3>3, <4>2
        <4>3. QED BY <4>1, <4>2
      <3>4. QED BY <1>2, <3>1, <3>2, <3>3 DEF Asks, KeepsConn
    <2>7. ASSUME strayDialog' = (strayDialog \/ sess[s].cut # "no"),
                 sess[s].pc = "loop", Answered(sock, <<s, "relay">>)
          PROVE  Asks'
      <3>1. sess[s].cut = "no"
        BY <1>5, <2>7
      <3>2. sess[s].conn = curConn
        BY <1>2, <1>3, <3>1 DEF OneInv
      <3>3. conn[curConn].hash = <<s, "relay">>
        BY <2>1, <2>7, <3>2 DEF Heard
      <3>4. curConn # 0
        BY <1>3, <3>2 DEF Conns
      <3>5. ASSUME NEW t \in Sess, sess'[t].pc \in Running, sess'[t].conn = curConn
            PROVE  sess'[t].pc \in {"loop", "unzip"}
        <4>1. CASE t = s BY <2>7, <4>1
        <4>2. CASE t # s
          <5>1. sess[t].pc \in Running /\ sess[t].conn = sess[s].conn
            BY <3>2, <3>5, <4>2
          <5>2. QED BY <1>2, <1>3, <1>5, <4>2, <5>1 DEF OneInv, OneSessionUnlessStray
        <4>3. QED BY <4>1, <4>2
      <3>6. QED BY <1>2, <1>4, <2>2, <3>2, <3>3, <3>4, <3>5 DEF Asks, KeepsConn
    <2>8. \/ ~asking' \/ asking
          \/ /\ strayDialog' = (strayDialog \/ sess[s].cut # "no")
             /\ sess[s].pc = "loop" /\ Answered(sock, <<s, "relay">>)
      BY <1>5
    <2>9. Asks'
      BY <2>5, <2>6, <2>7, <2>8
    <2>10. QED BY <2>1, <2>3, <2>4, <2>9
  <1>6. QED BY <1>1, <1>5, LoginStep

\* Session s is over.
LEMMA LoginEnds ==
  ASSUME AllInv, NEW s \in Sess, Good(s), sess[s].pc \in Running, sess'[s].pc = "done",
         \A t \in Sess \ {s} : sess'[t].pc = sess[t].pc /\ sess'[t].waits = sess[t].waits,
         \A d \in Conns : \/ KeepsConn(d)
                          \/ /\ d = sess[s].conn /\ conn'[d].ws \in {conn[d].ws, NoWs}
                             /\ asking' => d # curConn,
         Tame(sock, sock'), asking' => asking, ~strayDialog => staleLogin' = staleLogin
  PROVE  LoginInv'
  <1>1. ASSUME NEW t \in Sess, Answered(sock', <<t, "relay">>)
        PROVE  Answered(sock, <<t, "relay">>)
    BY <1>1, RelayIsWs DEF Tame
  <1>2. curConn' = curConn /\ TInv
    BY DEF Good, Calm, Settled, AllInv
  <1>3. ASSUME ~strayDialog, ~strayDialog'
        PROVE  AtRelay(s)' /\ Heard(s)' /\ Asks' /\ ~staleLogin'
    <2>1. Asks /\ ~staleLogin'
      BY <1>3 DEF AllInv, LoginInv
    <2>2. AtRelay(s)' /\ Heard(s)'
      BY DEF AtRelay, Heard
    <2>3. ASSUME ~asking' PROVE Asks'
      BY <2>3 DEF Asks
    <2>4. ASSUME asking' PROVE Asks'
      <3>1. /\ curConn # 0 /\ conn[curConn].hash = conn[curConn].ws
            /\ \A t \in Sess : sess[t].pc \in Running /\ sess[t].conn = curConn
                                 => sess[t].pc \in {"loop", "unzip"}
        BY <2>1, <2>4 DEF Asks
      <3>2. KeepsConn(curConn)
        BY <1>2, <2>4, <3>1, Current
      <3>3. ASSUME NEW t \in Sess, sess'[t].pc \in Running, sess'[t].conn = curConn
            PROVE  sess'[t].pc \in {"loop", "unzip"}
        <4>1. t # s BY <3>3 DEF Running, Starting
        <4>2. sess'[t].conn = sess[t].conn BY <3>3 DEF Good, Calm
        <4>3. QED BY <3>1, <3>3, <4>1, <4>2
      <3>4. QED BY <1>2, <3>1, <3>2, <3>3 DEF Asks, KeepsConn
    <2>5. QED BY <2>1, <2>2, <2>3, <2>4
  <1>4. QED BY <1>1, <1>3, LoginStep

LEMMA LoginOver ==
  ASSUME AllInv, NEW s \in Sess, Good(s), sess[s].pc \in Running,
         NEW end \in Ends, NEW cn \in ConnFs, NEW k \in SockFs, Over(s, end, cn, k), Tame(sock, k),
         \A d \in Conns : /\ cn[d].ws = conn[d].ws
                          /\ cn[d].hash = conn[d].hash \/ (d = sess[s].conn /\ ~asking'),
         asking' => asking, ~strayDialog => staleLogin' = staleLogin
  PROVE  LoginInv'
  <1>1. /\ sess[s].conn \in Conns /\ sess \in SessFs /\ sess[s] \in SessType
    BY Pointers DEF AllInv
  <1>2. sess' = [sess EXCEPT ![s] = Ended(sess[s], end)]
    BY DEF Over
  <1>3. Ended(sess[s], end).pc = "done"
    BY <1>1, EndedType
  <1>4. sess'[s].pc = "done" /\ \A t \in Sess \ {s} : sess'[t] = sess[t]
    BY <1>1, <1>2, <1>3 DEF SessFs
  <1>5. Tame(sock, sock')
    <2>1. sock' = k \/ sock' = Left(s, k)
      BY DEF Over
    <2>2. Tame(k, Left(s, k))
      BY GarbageTame
    <2>3. QED BY <2>1, <2>2, TameTrans
  <1>6. ASSUME NEW d \in Conns
        PROVE  \/ KeepsConn(d)
               \/ /\ d = sess[s].conn /\ conn'[d].ws \in {conn[d].ws, NoWs}
                  /\ asking' => d # curConn
    <2>1. \/ conn' = cn
          \/ sess[s].conn # curConn /\ conn' = [cn EXCEPT ![sess[s].conn] = NoConn]
      BY DEF Over
    <2>2. CASE conn' = cn
      BY <2>2 DEF KeepsConn
    <2>3. CASE sess[s].conn # curConn /\ conn' = [cn EXCEPT ![sess[s].conn] = NoConn]
      <3>1. CASE d = sess[s].conn
        <4>1. conn'[d] = NoConn BY <2>3, <3>1 DEF ConnFs
        <4>2. conn'[d].ws = NoWs BY <4>1 DEF NoConn
        <4>3. QED BY <2>3, <3>1, <4>2
      <3>2. CASE d # sess[s].conn
        <4>1. conn'[d] = cn[d] BY <2>3, <3>2 DEF ConnFs
        <4>2. QED BY <3>2, <4>1 DEF KeepsConn
      <3>3. QED BY <3>1, <3>2
    <2>4. QED BY <2>1, <2>2, <2>3
  <1>7. QED BY <1>4, <1>5, <1>6, LoginEnds

\* Nothing is said at the end, or a message that replaces what was asked.
LEMMA LoginOverNow ==
  ASSUME AllInv, NEW s \in Sess, Good(s), sess[s].pc \in Running, staleLogin' = staleLogin,
         NEW k \in SockFs, Tame(sock, k),
         \/ \E retry : Throws(s, conn, k, retry)
         \/ \E end \in Ends : Over(s, end, conn, k) /\ ShowsNothing
  PROVE  LoginInv'
  <1>1. conn \in ConnFs
    BY Current DEF AllInv
  <1>2. CASE \E retry : Throws(s, conn, k, retry)
    <2>1. PICK retry : Over(s, "shown", conn, k) /\ Shows(s, "message", retry)
      BY <1>2 DEF Throws
    <2>2. "shown" \in Ends /\ (asking' => asking)
      BY <2>1 DEF Ends, Shows
    <2>3. QED BY <1>1, <2>1, <2>2, LoginOver
  <1>3. CASE \E end \in Ends : Over(s, end, conn, k) /\ ShowsNothing
    <2>1. PICK end \in Ends : Over(s, end, conn, k) /\ ShowsNothing
      BY <1>3
    <2>2. asking' => asking
      BY <2>1 DEF ShowsNothing
    <2>3. QED BY <1>1, <2>1, <2>2, LoginOver
  <1>4. QED BY <1>2, <1>3

\* A session that starts leaves alone what the user is asked.
LEMMA AsksStarting ==
  ASSUME AllInv, NEW s \in Sess, Good(s), sess[s].pc \in {"idOpen", "idAnswer", "relayOpen"},
         ~strayDialog, asking' = asking, \A t \in Sess \ {s} : sess'[t] = sess[t],
         \A d \in Conns : KeepsConn(d) \/ d = sess[s].conn
  PROVE  Asks'
  <1>1. ASSUME asking PROVE Asks'
    <2>1. /\ curConn # 0 /\ conn[curConn].hash = conn[curConn].ws
          /\ \A t \in Sess : sess[t].pc \in Running /\ sess[t].conn = curConn
                               => sess[t].pc \in {"loop", "unzip"}
      BY <1>1 DEF Asks, AllInv, LoginInv
    <2>2. sess[s].conn # curConn /\ sess[s].pc \in Running
      BY <2>1 DEF Running, Starting
    <2>3. sess'[s].pc \in Running => sess'[s].conn = sess[s].conn
      BY DEF Good, Calm
    <2>4. KeepsConn(curConn)
      BY <2>1, <2>2, Current DEF AllInv
    <2>5. curConn' = curConn
      BY DEF Good, Calm, Settled
    <2>6. ASSUME NEW t \in Sess, sess'[t].pc \in Running, sess'[t].conn = curConn
          PROVE  sess'[t].pc \in {"loop", "unzip"}
      <3>1. CASE t = s BY <2>2, <2>3, <2>5, <2>6, <3>1
      <3>2. CASE t # s BY <2>1, <2>6, <3>2
      <3>3. QED BY <3>1, <3>2
    <2>7. QED BY <2>1, <2>4, <2>5, <2>6 DEF Asks, KeepsConn
  <1>2. ASSUME ~asking PROVE Asks'
    BY <1>2 DEF Asks
  <1>3. QED BY <1>1, <1>2

-----------------------------------------------------------------------------
(* Logins and challenges: the sockets and the servers                      *)

LEMMA IdSocketOpensLogin ==
  ASSUME AllInv, NEW s \in Sess, IdSocketOpens(s)
  PROVE  LoginInv'
  <1>1. Good(s) /\ TInv
    BY IdSocketOpensGood DEF AllInv
  <1>2. PICK w \in Ws : w = <<s, "id">>
    BY RelayIsWs
  <1>3. sock[w] \in SockType /\ sock \in SockFs /\ sess \in SessFs
    BY <1>1, Pointers DEF SockFs
  <1>4. PICK x : x = [sock[w] EXCEPT !.ready = "open", !.status = "open",
                          !.stage = IF sess[s].pc = "idOpen" THEN "paired" ELSE @]
    OBVIOUS
  <1>5. x \in SockType /\ x.buf = sock[w].buf /\ (x.stage = sock[w].stage \/ x.stage = "paired")
    BY ONLY <1>3, <1>4 DEF SockType
  <1>6. sock' = [sock EXCEPT ![w] = x]
    BY <1>2, <1>4 DEF IdSocketOpens
  <1>7. Tame(sock, sock')
    BY <1>3, <1>5, <1>6, OpenedTame
  <1>8. UNCHANGED <<conn, asking, staleLogin>>
    BY DEF IdSocketOpens
  <1>9. CASE sess[s].pc # "idOpen"
    <2>1. sess' = sess BY <1>9 DEF IdSocketOpens
    <2>2. QED BY <1>1, <1>7, <1>8, <2>1, LoginStill
  <1>10. CASE sess[s].pc = "idOpen"
    <2>1. sess' = [sess EXCEPT ![s].pc = "idAnswer", ![s].waits = <<s, "id">>]
      BY <1>10 DEF IdSocketOpens
    <2>2. sess[s] \in SessType BY <1>1, Pointers
    <2>3. sess'[s].pc = "idAnswer" /\ \A t \in Sess \ {s} : sess'[t] = sess[t]
      BY <1>3, <2>1, <2>2 DEF SessFs, SessType
    <2>4. \A d \in Conns : KeepsConn(d) BY <1>8 DEF KeepsConn
    <2>5. ASSUME NEW t \in Sess, Answered(sock', <<t, "relay">>)
          PROVE  Answered(sock, <<t, "relay">>)
      BY <1>7, <2>5, RelayIsWs DEF Tame
    <2>6. AtRelay(s)' /\ Heard(s)'
      BY <2>3 DEF AtRelay, Heard
    <2>7. ASSUME ~strayDialog, ~strayDialog' PROVE Asks' /\ ~staleLogin'
      BY <1>1, <1>8, <1>10, <2>3, <2>4, <2>7, AsksStarting DEF AllInv, LoginInv
    <2>8. QED BY <1>1, <2>3, <2>4, <2>5, <2>6, <2>7, LoginStep
  <1>11. QED BY <1>9, <1>10

LEMMA RelaySocketOpensLogin ==
  ASSUME AllInv, NEW s \in Sess, RelaySocketOpens(s)
  PROVE  LoginInv'
  <1>1. Good(s) /\ TInv
    BY RelaySocketOpensGood DEF AllInv
  <1>2. PICK w \in Ws : w = <<s, "relay">>
    BY RelayIsWs
  <1>3. sock \in SockFs /\ sess \in SessFs /\ conn \in ConnFs /\ sess[s] \in SessType
    BY <1>1, Pointers
  <1>4. /\ sess[s].pc = "relayOpen" /\ sess[s].pc \in Running
        /\ UNCHANGED <<asking, staleLogin>>
        /\ conn' = [conn EXCEPT ![sess[s].conn].ws = w]
    BY <1>2 DEF RelaySocketOpens, Running, Starting
  <1>5. sess[s].conn \in Conns /\ conn[sess[s].conn] \in ConnType
    BY <1>1, <1>4, Pointers
  <1>6. PICK k \in SockFs : k = Left(s, sock)
    BY <1>3, LeftType
  <1>7. PICK x : x = [k[w] EXCEPT !.ready = "open", !.status = "open", !.stage = "paired"]
    OBVIOUS
  <1>8. k[w] \in SockType
    BY DEF SockFs
  <1>9. x \in SockType /\ x.buf = k[w].buf /\ x.stage = "paired"
    BY ONLY <1>7, <1>8 DEF SockType
  <1>10. PICK opened \in SockFs : opened = [k EXCEPT ![w] = x]
    BY <1>9, OneSocket
  <1>11. opened = [Left(s, sock) EXCEPT ![w].ready = "open", ![w].status = "open",
                                        ![w].stage = "paired"]
    BY <1>6, <1>7, <1>10
  <1>12. Tame(sock, opened)
    <2>1. Tame(sock, k) BY <1>3, <1>6, GarbageTame
    <2>2. Tame(k, opened) BY <1>9, <1>10, OpenedTame
    <2>3. QED BY <2>1, <2>2, TameTrans
  <1>13. sock' = opened \/ sock' = SendPublicKey(opened, w, 0)
    BY <1>2, <1>11 DEF RelaySocketOpens
  <1>14. Tame(sock, sock')
    <2>1. Tame(opened, SendPublicKey(opened, w, 0)) BY SendPublicKeyTame DEF AnyWs
    <2>2. QED BY <1>12, <1>13, <2>1, TameTrans
  <1>15. ASSUME NEW t \in Sess, Answered(sock', <<t, "relay">>)
         PROVE  Answered(sock, <<t, "relay">>)
    BY <1>14, <1>15, RelayIsWs DEF Tame
  <1>16. ASSUME NEW d \in Conns, d # sess[s].conn PROVE KeepsConn(d)
    BY <1>3, <1>4, <1>16 DEF KeepsConn, ConnFs
  <1>17. conn'[sess[s].conn].ws = w /\ conn'[sess[s].conn].hash = conn[sess[s].conn].hash
    BY <1>3, <1>4, <1>5 DEF ConnFs, ConnType
  <1>18. /\ \A t \in Sess \ {s} : sess'[t] = sess[t]
         /\ \/ sess'[s].pc = "verify"
            \/ sess'[s].pc = "loop" /\ sess'[s].waits = w
    <2>1. \/ sess' = [sess EXCEPT ![s].pc = "verify"]
          \/ sess' = [sess EXCEPT ![s].pc = "loop", ![s].waits = w]
      BY <1>2 DEF RelaySocketOpens
    <2>2. CASE sess' = [sess EXCEPT ![s].pc = "verify"]
      BY <1>3, <2>2 DEF SessFs, SessType
    <2>3. CASE sess' = [sess EXCEPT ![s].pc = "loop", ![s].waits = w]
      BY <1>3, <2>3 DEF SessFs, SessType
    <2>4. QED BY <2>1, <2>2, <2>3
  <1>19. sess'[s].conn = sess[s].conn
    BY <1>1, <1>18 DEF Good, Calm, Running, Starting
  <1>20. ASSUME ~strayDialog, ~strayDialog'
         PROVE  AtRelay(s)' /\ Heard(s)' /\ Asks' /\ ~staleLogin'
    <2>1. Heard(s) /\ ~staleLogin'
      BY <1>4, <1>20 DEF AllInv, LoginInv
    <2>2. AtRelay(s)'
      BY <1>2, <1>17, <1>18, <1>19 DEF AtRelay
    <2>3. Heard(s)'
      BY <1>4, <1>15, <1>17, <1>19, <2>1 DEF Heard
    <2>4. Asks'
      BY <1>1, <1>4, <1>16, <1>18, <1>20, AsksStarting
    <2>5. QED BY <2>1, <2>2, <2>3, <2>4
  <1>21. QED BY <1>1, <1>2, <1>4, <1>15, <1>16, <1>17, <1>18, <1>20, LoginStep

LEMMA SocketFailsLogin ==
  ASSUME AllInv, NEW s \in Sess, NEW kind \in {"id", "relay"}, SocketFails(s, kind)
  PROVE  LoginInv'
  <1>1. Good(s) /\ TInv
    BY SocketFailsGood DEF AllInv
  <1>2. PICK w \in Ws : w = <<s, kind>>
    BY DEF Ws
  <1>3. PICK closed \in SockFs : closed = Down(sock, w, "closed", "close")
    BY <1>1, Pointers, DownType DEF AnyWs
  <1>4. Tame(sock, closed)
    BY <1>1, <1>3, Pointers, DownTame DEF AnyWs
  <1>5. staleLogin' = staleLogin
    BY DEF SocketFails
  <1>6. CASE sess[s].pc = (IF kind = "id" THEN "idOpen" ELSE "relayOpen")
    <2>1. Throws(s, conn, closed, FALSE)
      BY <1>2, <1>3, <1>6 DEF SocketFails
    <2>2. sess[s].pc \in Running
      BY <1>6 DEF Running, Starting
    <2>3. QED BY <1>1, <1>4, <1>5, <2>1, <2>2, LoginOverNow
  <1>7. CASE sess[s].pc # (IF kind = "id" THEN "idOpen" ELSE "relayOpen")
    <2>1. ShowsNothing /\ sock' = closed /\ UNCHANGED <<conn, sess>>
      BY <1>2, <1>3, <1>7 DEF SocketFails
    <2>2. QED BY <1>1, <1>4, <1>5, <2>1, LoginStill DEF ShowsNothing
  <1>8. QED BY <1>6, <1>7

LEMMA SocketClosesLogin ==
  ASSUME AllInv, NEW s \in Sess, NEW kind \in {"id", "relay"}, SocketCloses(s, kind)
  PROVE  LoginInv'
  <1>1. Good(s) /\ TInv
    BY SocketClosesGood DEF AllInv
  <1>2. PICK w \in Ws : w = <<s, kind>>
    BY DEF Ws
  <1>3. sock' = Down(sock, w, "closed", "close") /\ UNCHANGED <<sess, conn, asking, staleLogin>>
    BY <1>2 DEF SocketCloses
  <1>4. Tame(sock, sock')
    BY <1>1, <1>3, Pointers, DownTame DEF AnyWs
  <1>5. QED BY <1>1, <1>3, <1>4, LoginStill

LEMMA AnswerArrivesLogin ==
  ASSUME AllInv, NEW s \in Sess, NEW m \in IdAnswers, AnswerArrives(s, m)
  PROVE  LoginInv'
  <1>1. Good(s) /\ TInv
    BY AnswerArrivesGood DEF AllInv
  <1>2. PICK w \in Ws : w = <<s, "id">>
    BY RelayIsWs
  <1>3. sock[w] \in SockType /\ sock \in SockFs
    BY <1>1, Pointers DEF SockFs
  <1>4. PICK b \in Texts : b = Append(sock[w].buf, m)
    BY <1>3, AppendProperties DEF SockType, Texts
  <1>5. PICK x : x = [sock[w] EXCEPT !.buf = b, !.stage = "in"]
    OBVIOUS
  <1>6. x \in SockType /\ x.buf = b /\ x.stage = "in"
    BY ONLY <1>3, <1>5, b \in Texts DEF SockType, Texts
  <1>7. sock' = [sock EXCEPT ![w] = x]
    BY <1>2, <1>3, <1>4, <1>5 DEF AnswerArrives
  <1>8. m # "wrong_password"
    BY DEF IdAnswers
  <1>9. Tame(sock, sock')
    BY <1>3, <1>4, <1>6, <1>7, <1>8, ArrivalTame
  <1>10. UNCHANGED <<sess, conn, asking, staleLogin>>
    BY DEF AnswerArrives
  <1>11. QED BY <1>1, <1>9, <1>10, LoginStill

LEMMA PeerMessageArrivesLogin ==
  ASSUME AllInv, NEW s \in Sess, NEW m \in PeerMessages, PeerMessageArrives(s, m)
  PROVE  LoginInv'
  <1>1. Good(s) /\ TInv
    BY PeerMessageArrivesGood DEF AllInv
  <1>2. PICK w \in Ws : w = <<s, "relay">>
    BY RelayIsWs
  <1>3. sock[w] \in SockType /\ sock \in SockFs
    BY <1>1, Pointers DEF SockFs
  <1>4. PICK to \in PeerStep(sock[w].stage, m, sock[w].pkey # -1) :
          sock' = [sock EXCEPT ![w].stage = to,
                               ![w].buf = IF InStep(sock, w) THEN Append(@, m) ELSE @]
    BY <1>2 DEF PeerMessageArrives
  <1>5. sock[w].stage \in Stages /\ sock[w].buf \in Texts
    BY <1>3 DEF SockType, Stages, Texts
  <1>6. /\ to \in Stages /\ (to = "asked" => sock[w].stage = "asked")
        /\ m = "wrong_password" => sock[w].stage = "asked"
    BY <1>4, <1>5 DEF PeerStep, PeerMessages, Stages
  <1>7. PICK b \in Texts : b = IF InStep(sock, w) THEN Append(sock[w].buf, m) ELSE sock[w].buf
    BY <1>5, AppendProperties DEF Texts
  <1>8. PICK x : x = [sock[w] EXCEPT !.stage = to, !.buf = b]
    OBVIOUS
  <1>9. x \in SockType /\ x.stage = to /\ x.buf = b
    BY ONLY <1>3, <1>6, <1>8, b \in Texts DEF SockType, Texts, Stages
  <1>10. sock' = [sock EXCEPT ![w] = x]
    BY <1>3, <1>4, <1>7, <1>8
  <1>11. Tame(sock, sock')
    BY <1>3, <1>6, <1>7, <1>9, <1>10, ArrivalTame
  <1>12. UNCHANGED <<sess, conn, asking, staleLogin>>
    BY DEF PeerMessageArrives
  <1>13. QED BY <1>1, <1>11, <1>12, LoginStill

-----------------------------------------------------------------------------
(* Logins and challenges: the sessions                                     *)

LEMMA OpenTimesOutLogin ==
  ASSUME AllInv, NEW s \in Sess, OpenTimesOut(s)
  PROVE  LoginInv'
  <1>1. Good(s) /\ TInv
    BY OpenTimesOutGood DEF AllInv
  <1>2. sess[s].pc \in Running /\ sess[s] \in SessType /\ sess \in SessFs /\ sock \in SockFs
    BY <1>1, Pointers DEF OpenTimesOut, Running, Starting
  <1>3. PICK e \in SessType : e = Ended(sess[s], "shown")
    BY <1>2, EndedType DEF Ends
  <1>4. e.pc = "done"
    BY <1>2, <1>3, EndedType DEF Ends
  <1>5. PICK r : r = [e EXCEPT !.gaveUp = sess[s].pc = "relayOpen"]
    OBVIOUS
  <1>6. r.pc = "done"
    BY <1>4, <1>5 DEF SessType
  <1>7. sess' = [sess EXCEPT ![s] = r]
    BY <1>3, <1>5 DEF OpenTimesOut
  <1>8. sess'[s].pc = "done" /\ \A t \in Sess \ {s} : sess'[t] = sess[t]
    BY <1>2, <1>6, <1>7 DEF SessFs
  <1>9. Tame(sock, sock')
    <2>1. sock' = sock \/ sock' = Left(s, sock) BY DEF OpenTimesOut
    <2>2. Tame(sock, sock) BY DEF Tame
    <2>3. QED BY <1>2, <2>1, <2>2, GarbageTame
  <1>10. /\ \A d \in Conns : KeepsConn(d)
         /\ ~asking' /\ staleLogin' = staleLogin
    BY DEF OpenTimesOut, KeepsConn, Shows
  <1>11. QED BY <1>1, <1>2, <1>8, <1>9, <1>10, LoginEnds

LEMMA NextRejectsLogin ==
  ASSUME AllInv, NEW s \in Sess, NextRejects(s)
  PROVE  LoginInv'
  <1>1. Good(s) /\ TInv
    BY NextRejectsGood DEF AllInv
  <1>2. sess[s].pc \in Running /\ sock \in SockFs /\ staleLogin' = staleLogin
    BY <1>1, Pointers DEF NextRejects, Polls
  <1>3. Tame(sock, sock)
    BY DEF Tame
  <1>4. \/ Throws(s, conn, sock, TRUE)
        \/ "hidden" \in Ends /\ Over(s, "hidden", conn, sock) /\ ShowsNothing
    BY DEF NextRejects, Ends
  <1>5. QED BY <1>1, <1>2, <1>3, <1>4, LoginOverNow

LEMMA AnswerReadLogin ==
  ASSUME AllInv, NEW s \in Sess, AnswerRead(s)
  PROVE  LoginInv'
  <1>1. Good(s) /\ TInv
    BY AnswerReadGood DEF AllInv
  <1>2. /\ sess[s].pc = "idAnswer" /\ sess[s].pc \in Running /\ sess[s] \in SessType
        /\ sess[s].waits \in AnyWs /\ sess \in SessFs /\ Inbox(s) # <<>>
        /\ staleLogin' = staleLogin
    BY <1>1, Pointers DEF AnswerRead, Running, Starting
  <1>3. PICK w \in AnyWs : w = sess[s].waits
    BY <1>2
  <1>4. PICK p \in SockFs : p = Popped(s) /\ Tame(sock, p)
    BY <1>1, <1>2, PoppedType, PoppedTame
  <1>5. PICK k \in SockFs : k = CloseWs(p, w) /\ Tame(sock, k)
    BY <1>4, CloseWsType, CloseWsTame, TameTrans
  <1>6. PICK m : m = Head(Inbox(s))
    OBVIOUS
  <1>7. CASE m \in {"relay_pk", "relay"}
    <2>1. /\ sess' = [sess EXCEPT ![s].pc = "relayOpen", ![s].waits = NoWs,
                                    ![s].pk = (m = "relay_pk")]
          /\ sock' = [k EXCEPT ![<<s, "relay">>] = [NoSock EXCEPT !.ready = "connecting"]]
          /\ ShowsNothing /\ UNCHANGED conn
      BY <1>3, <1>4, <1>5, <1>6, <1>7 DEF AnswerRead
    <2>2. sess'[s].pc = "relayOpen" /\ \A t \in Sess \ {s} : sess'[t] = sess[t]
      BY <1>2, <2>1 DEF SessFs, SessType
    <2>3. Tame(sock, sock')
      BY <1>5, <2>1, FreshTame, TameTrans
    <2>4. ASSUME NEW t \in Sess, Answered(sock', <<t, "relay">>)
          PROVE  Answered(sock, <<t, "relay">>)
      BY <2>3, <2>4, RelayIsWs DEF Tame
    <2>5. ~Answered(sock', <<s, "relay">>)
      <3>1. PICK x : x = [NoSock EXCEPT !.ready = "connecting"] OBVIOUS
      <3>2. x.stage = "none" /\ x.buf = <<>> BY <3>1 DEF NoSock
      <3>3. sock'[<<s, "relay">>] = x BY <2>1, <3>1, RelayIsWs DEF SockFs
      <3>4. QED BY <3>2, <3>3 DEF Answered
    <2>6. AtRelay(s)' /\ Heard(s)'
      BY <2>2, <2>5 DEF AtRelay, Heard
    <2>7. \A d \in Conns : KeepsConn(d)
      BY <2>1 DEF KeepsConn
    <2>8. ASSUME ~strayDialog, ~strayDialog' PROVE Asks' /\ ~staleLogin'
      <3>1. asking' = asking BY <2>1 DEF ShowsNothing
      <3>2. ~staleLogin BY <2>8 DEF AllInv, LoginInv
      <3>3. QED BY <1>1, <1>2, <2>2, <2>7, <2>8, <3>1, <3>2, AsksStarting
    <2>9. QED BY <1>1, <2>2, <2>4, <2>6, <2>7, <2>8, LoginStep
  <1>8. CASE m = "refused"
    <2>1. Throws(s, conn, k, FALSE)
      BY <1>3, <1>4, <1>5, <1>6, <1>8 DEF AnswerRead
    <2>2. QED BY <1>1, <1>2, <1>5, <2>1, LoginOverNow
  <1>9. CASE m \notin {"relay_pk", "relay", "refused"}
    <2>1. "silent" \in Ends /\ Over(s, "silent", conn, k) /\ ShowsNothing
      BY <1>3, <1>4, <1>5, <1>6, <1>9 DEF AnswerRead, Ends
    <2>2. QED BY <1>1, <1>2, <1>5, <2>1, LoginOverNow
  <1>10. QED BY <1>7, <1>8, <1>9

\* The fields of the session that enters the loop, or awaits the signed id.
LEMMA LoopFields ==
  ASSUME TInv, NEW s \in Sess, NEW w, 
         \/ sess' = [sess EXCEPT ![s].pc = "loop", ![s].waits = w]
         \/ sess' = [sess EXCEPT ![s].pc = "loop", ![s].pk = FALSE, ![s].waits = w]
         \/ \E fits \in BOOLEAN :
              sess' = [sess EXCEPT ![s].pc = "loop", ![s].pk = FALSE, ![s].waits = w,
                                   ![s].secure = fits]
  PROVE  /\ sess'[s].pc = "loop" /\ sess'[s].waits = w
         /\ \A t \in Sess \ {s} : sess'[t] = sess[t]
  <1>1. sess[s] \in SessType /\ sess \in SessFs
    BY Pointers
  <1>2. CASE sess' = [sess EXCEPT ![s].pc = "loop", ![s].waits = w]
    BY <1>1, <1>2 DEF SessFs, SessType
  <1>3. CASE sess' = [sess EXCEPT ![s].pc = "loop", ![s].pk = FALSE, ![s].waits = w]
    BY <1>1, <1>3 DEF SessFs, SessType
  <1>4. CASE \E fits \in BOOLEAN :
              sess' = [sess EXCEPT ![s].pc = "loop", ![s].pk = FALSE, ![s].waits = w,
                                   ![s].secure = fits]
    <2>1. PICK fits \in BOOLEAN :
            sess' = [sess EXCEPT ![s].pc = "loop", ![s].pk = FALSE, ![s].waits = w,
                                 ![s].secure = fits]
      BY <1>4
    <2>2. PICK r : r = [sess[s] EXCEPT !.pc = "loop", !.pk = FALSE, !.waits = w, !.secure = fits]
      OBVIOUS
    <2>3. r.pc = "loop" /\ r.waits = w
      BY ONLY <1>1, <2>2 DEF SessType
    <2>4. sess' = [sess EXCEPT ![s] = r]
      BY <2>1, <2>2
    <2>5. QED BY <1>1, <2>3, <2>4 DEF SessFs
  <1>5. QED BY <1>2, <1>3, <1>4

LEMMA KeyVerifiedLogin ==
  ASSUME AllInv, NEW s \in Sess, KeyVerified(s)
  PROVE  LoginInv'
  <1>1. Good(s) /\ TInv
    BY KeyVerifiedGood DEF AllInv
  <1>2. /\ sess[s].pc = "verify" /\ sess[s].pc \in Running /\ sock \in SockFs
        /\ sess \in SessFs /\ sess[s] \in SessType /\ staleLogin' = staleLogin
    BY <1>1, Pointers DEF KeyVerified, Running, Starting
  <1>3. PICK w \in AnyWs : w = conn[sess[s].conn].ws
    BY <1>1, <1>2, Pointers
  <1>4. Tame(sock, sock) /\ Tame(sock, SendPublicKey(sock, w, 0))
    BY <1>2, SendPublicKeyTame DEF Tame
  <1>5. CASE \E retry : Throws(s, conn, sock, retry)
    BY <1>1, <1>2, <1>4, <1>5, LoginOverNow
  <1>6. CASE /\ ShowsNothing /\ UNCHANGED conn
             /\ \/ sess' = [sess EXCEPT ![s].pc = "signed", ![s].waits = w] /\ sock' = sock
                \/ /\ sess' = [sess EXCEPT ![s].pc = "loop", ![s].pk = FALSE, ![s].waits = w]
                   /\ sock' = SendPublicKey(sock, w, 0)
    <2>1. /\ sess'[s].pc \in {"signed", "loop"} /\ sess'[s].waits = w
          /\ \A t \in Sess \ {s} : sess'[t] = sess[t]
      <3>1. CASE sess' = [sess EXCEPT ![s].pc = "signed", ![s].waits = w]
        BY <1>2, <3>1 DEF SessFs, SessType
      <3>2. CASE sess' = [sess EXCEPT ![s].pc = "loop", ![s].pk = FALSE, ![s].waits = w]
        BY <1>1, <3>2, LoopFields
      <3>3. QED BY <1>6, <3>1, <3>2
    <2>2. Tame(sock, sock')
      BY <1>4, <1>6
    <2>3. (\A d \in Conns : KeepsConn(d)) /\ (asking' => asking)
      BY <1>6 DEF KeepsConn, ShowsNothing
    <2>4. QED BY <1>1, <1>2, <1>3, <2>1, <2>2, <2>3, LoginMoves
  <1>7. \/ /\ sess' = [sess EXCEPT ![s].pc = "signed", ![s].waits = w]
           /\ ShowsNothing /\ UNCHANGED <<conn, sock>>
        \/ \E retry \in BOOLEAN : Throws(s, conn, sock, retry)
        \/ /\ ShowsNothing /\ UNCHANGED conn
           /\ sess' = [sess EXCEPT ![s].pc = "loop", ![s].pk = FALSE, ![s].waits = w]
           /\ sock' = SendPublicKey(sock, w, 0)
    BY <1>3 DEF KeyVerified
  <1>8. QED BY <1>5, <1>6, <1>7

LEMMA SignedIdReadLogin ==
  ASSUME AllInv, NEW s \in Sess, SignedIdRead(s)
  PROVE  LoginInv'
  <1>1. Good(s) /\ TInv
    BY SignedIdReadGood DEF AllInv
  <1>2. /\ sess[s].pc = "signed" /\ sess[s].pc \in Running /\ staleLogin' = staleLogin
        /\ Inbox(s) # <<>>
    BY DEF SignedIdRead, Running, Starting
  <1>3. PICK w \in AnyWs : w = conn[sess[s].conn].ws
    BY <1>1, <1>2, Pointers
  <1>4. PICK k \in SockFs : k = Popped(s) /\ Tame(sock, k)
    BY <1>1, <1>2, PoppedType, PoppedTame
  <1>5. CASE \E retry : Throws(s, conn, k, retry)
    BY <1>1, <1>2, <1>4, <1>5, LoginOverNow
  <1>6. CASE /\ ShowsNothing /\ UNCHANGED conn
             /\ \E fits \in BOOLEAN :
                  /\ sess' = [sess EXCEPT ![s].pc = "loop", ![s].pk = FALSE, ![s].waits = w,
                                          ![s].secure = fits]
                  /\ sock' = IF fits THEN Secured(k, w, s) ELSE SendPublicKey(k, w, 0)
    <2>1. /\ sess'[s].pc = "loop" /\ sess'[s].waits = w
          /\ \A t \in Sess \ {s} : sess'[t] = sess[t]
      BY <1>1, <1>6, LoopFields
    <2>2. Tame(sock, sock')
      <3>1. Tame(k, Secured(k, w, s)) /\ Tame(k, SendPublicKey(k, w, 0))
        BY SecuredTame, SendPublicKeyTame
      <3>2. QED BY <1>4, <1>6, <3>1, TameTrans
    <2>3. (\A d \in Conns : KeepsConn(d)) /\ (asking' => asking)
      BY <1>6 DEF KeepsConn, ShowsNothing
    <2>4. QED BY <1>1, <1>2, <1>3, <2>1, <2>2, <2>3, LoginMoves
  <1>7. QED BY <1>3, <1>4, <1>5, <1>6 DEF SignedIdRead

\* A refusal at the head of what session s reads means that it was answered.
LEMMA RefusalIsAnswer ==
  ASSUME TInv, NEW s \in Sess, Inbox(s) # <<>>, Head(Inbox(s)) = "wrong_password",
         sess[s].waits = <<s, "relay">>
  PROVE  Answered(sock, <<s, "relay">>)
  <1>1. PICK w \in Ws : w = <<s, "relay">>
    BY RelayIsWs
  <1>2. PICK b \in Texts : b = sock[w].buf
    <2>1. sock[w] \in SockType BY Pointers DEF SockFs
    <2>2. QED BY <2>1 DEF SockType, Texts
  <1>3. b # <<>> /\ Head(b) = "wrong_password"
    BY <1>1, <1>2 DEF Inbox
  <1>4. 1 \in 1..Len(b) /\ b[1] = "wrong_password"
    BY <1>3 DEF Texts
  <1>5. QED BY <1>1, <1>2, <1>4 DEF Answered

LEMMA HashReadLogin ==
  ASSUME AllInv, NEW s \in Sess, sess[s].pc = "loop", Inbox(s) # <<>>, HashRead(s)
  PROVE  LoginInv'
  <1>1. Good(s) /\ TInv
    BY HashReadGood DEF AllInv
  <1>2. /\ sess[s].pc \in Running /\ conn \in ConnFs /\ sess \in SessFs
        /\ sess[s].conn \in Conns /\ sess[s].waits \in AnyWs
    BY <1>1, Pointers DEF Running, Starting
  <1>3. PICK c \in Conns : c = sess[s].conn
    BY <1>2
  <1>4. PICK w \in AnyWs : w = conn[c].ws
    BY <1>1, <1>2, <1>3, Pointers
  <1>5. PICK k \in SockFs : k = Popped(s) /\ Tame(sock, k)
    BY <1>1, PoppedType, PoppedTame
  <1>6. PICK has \in {TRUE, conn[c].pw} :
          /\ IF SendThrows(w)
             THEN \E retry \in BOOLEAN : Throws(s, Challenged(c, sess[s].waits, has), k, retry)
             ELSE /\ sess' = Loops(s) /\ sock' = SendLogin(k, w)
                  /\ conn' = Challenged(c, sess[s].waits, has)
                  /\ IF has THEN ShowsNothing ELSE Shows(s, "password", FALSE)
          /\ staleLogin' = (staleLogin \/ (has /\ GoesStale(w, sess[s].waits)))
    BY <1>3, <1>4, <1>5 DEF HashRead
  <1>7. conn[c] \in ConnType /\ has \in BOOLEAN
    BY <1>2, <1>6 DEF ConnFs, ConnType
  <1>8. PICK cn \in ConnFs :
          /\ cn = Challenged(c, sess[s].waits, has)
          /\ cn[c].ws = conn[c].ws /\ cn[c].hash = sess[s].waits
          /\ \A d \in Conns \ {c} : cn[d] = conn[d]
    <2>1. PICK h \in AnyWs : h = sess[s].waits
      BY <1>2
    <2>2. PICK q : q = [conn[c] EXCEPT !.hash = h, !.pw = has]
      OBVIOUS
    <2>3. q \in ConnType /\ q.ws = conn[c].ws /\ q.hash = h
      BY ONLY <1>7, <2>2, h \in AnyWs DEF ConnType, AnyWs
    <2>4. Challenged(c, sess[s].waits, has) = [conn EXCEPT ![c] = q]
      BY <1>2, <2>1, <2>2 DEF Challenged
    <2>5. PICK cn : cn = [conn EXCEPT ![c] = q]
      OBVIOUS
    <2>6. cn \in ConnFs /\ cn[c] = q /\ \A d \in Conns \ {c} : cn[d] = conn[d]
      BY <1>2, <2>3, <2>5 DEF ConnFs
    <2>7. QED BY <2>1, <2>3, <2>4, <2>5, <2>6
  <1>9. ASSUME ~strayDialog
        PROVE  /\ sess[s].waits = <<s, "relay">> /\ w = <<s, "relay">>
               /\ staleLogin' = staleLogin /\ ~staleLogin'
    <2>1. AtRelay(s) /\ ~staleLogin
      BY <1>9 DEF AllInv, LoginInv
    <2>2. sess[s].waits = <<s, "relay">> /\ w = <<s, "relay">>
      BY <1>3, <1>4, <2>1 DEF AtRelay
    <2>3. ~GoesStale(w, sess[s].waits)
      BY <2>2 DEF GoesStale
    <2>4. ~staleLogin'
      BY <1>6, <2>1, <2>3
    <2>5. staleLogin \in BOOLEAN /\ staleLogin' \in BOOLEAN
      BY <1>1, Current DEF Good, TInv, TypeOK
    <2>6. QED BY <2>1, <2>2, <2>4, <2>5
  <1>10. CASE SendThrows(w)
    <2>1. PICK retry \in BOOLEAN : Over(s, "shown", cn, k) /\ Shows(s, "message", retry)
      BY <1>6, <1>8, <1>10 DEF Throws
    <2>2. "shown" \in Ends /\ ~asking'
      BY <2>1 DEF Ends, Shows
    <2>3. \A d \in Conns : cn[d].ws = conn[d].ws
                           /\ (cn[d].hash = conn[d].hash \/ (d = sess[s].conn /\ ~asking'))
      BY <1>3, <1>8, <2>2
    <2>4. QED BY <1>1, <1>2, <1>5, <1>9, <2>1, <2>2, <2>3, LoginOver
  <1>11. CASE ~SendThrows(w)
    <2>1. /\ sess' = [sess EXCEPT ![s].pc = "loop", ![s].waits = w]
          /\ conn' = cn /\ sock' = SendLogin(k, w)
          /\ IF has THEN ShowsNothing ELSE Shows(s, "password", FALSE)
      BY <1>3, <1>4, <1>6, <1>8, <1>11 DEF Loops
    <2>2. /\ sess'[s].pc = "loop" /\ sess'[s].waits = w
          /\ \A t \in Sess \ {s} : sess'[t] = sess[t]
      BY <1>1, <2>1, LoopFields
    <2>3. sess'[s].conn = c /\ curConn' = curConn
      BY <1>1, <1>3, <2>2 DEF Good, Calm, Settled, Running, Starting
    <2>4. ASSUME NEW t \in Sess \ {s}, ~strayDialog, Answered(sock', <<t, "relay">>)
          PROVE  Answered(sock, <<t, "relay">>)
      <3>1. <<t, "relay">> # w /\ <<t, "relay">> \in Ws
        <4>1. w = <<s, "relay">> BY <1>9, <2>4
        <4>2. <<t, "relay">>[1] = t /\ <<s, "relay">>[1] = s /\ t # s
          OBVIOUS
        <4>3. QED BY <4>1, <4>2, RelayIsWs
      <3>2. Answered(k, <<t, "relay">>)
        BY <2>1, <2>4, <3>1, SendLoginTame
      <3>3. QED BY <1>5, <3>1, <3>2 DEF Tame
    <2>5. \A d \in Conns : KeepsConn(d) \/ (d = sess[s].conn /\ conn'[d].ws = conn[d].ws)
      BY <1>3, <1>8, <2>1 DEF KeepsConn
    <2>6. ASSUME ~strayDialog, ~strayDialog'
          PROVE  AtRelay(s)' /\ Heard(s)' /\ Asks' /\ ~staleLogin'
      <3>1. AtRelay(s)' /\ Heard(s)'
        <4>1. conn'[c].ws = <<s, "relay">> /\ conn'[c].hash = <<s, "relay">>
          BY <1>4, <1>8, <1>9, <2>1, <2>6
        <4>2. sess'[s].waits = <<s, "relay">> /\ sess'[s].conn = c
          BY <1>9, <2>2, <2>3, <2>6
        <4>3. QED BY <4>1, <4>2 DEF AtRelay, Heard
      <3>2. conn'[c].hash = conn'[c].ws
        BY <1>4, <1>8, <1>9, <2>1, <2>6
      <3>3. ASSUME asking' PROVE c = curConn \/ (c # curConn /\ asking)
        <4>1. CASE has
          BY <2>1, <3>3, <4>1 DEF ShowsNothing
        <4>2. CASE ~has
          <5>1. sess[s].cut = "no"
            BY <2>1, <2>6, <4>2 DEF Shows
          <5>2. QED BY <1>2, <1>3, <5>1 DEF AllInv, OneInv
        <4>3. QED BY <4>1, <4>2
      <3>4. ASSUME asking', c = curConn PROVE Asks'
        <4>1. ASSUME NEW t \in Sess, sess'[t].pc \in Running, sess'[t].conn = curConn
              PROVE  sess'[t].pc \in {"loop", "unzip"}
          <5>1. CASE t = s BY <2>2, <5>1
          <5>2. CASE t # s
            <6>1. sess[t].pc \in Running /\ sess[t].conn = sess[s].conn
              BY <1>3, <2>2, <3>4, <4>1, <5>2
            <6>2. QED BY <1>2, <2>6, <5>2, <6>1 DEF AllInv, OneInv, OneSessionUnlessStray
          <5>3. QED BY <5>1, <5>2
        <4>2. curConn # 0 BY <3>4 DEF Conns
        <4>3. QED BY <2>3, <3>2, <3>4, <4>1, <4>2 DEF Asks
      <3>5. ASSUME asking', c # curConn, asking PROVE Asks'
        <4>1. /\ curConn # 0 /\ conn[curConn].hash = conn[curConn].ws
              /\ \A t \in Sess : sess[t].pc \in Running /\ sess[t].conn = curConn
                                   => sess[t].pc \in {"loop", "unzip"}
          BY <2>6, <3>5 DEF Asks, AllInv, LoginInv
        <4>2. conn'[curConn] = conn[curConn]
          BY <1>1, <1>8, <2>1, <3>5, <4>1, Current
        <4>3. ASSUME NEW t \in Sess, sess'[t].pc \in Running, sess'[t].conn = curConn
              PROVE  sess'[t].pc \in {"loop", "unzip"}
          BY <2>2, <2>3, <3>5, <4>1, <4>3
        <4>4. QED BY <2>3, <4>1, <4>2, <4>3 DEF Asks
      <3>6. ASSUME ~asking' PROVE Asks'
        BY <3>6 DEF Asks
      <3>7. QED BY <1>9, <2>6, <3>1, <3>3, <3>4, <3>5, <3>6
    <2>7. QED BY <1>1, <1>2, <2>2, <2>4, <2>5, <2>6, LoginStep
  <1>12. QED BY <1>10, <1>11

\* One field of connection c that is neither `_ws` nor `_hash` changes.
LEMMA KeepsPw ==
  ASSUME TInv, NEW c \in Conns, NEW b \in BOOLEAN, conn' = [conn EXCEPT ![c].pw = b]
  PROVE  \A d \in Conns : KeepsConn(d)
  <1>1. conn \in ConnFs /\ conn[c] \in ConnType
    BY Current DEF ConnFs
  <1>2. PICK q : q = [conn[c] EXCEPT !.pw = b]
    OBVIOUS
  <1>3. q.ws = conn[c].ws /\ q.hash = conn[c].hash
    BY ONLY <1>1, <1>2 DEF ConnType
  <1>4. conn' = [conn EXCEPT ![c] = q]
    BY <1>2
  <1>5. QED BY <1>1, <1>3, <1>4 DEF ConnFs, KeepsConn

LEMMA LoginAnswerReadLogin ==
  ASSUME AllInv, NEW s \in Sess, sess[s].pc = "loop", Inbox(s) # <<>>,
         LoginAnswerRead(s, Head(Inbox(s)))
  PROVE  LoginInv'
  <1>1. Good(s) /\ TInv
    BY LoginAnswerReadGood DEF AllInv
  <1>2. /\ sess[s].pc \in Running /\ sess[s].conn \in Conns
        /\ staleLogin' = staleLogin
    BY <1>1, Pointers DEF LoginAnswerRead, Running, Starting
  <1>3. PICK w \in AnyWs : w = conn[sess[s].conn].ws
    BY <1>1, <1>2, Pointers
  <1>4. sess' = [sess EXCEPT ![s].pc = "loop", ![s].waits = w] /\ sock' = Popped(s)
    BY <1>3 DEF LoginAnswerRead, Loops
  <1>5. /\ sess'[s].pc = "loop" /\ sess'[s].waits = w
        /\ \A t \in Sess \ {s} : sess'[t] = sess[t]
    BY <1>1, <1>4, LoopFields
  <1>6. Tame(sock, sock')
    BY <1>1, <1>4, PoppedTame
  <1>7. CASE Head(Inbox(s)) = "wrong_password"
    <2>1. conn' = [conn EXCEPT ![sess[s].conn].pw = FALSE] /\ Shows(s, "password", FALSE)
      BY <1>7 DEF LoginAnswerRead
    <2>2. \A d \in Conns : KeepsConn(d)
      BY <1>1, <1>2, <2>1, KeepsPw
    <2>3. ASSUME ~strayDialog PROVE Answered(sock, <<s, "relay">>)
      <3>1. sess[s].waits = <<s, "relay">>
        BY <2>3 DEF AllInv, LoginInv, AtRelay
      <3>2. QED BY <1>1, <1>7, <3>1, RefusalIsAnswer
    <2>4. strayDialog' = (strayDialog \/ sess[s].cut # "no")
      BY <2>1 DEF Shows
    <2>5. QED BY <1>1, <1>2, <1>3, <1>5, <1>6, <2>2, <2>3, <2>4, LoginMoves
  <1>8. CASE Shows(s, "message", FALSE) /\ UNCHANGED conn
    <2>1. ~asking' /\ \A d \in Conns : KeepsConn(d)
      BY <1>8 DEF Shows, KeepsConn
    <2>2. QED BY <1>1, <1>2, <1>3, <1>5, <1>6, <2>1, LoginMoves
  <1>9. QED BY <1>7, <1>8 DEF LoginAnswerRead

LEMMA FrameReadLogin ==
  ASSUME AllInv, NEW s \in Sess, sess[s].pc = "loop", Inbox(s) # <<>>, FrameRead(s)
  PROVE  LoginInv'
  <1>1. Good(s) /\ TInv
    BY FrameReadGood DEF AllInv
  <1>2. sess[s].pc \in Running /\ staleLogin' = staleLogin
    BY DEF FrameRead, Running, Starting
  <1>3. PICK k \in SockFs : k = Popped(s) /\ Tame(sock, k)
    BY <1>1, PoppedType, PoppedTame
  <1>4. CASE Throws(s, conn, k, TRUE)
    BY <1>1, <1>2, <1>3, <1>4, LoginOverNow
  <1>5. CASE sess' = Loops(s) /\ sock' = k /\ ShowsNothing /\ UNCHANGED conn
    <2>1. PICK w \in AnyWs : w = conn[sess[s].conn].ws
      BY <1>1, <1>2, Pointers
    <2>2. sess' = [sess EXCEPT ![s].pc = "loop", ![s].waits = w]
      BY <1>5, <2>1 DEF Loops
    <2>3. /\ sess'[s].pc = "loop" /\ sess'[s].waits = w
          /\ \A t \in Sess \ {s} : sess'[t] = sess[t]
      BY <1>1, <2>2, LoopFields
    <2>4. (\A d \in Conns : KeepsConn(d)) /\ (asking' => asking)
      BY <1>5 DEF KeepsConn, ShowsNothing
    <2>5. QED BY <1>1, <1>2, <1>3, <1>5, <2>1, <2>3, <2>4, LoginMoves
  <1>6. QED BY <1>3, <1>4, <1>5 DEF FrameRead

LEMMA ReplyThrowsLogin ==
  ASSUME AllInv, NEW s \in Sess, sess[s].pc = "loop", Inbox(s) # <<>>, ReplyThrows(s)
  PROVE  LoginInv'
  <1>1. Good(s) /\ TInv
    BY ReplyThrowsGood DEF AllInv
  <1>2. sess[s].pc \in Running /\ staleLogin' = staleLogin
    BY DEF ReplyThrows, Running, Starting
  <1>3. PICK k \in SockFs : k = Popped(s) /\ Tame(sock, k)
    BY <1>1, PoppedType, PoppedTame
  <1>4. \E retry : Throws(s, conn, k, retry)
    BY <1>3 DEF ReplyThrows
  <1>5. QED BY <1>1, <1>2, <1>3, <1>4, LoginOverNow

LEMMA PermissionReadLogin ==
  ASSUME AllInv, NEW s \in Sess, sess[s].pc = "loop", Inbox(s) # <<>>, PermissionRead(s)
  PROVE  LoginInv'
  <1>1. Good(s) /\ TInv
    BY PermissionReadGood DEF AllInv
  <1>2. sess[s].pc \in Running /\ staleLogin' = staleLogin
    BY DEF PermissionRead, Running, Starting
  <1>3. PICK k \in SockFs : k = Popped(s) /\ Tame(sock, k)
    BY <1>1, PoppedType, PoppedTame
  <1>4. "silent" \in Ends /\ Over(s, "silent", conn, k) /\ ShowsNothing
    BY <1>3 DEF PermissionRead, Ends
  <1>5. QED BY <1>1, <1>2, <1>3, <1>4, LoginOverNow

LEMMA OtherReadLogin ==
  ASSUME AllInv, NEW s \in Sess, sess[s].pc = "loop", Inbox(s) # <<>>, NEW m, OtherRead(s, m)
  PROVE  LoginInv'
  <1>1. Good(s) /\ TInv
    BY OtherReadGood DEF AllInv
  <1>2. /\ sess[s].pc \in Running /\ staleLogin' = staleLogin /\ sess[s] \in SessType
        /\ sess \in SessFs
    BY <1>1, Pointers DEF OtherRead, Running, Starting
  <1>3. Tame(sock, sock')
    BY <1>1, PoppedTame DEF OtherRead
  <1>4. (\A d \in Conns : KeepsConn(d)) /\ (asking' => asking)
    BY DEF OtherRead, KeepsConn, ShowsNothing
  <1>5. CASE m = "clip"
    <2>1. sess' = [sess EXCEPT ![s].pc = "unzip", ![s].waits = NoWs]
      BY <1>5 DEF OtherRead
    <2>2. sess'[s].pc = "unzip" /\ \A t \in Sess \ {s} : sess'[t] = sess[t]
      BY <1>2, <2>1 DEF SessFs, SessType
    <2>3. QED BY <1>1, <1>2, <1>3, <1>4, <2>2, LoginMoves
  <1>6. CASE m # "clip"
    <2>1. PICK w \in AnyWs : w = conn[sess[s].conn].ws
      BY <1>1, <1>2, Pointers
    <2>2. sess' = [sess EXCEPT ![s].pc = "loop", ![s].waits = w]
      BY <1>6, <2>1 DEF OtherRead, Loops
    <2>3. /\ sess'[s].pc = "loop" /\ sess'[s].waits = w
          /\ \A t \in Sess \ {s} : sess'[t] = sess[t]
      BY <1>1, <2>2, LoopFields
    <2>4. QED BY <1>1, <1>2, <1>3, <1>4, <2>1, <2>3, LoginMoves
  <1>7. QED BY <1>5, <1>6

LEMMA UnpackedLogin ==
  ASSUME AllInv, NEW s \in Sess, Unpacked(s)
  PROVE  LoginInv'
  <1>1. Good(s) /\ TInv
    BY UnpackedGood DEF AllInv
  <1>2. /\ sess[s].pc = "unzip" /\ sess[s].pc \in Running /\ staleLogin' = staleLogin
    BY DEF Unpacked, Running, Starting
  <1>3. PICK w \in AnyWs : w = conn[sess[s].conn].ws
    BY <1>1, <1>2, Pointers
  <1>4. sess' = [sess EXCEPT ![s].pc = "loop", ![s].waits = w]
    BY <1>3 DEF Unpacked, Loops
  <1>5. /\ sess'[s].pc = "loop" /\ sess'[s].waits = w
        /\ \A t \in Sess \ {s} : sess'[t] = sess[t]
    BY <1>1, <1>4, LoopFields
  <1>6. Tame(sock, sock') /\ (\A d \in Conns : KeepsConn(d)) /\ (asking' => asking)
    BY DEF Unpacked, Tame, KeepsConn
  <1>7. QED BY <1>1, <1>2, <1>3, <1>5, <1>6, LoginMoves

\* close() keeps `_ws` and `_hash` of every connection.
LEMMA ClosedConnKeeps ==
  ASSUME TInv, NEW c \in Conns
  PROVE  \A d \in Conns : /\ ClosedConn(c)[d].ws = conn[d].ws
                          /\ ClosedConn(c)[d].hash = conn[d].hash
  <1>1. conn \in ConnFs /\ conn[c] \in ConnType
    BY Current DEF ConnFs
  <1>2. PICK q : q = [conn[c] EXCEPT !.timer = FALSE, !.open = FALSE]
    OBVIOUS
  <1>3. q.ws = conn[c].ws /\ q.hash = conn[c].hash
    BY ONLY <1>1, <1>2 DEF ConnType
  <1>4. ClosedConn(c) = [conn EXCEPT ![c] = q]
    BY <1>1, <1>2 DEF ClosedConn
  <1>5. QED BY <1>1, <1>3, <1>4 DEF ConnFs

LEMMA CloseReasonReadLogin ==
  ASSUME AllInv, NEW s \in Sess, sess[s].pc = "loop", Inbox(s) # <<>>, CloseReasonRead(s)
  PROVE  LoginInv'
  <1>1. Good(s) /\ TInv
    BY CloseReasonReadGood DEF AllInv
  <1>2. /\ sess[s].pc \in Running /\ staleLogin' = staleLogin /\ sess[s] \in SessType
    BY <1>1, Pointers DEF CloseReasonRead, Running, Starting
  <1>3. PICK c \in Conns : c = sess[s].conn
    BY <1>1, <1>2, Pointers
  <1>4. PICK w \in AnyWs : w = conn[c].ws
    BY <1>1, <1>2, <1>3, Pointers
  <1>5. PICK p \in SockFs : p = Popped(s) /\ Tame(sock, p)
    BY <1>1, PoppedType, PoppedTame
  <1>6. PICK k \in SockFs : k = CloseWs(p, w) /\ Tame(sock, k)
    BY <1>5, CloseWsType, CloseWsTame, TameTrans
  <1>7. Tame(sock, sock')
    <2>1. sock' = Left(s, k) BY <1>3, <1>4, <1>5, <1>6 DEF CloseReasonRead
    <2>2. QED BY <1>6, <2>1, GarbageTame, TameTrans
  <1>8. \A d \in Conns : KeepsConn(d)
    BY <1>1, <1>3, ClosedConnKeeps DEF CloseReasonRead, KeepsConn
  <1>9. PICK e \in SessType : e = Ended(sess[s], "shown") /\ e.pc = "done"
    BY <1>2, EndedType DEF Ends
  <1>10. PICK h \in SessFs : h = ClosedSess(c)
    BY <1>1, ClosedTypes
  <1>11. sess' = [h EXCEPT ![s] = e]
    BY <1>3, <1>9, <1>10 DEF CloseReasonRead
  <1>12. /\ sess'[s].pc = "done"
         /\ \A t \in Sess \ {s} : sess'[t].pc = sess[t].pc /\ sess'[t].waits = sess[t].waits
    BY <1>1, <1>9, <1>10, <1>11, ClosedSessFields DEF SessFs
  <1>13. ~asking'
    BY DEF CloseReasonRead, Shows
  <1>14. QED BY <1>1, <1>2, <1>7, <1>8, <1>12, <1>13, LoginEnds

LEMMA StepLogin ==
  ASSUME AllInv, NEW s \in Sess, Browser(s) \/ Session(s)
  PROVE  LoginInv'
  <1>1. CASE Browser(s)
    <2>1. CASE IdSocketOpens(s) BY <2>1, IdSocketOpensLogin
    <2>2. CASE RelaySocketOpens(s) BY <2>2, RelaySocketOpensLogin
    <2>3. CASE \E kind \in {"id", "relay"} : SocketFails(s, kind) \/ SocketCloses(s, kind)
      BY <2>3, SocketFailsLogin, SocketClosesLogin
    <2>4. CASE \E m \in Sends(s, sess[s]) \cap IdAnswers : AnswerArrives(s, m)
      BY <2>4, AnswerArrivesLogin
    <2>5. CASE \E m \in Sends(s, sess[s]) \cap PeerMessages : PeerMessageArrives(s, m)
      BY <2>5, PeerMessageArrivesLogin
    <2>6. QED BY <1>1, <2>1, <2>2, <2>3, <2>4, <2>5 DEF Browser
  <1>2. CASE MessageRead(s)
    <2>1. sess[s].pc = "loop" /\ Inbox(s) # <<>>
      BY <1>2 DEF MessageRead
    <2>2. CASE HashRead(s) BY <2>1, <2>2, HashReadLogin
    <2>3. CASE LoginAnswerRead(s, Head(Inbox(s))) BY <2>1, <2>3, LoginAnswerReadLogin
    <2>4. CASE FrameRead(s) BY <2>1, <2>4, FrameReadLogin
    <2>5. CASE PermissionRead(s) BY <2>1, <2>5, PermissionReadLogin
    <2>6. CASE CloseReasonRead(s) BY <2>1, <2>6, CloseReasonReadLogin
    <2>7. CASE \E m : OtherRead(s, m) BY <2>1, <2>7, OtherReadLogin
    <2>8. CASE ReplyThrows(s) BY <2>1, <2>8, ReplyThrowsLogin
    <2>9. QED BY <1>2, <2>2, <2>3, <2>4, <2>5, <2>6, <2>7, <2>8 DEF MessageRead
  <1>3. CASE Session(s) /\ ~MessageRead(s)
    <2>1. CASE AnswerRead(s) BY <2>1, AnswerReadLogin
    <2>2. CASE SignedIdRead(s) BY <2>2, SignedIdReadLogin
    <2>3. CASE NextRejects(s) BY <2>3, NextRejectsLogin
    <2>4. CASE OpenTimesOut(s) BY <2>4, OpenTimesOutLogin
    <2>5. CASE KeyVerified(s) BY <2>5, KeyVerifiedLogin
    <2>6. CASE Unpacked(s) BY <2>6, UnpackedLogin
    <2>7. QED BY <1>3, <2>1, <2>2, <2>3, <2>4, <2>5, <2>6 DEF Session, Poll
  <1>4. QED BY <1>1, <1>2, <1>3

-----------------------------------------------------------------------------
(* Logins and challenges: the user and the timer                           *)

\* A session starts on connection c, which has none at work if no stray dialog
\* was raised, and nothing is asked of the user.
LEMMA LoginStart ==
  ASSUME AllInv, NEW c \in Conns, NEW cn \in ConnFs, NEW ss \in SessFs, NEW k \in SockFs,
         \A t \in Sess : /\ ss[t].pc = sess[t].pc /\ ss[t].conn = sess[t].conn
                         /\ ss[t].waits = sess[t].waits,
         \A d \in Conns : cn[d].ws = conn[d].ws /\ cn[d].hash = conn[d].hash,
         Tame(sock, k), StartFrom(c, cn, ss, k), strayDialog' = strayDialog,
         staleLogin' = staleLogin, ~strayDialog => ~asking',
         ~strayDialog => \A t \in Sess : sess[t].pc \in Running => sess[t].conn # c
  PROVE  LoginInv'
  <1>1. TInv /\ nsess \in Nat
    BY BoundsAssumption DEF AllInv, TInv, TypeOK
  <1>2. PICK s \in Sess :
           /\ s = nsess + 1 /\ nsess' = s /\ sess' \in SessFs
           /\ sess'[s].pc = "idOpen" /\ sess'[s].conn = c
           /\ \A t \in Sess \ {s} :
                \/ sess[t].pc = "done" /\ sess'[t].pc = "done" /\ sess'[t].waits = NoWs
                \/ /\ sess'[t].pc = sess[t].pc /\ sess'[t].conn = sess[t].conn
                   /\ sess'[t].waits = sess[t].waits /\ sess'[t].cut = ss[t].cut
    BY <1>1, StartSess
  <1>3. ASSUME NEW t \in Sess \ {s}, sess'[t].pc \in Running
        PROVE  /\ sess[t].pc \in Running /\ sess'[t].pc = sess[t].pc
               /\ sess'[t].conn = sess[t].conn /\ sess'[t].waits = sess[t].waits
               /\ sess[t].conn \in Conns
    <2>1. /\ sess'[t].pc = sess[t].pc /\ sess'[t].conn = sess[t].conn
          /\ sess'[t].waits = sess[t].waits
      BY <1>2, <1>3 DEF Running, Starting
    <2>2. QED BY <1>1, <1>3, <2>1, Pointers
  <1>4. /\ conn'[c].ws = <<s, "id">>
        /\ \A d \in Conns \ {c} : KeepsConn(d)
    <2>1. PICK w : w = <<s, "id">>
      OBVIOUS
    <2>2. PICK q : q = [cn[c] EXCEPT !.open = TRUE, !.timer = TRUE, !.ws = w]
      OBVIOUS
    <2>3. cn[c] \in ConnType BY DEF ConnFs
    <2>4. q.ws = w
      BY ONLY <2>2, <2>3 DEF ConnType
    <2>5. conn' = [cn EXCEPT ![c] = q]
      BY <1>2, <2>1, <2>2 DEF StartFrom
    <2>6. QED BY <2>1, <2>4, <2>5 DEF ConnFs, KeepsConn
  <1>5. ASSUME NEW t \in Sess, Answered(sock', <<t, "relay">>)
        PROVE  Answered(sock, <<t, "relay">>)
    <2>1. PICK v \in Ws : v = <<t, "relay">> /\ v # <<s, "id">>
      BY RelayIsWs
    <2>2. sock'[v] = Swept(k)[v]
      BY <1>2, <2>1 DEF StartFrom
    <2>3. Answered(Swept(k), v)
      BY <1>5, <2>1, <2>2 DEF Answered
    <2>4. Tame(sock, Swept(k))
      BY GarbageTame, TameTrans
    <2>5. QED BY <2>1, <2>3, <2>4 DEF Tame
  <1>6. Owned'
    <2>1. ASSUME NEW d \in Conns, conn'[d].ws # NoWs
          PROVE  /\ conn'[d].ws[1] \in 1..nsess'
                 /\ sess'[conn'[d].ws[1]].pc \in Running => sess'[conn'[d].ws[1]].conn = d
      <3>1. CASE d = c
        BY <1>1, <1>2, <1>4, <3>1
      <3>2. CASE d # c
        <4>1. conn'[d].ws = conn[d].ws
          BY <1>4, <3>2 DEF KeepsConn
        <4>2. PICK u : u = conn[d].ws[1]
          OBVIOUS
        <4>3. u \in 1..nsess /\ (sess[u].pc \in Running => sess[u].conn = d)
          BY <2>1, <4>1, <4>2 DEF AllInv, LoginInv, Owned
        <4>4. u \in Sess \ {s} /\ u \in 1..nsess'
          BY <1>1, <1>2, <4>3, BoundsAssumption DEF Sess
        <4>5. QED BY <1>3, <4>1, <4>2, <4>3, <4>4
      <3>3. QED BY <3>1, <3>2
    <2>2. QED BY <2>1 DEF Owned
  <1>7. ASSUME ~strayDialog, NEW t \in Sess PROVE AtRelay(t)' /\ Heard(t)'
    <2>1. CASE t = s
      BY <1>2, <2>1 DEF AtRelay, Heard
    <2>2. CASE t # s /\ sess'[t].pc \in Running
      <3>1. KeepsConn(sess[t].conn)
        BY <1>3, <1>4, <1>7, <2>2
      <3>2. AtRelay(t) /\ Heard(t)
        BY <1>7 DEF AllInv, LoginInv
      <3>3. QED BY <1>3, <1>5, <2>2, <3>1, <3>2 DEF AtRelay, Heard, KeepsConn
    <2>3. CASE sess'[t].pc \notin Running
      BY <2>3 DEF AtRelay, Heard, Running, Starting
    <2>4. QED BY <2>1, <2>2, <2>3
  <1>8. ASSUME ~strayDialog PROVE Asks' /\ ~staleLogin'
    BY <1>8 DEF Asks, AllInv, LoginInv
  <1>9. QED BY <1>6, <1>7, <1>8 DEF LoginInv

LEMMA LeaveLogin ==
  ASSUME AllInv, Leave
  PROVE  LoginInv'
  <1>1. TInv
    BY DEF AllInv
  <1>2. PICK c \in Conns : c = curConn
    BY <1>1, LeaveType
  <1>3. PICK k \in SockFs : k = ClosedSock(c) /\ Tame(sock, k)
    <2>1. conn[c].ws \in AnyWs
      BY <1>1, Current DEF ConnFs, ConnType, AnyWs
    <2>2. QED BY <1>1, <2>1, Current, ClosedTypes, CloseWsTame DEF ClosedSock
  <1>4. /\ sock' = Swept(k) /\ sess' = ClosedSess(c) /\ nsess' = nsess
        /\ ~asking' /\ strayDialog' = strayDialog /\ staleLogin' = staleLogin
    BY <1>2, <1>3 DEF Leave
  <1>5. ASSUME NEW t \in Sess
        PROVE  /\ sess'[t].pc = sess[t].pc /\ sess'[t].conn = sess[t].conn
               /\ sess'[t].waits = sess[t].waits
    BY <1>1, <1>4, ClosedSessFields
  <1>6. ASSUME NEW t \in Sess, Answered(sock', <<t, "relay">>)
        PROVE  Answered(sock, <<t, "relay">>)
    <2>1. Tame(sock, sock')
      BY <1>3, <1>4, GarbageTame, TameTrans
    <2>2. QED BY <1>6, <2>1, RelayIsWs DEF Tame
  <1>7. ASSUME NEW d \in Conns
        PROVE  KeepsConn(d) \/ (d = c /\ RunningOf(c) = {} /\ conn'[d].ws = NoWs)
    <2>1. PICK cn \in ConnFs : cn = ClosedConn(c)
      BY <1>1, ClosedTypes
    <2>2. cn[d].ws = conn[d].ws /\ cn[d].hash = conn[d].hash
      BY <1>1, <2>1, ClosedConnKeeps
    <2>3. CASE RunningOf(c) = {}
      <3>1. conn' = [cn EXCEPT ![c] = NoConn]
        BY <1>2, <2>1, <2>3 DEF Leave
      <3>2. conn'[d] = IF d = c THEN NoConn ELSE cn[d]
        BY <3>1 DEF ConnFs
      <3>3. QED BY <2>2, <2>3, <3>2 DEF KeepsConn, NoConn
    <2>4. CASE RunningOf(c) # {}
      <3>1. conn' = [cn EXCEPT ![c] = @]
        BY <1>2, <2>1, <2>4 DEF Leave
      <3>2. conn'[d] = cn[d]
        BY <3>1 DEF ConnFs
      <3>3. QED BY <2>2, <3>2 DEF KeepsConn
    <2>5. QED BY <2>3, <2>4
  <1>8. Owned'
    <2>1. ASSUME NEW d \in Conns, conn'[d].ws # NoWs
          PROVE  /\ conn'[d].ws[1] \in 1..nsess'
                 /\ sess'[conn'[d].ws[1]].pc \in Running => sess'[conn'[d].ws[1]].conn = d
      <3>1. conn'[d].ws = conn[d].ws
        BY <1>7, <2>1 DEF KeepsConn
      <3>2. PICK u : u = conn[d].ws[1]
        OBVIOUS
      <3>3. u \in 1..nsess /\ (sess[u].pc \in Running => sess[u].conn = d)
        BY <2>1, <3>1, <3>2 DEF AllInv, LoginInv, Owned
      <3>4. u \in Sess
        BY <1>1, <3>3, BoundsAssumption DEF TInv, TypeOK, Sess
      <3>5. QED BY <1>4, <1>5, <3>1, <3>2, <3>3, <3>4
    <2>2. QED BY <2>1 DEF Owned
  <1>9. ASSUME ~strayDialog, NEW t \in Sess PROVE AtRelay(t)' /\ Heard(t)'
    <2>1. CASE sess[t].pc \in Running
      <3>1. sess[t].conn \in Conns
        BY <1>1, <2>1, Pointers
      <3>2. KeepsConn(sess[t].conn)
        BY <1>7, <2>1, <3>1 DEF RunningOf
      <3>3. AtRelay(t) /\ Heard(t)
        BY <1>9 DEF AllInv, LoginInv
      <3>4. QED BY <1>5, <1>6, <3>2, <3>3 DEF AtRelay, Heard, KeepsConn
    <2>2. CASE sess[t].pc \notin Running
      BY <1>5, <2>2 DEF AtRelay, Heard, Running, Starting
    <2>3. QED BY <2>1, <2>2
  <1>10. ASSUME ~strayDialog PROVE Asks' /\ ~staleLogin'
    BY <1>4, <1>10 DEF Asks, AllInv, LoginInv
  <1>11. QED BY <1>4, <1>8, <1>9, <1>10 DEF LoginInv

LEMMA GivePasswordLogin ==
  ASSUME AllInv, GivePassword
  PROVE  LoginInv'
  <1>1. TInv
    BY DEF AllInv
  <1>2. PICK c \in Conns : c = curConn
    BY <1>1, Current DEF GivePassword
  <1>3. PICK w \in AnyWs : w = conn[c].ws
    BY <1>1, Current DEF ConnFs, ConnType, AnyWs
  <1>4. /\ asking /\ ~asking' /\ strayDialog' = strayDialog
        /\ sess' = sess /\ nsess' = nsess
        /\ conn' = [conn EXCEPT ![c].pw = TRUE] /\ sock' = SendLogin(sock, w)
        /\ staleLogin' = (staleLogin \/ GoesStale(w, conn[c].hash))
    BY <1>2, <1>3 DEF GivePassword
  <1>5. \A d \in Conns : KeepsConn(d)
    BY <1>1, <1>4, KeepsPw
  <1>6. Owned'
    BY <1>4, <1>5 DEF Owned, KeepsConn, AllInv, LoginInv
  <1>7. ASSUME ~strayDialog PROVE conn[c].hash = w
    BY <1>2, <1>3, <1>4, <1>7 DEF AllInv, LoginInv, Asks
  <1>8. ASSUME ~strayDialog, NEW t \in Sess PROVE AtRelay(t)' /\ Heard(t)'
    <2>1. CASE sess[t].pc \in Running
      <3>1. sess[t].conn \in Conns
        BY <1>1, <2>1, Pointers
      <3>2. KeepsConn(sess[t].conn) /\ AtRelay(t) /\ Heard(t)
        BY <1>5, <1>8, <3>1 DEF AllInv, LoginInv
      <3>3. AtRelay(t)'
        BY <1>4, <3>2 DEF AtRelay, KeepsConn
      <3>4. ASSUME Answered(sock', <<t, "relay">>)
            PROVE  Answered(sock, <<t, "relay">>) \/ conn[sess[t].conn].hash = <<t, "relay">>
        <4>1. PICK v \in Ws : v = <<t, "relay">>
          BY RelayIsWs
        <4>2. CASE v # w
          BY <1>1, <1>4, <3>4, <4>1, <4>2, SendLoginTame, Current
        <4>3. CASE v = w
          <5>1. conn[c].ws # NoWs /\ conn[c].ws[1] = t
            BY <1>3, <4>1, <4>3 DEF Ws, NoWs, Sess
          <5>2. sess[t].conn = c
            BY <2>1, <5>1 DEF AllInv, LoginInv, Owned
          <5>3. QED BY <1>7, <1>8, <4>1, <4>3, <5>2
        <4>4. QED BY <4>1, <4>2, <4>3
      <3>5. Heard(t)'
        BY <1>4, <3>2, <3>4 DEF Heard, KeepsConn
      <3>6. QED BY <3>3, <3>5
    <2>2. CASE sess[t].pc \notin Running
      BY <1>4, <2>2 DEF AtRelay, Heard, Running, Starting
    <2>3. QED BY <2>1, <2>2
  <1>9. ASSUME ~strayDialog PROVE Asks' /\ ~staleLogin'
    <2>1. ~GoesStale(w, conn[c].hash)
      BY <1>7, <1>9 DEF GoesStale
    <2>2. QED BY <1>4, <1>9, <2>1 DEF Asks, AllInv, LoginInv
  <1>10. QED BY <1>4, <1>6, <1>8, <1>9 DEF LoginInv

LEMMA LoginInvNext == AllInv /\ [Next]_vars => LoginInv'
  <1> SUFFICES ASSUME AllInv, [Next]_vars PROVE LoginInv'
    OBVIOUS
  <1>0. TInv /\ OneInv /\ LoginInv
    BY DEF AllInv
  <1>1. CASE Connect
    <2>1. PICK c \in Conns : c = nconn'
      BY <1>0, <1>1, ConnectType
    <2>2. StartFrom(c, conn, sess, sock) /\ nconn' = nconn + 1
      BY <1>0, <1>1, <2>1, ConnectType
    <2>3. /\ curConn = 0 /\ strayDialog' = strayDialog /\ asking' = asking
          /\ staleLogin' = staleLogin
      BY <1>0, <1>1, Current DEF Connect
    <2>4. \A t \in Sess : sess[t].pc \in Running => sess[t].conn # c
      BY <1>0, <2>1, <2>2, Current, Pointers DEF OneInv, Conns
    <2>5. ~strayDialog => ~asking'
      BY <1>0, <2>3 DEF LoginInv, Asks
    <2>6. Tame(sock, sock)
      BY DEF Tame
    <2>7. QED BY <1>0, <2>2, <2>3, <2>4, <2>5, <2>6, Current, LoginStart
  <1>2. CASE Leave BY <1>2, LeaveLogin
  <1>3. CASE RetryFires
    <2>1. armed /\ UNCHANGED <<curConn, strayDialog, staleLogin>>
      BY <1>3 DEF RetryFires
    <2>2. CASE curConn = 0
      <3>1. UNCHANGED <<conn, nsess, sess, sock, asking>>
        BY <1>3, <2>2 DEF RetryFires
      <3>2. QED BY <1>0, <2>1, <3>1 DEF LoginInv, Owned, AtRelay, Heard, Asks
    <2>3. CASE curConn # 0
      <3>1. PICK c \in Conns : c = curConn
        BY <1>0, <2>3, Current
      <3>2. PICK h \in SessFs : h = ClosedSess(c)
        BY <1>0, ClosedTypes
      <3>3. PICK cn \in ConnFs : cn = ClosedConn(c)
        BY <1>0, ClosedTypes
      <3>4. PICK k \in SockFs : k = ClosedSock(c) /\ Tame(sock, k)
        <4>1. conn[c].ws \in AnyWs
          BY <1>0, Current DEF ConnFs, ConnType, AnyWs
        <4>2. QED BY <1>0, <4>1, Current, ClosedTypes, CloseWsTame DEF ClosedSock
      <3>5. StartFrom(c, cn, h, k) /\ ~asking'
        BY <1>3, <2>3, <3>1, <3>2, <3>3, <3>4 DEF RetryFires
      <3>6. \A t \in Sess : /\ h[t].pc = sess[t].pc /\ h[t].conn = sess[t].conn
                            /\ h[t].waits = sess[t].waits
        BY <1>0, <3>2, ClosedSessFields
      <3>7. \A d \in Conns : cn[d].ws = conn[d].ws /\ cn[d].hash = conn[d].hash
        BY <1>0, <3>3, ClosedConnKeeps
      <3>8. ~strayDialog => \A t \in Sess : sess[t].pc \in Running => sess[t].conn # c
        BY <1>0, <2>1, <3>1 DEF OneInv
      <3>9. QED BY <2>1, <3>4, <3>5, <3>6, <3>7, <3>8, LoginStart
    <2>4. QED BY <2>2, <2>3
  <1>4. CASE GivePassword BY <1>4, GivePasswordLogin
  <1>5. CASE \E s \in Sess : Browser(s) \/ Session(s)
    BY <1>5, StepLogin
  <1>6. CASE UNCHANGED vars
    BY <1>0, <1>6 DEF vars, LoginInv, Owned, AtRelay, Heard, Asks
  <1>7. QED BY <1>1, <1>2, <1>3, <1>4, <1>5, <1>6 DEF Next

\* A password only goes out on the socket whose challenge it was hashed with,
\* although `_hash` outlives the session that set it, unless a session whose
\* connection was already closed has raised a dialog (connection.ts 241-250,
\* 358-375).
THEOREM LoginsAnswerTheirChallenge == Spec => []LoginAnswersItsChallenge
  <1>1. Init => LoginInv
    BY DEF Init, LoginInv, Owned, AtRelay, Heard, Asks, NoConn, NoSess
  <1>2. Init => OneInv
    BY DEF Init, OneInv, OneSessionUnlessStray, NoSess, Running, Starting
  <1>3. AllInv /\ [Next]_vars => AllInv'
    BY TInvNext, OneInvNext, LoginInvNext DEF AllInv
  <1>4. Init => AllInv
    BY <1>1, <1>2, TInvInit DEF AllInv
  <1>5. AllInv => LoginAnswersItsChallenge
    BY DEF AllInv, LoginInv, LoginAnswersItsChallenge
  <1>6. QED BY <1>3, <1>4, <1>5, PTL DEF Spec
=============================================================================
