----------------------------- MODULE OauthLogin ------------------------------
(***************************************************************************)
(* Logging in to the API through one identity provider, or through a       *)
(* console that is already logged in ("webauth"): the cache of pending      *)
(* codes (service/oauth.go), the handlers of api/ouath.go and               *)
(* admin/oauth.go, the registration of service/user.go, and the pages of    *)
(* the console that drive them.                                             *)
(*                                                                         *)
(* Requests are goroutines: a step of a request is what it does between two *)
(* looks at shared state, the cache, the database, the registration lock or *)
(* the answer of the provider.  The cache holds a pointer, so a request      *)
(* that has loaded an item goes on reading and writing it after the code was *)
(* removed, and storing it again puts the code back.                        *)
(***************************************************************************)
EXTENDS Integers, FiniteSets

CONSTANTS
  Users,     \* accounts, those made by registration included
  Existing,  \* the accounts that are there from the beginning
  Idents,    \* identities the provider vouches for
  NoIdent,   \* the empty open_id of an item no provider has answered for
  Codes,     \* states of BeginAuth
  Reqs,      \* requests handled at the same time
  MaxRows    \* bound on the ids in user_third

NoUser == "no user"
NoCode == "no code"
NoReq  == "no request"

ASSUME ConstantsAssumption ==
  /\ Existing \subseteq Users /\ MaxRows \in Nat
  /\ NoIdent \notin Idents /\ NoUser \notin Users
  /\ NoCode \notin Codes /\ NoReq \notin Reqs

VARIABLES
  user,      \* the accounts: "unborn", "alive" or "deleted"
  third,     \* table user_third
  cached,    \* the codes that OauthCache holds
  item,      \* what the pointer of each code points to
  timer,     \* the timer that will remove each code: "none", "set" or "fired"
  lock,      \* the request that holds the lock registerByOauth
  req,       \* where each request is
  yields,    \* history: tokens given out for each code: none, one, or 2 for more
  putBack,   \* history: codes that were stored again after they were removed
  shared     \* history: codes that two queries held at once

vars == <<user, third, cached, item, timer, lock, req, yields, putBack, shared>>
cache == <<cached, item, timer, putBack>>

\* how: "bound" by a user, "registered" with the account or for it, or "blind":
\* registered although the look for an older row had failed.
RowType == [id: 1..MaxRows, ident: Idents \cup {NoIdent}, user: Users,
            how: {"bound", "registered", "blind"}]
ItemType == [action: {"none", "login", "bind"}, user: Users \cup {NoUser},
             ident: Idents \cup {NoIdent}]
ReqType == [pc: {"idle", "exchange", "bind", "bindConfirm", "register", "create", "createBlind",
                 "store", "confirm", "find", "spend", "login"},
            code: Codes \cup {NoCode}, user: Users \cup {NoUser},
            ident: Idents \cup {NoIdent}]

Idle == [pc |-> "idle", code |-> NoCode, user |-> NoUser, ident |-> NoIdent]
NewItem == [action |-> "none", user |-> NoUser, ident |-> NoIdent]

Init ==
  /\ user = [u \in Users |-> IF u \in Existing THEN "alive" ELSE "unborn"]
  /\ third = {}
  /\ cached = {} /\ item = [c \in Codes |-> NewItem]
  /\ timer = [c \in Codes |-> "none"]
  /\ lock = NoReq /\ req = [r \in Reqs |-> Idle]
  /\ yields = [c \in Codes |-> 0] /\ putBack = {} /\ shared = {}

Alive == {u \in Users : user[u] = "alive"}

-----------------------------------------------------------------------------
(* Tables and cache                                                        *)

\* UserThirdInfo gives the first row of identity i.  It drops the error of the
\* read, so a read that fails finds no row.
RowsOf(i) == {row \in third : row.ident = i}
Looks(i) == {RowsOf(i), {}}
First(rows) == CHOOSE row \in rows : \A other \in rows : row.id <= other.id

\* InfoById, too: an account that is gone, or that could not be read, comes back
\* as one without id.
InfoById(u) == {NoUser} \cup ({u} \cap Alive)

\* The account that identity i is bound to.
InfoByOauthId(i) ==
  UNION {IF rows = {} THEN {NoUser} ELSE InfoById(First(rows).user) : rows \in Looks(i)}

\* The new row comes after all others.
AddRow(i, u, how) ==
  \E n \in 1..MaxRows :
    /\ \A row \in third : row.id < n
    /\ n = 1 \/ \E row \in third : row.id = n - 1
    /\ third' = third \cup {[id |-> n, ident |-> i, user |-> u, how |-> how]}

\* Mutant: the code is stored without the timer that removes it.
BeginForEver(c, action, u) ==
  /\ timer[c] = "none" /\ c \notin cached
  /\ cached' = cached \cup {c}
  /\ item' = [item EXCEPT ![c].action = action, ![c].user = u]
  /\ UNCHANGED <<timer, putBack>>

\* SetOauthCache for a new code, with the timer that removes it.
Begin(c, action, u) ==
  /\ timer[c] = "none" /\ timer' = [timer EXCEPT ![c] = "set"]
  /\ cached' = cached \cup {c}
  /\ item' = [item EXCEPT ![c].action = action, ![c].user = u]
  /\ UNCHANGED putBack

\* SetOauthCache without expiry: nobody asks whether the code is still there.
Store(c, u) ==
  /\ item' = [item EXCEPT ![c].user = u]
  /\ cached' = cached \cup {c}
  /\ putBack' = IF c \in cached THEN putBack ELSE putBack \cup {c}
  /\ UNCHANGED timer

Goes(r, pc) == req' = [req EXCEPT ![r].pc = pc]
Done(r)     == req' = [req EXCEPT ![r] = Idle]
Takes(r, pc, c, u) ==
  /\ req[r] = Idle
  /\ req' = [req EXCEPT ![r] = [pc |-> pc, code |-> c, user |-> u, ident |-> NoIdent]]

-----------------------------------------------------------------------------
(* Beginning                                                               *)

\* A device or the login page of the console begins a login.
OidcAuth(c) ==
  /\ Begin(c, "login", NoUser)
  /\ UNCHANGED <<user, third, lock, req, yields, shared>>

\* A user begins to bind an identity.  One that is bound already is refused, but
\* not when the look for its row fails, so nobody is refused for sure.
ToBind(c, u) ==
  /\ u \in Alive
  /\ Begin(c, "bind", u)
  /\ UNCHANGED <<user, third, lock, req, yields, shared>>

\* Five minutes later.
TimerFires(c) ==
  /\ timer[c] = "set" /\ timer' = [timer EXCEPT ![c] = "fired"]
  /\ cached' = cached \ {c}
  /\ UNCHANGED <<user, third, item, lock, req, yields, putBack, shared>>

-----------------------------------------------------------------------------
(* The provider sends the browser back: OauthCallback                       *)

CallbackLoads(r, c) ==
  /\ c \in cached /\ Takes(r, "exchange", c, NoUser)
  /\ UNCHANGED <<user, third, cache, lock, yields, shared>>

\* The code could not be exchanged for an identity.
ExchangeFails(r) ==
  /\ req[r].pc = "exchange" /\ Done(r)
  /\ UNCHANGED <<user, third, cache, lock, yields, shared>>

\* The identity is i.  For a bind: refused when a row of i is found.
ExchangeForBind(r, i) ==
  LET it == item[req[r].code] IN
  /\ req[r].pc = "exchange" /\ it.action = "bind"
  /\ \E rows \in Looks(i) :
       IF rows # {} THEN Done(r)
       ELSE req' = [req EXCEPT ![r].pc = "bind", ![r].user = it.user, ![r].ident = i]
  /\ UNCHANGED <<user, third, cache, lock, yields, shared>>

\* For a login: the account i is bound to, or a new one; if the provider is not
\* set to register accounts, which an administrator may change at any time, the
\* item remembers i and the browser is sent to the bind page.
ExchangeForLogin(r, i) ==
  LET c == req[r].code IN
  /\ req[r].pc = "exchange" /\ item[c].action = "login"
  /\ \/ /\ item[c].user # NoUser /\ Done(r) /\ UNCHANGED item
     \/ \E owner \in InfoByOauthId(i) :
          /\ item[c].user = NoUser
          /\ \/ /\ owner # NoUser /\ UNCHANGED item
                /\ req' = [req EXCEPT ![r].pc = "store", ![r].user = owner]
             \/ /\ owner = NoUser /\ UNCHANGED item
                /\ req' = [req EXCEPT ![r].pc = "register", ![r].ident = i]
             \/ /\ owner = NoUser /\ Done(r)
                /\ item' = [item EXCEPT ![c].ident = i]
  /\ UNCHANGED <<user, third, cached, timer, putBack, lock, yields, shared>>

BindInserts(r) ==
  /\ req[r].pc \in {"bind", "bindConfirm"} /\ AddRow(req[r].ident, req[r].user, "bound")
  /\ IF req[r].pc = "bind" THEN Done(r) ELSE Goes(r, "confirm")
  /\ UNCHANGED <<user, cache, lock, yields, shared>>

\* The row could not be written, which a bind reports.
BindFails(r) ==
  /\ req[r].pc \in {"bind", "bindConfirm"} /\ Done(r)
  /\ UNCHANGED <<user, third, cache, lock, yields, shared>>

\* Mutant: registration trusts what the callback saw before it took the lock.
RegisterWithoutCheck(r) ==
  /\ req[r].pc = "register" /\ lock = NoReq
  /\ lock' = r /\ Goes(r, "create")
  /\ UNCHANGED <<user, third, cache, yields, shared>>

\* RegisterByOauth takes its lock and looks again for a row of the identity; it
\* cannot tell a look that failed from one that found nothing.
RegisterChecks(r) ==
  LET i == req[r].ident IN
  /\ req[r].pc = "register" /\ lock = NoReq
  /\ \E rows \in Looks(i) :
       \/ /\ rows # {} /\ UNCHANGED lock
          /\ \E u \in InfoById(First(rows).user) :
               req' = [req EXCEPT ![r].pc = "store", ![r].user = u]
       \/ /\ rows = {} /\ lock' = r
          /\ Goes(r, IF rows = RowsOf(i) THEN "create" ELSE "createBlind")
  /\ UNCHANGED <<user, third, cache, yields, shared>>

How(r) == IF req[r].pc = "create" THEN "registered" ELSE "blind"

\* Mutant: the lock is not released once the account is made.
RegisterCreatesLocked(r) ==
  /\ req[r].pc \in {"create", "createBlind"}
  /\ \E u \in Users :
       /\ user[u] # "deleted"
       /\ user' = [user EXCEPT ![u] = "alive"]
       /\ AddRow(req[r].ident, u, How(r)) \/ UNCHANGED third
       /\ req' = [req EXCEPT ![r].pc = "store", ![r].user = u]
  /\ UNCHANGED <<lock, cache, yields, shared>>

\* The account of the same email gets the identity, or a new account does; nobody
\* asks whether the row of the identity could be written.
RegisterCreates(r) ==
  /\ req[r].pc \in {"create", "createBlind"}
  /\ \E u \in Users :
       /\ user[u] # "deleted"
       /\ user' = [user EXCEPT ![u] = "alive"]
       /\ AddRow(req[r].ident, u, How(r)) \/ UNCHANGED third
       /\ req' = [req EXCEPT ![r].pc = "store", ![r].user = u]
  /\ lock' = NoReq
  /\ UNCHANGED <<cache, yields, shared>>

\* The directory or the database refuses the account.
RegisterFails(r) ==
  /\ req[r].pc \in {"create", "createBlind"} /\ lock' = NoReq /\ Done(r)
  /\ UNCHANGED <<user, third, cache, yields, shared>>

\* The code now stands for the account.
CallbackStores(r) ==
  /\ req[r].pc = "store" /\ Store(req[r].code, req[r].user) /\ Done(r)
  /\ UNCHANGED <<user, third, lock, yields, shared>>

-----------------------------------------------------------------------------
(* A user of the console approves the login: oauth/login.vue, oauth/bind.vue *)

ConfirmLoads(r, c, u) ==
  /\ c \in cached /\ u \in Alive /\ Takes(r, "confirm", c, u)
  /\ UNCHANGED <<user, third, cache, lock, yields, shared>>

\* The identity the item holds at this moment is bound to the user first.
BindConfirmLoads(r, c, u) ==
  /\ c \in cached /\ u \in Alive /\ req[r] = Idle
  /\ req' = [req EXCEPT ![r] = [pc |-> "bindConfirm", code |-> c, user |-> u, ident |-> item[c].ident]]
  /\ UNCHANGED <<user, third, cache, lock, yields, shared>>

ConfirmStores(r) ==
  /\ req[r].pc = "confirm" /\ Store(req[r].code, req[r].user) /\ Done(r)
  /\ UNCHANGED <<user, third, lock, yields, shared>>

-----------------------------------------------------------------------------
(* The device, or the console in its user store, asks for the token          *)

\* Requests that hold code c and have not removed it yet.
Querying(c) == {r \in Reqs : req[r].code = c /\ req[r].pc \in {"find", "spend"}}

QueryLoads(r, c) ==
  /\ c \in cached /\ item[c].user # NoUser /\ Takes(r, "find", c, NoUser)
  /\ shared' = IF Querying(c) = {} THEN shared ELSE shared \cup {c}
  /\ UNCHANGED <<user, third, cache, lock, yields>>

\* InfoById never gives nil: for a deleted account the login goes on without one.
QueryFinds(r) ==
  /\ req[r].pc = "find"
  /\ \E u \in InfoById(item[req[r].code].user) :
       req' = [req EXCEPT ![r].pc = "spend", ![r].user = u]
  /\ UNCHANGED <<user, third, cache, lock, yields, shared>>

\* Mutant: the code stays in the cache until its timer.
QuerySpendsNothing(r) ==
  /\ req[r].pc = "spend" /\ Goes(r, "login")
  /\ UNCHANGED <<user, third, cache, lock, yields, shared>>

\* The code is removed before the token is made.
QuerySpends(r) ==
  /\ req[r].pc = "spend" /\ Goes(r, "login")
  /\ cached' = cached \ {req[r].code}
  /\ UNCHANGED <<user, third, item, timer, putBack, lock, yields, shared>>

QueryLogsIn(r) ==
  /\ req[r].pc = "login" /\ Done(r)
  /\ yields' = [yields EXCEPT ![req[r].code] = IF @ = 0 THEN 1 ELSE 2]
  /\ UNCHANGED <<user, third, cache, lock, shared>>

-----------------------------------------------------------------------------
(* Accounts                                                                *)

\* An account and its rows are deleted; its tokens, and the codes that stand
\* for it, are not.
Delete(u) ==
  /\ u \in Alive /\ user' = [user EXCEPT ![u] = "deleted"]
  /\ third' = {row \in third : row.user # u}
  /\ UNCHANGED <<cache, lock, req, yields, shared>>

Unbind(u) ==
  /\ u \in Alive /\ \E row \in third : row.user = u
  /\ third' = {row \in third : row.user # u}
  /\ UNCHANGED <<user, cache, lock, req, yields, shared>>

Callback(r) ==
  \/ \E c \in Codes : CallbackLoads(r, c)
  \/ ExchangeFails(r)
  \/ \E i \in Idents : ExchangeForBind(r, i) \/ ExchangeForLogin(r, i)
  \/ BindInserts(r) \/ BindFails(r)
  \/ RegisterChecks(r) \/ RegisterCreates(r) \/ RegisterFails(r) \/ CallbackStores(r)

Approval(r) ==
  \/ \E c \in Codes, u \in Users : ConfirmLoads(r, c, u) \/ BindConfirmLoads(r, c, u)
  \/ ConfirmStores(r)

Query(r) ==
  \/ \E c \in Codes : QueryLoads(r, c)
  \/ QueryFinds(r) \/ QuerySpends(r) \/ QueryLogsIn(r)

Next ==
  \/ \E c \in Codes : OidcAuth(c) \/ TimerFires(c)
  \/ \E c \in Codes, u \in Users : ToBind(c, u)
  \/ \E r \in Reqs : Callback(r) \/ Approval(r) \/ Query(r)
  \/ \E u \in Users : Delete(u) \/ Unbind(u)

Spec == Init /\ [][Next]_vars

\* Only the timers are promised: time.AfterFunc fires.
FairSpec == Spec /\ \A c \in Codes : WF_vars(TimerFires(c))
-----------------------------------------------------------------------------
TypeOK ==
  /\ user \in [Users -> {"unborn", "alive", "deleted"}]
  /\ third \subseteq RowType
  /\ cached \subseteq Codes /\ item \in [Codes -> ItemType]
  /\ timer \in [Codes -> {"none", "set", "fired"}]
  /\ lock \in Reqs \cup {NoReq} /\ req \in [Reqs -> ReqType]
  /\ \A r \in Reqs : lock = r <=> req[r].pc \in {"create", "createBlind"}
  /\ yields \in [Codes -> 0..2] /\ putBack \subseteq Codes /\ shared \subseteq Codes

\* An identity is registered again only by a callback whose look for the older
\* row failed, however many callbacks of it arrive at once and whatever is bound,
\* unbound or deleted meanwhile (service/user.go 321-376, the lock and the second
\* look behind it; service/oauth.go 358 drops the error of the look).
RegisteredOnce ==
  \A a, b \in third :
    /\ a.ident = b.ident /\ a.id <= b.id
    /\ a.how # "bound" /\ b.how = "registered"
    => a = b

\* A code is worth one token.  The two ways to a second one: two queries hold
\* the code before either removes it, or a callback or a confirmation stores
\* the code again after a query removed it (api/ouath.go 75-99).
CodeYieldsOneToken == \A c \in Codes : c \notin putBack \cup shared => yields[c] <= 1

\* A code does not stay in the cache, unless it was put back there: that code
\* has no timer any more (service/oauth.go 85-92).
CodesExpire == \A c \in Codes : c \in cached ~> c \notin cached \/ c \in putBack
=============================================================================
