-------------------------- MODULE OauthLoginProofs ---------------------------
(* Theorems about OauthLogin: types and the lock, one registration for an     *)
(* identity, one token for a code, for any accounts, codes and requests.      *)
EXTENDS OauthLogin, TLAPS

-----------------------------------------------------------------------------
(* Types and the lock                                                      *)

\* What the cache operations and the bookkeeping of a request do to types.
LEMMA BeginType ==
  ASSUME TypeOK, NEW c \in Codes, NEW action \in {"login", "bind"},
         NEW u \in Users \cup {NoUser}, Begin(c, action, u)
  PROVE  /\ cached' \subseteq Codes /\ item' \in [Codes -> ItemType]
         /\ timer' \in [Codes -> {"none", "set", "fired"}] /\ putBack' \subseteq Codes
  BY ZenonT(60) DEF TypeOK, Begin, ItemType

LEMMA StoreType ==
  ASSUME TypeOK, NEW c \in Codes, NEW u \in Users \cup {NoUser}, Store(c, u)
  PROVE  /\ cached' \subseteq Codes /\ item' \in [Codes -> ItemType]
         /\ timer' \in [Codes -> {"none", "set", "fired"}] /\ putBack' \subseteq Codes
  BY ZenonT(60) DEF TypeOK, Store, ItemType

LEMMA AddRowType ==
  ASSUME TypeOK, NEW i \in Idents \cup {NoIdent}, NEW u \in Users,
         NEW how \in {"bound", "registered", "blind"}, AddRow(i, u, how)
  PROVE  third' \subseteq RowType
  BY DEF TypeOK, AddRow, RowType

\* What the requests and the codes hold on to besides their types: a request at
\* work has a code, and the account a bind or a confirmation is for; a code no
\* one has begun is nowhere; only logins are stored without an account.
Busy == \A r \in Reqs :
  /\ req[r].pc # "idle" => req[r].code \in Codes
  /\ req[r].pc \in {"bind", "bindConfirm", "confirm"} => req[r].user \in Users
  /\ req[r].pc \in {"register", "create", "createBlind", "store"} => item[req[r].code].action = "login"
BindsHaveUser == \A c \in Codes : item[c].action = "bind" => item[c].user \in Users
Fresh == \A c \in Codes : timer[c] = "none" =>
  c \notin cached /\ yields[c] = 0 /\ \A r \in Reqs : req[r].code # c

TInv == TypeOK /\ Busy /\ BindsHaveUser /\ Fresh

LEMMA InfoByIdType ==
  ASSUME NEW u PROVE InfoById(u) \subseteq Users \cup {NoUser} /\ NoUser \in InfoById(u)
  BY DEF InfoById, Alive

LEMMA InfoByOauthIdType ==
  ASSUME NEW i PROVE InfoByOauthId(i) \subseteq Users \cup {NoUser}
  BY InfoByIdType DEF InfoByOauthId

LEMMA TypeInit == Init => TInv
  BY ConstantsAssumption DEF Init, TInv, TypeOK, Busy, BindsHaveUser, Fresh, NewItem, Idle,
     ItemType, ReqType, RowType

\* The fields of a request that goes on to be registered, bound or stored.
LEMMA RegisterRequest ==
  ASSUME NEW t \in ReqType, NEW i \in Idents
  PROVE  LET q == [t EXCEPT !.pc = "register", !.ident = i]
         IN  q \in ReqType /\ q.pc = "register" /\ q.code = t.code
BY ZenonT(60) DEF ReqType

LEMMA StoreRequest ==
  ASSUME NEW q \in ReqType, NEW u \in Users \cup {NoUser}
  PROVE  LET n == [q EXCEPT !.pc = "store", !.user = u]
         IN n \in ReqType /\ n.pc = "store" /\ n.code = q.code /\ n.user = u
  BY ZenonT(60) DEF ReqType

\* A step that moves one request and nothing it depends on.
LEMMA MoveStep ==
  ASSUME TInv, NEW r \in Reqs, NEW q \in ReqType, req' = [req EXCEPT ![r] = q],
         UNCHANGED <<user, third, cached, item, timer, lock, yields, putBack>>,
         shared' \subseteq Codes,
         q.pc \in {"create", "createBlind"} <=> req[r].pc \in {"create", "createBlind"},
         q.code # NoCode => q.code \in Codes /\ timer[q.code] # "none",
         q.pc # "idle" => q.code # NoCode,
         q.pc \in {"bind", "bindConfirm", "confirm"} => q.user \in Users,
         q.pc \in {"register", "create", "createBlind", "store"} => item[q.code].action = "login"
  PROVE  TInv'
<1> USE ConstantsAssumption
<1> USE DEF TInv, TypeOK, Busy, BindsHaveUser, Fresh
<1>1. \A t \in Reqs : req'[t] = IF t = r THEN q ELSE req[t]
  OBVIOUS
<1>2. req' \in [Reqs -> ReqType]
  OBVIOUS
<1>3. TypeOK' BY <1>1, <1>2
<1>4. Busy' BY <1>1
<1>5. Fresh' BY <1>1
<1> QED BY <1>3, <1>4, <1>5

LEMMA TypeStep == TInv /\ [Next]_vars => TInv'
<1> SUFFICES ASSUME TInv, [Next]_vars PROVE TInv'
  OBVIOUS
<1> USE ConstantsAssumption
<1> USE DEF TInv, TypeOK, Busy, BindsHaveUser, Fresh, cache
<1>1. ASSUME NEW c \in Codes, OidcAuth(c) PROVE TInv'
  <2>1. Begin(c, "login", NoUser) BY <1>1 DEF OidcAuth
  <2>2. TypeOK' BY <1>1, <2>1, BeginType DEF OidcAuth
  <2> QED BY <1>1, <2>1, <2>2 DEF OidcAuth, Begin, ItemType, ReqType
<1>2. ASSUME NEW c \in Codes, TimerFires(c) PROVE TInv'
  BY <1>2 DEF TimerFires
<1>3. ASSUME NEW c \in Codes, NEW u \in Users, ToBind(c, u) PROVE TInv'
  <2>1. Begin(c, "bind", u) BY <1>3 DEF ToBind
  <2>2. TypeOK' BY <1>3, <2>1, BeginType DEF ToBind
  <2> QED BY <1>3, <2>1, <2>2 DEF ToBind, Begin, ItemType, ReqType
<1>4. ASSUME NEW r \in Reqs, NEW c \in Codes, CallbackLoads(r, c) PROVE TInv'
  <2> DEFINE q == [pc |-> "exchange", code |-> c, user |-> NoUser, ident |-> NoIdent]
  <2>1. q \in ReqType BY DEF ReqType
  <2>2. req' = [req EXCEPT ![r] = q] /\ req[r].pc = "idle" /\ timer[c] # "none"
    BY <1>4 DEF CallbackLoads, Takes, Idle
  <2>3. UNCHANGED <<user, third, cached, item, timer, lock, yields, putBack, shared>>
    BY <1>4 DEF CallbackLoads
  <2> QED BY <2>1, <2>2, <2>3, MoveStep
<1>5. ASSUME NEW r \in Reqs, ExchangeFails(r) PROVE TInv'
  BY <1>5 DEF ExchangeFails, Done, Idle, ReqType
<1>22. ASSUME NEW r \in Reqs, BindFails(r) PROVE TInv'
  BY <1>22 DEF BindFails, Done, Idle, ReqType
<1>23. ASSUME NEW r \in Reqs, RegisterFails(r) PROVE TInv'
  BY <1>23 DEF RegisterFails, Done, Idle, ReqType
<1>6. ASSUME NEW r \in Reqs, NEW i \in Idents, ExchangeForBind(r, i) PROVE TInv'
  <2>1. PICK c \in Codes : c = req[r].code BY <1>6 DEF ExchangeForBind
  <2>2. item[c].user \in Users /\ timer[c] # "none"
    BY <1>6, <2>1 DEF ExchangeForBind
  <2>3. UNCHANGED <<user, third, cached, item, timer, lock, yields, putBack, shared>>
    BY <1>6 DEF ExchangeForBind
  <2>4. CASE Done(r)
    <3>1. Idle \in ReqType /\ Idle.pc = "idle" /\ Idle.code = NoCode BY DEF Idle, ReqType
    <3>2. req' = [req EXCEPT ![r] = Idle] /\ req[r].pc = "exchange"
      BY <1>6, <2>4 DEF ExchangeForBind, Done
    <3> QED BY <2>3, <3>1, <3>2, MoveStep
  <2>5. CASE req' = [req EXCEPT ![r].pc = "bind", ![r].user = item[c].user, ![r].ident = i]
    <3>1. PICK u \in Users : u = item[c].user BY <2>2
    <3>2. PICK q : q = [req[r] EXCEPT !.pc = "bind", !.user = u, !.ident = i] OBVIOUS
    <3>3. req[r] \in ReqType /\ u \in Users /\ i \in Idents OBVIOUS
    <3>4. q \in ReqType /\ q.pc = "bind" /\ q.user = u /\ q.code = req[r].code
      BY ONLY <3>2, <3>3 DEF ReqType
    <3>5. req' = [req EXCEPT ![r] = q] /\ req[r].pc = "exchange"
      BY <1>6, <2>1, <2>5, <3>1, <3>2 DEF ExchangeForBind
    <3>6. q.code = c BY <2>1, <3>4
    <3> QED BY <2>2, <2>3, <3>4, <3>5, <3>6, MoveStep
  <2> QED BY <1>6, <2>1, <2>4, <2>5 DEF ExchangeForBind
<1>7. ASSUME NEW r \in Reqs, NEW i \in Idents, ExchangeForLogin(r, i) PROVE TInv'
  <2>2. PICK c \in Codes : c = req[r].code BY <1>7 DEF ExchangeForLogin
  <2>3. InfoByOauthId(i) \subseteq Users \cup {NoUser} BY InfoByOauthIdType
  <2>4. UNCHANGED <<user, third, cached, timer, lock, yields, putBack, shared>>
    BY <1>7 DEF ExchangeForLogin
  <2>5. item[c].action = "login" /\ req[r].pc = "exchange" /\ timer[c] # "none"
    BY <1>7, <2>2 DEF ExchangeForLogin
  <2>6. Idle \in ReqType /\ Idle.pc = "idle" /\ Idle.code = NoCode BY DEF Idle, ReqType
  <2>7. CASE Done(r) /\ UNCHANGED item
    BY <2>4, <2>5, <2>6, <2>7, MoveStep DEF Done
  <2>8. ASSUME NEW o \in InfoByOauthId(i), UNCHANGED item,
               req' = [req EXCEPT ![r].pc = "store", ![r].user = o]
        PROVE  TInv'
    <3>0. o \in Users \cup {NoUser} BY <2>3
    <3> DEFINE q == [req[r] EXCEPT !.pc = "store", !.user = o]
    <3>1. q \in ReqType /\ q.pc = "store" /\ q.code = req[r].code
      <4>1. req[r] \in ReqType OBVIOUS
      <4> QED BY ONLY <4>1, <3>0, StoreRequest, ZenonT(60)
    <3>2. req' = [req EXCEPT ![r] = q] BY <2>8
    <3>3. UNCHANGED <<user, third, cached, item, timer, lock, yields, putBack, shared>>
      BY <2>4, <2>8
    <3>4. shared' \subseteq Codes BY <3>3
    <3> HIDE DEF q
    <3>5. q.code = c BY <2>2, <3>1
    <3> QED BY <2>2, <2>5, <3>1, <3>2, <3>3, <3>4, <3>5, MoveStep
  <2>9. CASE req' = [req EXCEPT ![r].pc = "register", ![r].ident = i] /\ UNCHANGED item
    <3> DEFINE q == [req[r] EXCEPT !.pc = "register", !.ident = i]
    <3>0. q \in ReqType /\ q.pc = "register" /\ q.code = req[r].code
      <4>1. req[r] \in ReqType OBVIOUS
      <4> QED BY ONLY <4>1, RegisterRequest, ZenonT(60)
    <3>1. q \in ReqType /\ q.pc = "register" /\ q.code = c
      <4> HIDE DEF q
      <4> QED BY ONLY <2>2, <3>0
    <3>2. req' = [req EXCEPT ![r] = q] BY <2>9
    <3>3. UNCHANGED <<user, third, cached, item, timer, lock, yields, putBack, shared>>
      BY <2>4, <2>9
    <3>4. shared' \subseteq Codes BY <3>3
    <3> HIDE DEF q
    <3> QED BY <2>5, <3>1, <3>2, <3>3, <3>4, MoveStep
  <2>10. CASE Done(r) /\ item' = [item EXCEPT ![c].ident = i]
    <3>1. item' \in [Codes -> ItemType] BY <2>10 DEF ItemType
    <3>2. \A d \in Codes : item'[d].action = item[d].action /\ item'[d].user = item[d].user
      BY <2>10 DEF ItemType
    <3> QED BY <2>4, <2>5, <2>6, <2>10, <3>1, <3>2 DEF Done
  <2> QED BY <1>7, <2>2, <2>7, <2>8, <2>9, <2>10 DEF ExchangeForLogin
<1>8. ASSUME NEW r \in Reqs, BindInserts(r) PROVE TInv'
  <2>1. third' \subseteq RowType
    <3>1. req[r].user \in Users /\ req[r].ident \in Idents \cup {NoIdent}
      BY <1>8 DEF BindInserts, ReqType
    <3> QED BY <1>8, <3>1, AddRowType DEF BindInserts
  <2> QED BY <1>8, <2>1 DEF BindInserts, Done, Goes, Idle, ReqType
<1>9. ASSUME NEW r \in Reqs, RegisterChecks(r) PROVE TInv'
  <2>1. PICK rows : \/ /\ UNCHANGED lock
                       /\ \E u \in InfoById(First(rows).user) :
                            req' = [req EXCEPT ![r].pc = "store", ![r].user = u]
                    \/ /\ lock' = r
                       /\ \/ Goes(r, "create")
                          \/ Goes(r, "createBlind")
    BY <1>9 DEF RegisterChecks
  <2>2. /\ req[r].pc = "register" /\ lock = NoReq
        /\ UNCHANGED <<user, third, cached, item, timer, yields, putBack, shared>>
    BY <1>9 DEF RegisterChecks
  <2>3. ASSUME UNCHANGED lock, NEW u \in InfoById(First(rows).user),
               req' = [req EXCEPT ![r].pc = "store", ![r].user = u]
        PROVE  TInv'
    <3> DEFINE q == [req[r] EXCEPT !.pc = "store", !.user = u]
    <3>1. u \in Users \cup {NoUser} BY InfoByIdType
    <3>2. req[r] \in ReqType OBVIOUS
    <3>3. q \in ReqType /\ q.pc = "store" /\ q.code = req[r].code
      BY ONLY <3>1, <3>2, StoreRequest, ZenonT(60)
    <3>4. req' = [req EXCEPT ![r] = q] BY <2>3
    <3>5. /\ req[r].code \in Codes /\ timer[req[r].code] # "none"
          /\ item[req[r].code].action = "login"
      BY <2>2
    <3> HIDE DEF q
    <3> QED BY <2>2, <2>3, <3>3, <3>4, <3>5, MoveStep
  <2>4. ASSUME NEW pc \in {"create", "createBlind"}, Goes(r, pc), lock' = r PROVE TInv'
    <3>1. req' \in [Reqs -> ReqType] BY <2>4 DEF Goes, ReqType
    <3>2. \A t \in Reqs : /\ req'[t].code = req[t].code /\ req'[t].user = req[t].user
                          /\ req'[t].pc = IF t = r THEN pc ELSE req[t].pc
      BY <2>4 DEF Goes, ReqType
    <3> QED BY <2>2, <2>4, <3>1, <3>2
  <2> QED BY <2>1, <2>3, <2>4
<1>10. ASSUME NEW r \in Reqs, RegisterCreates(r) PROVE TInv'
  <2>1. PICK u \in Users : /\ user' = [user EXCEPT ![u] = "alive"]
                           /\ AddRow(req[r].ident, u, How(r)) \/ UNCHANGED third
                           /\ req' = [req EXCEPT ![r].pc = "store", ![r].user = u]
    BY <1>10 DEF RegisterCreates
  <2>2. third' \subseteq RowType
    BY <2>1, AddRowType DEF ReqType, How
  <2>3. UNCHANGED <<cached, item, timer, putBack, yields, shared>> /\ lock' = NoReq
    BY <1>10 DEF RegisterCreates
  <2>4. req' \in [Reqs -> ReqType]
    <3>1. [req[r] EXCEPT !.pc = "store", !.user = u] \in ReqType
      BY StoreRequest
    <3> QED BY <2>1, <3>1
  <2>5. \A t \in Reqs : /\ req'[t].code = req[t].code
                        /\ req'[t].pc = IF t = r THEN "store" ELSE req[t].pc
                        /\ t # r => req'[t] = req[t]
    BY <2>1
  <2>6. lock = r /\ req[r].pc \in {"create", "createBlind"} BY <1>10 DEF RegisterCreates
  <2>7. \A t \in Reqs : req'[t].pc \notin {"create", "createBlind"} BY <2>5, <2>6
  <2>8. user' \in [Users -> {"unborn", "alive", "deleted"}] BY <2>1
  <2>9. TypeOK' BY <2>2, <2>3, <2>4, <2>7, <2>8
  <2>10. Busy' BY <2>3, <2>5, <2>6
  <2> QED BY <2>3, <2>5, <2>9, <2>10
<1>11. ASSUME NEW r \in Reqs, CallbackStores(r) PROVE TInv'
  <2>1. PICK c \in Codes : c = req[r].code BY <1>11 DEF CallbackStores
  <2>2. req[r].user \in Users \cup {NoUser} BY DEF ReqType
  <2>3. Store(c, req[r].user) BY <1>11, <2>1 DEF CallbackStores
  <2>4. TypeOK' BY <1>11, <2>1, <2>2, <2>3, StoreType DEF CallbackStores, Done, Idle, ReqType
  <2> QED BY <1>11, <2>1, <2>3, <2>4 DEF CallbackStores, Store, Done, Idle, ReqType, ItemType
<1>12. ASSUME NEW r \in Reqs, NEW c \in Codes, NEW u \in Users,
              ConfirmLoads(r, c, u) PROVE TInv'
  <2> DEFINE q == [pc |-> "confirm", code |-> c, user |-> u, ident |-> NoIdent]
  <2>1. q \in ReqType BY DEF ReqType
  <2>2. req' = [req EXCEPT ![r] = q] /\ req[r].pc = "idle" /\ timer[c] # "none"
    BY <1>12 DEF ConfirmLoads, Takes, Idle
  <2>3. UNCHANGED <<user, third, cached, item, timer, lock, yields, putBack, shared>>
    BY <1>12 DEF ConfirmLoads
  <2> QED BY <2>1, <2>2, <2>3, MoveStep
<1>13. ASSUME NEW r \in Reqs, NEW c \in Codes, NEW u \in Users,
              BindConfirmLoads(r, c, u) PROVE TInv'
  BY <1>13 DEF BindConfirmLoads, Idle, ReqType, ItemType
<1>14. ASSUME NEW r \in Reqs, ConfirmStores(r) PROVE TInv'
  <2>1. PICK c \in Codes : c = req[r].code BY <1>14 DEF ConfirmStores
  <2>2. req[r].user \in Users BY <1>14 DEF ConfirmStores
  <2>3. Store(c, req[r].user) BY <1>14, <2>1 DEF ConfirmStores
  <2>4. TypeOK' BY <1>14, <2>1, <2>2, <2>3, StoreType DEF ConfirmStores, Done, Idle, ReqType
  <2> QED BY <1>14, <2>1, <2>2, <2>3, <2>4 DEF ConfirmStores, Store, Done, Idle, ReqType, ItemType
<1>15. ASSUME NEW r \in Reqs, NEW c \in Codes, QueryLoads(r, c) PROVE TInv'
  <2> DEFINE q == [pc |-> "find", code |-> c, user |-> NoUser, ident |-> NoIdent]
  <2>1. q \in ReqType BY DEF ReqType
  <2>2. req' = [req EXCEPT ![r] = q] /\ req[r].pc = "idle" /\ timer[c] # "none"
    BY <1>15 DEF QueryLoads, Takes, Idle
  <2>3. UNCHANGED <<user, third, cached, item, timer, lock, yields, putBack>>
    BY <1>15 DEF QueryLoads
  <2>4. shared' \subseteq Codes BY <1>15 DEF QueryLoads
  <2> QED BY <2>1, <2>2, <2>3, <2>4, MoveStep
<1>16. ASSUME NEW r \in Reqs, QueryFinds(r) PROVE TInv'
  <2>1. PICK u \in Users \cup {NoUser} : req' = [req EXCEPT ![r].pc = "spend", ![r].user = u]
    BY <1>16, InfoByIdType DEF QueryFinds
  <2> DEFINE q == [req[r] EXCEPT !.pc = "spend", !.user = u]
  <2>2. req[r].code \in Codes /\ timer[req[r].code] # "none" BY <1>16 DEF QueryFinds
  <2>3. q \in ReqType /\ q.pc = "spend" /\ q.code = req[r].code
    <3>1. req[r] \in ReqType OBVIOUS
    <3> QED BY ONLY <3>1, <2>1, ZenonT(60) DEF ReqType
  <2>4. req' = [req EXCEPT ![r] = q] /\ req[r].pc = "find" BY <1>16, <2>1 DEF QueryFinds
  <2>5. UNCHANGED <<user, third, cached, item, timer, lock, yields, putBack, shared>>
    BY <1>16 DEF QueryFinds
  <2> HIDE DEF q
  <2> QED BY <2>2, <2>3, <2>4, <2>5, MoveStep
<1>17. ASSUME NEW r \in Reqs, QuerySpends(r) PROVE TInv'
  BY <1>17 DEF QuerySpends, Goes, ReqType
<1>18. ASSUME NEW r \in Reqs, QueryLogsIn(r) PROVE TInv'
  BY <1>18 DEF QueryLogsIn, Done, Idle, ReqType
<1>19. ASSUME NEW u \in Users, Delete(u) PROVE TInv'
  BY <1>19 DEF Delete
<1>20. ASSUME NEW u \in Users, Unbind(u) PROVE TInv'
  BY <1>20 DEF Unbind
<1>21. CASE UNCHANGED vars
  BY <1>21 DEF vars
<1> QED
  BY <1>1, <1>2, <1>3, <1>4, <1>5, <1>6, <1>7, <1>8, <1>9, <1>10, <1>11, <1>12, <1>13, <1>14,
     <1>15, <1>16, <1>17, <1>18, <1>19, <1>20, <1>21, <1>22, <1>23
     DEF Next, Callback, Approval, Query

-----------------------------------------------------------------------------
(* One registration for an identity                                        *)

\* Between a look that found nothing and the new row nobody else registers the
\* identity: rows that are bound meanwhile are not registered ones, and a blind
\* registration needs the lock, too.
NoneYet == \A r \in Reqs : req[r].pc = "create" =>
  \A row \in third : row.how # "bound" => row.ident # req[r].ident

RInv == TInv /\ RegisteredOnce /\ NoneYet

\* Steps that add no registered row and start no registration.
LEMMA QuietStep ==
  ASSUME RInv, \A row \in third' : row \in third \/ row.how = "bound",
         \A r \in Reqs : req'[r].pc = "create" => req'[r] = req[r]
  PROVE  (RegisteredOnce /\ NoneYet)'
  BY DEF RInv, RegisteredOnce, NoneYet

LEMMA RegisterStep == RInv /\ [Next]_vars => RInv'
<1> SUFFICES ASSUME RInv, [Next]_vars PROVE (RegisteredOnce /\ NoneYet)'
  BY TypeStep DEF RInv
<1>1. /\ req \in [Reqs -> ReqType]
      /\ \A r \in Reqs : lock = r <=> req[r].pc \in {"create", "createBlind"}
  BY DEF RInv, TInv, TypeOK
<1>2. ASSUME NEW r \in Reqs, RegisterChecks(r) PROVE (RegisteredOnce /\ NoneYet)'
  <2>1. third' = third /\ req[r].pc = "register" BY <1>2 DEF RegisterChecks
  <2>2. CASE req'[r].pc # "create"
    <3>1. \A t \in Reqs : t # r => req'[t] = req[t]
      BY <1>1, <1>2 DEF RegisterChecks, Goes
    <3>2. \A row \in third' : row \in third \/ row.how = "bound" BY <2>1
    <3> QED BY <2>2, <3>1, <3>2, QuietStep
  <2>3. CASE req'[r].pc = "create"
    <3>1. RowsOf(req[r].ident) = {} /\ Goes(r, "create")
      BY <1>1, <1>2, <2>3 DEF RegisterChecks, Goes, ReqType
    <3>2. \A row \in third : row.ident # req[r].ident BY <3>1 DEF RowsOf
    <3>3. \A t \in Reqs : req'[t].ident = req[t].ident /\ (t # r => req'[t] = req[t])
      BY <1>1, <3>1 DEF Goes, ReqType
    <3> QED BY <2>1, <3>2, <3>3 DEF RInv, RegisteredOnce, NoneYet
  <2> QED BY <2>2, <2>3
<1>3. ASSUME NEW r \in Reqs, RegisterCreates(r) PROVE (RegisteredOnce /\ NoneYet)'
  <2>1. PICK u \in Users : /\ AddRow(req[r].ident, u, How(r)) \/ UNCHANGED third
                           /\ req' = [req EXCEPT ![r].pc = "store", ![r].user = u]
    BY <1>3 DEF RegisterCreates
  <2>2. req[r].pc \in {"create", "createBlind"} BY <1>3 DEF RegisterCreates
  <2>3. \A t \in Reqs : req'[t].pc # "create"
    <3>1. \A t \in Reqs : t # r => req'[t] = req[t] BY <1>1, <2>1
    <3>2. req'[r].pc = "store" BY <1>1, <2>1 DEF ReqType
    <3> QED BY <1>1, <2>2, <3>1, <3>2
  <2>4. ASSUME NEW n \in 1..MaxRows, \A row \in third : row.id < n,
               third' = third \cup {[id |-> n, ident |-> req[r].ident, user |-> u,
                                     how |-> How(r)]}
        PROVE  RegisteredOnce'
    <3> DEFINE new == [id |-> n, ident |-> req[r].ident, user |-> u, how |-> How(r)]
    <3>1. SUFFICES ASSUME NEW a \in third', NEW b \in third', a.ident = b.ident, a.id <= b.id,
                          a.how # "bound", b.how = "registered"
                   PROVE  a = b
      BY DEF RegisteredOnce
    <3>2. \A row \in third : row.id \in Int BY DEF RInv, TInv, TypeOK, RowType
    <3>3. CASE a \in third /\ b \in third
      BY <3>1, <3>3 DEF RInv, RegisteredOnce
    <3>4. CASE a = new /\ b \in third
      BY <2>4, <3>1, <3>2, <3>4
    <3>5. CASE a \in third /\ b = new
      <4>1. req[r].pc = "create" BY <3>1, <3>5 DEF How
      <4> QED BY <3>1, <3>5, <4>1 DEF RInv, NoneYet
    <3> QED BY <2>4, <3>3, <3>4, <3>5
  <2>5. ASSUME UNCHANGED third PROVE RegisteredOnce'
    BY <2>5 DEF RInv, RegisteredOnce
  <2>6. RegisteredOnce' BY <2>1, <2>4, <2>5 DEF AddRow
  <2> QED BY <2>3, <2>6 DEF NoneYet
<1>4. ASSUME NEW r \in Reqs, BindInserts(r) PROVE (RegisteredOnce /\ NoneYet)'
  <2>1. PICK n : third' = third \cup {[id |-> n, ident |-> req[r].ident,
                                       user |-> req[r].user, how |-> "bound"]}
    BY <1>4 DEF BindInserts, AddRow
  <2>2. \A t \in Reqs : req'[t].pc = "create" => req'[t] = req[t]
    BY <1>1, <1>4 DEF BindInserts, Done, Goes, Idle, ReqType
  <2>3. \A row \in third' : row \in third \/ row.how = "bound" BY <2>1
  <2> QED BY <2>2, <2>3, QuietStep
<1>5. ASSUME third' \subseteq third,
             \A r \in Reqs : req'[r].pc = "create" => req'[r] = req[r]
      PROVE  (RegisteredOnce /\ NoneYet)'
  <2>1. \A row \in third' : row \in third \/ row.how = "bound" BY <1>5
  <2> QED BY <1>5, <2>1, QuietStep
<1>6. ASSUME NEW r \in Reqs,
             \/ \E c \in Codes : CallbackLoads(r, c) \/ QueryLoads(r, c)
             \/ ExchangeFails(r) \/ BindFails(r) \/ RegisterFails(r)
             \/ CallbackStores(r) \/ ConfirmStores(r)
             \/ \E i \in Idents : ExchangeForBind(r, i) \/ ExchangeForLogin(r, i)
             \/ \E c \in Codes, u \in Users : ConfirmLoads(r, c, u) \/ BindConfirmLoads(r, c, u)
             \/ QueryFinds(r) \/ QuerySpends(r) \/ QueryLogsIn(r)
      PROVE  (RegisteredOnce /\ NoneYet)'
  <2>1. third' = third
    BY <1>6 DEF CallbackLoads, QueryLoads, ExchangeFails, BindFails, RegisterFails, CallbackStores, ConfirmStores,
       ExchangeForBind, ExchangeForLogin, ConfirmLoads, BindConfirmLoads, QueryFinds,
       QuerySpends, QueryLogsIn
  <2>2. \A t \in Reqs : req'[t].pc = "create" => req'[t] = req[t]
    <3>1. Idle.pc # "create" BY DEF Idle
    <3>2. CASE \E c \in Codes : CallbackLoads(r, c)
      BY <1>1, <3>2 DEF CallbackLoads, Takes
    <3>3. CASE \E c \in Codes : QueryLoads(r, c)
      BY <1>1, <3>3 DEF QueryLoads, Takes
    <3>4. CASE \/ ExchangeFails(r) \/ BindFails(r) \/ RegisterFails(r)
               \/ CallbackStores(r) \/ ConfirmStores(r) \/ QueryLogsIn(r)
      <4>1. Done(r)
        BY <3>4 DEF ExchangeFails, BindFails, RegisterFails, CallbackStores, ConfirmStores, QueryLogsIn
      <4> QED BY <1>1, <3>1, <4>1 DEF Done
    <3>5. CASE \E c \in Codes, u \in Users : ConfirmLoads(r, c, u)
      BY <1>1, <3>5 DEF ConfirmLoads, Takes
    <3>6. CASE \E c \in Codes, u \in Users : BindConfirmLoads(r, c, u)
      BY <1>1, <3>6 DEF BindConfirmLoads
    <3>7. CASE \E i \in Idents : ExchangeForBind(r, i)
      BY <1>1, <3>1, <3>7 DEF ExchangeForBind, Done, ReqType
    <3>8. CASE \E i \in Idents : ExchangeForLogin(r, i)
      BY <1>1, <3>1, <3>8 DEF ExchangeForLogin, Done, ReqType
    <3>b. CASE QueryFinds(r) \/ QuerySpends(r)
      BY <1>1, <3>b DEF QueryFinds, QuerySpends, Goes, ReqType
    <3> QED BY <1>6, <3>2, <3>3, <3>4, <3>5, <3>6, <3>7, <3>8, <3>b
  <2> QED BY <1>5, <2>1, <2>2
<1>7. ASSUME \/ \E c \in Codes : OidcAuth(c) \/ TimerFires(c)
             \/ \E c \in Codes, u \in Users : ToBind(c, u)
             \/ \E u \in Users : Delete(u) \/ Unbind(u)
             \/ UNCHANGED vars
      PROVE  (RegisteredOnce /\ NoneYet)'
  <2>1. third' \subseteq third /\ req' = req
    BY <1>7 DEF OidcAuth, TimerFires, ToBind, Delete, Unbind, vars
  <2> QED BY <1>5, <2>1
<1> QED
  BY <1>2, <1>3, <1>4, <1>6, <1>7 DEF Next, Callback, Approval, Query

\* Whatever callbacks of an identity run at once, and whatever is bound, unbound
\* or deleted meanwhile, a registration that comes after another one of the same
\* identity is blind: its look for the row failed.
THEOREM IdentitiesAreRegisteredOnce == Spec => []RegisteredOnce
<1>1. Init => RInv
  BY TypeInit, ConstantsAssumption DEF Init, RInv, RegisteredOnce, NoneYet, Idle
<1>2. Spec => []RInv BY <1>1, RegisterStep, PTL DEF Spec
<1> QED BY <1>2, PTL DEF RInv

-----------------------------------------------------------------------------
(* One token for a code                                                    *)

\* Requests that have taken code c for a token they have not given out yet.
Asking(c) == {r \in Reqs : req[r].code = c /\ req[r].pc \in {"find", "spend", "login"}}

\* A code that is in the cache has given no token and no one is past removing it,
\* unless it was stored again or two queries held it.
Unspent == \A c \in Codes : c \notin putBack \cup shared =>
  /\ \A r, t \in Asking(c) : r = t
  /\ \A r \in Asking(c) : yields[c] = 0
  /\ c \in cached => yields[c] = 0 /\ \A r \in Asking(c) : req[r].pc # "login"
  /\ yields[c] <= 1

SInv == TInv /\ Unspent

\* Steps that neither begin a code, nor take one, nor give out a token.
LEMMA AsideStep ==
  ASSUME SInv, UNCHANGED <<yields, shared>>, putBack \subseteq putBack',
         cached' \subseteq cached \cup putBack',
         \A t \in Reqs : req'[t].pc \in {"find", "spend", "login"} =>
           req'[t].code = req[t].code /\ req[t].pc \in {"find", "spend", "login"}
             /\ (req'[t].pc = "login" => req[t].pc = "login")
  PROVE  Unspent'
  BY DEF SInv, Unspent, Asking

LEMMA SpendStep == SInv /\ [Next]_vars => SInv'
<1> SUFFICES ASSUME SInv, [Next]_vars PROVE Unspent'
  BY TypeStep DEF SInv
<1>1. req \in [Reqs -> ReqType] /\ yields \in [Codes -> 0..2]
  BY DEF SInv, TInv, TypeOK
<1>2. ASSUME NEW c \in Codes, OidcAuth(c) \/ \E u \in Users : ToBind(c, u) PROVE Unspent'
  <2>1. /\ timer[c] = "none" /\ cached' = cached \cup {c}
        /\ UNCHANGED <<putBack, shared, req, yields>>
    BY <1>2 DEF OidcAuth, ToBind, Begin
  <2>2. yields[c] = 0 /\ \A r \in Reqs : req[r].code # c
    BY <2>1 DEF SInv, TInv, Fresh
  <2> QED BY <2>1, <2>2 DEF SInv, Unspent, Asking
<1>3. ASSUME NEW r \in Reqs, NEW c \in Codes, QueryLoads(r, c) PROVE Unspent'
  <2>1. /\ c \in cached /\ req[r] = Idle /\ UNCHANGED <<cached, putBack, yields>>
        /\ shared' = IF Querying(c) = {} THEN shared ELSE shared \cup {c}
    BY <1>3 DEF QueryLoads, Takes, cache
  <2>2. /\ req'[r].pc = "find" /\ req'[r].code = c
        /\ \A t \in Reqs : t # r => req'[t] = req[t]
    BY <1>1, <1>3 DEF QueryLoads, Takes
  <2>3. c \notin putBack' \cup shared' =>
          \A t \in Reqs : req'[t].code = c /\ req'[t].pc \in {"find", "spend", "login"} => t = r
    BY <2>1, <2>2 DEF SInv, Unspent, Asking, Querying
  <2>4. \A d \in Codes : d # c /\ d \notin putBack' \cup shared' =>
          d \notin putBack \cup shared /\ \A t \in Reqs : req'[t].code = d => req'[t] = req[t]
    BY <2>1, <2>2
  <2>5. \A d \in Codes : d \notin putBack' \cup shared' => d \notin putBack \cup shared
    BY <2>1
  <2> QED BY <2>1, <2>2, <2>3, <2>4, <2>5 DEF SInv, Unspent, Asking
<1>4. ASSUME NEW r \in Reqs, QueryFinds(r) PROVE Unspent'
  <2>1. \A t \in Reqs : /\ req'[t].code = req[t].code
                        /\ req'[t].pc = IF t = r THEN "spend" ELSE req[t].pc
    BY <1>1, <1>4 DEF QueryFinds, ReqType
  <2>2. UNCHANGED <<cached, putBack, yields, shared>> /\ req[r].pc = "find"
    BY <1>4 DEF QueryFinds, cache
  <2> QED BY <2>1, <2>2, AsideStep
<1>5. ASSUME NEW r \in Reqs, QuerySpends(r) PROVE Unspent'
  <2>1. \A t \in Reqs : /\ req'[t].code = req[t].code
                        /\ req'[t].pc = IF t = r THEN "login" ELSE req[t].pc
    BY <1>1, <1>5 DEF QuerySpends, Goes, ReqType
  <2>2. /\ UNCHANGED <<putBack, yields, shared>> /\ req[r].pc = "spend"
        /\ cached' = cached \ {req[r].code}
    BY <1>5 DEF QuerySpends
  <2> QED BY <2>1, <2>2 DEF SInv, Unspent, Asking
<1>6. ASSUME NEW r \in Reqs, QueryLogsIn(r) PROVE Unspent'
  <2>1. PICK c \in Codes : c = req[r].code BY <1>6 DEF QueryLogsIn, SInv, TInv, Busy
  <2>2. /\ UNCHANGED <<cached, putBack, shared>> /\ req[r].pc = "login"
        /\ yields' = [yields EXCEPT ![c] = IF @ = 0 THEN 1 ELSE 2]
    BY <1>6, <2>1 DEF QueryLogsIn, cache
  <2>3. req'[r].pc = "idle" /\ \A t \in Reqs : t # r => req'[t] = req[t]
    BY <1>1, <1>6 DEF QueryLogsIn, Done, Idle
  <2>4. \A d \in Codes : yields'[d] = IF d = c THEN IF yields[c] = 0 THEN 1 ELSE 2 ELSE yields[d]
    BY <1>1, <2>2
  <2> QED BY <2>1, <2>2, <2>3, <2>4 DEF SInv, Unspent, Asking
<1>7. ASSUME NEW r \in Reqs, CallbackStores(r) \/ ConfirmStores(r) PROVE Unspent'
  <2>1. Store(req[r].code, req[r].user) /\ Done(r) /\ UNCHANGED <<yields, shared>>
    BY <1>7 DEF CallbackStores, ConfirmStores
  <2>2. req'[r].pc = "idle" /\ \A t \in Reqs : t # r => req'[t] = req[t]
    BY <1>1, <2>1 DEF Done, Idle
  <2>3. putBack \subseteq putBack' /\ cached' \subseteq cached \cup putBack'
    BY <2>1 DEF Store
  <2> QED BY <2>1, <2>2, <2>3, AsideStep
<1>8. ASSUME UNCHANGED <<cached, putBack, yields, shared>>, NEW r \in Reqs,
             req'[r].pc \notin {"find", "spend", "login"},
             \A t \in Reqs : t # r => req'[t] = req[t]
      PROVE  Unspent'
  BY <1>8, AsideStep
<1>9. ASSUME NEW r \in Reqs,
             \/ ExchangeFails(r) \/ BindFails(r) \/ RegisterFails(r)
             \/ BindInserts(r) \/ RegisterChecks(r) \/ RegisterCreates(r)
             \/ \E c \in Codes : CallbackLoads(r, c)
             \/ \E c \in Codes, u \in Users : ConfirmLoads(r, c, u) \/ BindConfirmLoads(r, c, u)
             \/ \E i \in Idents : ExchangeForBind(r, i) \/ ExchangeForLogin(r, i)
      PROVE  Unspent'
  <2>1. UNCHANGED <<cached, putBack, yields, shared>>
    BY <1>9 DEF ExchangeFails, BindFails, RegisterFails, BindInserts, RegisterChecks, RegisterCreates, CallbackLoads,
       ConfirmLoads, BindConfirmLoads, ExchangeForBind, ExchangeForLogin, cache
  <2>2. Idle.pc = "idle" BY DEF Idle
  <2>3. req'[r].pc \notin {"find", "spend", "login"} /\ \A t \in Reqs : t # r => req'[t] = req[t]
    <3>1. CASE ExchangeFails(r) \/ BindFails(r) \/ RegisterFails(r)
      BY <1>1, <2>2, <3>1 DEF ExchangeFails, BindFails, RegisterFails, Done
    <3>2. CASE BindInserts(r) BY <1>1, <2>2, <3>2 DEF BindInserts, Done, Goes, ReqType
    <3>3. CASE RegisterChecks(r) BY <1>1, <3>3 DEF RegisterChecks, Goes, ReqType
    <3>4. CASE RegisterCreates(r) BY <1>1, <3>4 DEF RegisterCreates, ReqType
    <3>5. CASE \E c \in Codes : CallbackLoads(r, c) BY <1>1, <3>5 DEF CallbackLoads, Takes
    <3>6. CASE \E c \in Codes, u \in Users : ConfirmLoads(r, c, u)
      BY <1>1, <3>6 DEF ConfirmLoads, Takes
    <3>7. CASE \E c \in Codes, u \in Users : BindConfirmLoads(r, c, u)
      BY <1>1, <3>7 DEF BindConfirmLoads
    <3>8. CASE \E i \in Idents : ExchangeForBind(r, i)
      BY <1>1, <2>2, <3>8 DEF ExchangeForBind, Done, ReqType
    <3>b. CASE \E i \in Idents : ExchangeForLogin(r, i)
      BY <1>1, <2>2, <3>b DEF ExchangeForLogin, Done, ReqType
    <3> QED BY <1>9, <3>1, <3>2, <3>3, <3>4, <3>5, <3>6, <3>7, <3>8, <3>b
  <2> QED BY <1>8, <2>1, <2>3
<1>10. ASSUME \/ \E c \in Codes : TimerFires(c)
              \/ \E u \in Users : Delete(u) \/ Unbind(u)
              \/ UNCHANGED vars
       PROVE  Unspent'
  <2>1. UNCHANGED <<req, putBack, yields, shared>> /\ cached' \subseteq cached
    BY <1>10 DEF TimerFires, Delete, Unbind, vars, cache
  <2> QED BY <2>1, AsideStep
<1> QED
  BY <1>2, <1>3, <1>4, <1>5, <1>6, <1>7, <1>9, <1>10 DEF Next, Callback, Approval, Query

\* A code gives out one token at most, for any number of queries, callbacks and
\* confirmations, unless two queries hold it at once or it is stored again after
\* it was removed: no third way exists.
THEOREM CodesYieldOneToken == Spec => []CodeYieldsOneToken
<1>1. Init => SInv
  BY TypeInit, ConstantsAssumption DEF Init, SInv, Unspent, Asking, Idle
<1>2. Spec => []SInv BY <1>1, SpendStep, PTL DEF Spec
<1>3. SInv => CodeYieldsOneToken BY DEF SInv, Unspent, CodeYieldsOneToken
<1> QED BY <1>2, <1>3, PTL

-----------------------------------------------------------------------------
(* Every reachable state                                                   *)

\* Every reachable state is of the declared shape, and the lock of registration
\* is held exactly from the second look to the new row.
THEOREM TypeCorrect == Spec => []TypeOK
<1>1. Spec => []TInv BY TypeInit, TypeStep, PTL DEF Spec
<1> QED BY <1>1, PTL DEF TInv
=============================================================================
