----------------------------- MODULE IpBlocker -----------------------------
(***************************************************************************)
(* The quota hbbs keeps per source address (check_ip_blocker of            *)
(* rendezvous_server.rs): so many registrations in a row, of so many       *)
(* different ids.  Every RegisterPk, over UDP or TCP, asks it first.  A    *)
(* call holds the lock of IP_BLOCKER throughout and is one action.         *)
(*                                                                         *)
(* Instants are kept as ages, which Tick advances; an age stops at one     *)
(* above the duration it is compared with.                                 *)
(***************************************************************************)
EXTENDS Naturals, FiniteSets

CONSTANTS
    Ips,        \* source addresses
    Ids,        \* device ids
    RateLimit,  \* 30 in the code
    IdLimit,    \* 300 in the code
    BlockDur,   \* IP_BLOCK_DUR, 60 seconds
    Day         \* DAY_SECONDS

ASSUME ConstantsAssumption ==
    RateLimit \in Nat /\ IdLimit \in Nat /\ BlockDur \in Nat /\ Day \in Nat

VARIABLES
    known,  \* the keys of IP_BLOCKER
    count,  \* [Ips -> 0..RateLimit + 1]: old.0.0, the registrations in a row
    age,    \* [Ips -> 0..BlockDur + 1]: the age of old.0.1
    ids,    \* [Ips -> SUBSET Ids]: old.1.0, the ids seen
    idAge,  \* [Ips -> 0..Day + 1]: the age of old.1.1
    \* What the devices see of it:
    answer,    \* [Ips -> BOOLEAN]: the answer to the last request
    granted,   \* [Ips -> Nat]: granted requests in a row, none later than
               \* BlockDur after the one before
    grantAge,  \* [Ips -> 0..BlockDur + 1]: the time since the last of them
    served     \* [Ips -> SUBSET Ids]: ids granted since ids was last emptied

table == <<known, count, age, ids, idAge>>
seen == <<answer, granted, grantAge, served>>
vars == <<table, seen>>

Init ==
    /\ known = {}
    /\ count = [i \in Ips |-> 0]
    /\ age = [i \in Ips |-> 0]
    /\ ids = [i \in Ips |-> {}]
    /\ idAge = [i \in Ips |-> 0]
    /\ answer = [i \in Ips |-> TRUE]
    /\ granted = [i \in Ips |-> 0]
    /\ grantAge = [i \in Ips |-> 0]
    /\ served = [i \in Ips |-> {}]

\* The devices behind ip see a request for id granted; emptied: ids was emptied.
Grant(ip, id, emptied) ==
    /\ answer' = [answer EXCEPT ![ip] = TRUE]
    /\ granted' = [granted EXCEPT ![ip] = IF grantAge[ip] > BlockDur THEN 1 ELSE @ + 1]
    /\ grantAge' = [grantAge EXCEPT ![ip] = 0]
    /\ served' = [served EXCEPT ![ip] = IF emptied THEN {id} ELSE @ \cup {id}]

Refuse(ip) ==
    /\ answer' = [answer EXCEPT ![ip] = FALSE]
    /\ UNCHANGED <<granted, grantAge, served>>

\* An address without an entry gets one.  Its first id is not put into ids.
FirstRequest(ip, id) ==
    /\ ip \notin known
    /\ known' = known \cup {ip}
    /\ count' = [count EXCEPT ![ip] = 0]
    /\ age' = [age EXCEPT ![ip] = 0]
    /\ ids' = [ids EXCEPT ![ip] = {}]
    /\ idAge' = [idAge EXCEPT ![ip] = 0]
    /\ Grant(ip, id, TRUE)

\* Mutant of RateExceeded: one request too many.
RateExceededLate(ip) == age[ip] <= BlockDur /\ count[ip] > RateLimit + 1

RateExceeded(ip) == age[ip] <= BlockDur /\ count[ip] > RateLimit

\* Mutant of TooManyRequests: a refused request restarts the waiting time.
TooManyRequestsRestart(ip, id) ==
    /\ ip \in known
    /\ RateExceeded(ip)
    /\ age' = [age EXCEPT ![ip] = 0]
    /\ Refuse(ip)
    /\ UNCHANGED <<known, count, ids, idAge>>

\* The early return of the rate limit: nothing is written.
TooManyRequests(ip, id) ==
    /\ ip \in known
    /\ RateExceeded(ip)
    /\ Refuse(ip)
    /\ UNCHANGED table

\* Mutant of Counted: the count is not kept when the waiting time is over.
CountedOnlyWhenExpired(ip) ==
    /\ ip \in known
    /\ ~RateExceeded(ip)
    /\ count' = [count EXCEPT ![ip] = IF age[ip] > BlockDur THEN 1 ELSE @]
    /\ age' = [age EXCEPT ![ip] = 0]

\* A request within the rate: counted from one again after BlockDur.
Counted(ip) ==
    /\ ip \in known
    /\ ~RateExceeded(ip)
    /\ count' = [count EXCEPT ![ip] = IF age[ip] > BlockDur THEN 1 ELSE @ + 1]
    /\ age' = [age EXCEPT ![ip] = 0]

\* Mutant of IdsFull: the quota is never full.
IdsNeverFull(ip) == FALSE

IdsFull(ip) == idAge[ip] <= Day /\ Cardinality(ids[ip]) > IdLimit

\* With the quota of ids used up only ids that were seen are let through, and
\* the set keeps its age.
QuotaUsedUp(ip, id) ==
    /\ Counted(ip)
    /\ IdsFull(ip)
    /\ IF id \in ids[ip] THEN Grant(ip, id, FALSE) ELSE Refuse(ip)
    /\ UNCHANGED <<known, ids, idAge>>

\* The set of ids is a day old: it is emptied.  Whether the id is new was
\* decided before, so an id that was seen is not put back.
NewDay(ip, id) ==
    /\ Counted(ip)
    /\ idAge[ip] > Day
    /\ ids' = [ids EXCEPT ![ip] = {id} \ ids[ip]]
    /\ idAge' = [idAge EXCEPT ![ip] = 0]
    /\ Grant(ip, id, TRUE)
    /\ UNCHANGED known

WithinQuota(ip, id) ==
    /\ Counted(ip)
    /\ idAge[ip] <= Day
    /\ ~IdsFull(ip)
    /\ ids' = [ids EXCEPT ![ip] = @ \cup {id}]
    /\ idAge' = [idAge EXCEPT ![ip] = 0]
    /\ Grant(ip, id, FALSE)
    /\ UNCHANGED known

check_ip_blocker(ip, id) ==
    \/ FirstRequest(ip, id)
    \/ TooManyRequests(ip, id)
    \/ QuotaUsedUp(ip, id)
    \/ NewDay(ip, id)
    \/ WithinQuota(ip, id)

\* The command ip-blocker drops entries nothing depends on any more; with an
\* address and "-" it drops that entry, too, and the address starts anew.
Command ==
    /\ \E removed \in {{}} \cup {{i} : i \in Ips} :
          /\ known' = {i \in known : age[i] <= BlockDur \/ idAge[i] <= Day} \ removed
          /\ granted' = [i \in Ips |-> IF i \in removed \cap known THEN 0 ELSE granted[i]]
          /\ served' = [i \in Ips |-> IF i \in known' THEN served[i] ELSE {}]
    /\ UNCHANGED <<count, age, ids, idAge, answer, grantAge>>

Older(a, bound) == [i \in Ips |-> IF a[i] > bound THEN a[i] ELSE a[i] + 1]

Tick ==
    /\ age' = Older(age, BlockDur)
    /\ idAge' = Older(idAge, Day)
    /\ grantAge' = Older(grantAge, BlockDur)
    /\ UNCHANGED <<known, count, ids, answer, granted, served>>

Next ==
    \/ \E ip \in Ips, id \in Ids : check_ip_blocker(ip, id)
    \/ Command
    \/ Tick

Spec == Init /\ [][Next]_vars

\* Time passes, and the devices behind an address do not stop trying.
RetrySpec ==
    /\ Spec
    /\ WF_vars(Tick)
    /\ \A ip \in Ips : WF_vars(\E id \in Ids : check_ip_blocker(ip, id))
-----------------------------------------------------------------------------
(* Properties *)

TypeOK ==
    /\ known \subseteq Ips
    /\ count \in [Ips -> 0..(RateLimit + 1)]
    /\ age \in [Ips -> 0..(BlockDur + 1)]
    /\ ids \in [Ips -> SUBSET Ids]
    /\ idAge \in [Ips -> 0..(Day + 1)]
    /\ answer \in [Ips -> BOOLEAN]
    /\ granted \in [Ips -> Nat]
    /\ grantAge \in [Ips -> 0..(BlockDur + 1)]
    /\ served \in [Ips -> SUBSET Ids]

\* However requests and pauses alternate, an address is not granted more than
\* RateLimit + 2 requests in a row (32 in the code, where the first is not
\* counted and the limit itself is passed once).
BurstBounded == \A i \in Ips : granted[i] <= RateLimit + 2

\* Between two emptyings of its set of ids an address registers IdLimit + 2 ids
\* at most (302 in the code), although the first id and one seen before the set
\* was emptied are not in the set.
IdsBounded == \A i \in Ips : Cardinality(served[i]) <= IdLimit + 2

\* No address is refused for ever: refused requests, of either kind, do not
\* prolong what they are refused for, however often they are repeated.
RefusalEnds == \A i \in Ips : []<>answer[i]
=============================================================================
