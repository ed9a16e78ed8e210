---------------------------- MODULE LoginLimiter ----------------------------
(***************************************************************************)
(* The login limiter of the API server (utils/login_limiter.go) and the    *)
(* requests that use it: the middleware in front of every route, the logins *)
(* of the administration page and of the clients, and the captcha image.   *)
(* Each call of the limiter is one critical section of its mutex; a login  *)
(* makes several, with the password check between them, and logins of one  *)
(* address run at the same time.                                           *)
(*                                                                         *)
(* Time is kept as ages, in steps of Tick; an age that has passed its limit *)
(* stays there until the code drops the entry.                             *)
(***************************************************************************)
EXTENDS Integers, Sequences, FiniteSets

CONSTANTS
    Tasks,              \* requests in flight at a time
    Ips,                \* client addresses
    Captchas,           \* captcha ids (a bound on those kept at a time)
    CaptchaThreshold,   \* policy.CaptchaThreshold
    BanThreshold,       \* policy.BanThreshold
    AttemptsWindow,
    BanDuration,
    CaptchaLife,        \* provider.Expiration()
    None

ASSUME PolicyAssumption ==
    /\ CaptchaThreshold \in Int
    /\ BanThreshold \in Nat
    /\ {AttemptsWindow, BanDuration, CaptchaLife} \subseteq Nat \ {0}

ASSUME TasksAssumption == IsFiniteSet(Tasks)

ASSUME NoneAssumption == None \notin Nat

VARIABLES
    attempts,   \* [Ips -> Seq of ages], the oldest attempt first
    bans,       \* bannedIPs: [Ips -> age or None]
    captchas,   \* [Captchas -> age or None]
    pc,         \* [Tasks -> Pcs]
    req,        \* [Tasks -> Requests or None]: the request a task serves
    spree       \* [Ips -> Nat]: wrong passwords tried, see SpreeBounded

vars == <<attempts, bans, captchas, pc, req, spree>>

limiterVars == <<attempts, bans, captchas>>

Requests == [kind : {"admin", "api", "captcha"}, ip : Ips]

Pcs == {"idle", "status", "generate", "captcha", "password", "badForm", "wrong", "recheck", "clear"}

isDisabled == CaptchaThreshold < 0 /\ BanThreshold = 0

isBanned(i) == bans[i] # None /\ bans[i] <= BanDuration

Expired(s) == {n \in DOMAIN s : s[n] >= AttemptsWindow}

\* pruneAttempts.  Attempts are appended as they are made, so those that have
\* run out are the first ones.
Valid(i) == SubSeq(attempts[i], Cardinality(Expired(attempts[i])) + 1, Len(attempts[i]))

ip(t) == req[t].ip

Goto(t, p) ==
    /\ pc' = [pc EXCEPT ![t] = p]
    /\ req' = [req EXCEPT ![t] = IF p = "idle" THEN None ELSE @]

Init ==
    /\ attempts = [i \in Ips |-> <<>>]
    /\ bans = [i \in Ips |-> None]
    /\ captchas = [k \in Captchas |-> None]
    /\ pc = [t \in Tasks |-> "idle"]
    /\ req = [t \in Tasks |-> None]
    /\ spree = [i \in Ips |-> 0]

-----------------------------------------------------------------------------
(* The limiter *)

\* isBanned deletes a ban that has run out, the pruning old attempts.
CheckSecurityStatus(i) ==
    IF isDisabled \/ isBanned(i)
    THEN UNCHANGED limiterVars
    ELSE /\ bans' = [bans EXCEPT ![i] = None]
         /\ attempts' = [attempts EXCEPT ![i] = Valid(i)]
         /\ UNCHANGED captchas

Banned(i) == ~isDisabled /\ isBanned(i)

CaptchaRequired(i) ==
    ~isDisabled /\ ~isBanned(i) /\ Len(Valid(i)) >= CaptchaThreshold

\* Mutant of ReachesBan: one failure too late.
ReachesBanLate(n) == BanThreshold > 0 /\ n > BanThreshold

ReachesBan(n) == BanThreshold > 0 /\ n >= BanThreshold

RecordFailedAttempt(i) ==
    IF isDisabled \/ isBanned(i)
    THEN UNCHANGED limiterVars
    ELSE LET ban == ReachesBan(Len(Valid(i)) + 1)
         IN /\ bans' = [bans EXCEPT ![i] = IF ban THEN 0 ELSE None]
            /\ attempts' = [attempts EXCEPT ![i] = IF ban THEN <<>> ELSE Append(Valid(i), 0)]
            /\ UNCHANGED captchas

\* Mutant of RemoveAttempts: a successful login lifts the ban too.
RemoveAttemptsAndBan(i) ==
    /\ attempts' = [attempts EXCEPT ![i] = <<>>]
    /\ bans' = [bans EXCEPT ![i] = None]
    /\ UNCHANGED captchas

RemoveAttempts(i) ==
    /\ attempts' = [attempts EXCEPT ![i] = <<>>]
    /\ UNCHANGED <<bans, captchas>>

RequireCaptcha ==
    /\ \E k \in Captchas : captchas[k] = None /\ captchas' = [captchas EXCEPT ![k] = 0]
    /\ UNCHANGED <<attempts, bans>>

\* The captcha with id k is deleted when it is old or answered rightly.
VerifyCaptcha(k, right) ==
    /\ captchas' = [captchas EXCEPT ![k] = IF right \/ @ > CaptchaLife THEN None ELSE @]
    /\ UNCHANGED <<attempts, bans>>

Forget(age, limit) == IF age # None /\ age > limit THEN None ELSE age

\* Mutant of pruneCaptchas: captchas are left to VerifyCaptcha.
KeepCaptchas(k) == captchas[k]

pruneCaptchas(k) == Forget(captchas[k], CaptchaLife)

\* cleanupExpired, every minute
CleanupExpired ==
    /\ bans' = [i \in Ips |-> Forget(bans[i], BanDuration)]
    /\ attempts' = [i \in Ips |-> Valid(i)]
    /\ captchas' = [k \in Captchas |-> pruneCaptchas(k)]
    /\ UNCHANGED <<pc, req, spree>>

-----------------------------------------------------------------------------
(* The requests *)

\* The form is read and validated; from here on "next" if it is well formed.
ReadForm(t, next) == \E p \in {"badForm", next} : Goto(t, p)

\* A request arrives and passes middleware.Limiter, or is refused there.
Limiter(t, r) ==
    /\ pc[t] = "idle"
    /\ CheckSecurityStatus(r.ip)
    /\ IF Banned(r.ip)
       THEN UNCHANGED <<pc, req>>
       ELSE /\ req' = [req EXCEPT ![t] = r]
            /\ \E p \in IF r.kind = "api" THEN {"badForm", "password"} ELSE {"status"} :
                 pc' = [pc EXCEPT ![t] = p]
    /\ UNCHANGED spree

\* The login of the administration page reads needCaptcha and not banned.
LoginStatus(t) ==
    /\ pc[t] = "status" /\ req[t].kind = "admin"
    /\ CheckSecurityStatus(ip(t))
    /\ ReadForm(t, IF CaptchaRequired(ip(t)) THEN "captcha" ELSE "password")
    /\ UNCHANGED spree

CaptchaStatus(t) ==
    /\ pc[t] = "status" /\ req[t].kind = "captcha"
    /\ CheckSecurityStatus(ip(t))
    /\ Goto(t, IF CaptchaRequired(ip(t)) THEN "generate" ELSE "idle")
    /\ UNCHANGED spree

Generate(t) ==
    /\ pc[t] = "generate"
    /\ RequireCaptcha
    /\ Goto(t, "idle")
    /\ UNCHANGED spree

\* No such captcha, an old one, a wrong answer or the right one.
AnswerCaptcha(t) ==
    /\ pc[t] = "captcha"
    /\ \/ /\ Goto(t, "idle")
          /\ UNCHANGED limiterVars
       \/ \E k \in Captchas, right \in BOOLEAN :
            /\ captchas[k] # None
            /\ VerifyCaptcha(k, right)
            /\ Goto(t, IF right /\ captchas[k] <= CaptchaLife THEN "password" ELSE "idle")
    /\ UNCHANGED spree

\* InfoByUsernamePassword and CheckUserEnable; only the login of the
\* administration page clears the attempts when it succeeds.
Password(t) ==
    /\ pc[t] = "password"
    /\ \/ /\ Goto(t, "wrong")
          /\ spree' = [spree EXCEPT ![ip(t)] = @ + 1]
       \/ /\ Goto(t, "idle")
          /\ UNCHANGED spree
       \/ /\ req[t].kind = "admin"
          /\ Goto(t, "clear")
          /\ UNCHANGED spree
    /\ UNCHANGED limiterVars

Record(t) ==
    /\ pc[t] \in {"badForm", "wrong"}
    /\ RecordFailedAttempt(ip(t))
    /\ Goto(t, IF pc[t] = "wrong" /\ req[t].kind = "admin" THEN "recheck" ELSE "idle")
    /\ UNCHANGED spree

\* The second status check only chooses the code of the answer.
Recheck(t) ==
    /\ pc[t] = "recheck"
    /\ CheckSecurityStatus(ip(t))
    /\ Goto(t, "idle")
    /\ UNCHANGED spree

Clear(t) ==
    /\ pc[t] = "clear"
    /\ RemoveAttempts(ip(t))
    /\ spree' = [spree EXCEPT ![ip(t)] = 0]
    /\ Goto(t, "idle")

Handle(t) ==
    \/ \E r \in Requests : Limiter(t, r)
    \/ LoginStatus(t) \/ CaptchaStatus(t) \/ Generate(t)
    \/ AnswerCaptcha(t) \/ Password(t) \/ Record(t) \/ Recheck(t) \/ Clear(t)

Older(age, limit) == IF age = None \/ age > limit THEN age ELSE age + 1

\* Time passes.  Where a ban or an attempt runs out, the spree starts anew.
Tick ==
    /\ attempts' = [i \in Ips |-> [n \in 1 .. Len(attempts[i]) |-> Older(attempts[i][n], AttemptsWindow - 1)]]
    /\ bans' = [i \in Ips |-> Older(bans[i], BanDuration)]
    /\ captchas' = [k \in Captchas |-> Older(captchas[k], CaptchaLife)]
    /\ spree' = [i \in Ips |->
         IF \/ bans[i] = BanDuration
            \/ \E n \in DOMAIN attempts[i] : attempts[i][n] = AttemptsWindow - 1
         THEN 0 ELSE spree[i]]
    /\ UNCHANGED <<pc, req>>

Next ==
    \/ \E t \in Tasks : Handle(t)
    \/ CleanupExpired
    \/ Tick

Spec == Init /\ [][Next]_vars

\* The clock and the ticker of cleanupRoutine go on; requests need not come.
FairSpec == Spec /\ WF_vars(Tick) /\ WF_vars(CleanupExpired)

-----------------------------------------------------------------------------

\* An active ban is neither lifted by a login that succeeds meanwhile nor
\* prolonged by failures that are recorded late: only time moves it on.
BanIsFixed ==
    [][\A i \in Ips : isBanned(i) => bans'[i] \in {bans[i], bans[i] + 1}]_vars

\* The check and the recording of a login are separate critical sections, so
\* logins in flight escape the ban that an earlier one brings about.  They are
\* all that escapes: between two restarts of the limiter's record of an
\* address (a successful administration login, an attempt or a ban that runs
\* out) at most BanThreshold wrong passwords are tried, and one for each other
\* request in flight.
SpreeBounded ==
    BanThreshold > 0 => \A i \in Ips : spree[i] <= BanThreshold + Cardinality(Tasks) - 1

\* No captcha is kept for ever: banIP's delete(captchas, ip) is a key of
\* another kind, and unanswered captchas are left to the clean-up.
CaptchasAreForgotten ==
    \A k \in Captchas : captchas[k] # None ~> captchas[k] = None

\* "If it is less than 0, it means it is not enabled" (login_limiter.go:11).
CaptchaDisabled ==
    CaptchaThreshold < 0 => \A t \in Tasks : pc[t] # "captcha"
=============================================================================
