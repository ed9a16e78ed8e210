------------------------- MODULE LoginLimiterProofs -------------------------
(***************************************************************************)
(* What LoginLimiter promises of a ban, and of the wrong passwords that get *)
(* past it, for every number of requests and addresses and every policy.   *)
(***************************************************************************)
EXTENDS LoginLimiter, TLAPS, FiniteSetTheorems, SequenceTheorems

BansTyped == bans \in [Ips -> Nat \cup {None}]

-----------------------------------------------------------------------------
(* What the limiter's operations do to the bans *)

\* CheckSecurityStatus touches the ban of its own address only, and that only
\* when it has run out.
LEMMA StatusKeepsBans ==
    ASSUME NEW i, BansTyped, CheckSecurityStatus(i)
    PROVE  /\ BansTyped'
           /\ \A j \in Ips : isBanned(j) => bans'[j] = bans[j]
  BY DEF BansTyped, CheckSecurityStatus, isBanned, limiterVars

\* RecordFailedAttempt starts a ban only where there is none.
LEMMA RecordKeepsBans ==
    ASSUME NEW i, BansTyped, RecordFailedAttempt(i)
    PROVE  /\ BansTyped'
           /\ \A j \in Ips : isBanned(j) => bans'[j] = bans[j]
<1>1. CASE isDisabled \/ isBanned(i)
  BY <1>1 DEF BansTyped, RecordFailedAttempt, limiterVars
<1>2. CASE ~(isDisabled \/ isBanned(i))
  <2>1. PICK ban : bans' = [bans EXCEPT ![i] = IF ban THEN 0 ELSE None]
    BY <1>2 DEF RecordFailedAttempt
  <2> QED BY <1>2, <2>1 DEF BansTyped, isBanned
<1> QED BY <1>1, <1>2

-----------------------------------------------------------------------------

\* No step of a request moves an active ban, and time moves it by one.
LEMMA StepKeepsBans ==
    ASSUME BansTyped, [Next]_vars
    PROVE  /\ BansTyped'
           /\ \A j \in Ips : isBanned(j) => bans'[j] \in {bans[j], bans[j] + 1}
<1> DEFINE Kept == BansTyped' /\ \A j \in Ips : isBanned(j) => bans'[j] = bans[j]
<1> SUFFICES BansTyped' /\ \A j \in Ips : isBanned(j) => bans'[j] \in {bans[j], bans[j] + 1}
  OBVIOUS
<1>1. ASSUME NEW t \in Tasks, Handle(t) PROVE Kept
  <2>1. ASSUME NEW r \in Requests, Limiter(t, r) PROVE Kept
    BY <2>1, StatusKeepsBans DEF Limiter
  <2>2. CASE LoginStatus(t)
    BY <2>2, StatusKeepsBans DEF LoginStatus
  <2>3. CASE CaptchaStatus(t)
    BY <2>3, StatusKeepsBans DEF CaptchaStatus
  <2>4. CASE Generate(t)
    BY <2>4 DEF Generate, RequireCaptcha, BansTyped
  <2>5. CASE AnswerCaptcha(t)
    BY <2>5 DEF AnswerCaptcha, VerifyCaptcha, limiterVars, BansTyped
  <2>6. CASE Password(t)
    BY <2>6 DEF Password, limiterVars, BansTyped
  <2>7. CASE Record(t)
    BY <2>7, RecordKeepsBans DEF Record
  <2>8. CASE Recheck(t)
    BY <2>8, StatusKeepsBans DEF Recheck
  <2>9. CASE Clear(t)
    BY <2>9 DEF Clear, RemoveAttempts, BansTyped
  <2> QED BY <1>1, <2>1, <2>2, <2>3, <2>4, <2>5, <2>6, <2>7, <2>8, <2>9 DEF Handle
<1>2. CASE CleanupExpired
  <2>1. bans' = [i \in Ips |-> Forget(bans[i], BanDuration)]
    BY <1>2 DEF CleanupExpired
  <2> QED BY <2>1, PolicyAssumption DEF BansTyped, Forget, isBanned
<1>3. CASE Tick
  <2>1. bans' = [i \in Ips |-> Older(bans[i], BanDuration)]
    BY <1>3 DEF Tick
  <2> QED BY <2>1, PolicyAssumption DEF BansTyped, Older, isBanned
<1>4. CASE UNCHANGED vars
  BY <1>4 DEF vars, BansTyped
<1> QED BY <1>1, <1>2, <1>3, <1>4 DEF Next

\* The type invariant of the bans.
THEOREM BansTypeCorrect == Spec => []BansTyped
<1>1. Init => BansTyped
  BY DEF Init, BansTyped
<1>2. BansTyped /\ [Next]_vars => BansTyped'
  BY StepKeepsBans
<1> QED BY <1>1, <1>2, PTL DEF Spec

\* An active ban is neither lifted nor prolonged by any request, whatever its
\* checks saw before (login_limiter.go, RecordFailedAttempt, RemoveAttempts).
THEOREM BansAreFixed == Spec => BanIsFixed
<1>1. BansTyped /\ [Next]_vars
        => [\A i \in Ips : isBanned(i) => bans'[i] \in {bans[i], bans[i] + 1}]_vars
  BY StepKeepsBans
<1> QED BY <1>1, BansTypeCorrect, PTL DEF Spec, BanIsFixed

-----------------------------------------------------------------------------
(* What pruning leaves of the attempts of an address *)

Ages == 0 .. AttemptsWindow

\* For every age, the attempts at least as old come before the others.
Ordered(s) ==
    \A age \in Nat : \E k \in 0 .. Len(s) : \A n \in 1 .. Len(s) : s[n] >= age <=> n <= k

Pruned(s) == SubSeq(s, Cardinality(Expired(s)) + 1, Len(s))

\* Where the first k attempts have run out, pruning drops these.
LEMMA PrunedFrom ==
    ASSUME NEW s \in Seq(Ages), NEW k \in 0 .. Len(s),
           \A n \in 1 .. Len(s) : s[n] >= AttemptsWindow <=> n <= k
    PROVE  /\ Pruned(s) = SubSeq(s, k + 1, Len(s))
           /\ Pruned(s) \in Seq(Ages)
           /\ Len(Pruned(s)) = Len(s) - k
           /\ \A n \in 1 .. Len(s) - k : Pruned(s)[n] = s[n + k]
<1>1. Expired(s) = 1 .. k
  BY DEF Expired
<1>2. Cardinality(Expired(s)) = k
  BY <1>1, FS_Interval
<1>3. Pruned(s) = SubSeq(s, k + 1, Len(s))
  BY <1>2 DEF Pruned
<1> QED BY <1>3, SubSeqProperties

\* Pruning keeps the order, leaves nothing to prune, and only what is valid.
LEMMA PrunedFacts ==
    ASSUME NEW s \in Seq(Ages), Ordered(s)
    PROVE  /\ Pruned(s) \in Seq(Ages)
           /\ Len(Pruned(s)) \in Nat
           /\ Ordered(Pruned(s))
           /\ \A n \in 1 .. Len(Pruned(s)) : Pruned(s)[n] < AttemptsWindow
           /\ Pruned(Pruned(s)) = Pruned(s)
<1>1. AttemptsWindow \in Nat
  BY PolicyAssumption
<1>2. PICK k \in 0 .. Len(s) : \A n \in 1 .. Len(s) : s[n] >= AttemptsWindow <=> n <= k
  BY <1>1 DEF Ordered
<1> DEFINE p == Pruned(s)
<1>3. /\ p \in Seq(Ages) /\ Len(p) = Len(s) - k
      /\ \A n \in 1 .. Len(s) - k : p[n] = s[n + k]
  BY <1>2, PrunedFrom
<1> HIDE DEF p
<1>4. Len(p) \in Nat /\ Len(s) \in Nat
  BY <1>3
<1>5. \A n \in 1 .. Len(p) : p[n] < AttemptsWindow
  <2> TAKE n \in 1 .. Len(p)
  <2>1. n + k \in 1 .. Len(s) /\ ~(n + k <= k) /\ s[n + k] \in Ages
    BY <1>3, <1>4
  <2>2. s[n + k] \in Nat /\ ~(s[n + k] >= AttemptsWindow)
    BY <1>1, <1>2, <2>1 DEF Ages
  <2>3. p[n] = s[n + k]
    BY <1>3, <1>4
  <2> QED BY <1>1, <2>2, <2>3
<1>6. Ordered(p)
  <2> SUFFICES ASSUME NEW age \in Nat
               PROVE  \E m \in 0 .. Len(p) : \A n \in 1 .. Len(p) : p[n] >= age <=> n <= m
    BY DEF Ordered
  <2>1. PICK h \in 0 .. Len(s) : \A n \in 1 .. Len(s) : s[n] >= age <=> n <= h
    BY DEF Ordered
  <2> DEFINE m == IF h >= k THEN h - k ELSE 0
  <2>2. m \in 0 .. Len(p)
    BY <1>3, <1>4
  <2>3. \A n \in 1 .. Len(p) : p[n] >= age <=> n <= m
    <3> TAKE n \in 1 .. Len(p)
    <3>1. n + k \in 1 .. Len(s) /\ p[n] = s[n + k]
      BY <1>3, <1>4
    <3>2. p[n] >= age <=> n + k <= h
      BY <2>1, <3>1
    <3> QED BY <3>2
  <2> QED BY <2>2, <2>3
<1>7. Pruned(p) = p
  <2>1. \A n \in 1 .. Len(p) : p[n] >= AttemptsWindow <=> n <= 0
    <3> TAKE n \in 1 .. Len(p)
    <3>1. p[n] \in Ages /\ p[n] < AttemptsWindow
      BY <1>3, <1>5
    <3> QED BY <1>1, <3>1 DEF Ages
  <2>2. 0 \in 0 .. Len(p)
    BY <1>4
  <2>3. /\ Pruned(p) \in Seq(Ages) /\ Len(Pruned(p)) = Len(p) - 0
        /\ \A n \in 1 .. Len(p) - 0 : Pruned(p)[n] = p[n + 0]
    BY <1>3, <2>1, <2>2, PrunedFrom
  <2>4. Len(Pruned(p)) = Len(p) /\ \A n \in 1 .. Len(p) : Pruned(p)[n] = p[n]
    BY <1>4, <2>3
  <2> QED BY <1>3, <2>3, <2>4, SeqEqual
<1> QED BY <1>3, <1>4, <1>5, <1>6, <1>7 DEF p

LEMMA NoAttempts ==
    /\ <<>> \in Seq(Ages) /\ Ordered(<<>>) /\ Len(Pruned(<<>>)) = 0
<1>1. <<>> \in Seq(Ages) /\ Len(<<>>) = 0
  OBVIOUS
<1>2. Ordered(<<>>)
  BY <1>1 DEF Ordered
<1>3. 0 \in 0 .. Len(<<>>) /\ \A n \in 1 .. Len(<<>>) : <<>>[n] >= AttemptsWindow <=> n <= 0
  BY <1>1
<1>4. Len(Pruned(<<>>)) = Len(<<>>) - 0
  BY <1>1, <1>3, PrunedFrom
<1> QED BY <1>1, <1>2, <1>4

\* A new attempt comes last and is valid.
LEMMA AttemptAdded ==
    ASSUME NEW s \in Seq(Ages), Ordered(s), \A n \in 1 .. Len(s) : s[n] < AttemptsWindow
    PROVE  /\ Append(s, 0) \in Seq(Ages)
           /\ Ordered(Append(s, 0))
           /\ Len(Pruned(Append(s, 0))) = Len(s) + 1
<1>1. AttemptsWindow \in Nat \ {0} /\ 0 \in Ages /\ Len(s) \in Nat
  BY PolicyAssumption DEF Ages
<1> DEFINE p == Append(s, 0)
<1>2. /\ p \in Seq(Ages) /\ Len(p) = Len(s) + 1 /\ p[Len(s) + 1] = 0
      /\ \A n \in 1 .. Len(s) : p[n] = s[n]
  BY <1>1, AppendProperties
<1> HIDE DEF p
<1>3. \A n \in 1 .. Len(p) : n \in 1 .. Len(s) \/ n = Len(s) + 1
  BY <1>1, <1>2
<1>4. Ordered(p)
  <2> SUFFICES ASSUME NEW age \in Nat
               PROVE  \E m \in 0 .. Len(p) : \A n \in 1 .. Len(p) : p[n] >= age <=> n <= m
    BY DEF Ordered
  <2>1. PICK h \in 0 .. Len(s) : \A n \in 1 .. Len(s) : s[n] >= age <=> n <= h
    BY DEF Ordered
  <2>2. CASE age = 0
    <3>1. \A n \in 1 .. Len(p) : p[n] \in Nat
      BY <1>1, <1>2 DEF Ages
    <3>2. \A n \in 1 .. Len(p) : p[n] >= age <=> n <= Len(p)
      BY <1>1, <1>2, <2>2, <3>1
    <3>3. Len(p) \in 0 .. Len(p)
      BY <1>1, <1>2
    <3> QED BY <3>2, <3>3
  <2>3. CASE age # 0
    <3>1. \A n \in 1 .. Len(p) : p[n] >= age <=> n <= h
      BY <1>1, <1>2, <1>3, <2>1, <2>3
    <3> QED BY <1>1, <1>2, <3>1
  <2> QED BY <2>2, <2>3
<1>5. \A n \in 1 .. Len(p) : p[n] >= AttemptsWindow <=> n <= 0
  <2> TAKE n \in 1 .. Len(p)
  <2>1. p[n] \in Nat /\ p[n] < AttemptsWindow
    BY <1>1, <1>2, <1>3 DEF Ages
  <2> QED BY <1>1, <2>1
<1>6. Len(Pruned(p)) = Len(p) - 0
  BY <1>1, <1>2, <1>5, PrunedFrom
<1> QED BY <1>1, <1>2, <1>4, <1>6 DEF p

\* Time keeps the order, and prunes nothing unless an attempt runs out.
LEMMA AttemptsAge ==
    ASSUME NEW s \in Seq(Ages), Ordered(s), NEW p,
           p = [n \in 1 .. Len(s) |-> Older(s[n], AttemptsWindow - 1)]
    PROVE  /\ p \in Seq(Ages)
           /\ Ordered(p)
           /\ Len(Pruned(p)) <= Len(Pruned(s))
           /\ (\A n \in 1 .. Len(s) : s[n] # AttemptsWindow - 1) => Len(Pruned(p)) = Len(Pruned(s))
<1>1. AttemptsWindow \in Nat \ {0} /\ Len(s) \in Nat
  BY PolicyAssumption
<1>2. \A n \in 1 .. Len(s) : s[n] \in Nat /\ s[n] <= AttemptsWindow
  BY <1>1 DEF Ages
<1>3. \A n \in 1 .. Len(s) : p[n] = IF s[n] >= AttemptsWindow THEN s[n] ELSE s[n] + 1
  <2> TAKE n \in 1 .. Len(s)
  <2>1. s[n] # None
    BY <1>2, NoneAssumption
  <2>2. s[n] > AttemptsWindow - 1 <=> s[n] >= AttemptsWindow
    BY <1>1, <1>2
  <2> QED BY <2>1, <2>2 DEF Older
<1>4. p \in Seq(Ages) /\ Len(p) = Len(s)
  <2>1. \A n \in 1 .. Len(s) : p[n] \in Ages
    BY <1>1, <1>2, <1>3 DEF Ages
  <2>2. p \in [1 .. Len(s) -> Ages]
    BY <2>1
  <2> QED BY <1>1, <2>2, SeqDef, LenProperties
<1>5. Ordered(p)
  <2> SUFFICES ASSUME NEW age \in Nat
               PROVE  \E m \in 0 .. Len(p) : \A n \in 1 .. Len(p) : p[n] >= age <=> n <= m
    BY DEF Ordered
  <2>1. CASE age = 0
    <3>1. \A n \in 1 .. Len(p) : p[n] >= age <=> n <= Len(p)
      BY <1>1, <1>2, <1>3, <1>4, <2>1
    <3>2. Len(p) \in 0 .. Len(p)
      BY <1>1, <1>4
    <3> QED BY <3>1, <3>2
  <2>2. CASE age > AttemptsWindow
    <3>1. \A n \in 1 .. Len(p) : p[n] >= age <=> n <= 0
      BY <1>1, <1>2, <1>3, <1>4, <2>2
    <3> QED BY <1>1, <1>4, <3>1
  <2>3. CASE age # 0 /\ age <= AttemptsWindow
    <3>1. age - 1 \in Nat
      BY <2>3
    <3>2. PICK h \in 0 .. Len(s) : \A n \in 1 .. Len(s) : s[n] >= age - 1 <=> n <= h
      BY <3>1 DEF Ordered
    <3>3. \A n \in 1 .. Len(s) : p[n] >= age <=> s[n] >= age - 1
      BY <1>1, <1>2, <1>3, <2>3
    <3> QED BY <1>4, <3>2, <3>3
  <2> QED BY <1>1, <2>1, <2>2, <2>3
<1>6. PICK k \in 0 .. Len(s) : \A n \in 1 .. Len(s) : s[n] >= AttemptsWindow <=> n <= k
  BY <1>1 DEF Ordered
<1>7. PICK h \in 0 .. Len(p) : \A n \in 1 .. Len(p) : p[n] >= AttemptsWindow <=> n <= h
  BY <1>1, <1>5 DEF Ordered
<1>8. Len(Pruned(s)) = Len(s) - k /\ Len(Pruned(p)) = Len(s) - h
  BY <1>4, <1>6, <1>7, PrunedFrom
<1>9. k <= h
  <2>1. CASE k = 0
    BY <1>4, <2>1
  <2>2. CASE k # 0
    <3>1. k \in 1 .. Len(s) /\ s[k] >= AttemptsWindow
      BY <1>1, <1>6, <2>2
    <3>2. p[k] >= AttemptsWindow
      BY <1>3, <3>1
    <3> QED BY <1>4, <1>7, <3>1, <3>2
  <2> QED BY <2>1, <2>2
<1>10. ASSUME \A n \in 1 .. Len(s) : s[n] # AttemptsWindow - 1 PROVE h <= k
  <2>1. CASE h = 0
    BY <2>1
  <2>2. CASE h # 0
    <3>1. h \in 1 .. Len(s) /\ p[h] >= AttemptsWindow
      BY <1>1, <1>4, <1>7, <2>2
    <3>2. s[h] >= AttemptsWindow
      BY <1>1, <1>2, <1>3, <1>10, <3>1
    <3> QED BY <1>6, <3>1, <3>2
  <2> QED BY <2>1, <2>2
<1>11. k \in Nat /\ h \in Nat /\ k \in Int /\ h \in Int
  BY <1>1, <1>4
<1>12. Len(Pruned(p)) <= Len(Pruned(s))
  <2>1. \A a, b, c \in Int : b <= c => a - c <= a - b
    OBVIOUS
  <2>2. Len(s) - h <= Len(s) - k
    BY <1>1, <1>9, <1>11, <2>1
  <2> QED BY <1>8, <2>2
<1>13. ASSUME \A n \in 1 .. Len(s) : s[n] # AttemptsWindow - 1
       PROVE  Len(Pruned(p)) = Len(Pruned(s))
  <2>1. h = k
    BY <1>9, <1>10, <1>11, <1>13
  <2> QED BY <1>8, <2>1
<1> QED BY <1>4, <1>5, <1>12, <1>13

-----------------------------------------------------------------------------
(* The invariant *)

\* The requests that have tried a wrong password not yet recorded, and those
\* that may still try one.
Guess(i)  == {t \in Tasks : pc[t] = "wrong" /\ ip(t) = i}
Trying(i) == {t \in Tasks : pc[t] \in {"status", "captcha", "password"} /\ ip(t) = i}

SpreeTyped ==
    /\ attempts \in [Ips -> Seq(Ages)]
    /\ BansTyped
    /\ pc \in [Tasks -> Pcs]
    /\ req \in [Tasks -> Requests \cup {None}]
    /\ \A t \in Tasks : pc[t] # "idle" => req[t] \in Requests
    /\ spree \in [Ips -> Nat]
    /\ \A i \in Ips : Ordered(attempts[i])

\* While i may log in each wrong password is recorded or about to be; while it
\* is banned only requests that had passed the check go on.
Fits(i) ==
    /\ Len(Valid(i)) < BanThreshold
    /\ ~isBanned(i) => spree[i] <= Len(Valid(i)) + Cardinality(Guess(i))
    /\ isBanned(i) => spree[i] + Cardinality(Trying(i)) <= BanThreshold + Cardinality(Tasks) - 1

SpreeInv == SpreeTyped /\ (BanThreshold > 0 => \A i \in Ips : Fits(i))

LEMMA ValidIsPruned ==
    ASSUME NEW i
    PROVE  Valid(i) = Pruned(attempts[i]) /\ Valid(i)' = Pruned(attempts'[i])
  BY DEF Valid, Pruned, Expired

LEMMA InFlight ==
    ASSUME NEW i
    PROVE  /\ Cardinality(Tasks) \in Nat
           /\ IsFiniteSet(Guess(i)) /\ IsFiniteSet(Trying(i))
           /\ Cardinality(Guess(i)) \in Nat /\ Cardinality(Trying(i)) \in Nat
           /\ Cardinality(Guess(i)) + Cardinality(Trying(i)) <= Cardinality(Tasks)
<1>1. Guess(i) \in SUBSET Tasks /\ Trying(i) \in SUBSET Tasks
  BY DEF Guess, Trying
<1>2. /\ IsFiniteSet(Guess(i)) /\ IsFiniteSet(Trying(i))
      /\ Cardinality(Guess(i)) \in Nat /\ Cardinality(Trying(i)) \in Nat
      /\ Cardinality(Tasks) \in Nat
  BY <1>1, TasksAssumption, FS_Subset, FS_CardinalityType
<1>3. Guess(i) \cap Trying(i) = {}
  BY DEF Guess, Trying
<1>4. Cardinality(Guess(i) \cup Trying(i)) = Cardinality(Guess(i)) + Cardinality(Trying(i))
  <2>1. Cardinality({}) = 0
    BY FS_EmptySet
  <2>2. Cardinality(Guess(i) \cup Trying(i))
          = Cardinality(Guess(i)) + Cardinality(Trying(i)) - Cardinality(Guess(i) \cap Trying(i))
    BY <1>2, FS_Union
  <2> QED BY <1>2, <1>3, <2>1, <2>2
<1>5. Cardinality(Guess(i) \cup Trying(i)) <= Cardinality(Tasks)
  BY <1>1, TasksAssumption, FS_Subset
<1> QED BY <1>2, <1>4, <1>5

\* The same in the next state.
LEMMA InFlightNext ==
    ASSUME NEW i
    PROVE  /\ IsFiniteSet(Guess(i)') /\ IsFiniteSet(Trying(i)')
           /\ Cardinality(Guess(i)') \in Nat /\ Cardinality(Trying(i)') \in Nat
<1>1. Guess(i)' \in SUBSET Tasks /\ Trying(i)' \in SUBSET Tasks
  BY DEF Guess, Trying
<1> QED BY <1>1, TasksAssumption, FS_Subset, FS_CardinalityType

\* A step fits an address whose record, ban and spree it leaves alone when it
\* takes no wrong password out of flight and, during a ban, lets none in.
LEMMA FitsStays ==
    ASSUME SpreeTyped, NEW i \in Ips, Fits(i),
           spree'[i] = spree[i], isBanned(i)' = isBanned(i),
           Len(Valid(i)') = Len(Valid(i)),
           Guess(i) \subseteq Guess(i)',
           isBanned(i) => Trying(i)' \subseteq Trying(i)
    PROVE  Fits(i)'
<1>1. Cardinality(Guess(i)) <= Cardinality(Guess(i)')
  BY InFlightNext, FS_Subset
<1>2. isBanned(i) => Cardinality(Trying(i)') <= Cardinality(Trying(i))
  BY InFlight, FS_Subset
<1>3. spree[i] \in Nat /\ Len(Valid(i)) \in Nat
  BY ValidIsPruned, PrunedFacts DEF SpreeTyped
<1>4. /\ Cardinality(Guess(i)) \in Nat /\ Cardinality(Guess(i)') \in Nat
      /\ Cardinality(Trying(i)) \in Nat /\ Cardinality(Trying(i)') \in Nat
      /\ Cardinality(Tasks) \in Nat
  BY InFlight, InFlightNext
<1>5. Len(Valid(i)') < BanThreshold
  BY DEF Fits
<1>6. ASSUME ~isBanned(i) PROVE spree'[i] <= Len(Valid(i)') + Cardinality(Guess(i)')
  <2>1. spree[i] <= Len(Valid(i)) + Cardinality(Guess(i))
    BY <1>6 DEF Fits
  <2> QED BY <1>1, <1>3, <1>4, <2>1
<1>7. ASSUME isBanned(i)
      PROVE  spree'[i] + Cardinality(Trying(i)') <= BanThreshold + Cardinality(Tasks) - 1
  <2>1. spree[i] + Cardinality(Trying(i)) <= BanThreshold + Cardinality(Tasks) - 1
    BY <1>7 DEF Fits
  <2> QED BY <1>2, <1>3, <1>4, <1>7, <2>1, PolicyAssumption
<1> QED BY <1>5, <1>6, <1>7 DEF Fits

-----------------------------------------------------------------------------
(* What the operations do to the record of an address *)

\* Dropping what has run out changes neither the count nor the ban.
LEMMA PruningKeeps ==
    ASSUME SpreeTyped, NEW i \in Ips, attempts'[i] \in {attempts[i], Valid(i)}
    PROVE  /\ attempts'[i] \in Seq(Ages) /\ Ordered(attempts'[i])
           /\ Len(Valid(i)') = Len(Valid(i))
  BY ValidIsPruned, PrunedFacts DEF SpreeTyped

LEMMA StatusKeeps ==
    ASSUME SpreeTyped, NEW a \in Ips, CheckSecurityStatus(a)
    PROVE  /\ attempts' \in [Ips -> Seq(Ages)]
           /\ BansTyped'
           /\ \A i \in Ips : /\ Ordered(attempts'[i])
                             /\ Len(Valid(i)') = Len(Valid(i))
                             /\ isBanned(i)' = isBanned(i)
<1>1. attempts \in [Ips -> Seq(Ages)] /\ BansTyped
  BY DEF SpreeTyped
<1>2. /\ attempts' = attempts \/ attempts' = [attempts EXCEPT ![a] = Valid(a)]
      /\ bans' = bans \/ (~isBanned(a) /\ bans' = [bans EXCEPT ![a] = None])
  BY DEF CheckSecurityStatus, limiterVars
<1>3. ASSUME NEW i \in Ips PROVE attempts'[i] \in {attempts[i], Valid(i)}
  BY <1>1, <1>2
<1>4. attempts' \in [Ips -> Seq(Ages)]
  <2>1. Valid(a) \in Seq(Ages)
    BY ValidIsPruned, PrunedFacts DEF SpreeTyped
  <2> QED BY <1>1, <1>2, <2>1
<1>5. ASSUME NEW i \in Ips PROVE isBanned(i)' = isBanned(i)
  BY <1>1, <1>2 DEF isBanned, BansTyped
<1> QED BY <1>1, <1>3, <1>4, <1>5, StatusKeepsBans, PruningKeeps

\* The two outcomes of a failure that counts.
LEMMA RecordOutcome ==
    ASSUME SpreeTyped, NEW a \in Ips, BanThreshold > 0, Len(Valid(a)) < BanThreshold,
           RecordFailedAttempt(a)
    PROVE  /\ attempts' \in [Ips -> Seq(Ages)]
           /\ BansTyped'
           /\ \A i \in Ips : Ordered(attempts'[i])
           /\ \A i \in Ips : i # a \/ isBanned(a) =>
                Len(Valid(i)') = Len(Valid(i)) /\ isBanned(i)' = isBanned(i)
           /\ ~isBanned(a) =>
                \/ /\ Len(Valid(a)) = BanThreshold - 1
                   /\ Len(Valid(a)') = 0 /\ isBanned(a)'
                \/ /\ Len(Valid(a)') = Len(Valid(a)) + 1 /\ Len(Valid(a)') < BanThreshold
                   /\ ~isBanned(a)'
<1>1. attempts \in [Ips -> Seq(Ages)] /\ BansTyped /\ \A i \in Ips : Ordered(attempts[i])
  BY DEF SpreeTyped
<1>2. /\ Valid(a) = Pruned(attempts[a]) /\ Valid(a) \in Seq(Ages) /\ Ordered(Valid(a))
      /\ Len(Valid(a)) \in Nat
      /\ \A n \in 1 .. Len(Valid(a)) : Valid(a)[n] < AttemptsWindow
  BY <1>1, ValidIsPruned, PrunedFacts
<1>3. ~isDisabled
  BY PolicyAssumption DEF isDisabled
<1>4. BansTyped'
  BY <1>1, RecordKeepsBans
<1>5. CASE isBanned(a)
  <2>1. attempts' = attempts /\ bans' = bans
    BY <1>5 DEF RecordFailedAttempt, limiterVars
  <2>2. \A i \in Ips : Len(Valid(i)') = Len(Valid(i)) /\ isBanned(i)' = isBanned(i)
    BY <2>1 DEF Valid, isBanned, Expired
  <2> QED BY <1>1, <1>4, <1>5, <2>1, <2>2
<1>6. CASE ~isBanned(a)
  <2>1. PICK ban \in BOOLEAN :
          /\ ban <=> Len(Valid(a)) + 1 >= BanThreshold
          /\ bans' = [bans EXCEPT ![a] = IF ban THEN 0 ELSE None]
          /\ attempts' = [attempts EXCEPT ![a] = IF ban THEN <<>> ELSE Append(Valid(a), 0)]
    BY <1>3, <1>6 DEF RecordFailedAttempt, ReachesBan
  <2>2. /\ Append(Valid(a), 0) \in Seq(Ages) /\ Ordered(Append(Valid(a), 0))
        /\ Len(Pruned(Append(Valid(a), 0))) = Len(Valid(a)) + 1
    BY <1>2, AttemptAdded
  <2>3. attempts' \in [Ips -> Seq(Ages)] /\ \A i \in Ips : Ordered(attempts'[i])
    BY <1>1, <2>1, <2>2, NoAttempts
  <2>4. ASSUME NEW i \in Ips, i # a
        PROVE  Len(Valid(i)') = Len(Valid(i)) /\ isBanned(i)' = isBanned(i)
    <3>1. attempts'[i] = attempts[i] /\ bans'[i] = bans[i]
      BY <1>1, <2>1, <2>4 DEF BansTyped
    <3> QED BY <3>1 DEF Valid, isBanned, Expired
  <2>5. CASE ban
    <3>1. attempts'[a] = <<>> /\ bans'[a] = 0
      BY <1>1, <2>1, <2>5 DEF BansTyped
    <3>2. Len(Valid(a)') = 0
      BY <3>1, ValidIsPruned, NoAttempts
    <3>3. isBanned(a)'
      BY <3>1, PolicyAssumption, NoneAssumption DEF isBanned
    <3>4. Len(Valid(a)) = BanThreshold - 1
      BY <1>2, <2>1, <2>5, PolicyAssumption
    <3> QED BY <1>4, <1>6, <2>3, <2>4, <3>2, <3>3, <3>4
  <2>6. CASE ~ban
    <3>1. attempts'[a] = Append(Valid(a), 0) /\ bans'[a] = None
      BY <1>1, <2>1, <2>6 DEF BansTyped
    <3>2. Len(Valid(a)') = Len(Valid(a)) + 1
      BY <2>2, <3>1, ValidIsPruned
    <3>3. Len(Valid(a)) + 1 < BanThreshold
      BY <1>2, <2>1, <2>6, PolicyAssumption
    <3>4. ~isBanned(a)'
      BY <3>1 DEF isBanned
    <3> QED BY <1>4, <1>6, <2>3, <2>4, <3>2, <3>3, <3>4
  <2> QED BY <2>5, <2>6
<1> QED BY <1>5, <1>6

-----------------------------------------------------------------------------
(* What a step of one request does to the requests in flight *)

\* Only the request t moves, to p.
Moves(t, p) ==
    /\ \A u \in Tasks \ {t} : pc'[u] = pc[u] /\ req'[u] = req[u]
    /\ pc'[t] = p

\* A request already under way keeps its address, or ends.
LEMMA GotoMoves ==
    ASSUME SpreeTyped, NEW t \in Tasks, pc[t] # "idle", NEW p \in Pcs, Goto(t, p)
    PROVE  /\ Moves(t, p)
           /\ pc' \in [Tasks -> Pcs]
           /\ req' \in [Tasks -> Requests \cup {None}]
           /\ \A u \in Tasks : pc'[u] # "idle" => req'[u] \in Requests
           /\ p # "idle" => req'[t] = req[t]
<1>1. pc \in [Tasks -> Pcs] /\ req \in [Tasks -> Requests \cup {None}]
  BY DEF SpreeTyped
<1>2. /\ pc' = [pc EXCEPT ![t] = p]
      /\ req' = [req EXCEPT ![t] = IF p = "idle" THEN None ELSE req[t]]
  BY <1>1 DEF Goto
<1>3. pc' \in [Tasks -> Pcs] /\ req' \in [Tasks -> Requests \cup {None}]
  BY <1>1, <1>2
<1>4. Moves(t, p) /\ (p # "idle" => req'[t] = req[t])
  BY <1>1, <1>2 DEF Moves
<1>5. \A u \in Tasks : pc'[u] # "idle" => req'[u] \in Requests
  BY <1>1, <1>2 DEF SpreeTyped
<1> QED BY <1>3, <1>4, <1>5

\* A request that has no wrong password in flight, and now neither has.
LEMMA NoGuess ==
    ASSUME NEW t \in Tasks, NEW p, Moves(t, p), pc[t] # "wrong", NEW i
    PROVE  Guess(i) \subseteq Guess(i)'
  BY DEF Moves, Guess, ip

\* A request that had passed the check, or does not get there.
LEMMA NoneTries ==
    ASSUME NEW t \in Tasks, NEW p, Moves(t, p), NEW i,
           \/ p \notin {"status", "captcha", "password"}
           \/ req'[t].ip # i
           \/ pc[t] \in {"status", "captcha", "password"} /\ req'[t] = req[t]
    PROVE  Trying(i)' \subseteq Trying(i)
  BY DEF Moves, Trying, ip

LEMMA Address ==
    ASSUME SpreeTyped, NEW t \in Tasks, pc[t] # "idle"
    PROVE  req[t] \in Requests /\ ip(t) \in Ips /\ ip(t) = req[t].ip
  BY DEF SpreeTyped, Requests, ip

-----------------------------------------------------------------------------
(* The steps *)

\* A step that leaves records, bans and sprees as they count.
LEMMA CalmStep ==
    ASSUME SpreeInv, NEW t \in Tasks, NEW p,
           attempts' \in [Ips -> Seq(Ages)], BansTyped',
           \A i \in Ips : /\ Ordered(attempts'[i])
                          /\ Len(Valid(i)') = Len(Valid(i))
                          /\ isBanned(i)' = isBanned(i),
           spree' = spree,
           pc' \in [Tasks -> Pcs], req' \in [Tasks -> Requests \cup {None}],
           \A u \in Tasks : pc'[u] # "idle" => req'[u] \in Requests,
           Moves(t, p), pc[t] # "wrong",
           \A i \in Ips : BanThreshold > 0 /\ isBanned(i) =>
               \/ p \notin {"status", "captcha", "password"}
               \/ req'[t].ip # i
               \/ pc[t] \in {"status", "captcha", "password"} /\ req'[t] = req[t]
    PROVE  SpreeInv'
<1>1. SpreeTyped'
  BY DEF SpreeInv, SpreeTyped
<1>2. ASSUME BanThreshold > 0, NEW i \in Ips PROVE Fits(i)'
  <2>1. SpreeTyped /\ Fits(i)
    BY <1>2 DEF SpreeInv
  <2>2. Guess(i) \subseteq Guess(i)'
    BY NoGuess
  <2>3. isBanned(i) => Trying(i)' \subseteq Trying(i)
    BY <1>2, NoneTries
  <2>4. spree'[i] = spree[i] /\ Len(Valid(i)') = Len(Valid(i)) /\ isBanned(i)' = isBanned(i)
    OBVIOUS
  <2> QED BY <2>1, <2>2, <2>3, <2>4, FitsStays
<1> QED BY <1>1, <1>2 DEF SpreeInv

\* Records and bans as they were.
LEMMA SameRecords ==
    ASSUME SpreeTyped, attempts' = attempts, bans' = bans
    PROVE  /\ attempts' \in [Ips -> Seq(Ages)] /\ BansTyped'
           /\ \A i \in Ips : /\ Ordered(attempts'[i])
                             /\ Len(Valid(i)') = Len(Valid(i))
                             /\ isBanned(i)' = isBanned(i)
  BY DEF SpreeTyped, BansTyped, Valid, Expired, isBanned

LEMMA LimiterStep ==
    ASSUME SpreeInv, NEW t \in Tasks, NEW r \in Requests, Limiter(t, r)
    PROVE  SpreeInv'
<1>1. SpreeTyped /\ r.ip \in Ips
  BY DEF SpreeInv, Requests
<1>2. pc[t] = "idle" /\ CheckSecurityStatus(r.ip) /\ spree' = spree
  BY DEF Limiter
<1>3. /\ attempts' \in [Ips -> Seq(Ages)] /\ BansTyped'
      /\ \A i \in Ips : /\ Ordered(attempts'[i])
                        /\ Len(Valid(i)') = Len(Valid(i))
                        /\ isBanned(i)' = isBanned(i)
  BY <1>1, <1>2, StatusKeeps
<1>4. pc \in [Tasks -> Pcs] /\ req \in [Tasks -> Requests \cup {None}]
  BY <1>1 DEF SpreeTyped
<1>5. CASE Banned(r.ip)
  <2>1. pc' = pc /\ req' = req
    BY <1>5 DEF Limiter
  <2>2. Moves(t, "idle")
    BY <1>2, <2>1 DEF Moves
  <2>3. \A u \in Tasks : pc'[u] # "idle" => req'[u] \in Requests
    BY <1>1, <2>1 DEF SpreeTyped
  <2> QED BY <1>2, <1>3, <1>4, <2>1, <2>2, <2>3, CalmStep
<1>6. CASE ~Banned(r.ip)
  <2>1. PICK p \in {"badForm", "password", "status"} :
          req' = [req EXCEPT ![t] = r] /\ pc' = [pc EXCEPT ![t] = p]
    BY <1>6 DEF Limiter
  <2>2. /\ Moves(t, p) /\ req'[t] = r
        /\ pc' \in [Tasks -> Pcs] /\ req' \in [Tasks -> Requests \cup {None}]
    BY <1>4, <2>1 DEF Moves, Pcs
  <2>3. \A u \in Tasks : pc'[u] # "idle" => req'[u] \in Requests
    BY <1>1, <1>4, <2>1 DEF SpreeTyped
  <2>4. \A i \in Ips : BanThreshold > 0 /\ isBanned(i) => req'[t].ip # i
    BY <1>6, <2>2, PolicyAssumption DEF Banned, isDisabled
  <2> QED BY <1>2, <1>3, <2>2, <2>3, <2>4, CalmStep
<1> QED BY <1>5, <1>6

\* The steps of a request between its arrival and the password.
LEMMA StatusStep ==
    ASSUME SpreeInv, NEW t \in Tasks, NEW p \in Pcs,
           pc[t] \in {"status", "recheck"}, CheckSecurityStatus(ip(t)), Goto(t, p), spree' = spree,
           pc[t] = "recheck" => p = "idle"
    PROVE  SpreeInv'
<1>1. SpreeTyped
  BY DEF SpreeInv
<1>2. pc[t] # "idle" /\ pc[t] # "wrong"
  OBVIOUS
<1>3. /\ Moves(t, p)
      /\ pc' \in [Tasks -> Pcs] /\ req' \in [Tasks -> Requests \cup {None}]
      /\ \A u \in Tasks : pc'[u] # "idle" => req'[u] \in Requests
      /\ p # "idle" => req'[t] = req[t]
  BY <1>1, <1>2, GotoMoves
<1>4. /\ attempts' \in [Ips -> Seq(Ages)] /\ BansTyped'
      /\ \A i \in Ips : /\ Ordered(attempts'[i])
                        /\ Len(Valid(i)') = Len(Valid(i))
                        /\ isBanned(i)' = isBanned(i)
  BY <1>1, <1>2, Address, StatusKeeps
<1>5. \/ p \notin {"status", "captcha", "password"}
      \/ pc[t] \in {"status", "captcha", "password"} /\ req'[t] = req[t]
  BY <1>3
<1> QED BY <1>2, <1>3, <1>4, <1>5, CalmStep

LEMMA CaptchaStep ==
    ASSUME SpreeInv, NEW t \in Tasks, NEW p \in Pcs,
           pc[t] \in {"generate", "captcha", "password"}, Goto(t, p), spree' = spree,
           attempts' = attempts, bans' = bans,
           p \in {"idle", "clear"} \/ (pc[t] = "captcha" /\ p = "password")
    PROVE  SpreeInv'
<1>1. SpreeTyped
  BY DEF SpreeInv
<1>2. pc[t] # "idle" /\ pc[t] # "wrong"
  OBVIOUS
<1>3. /\ Moves(t, p)
      /\ pc' \in [Tasks -> Pcs] /\ req' \in [Tasks -> Requests \cup {None}]
      /\ \A u \in Tasks : pc'[u] # "idle" => req'[u] \in Requests
      /\ p # "idle" => req'[t] = req[t]
  BY <1>1, <1>2, GotoMoves
<1>4. \/ p \notin {"status", "captcha", "password"}
      \/ pc[t] \in {"status", "captcha", "password"} /\ req'[t] = req[t]
  BY <1>3
<1> QED BY <1>1, <1>2, <1>3, <1>4, SameRecords, CalmStep

\* A wrong password: one request fewer that tries, one more that has tried.
LEMMA WrongStep ==
    ASSUME SpreeInv, NEW t \in Tasks, pc[t] = "password", Goto(t, "wrong"),
           spree' = [spree EXCEPT ![ip(t)] = @ + 1], attempts' = attempts, bans' = bans
    PROVE  SpreeInv'
<1>1. SpreeTyped /\ pc[t] # "idle" /\ "wrong" \in Pcs
  BY DEF SpreeInv, Pcs
<1>2. /\ Moves(t, "wrong") /\ req'[t] = req[t]
      /\ pc' \in [Tasks -> Pcs] /\ req' \in [Tasks -> Requests \cup {None}]
      /\ \A u \in Tasks : pc'[u] # "idle" => req'[u] \in Requests
  BY <1>1, GotoMoves
<1>3. /\ attempts' \in [Ips -> Seq(Ages)] /\ BansTyped'
      /\ \A i \in Ips : /\ Ordered(attempts'[i])
                        /\ Len(Valid(i)') = Len(Valid(i))
                        /\ isBanned(i)' = isBanned(i)
  BY <1>1, SameRecords
<1>4. spree \in [Ips -> Nat] /\ ip(t) \in Ips
  BY <1>1, Address DEF SpreeTyped
<1>5. /\ spree' \in [Ips -> Nat] /\ spree'[ip(t)] = spree[ip(t)] + 1
      /\ \A i \in Ips \ {ip(t)} : spree'[i] = spree[i]
  BY <1>4
<1>6. SpreeTyped'
  BY <1>2, <1>3, <1>5 DEF SpreeTyped
<1>7. ASSUME BanThreshold > 0, NEW i \in Ips, i # ip(t) PROVE Fits(i)'
  <2>1. Fits(i) /\ spree'[i] = spree[i]
    BY <1>5, <1>7 DEF SpreeInv
  <2>2. Guess(i) \subseteq Guess(i)'
    BY <1>1, <1>2, NoGuess
  <2>3. Trying(i)' \subseteq Trying(i)
    BY <1>2, NoneTries
  <2> QED BY <1>1, <1>3, <2>1, <2>2, <2>3, FitsStays
<1>8. ASSUME BanThreshold > 0, NEW a \in Ips, a = ip(t) PROVE Fits(a)'
  <2>1. a = ip(t) /\ a = req[t].ip
    BY <1>1, <1>8, Address
  <2>2. Fits(a)
    BY <1>8 DEF SpreeInv
  <2>3. Guess(a)' = Guess(a) \cup {t} /\ t \notin Guess(a)
    BY <1>2, <2>1 DEF Guess, Moves, ip
  <2>4. Trying(a)' = Trying(a) \ {t} /\ t \in Trying(a)
    BY <1>2, <2>1 DEF Trying, Moves, ip
  <2>5. Cardinality(Guess(a)') = Cardinality(Guess(a)) + 1
    BY <2>3, InFlight, FS_AddElement
  <2>6. Cardinality(Trying(a)') = Cardinality(Trying(a)) - 1
    BY <2>4, InFlight, FS_RemoveElement
  <2>7. /\ Cardinality(Guess(a)) \in Nat /\ Cardinality(Trying(a)) \in Nat
        /\ Cardinality(Tasks) \in Nat
    BY InFlight
  <2>8. Len(Valid(a)) \in Nat /\ spree[a] \in Nat /\ spree'[a] = spree[a] + 1
    BY <1>1, <1>5, <2>1, ValidIsPruned, PrunedFacts DEF SpreeTyped
  <2>9. Len(Valid(a)') = Len(Valid(a)) /\ isBanned(a)' = isBanned(a)
    BY <1>3
  <2>10. ASSUME ~isBanned(a) PROVE spree'[a] <= Len(Valid(a)') + Cardinality(Guess(a)')
    <3>1. spree[a] <= Len(Valid(a)) + Cardinality(Guess(a))
      BY <2>2, <2>10 DEF Fits
    <3> QED BY <2>5, <2>7, <2>8, <2>9, <3>1
  <2>11. ASSUME isBanned(a)
         PROVE  spree'[a] + Cardinality(Trying(a)') <= BanThreshold + Cardinality(Tasks) - 1
    <3>1. spree[a] + Cardinality(Trying(a)) <= BanThreshold + Cardinality(Tasks) - 1
      BY <2>2, <2>11 DEF Fits
    <3>2. \A m, n \in Int : (m + 1) + (n - 1) = m + n
      OBVIOUS
    <3>3. spree'[a] + Cardinality(Trying(a)') = spree[a] + Cardinality(Trying(a))
      BY <2>6, <2>7, <2>8, <3>2
    <3> QED BY <3>1, <3>3
  <2>12. Len(Valid(a)') < BanThreshold
    BY <2>2, <2>9 DEF Fits
  <2> QED BY <2>9, <2>10, <2>11, <2>12 DEF Fits
<1> QED BY <1>6, <1>7, <1>8 DEF SpreeInv

\* A failure is recorded: at the ban the wrong passwords tried are those on
\* record and those in flight, and whoever tries now is in flight too.
LEMMA RecordStep ==
    ASSUME SpreeInv, NEW t \in Tasks, Record(t)
    PROVE  SpreeInv'
<1>1. SpreeTyped /\ pc[t] # "idle"
  BY DEF SpreeInv, Record
<1>2. PICK p \in {"idle", "recheck"} : Goto(t, p)
  BY DEF Record
<1>3. /\ Moves(t, p)
      /\ pc' \in [Tasks -> Pcs] /\ req' \in [Tasks -> Requests \cup {None}]
      /\ \A u \in Tasks : pc'[u] # "idle" => req'[u] \in Requests
      /\ p # "idle" => req'[t] = req[t]
  BY <1>1, <1>2, GotoMoves DEF Pcs
<1>4. ip(t) \in Ips /\ spree' = spree /\ RecordFailedAttempt(ip(t))
  BY <1>1, Address DEF Record
<1>5. CASE BanThreshold = 0
  <2>1. CASE isDisabled \/ isBanned(ip(t))
    <3>1. attempts' = attempts /\ bans' = bans
      BY <1>4, <2>1 DEF RecordFailedAttempt, limiterVars
    <3>2. SpreeTyped'
      BY <1>1, <1>3, <1>4, <3>1, SameRecords DEF SpreeTyped
    <3> QED BY <1>5, <3>2 DEF SpreeInv
  <2>2. CASE ~(isDisabled \/ isBanned(ip(t)))
    <3>1. ~ReachesBan(Len(Valid(ip(t))) + 1)
      BY <1>5 DEF ReachesBan
    <3>2. attempts' = [attempts EXCEPT ![ip(t)] = Append(Valid(ip(t)), 0)]
      BY <1>4, <2>2, <3>1 DEF RecordFailedAttempt
    <3>3. /\ Append(Valid(ip(t)), 0) \in Seq(Ages) /\ Ordered(Append(Valid(ip(t)), 0))
      <4>1. /\ Valid(ip(t)) \in Seq(Ages) /\ Ordered(Valid(ip(t)))
            /\ \A n \in 1 .. Len(Valid(ip(t))) : Valid(ip(t))[n] < AttemptsWindow
        BY <1>1, <1>4, ValidIsPruned, PrunedFacts DEF SpreeTyped
      <4> QED BY <4>1, AttemptAdded
    <3>4. attempts' \in [Ips -> Seq(Ages)] /\ \A i \in Ips : Ordered(attempts'[i])
      BY <1>1, <1>4, <3>2, <3>3 DEF SpreeTyped
    <3>5. BansTyped'
      BY <1>1, <1>4, RecordKeepsBans DEF SpreeTyped
    <3>6. SpreeTyped'
      BY <1>1, <1>3, <1>4, <3>4, <3>5 DEF SpreeTyped
    <3> QED BY <1>5, <3>6 DEF SpreeInv
  <2> QED BY <2>1, <2>2
<1>6. CASE BanThreshold > 0
  <2>1. \A i \in Ips : Fits(i)
    BY <1>6 DEF SpreeInv
  <2>2. Len(Valid(ip(t))) < BanThreshold
    BY <1>4, <2>1 DEF Fits
  <2>3. /\ attempts' \in [Ips -> Seq(Ages)]
        /\ BansTyped'
        /\ \A i \in Ips : Ordered(attempts'[i])
        /\ \A i \in Ips : i # ip(t) \/ isBanned(ip(t)) =>
             Len(Valid(i)') = Len(Valid(i)) /\ isBanned(i)' = isBanned(i)
    BY <1>1, <1>4, <1>6, <2>2, RecordOutcome
  <2>4. SpreeTyped'
    BY <1>1, <1>3, <1>4, <2>3 DEF SpreeTyped
  <2>5. \A i \in Ips : Trying(i)' \subseteq Trying(i)
    BY <1>3, NoneTries
  <2>6. \A i \in Ips : i # ip(t) => Guess(i)' = Guess(i)
    BY <1>3 DEF Moves, Guess, ip
  <2>7. ASSUME NEW i \in Ips, i # ip(t) PROVE Fits(i)'
    <3>1. /\ Guess(i) \subseteq Guess(i)' /\ Trying(i)' \subseteq Trying(i)
          /\ Fits(i) /\ spree'[i] = spree[i]
      BY <1>4, <2>1, <2>5, <2>6, <2>7
    <3>2. Len(Valid(i)') = Len(Valid(i)) /\ isBanned(i)' = isBanned(i)
      BY <2>3, <2>7
    <3> QED BY <1>1, <3>1, <3>2, FitsStays
  <2>8. ASSUME NEW a \in Ips, a = ip(t) PROVE Fits(a)'
    <3>1. Fits(a) /\ spree'[a] = spree[a] /\ spree[a] \in Nat /\ a = req[t].ip
      BY <1>1, <1>4, <2>1, <2>8, Address DEF SpreeTyped
    <3>2. /\ IsFiniteSet(Guess(a)) /\ Cardinality(Guess(a)) \in Nat
          /\ Cardinality(Trying(a)) \in Nat /\ Cardinality(Tasks) \in Nat
          /\ Cardinality(Guess(a)) + Cardinality(Trying(a)) <= Cardinality(Tasks)
          /\ Cardinality(Guess(a)') \in Nat /\ Cardinality(Trying(a)') \in Nat
      BY InFlight, InFlightNext
    <3>3. Cardinality(Trying(a)') <= Cardinality(Trying(a))
      BY <2>5, InFlight, FS_Subset
    <3>4. Len(Valid(a)) \in Nat
      BY <1>1, ValidIsPruned, PrunedFacts DEF SpreeTyped
    <3>5. CASE isBanned(a)
      <4>1. Len(Valid(a)') = Len(Valid(a)) /\ isBanned(a)'
        BY <2>3, <2>8, <3>5
      <4>2. spree[a] + Cardinality(Trying(a)) <= BanThreshold + Cardinality(Tasks) - 1
        BY <3>1, <3>5 DEF Fits
      <4>3. spree'[a] + Cardinality(Trying(a)') <= BanThreshold + Cardinality(Tasks) - 1
        BY <3>1, <3>2, <3>3, <4>2, PolicyAssumption
      <4>4. Len(Valid(a)') < BanThreshold
        BY <3>1, <4>1 DEF Fits
      <4> QED BY <4>1, <4>3, <4>4 DEF Fits
    <3>6. CASE ~isBanned(a)
      <4>1. spree[a] <= Len(Valid(a)) + Cardinality(Guess(a))
        BY <3>1, <3>6 DEF Fits
      <4>2. \/ /\ Len(Valid(a)) = BanThreshold - 1
               /\ Len(Valid(a)') = 0 /\ isBanned(a)'
            \/ /\ Len(Valid(a)') = Len(Valid(a)) + 1 /\ Len(Valid(a)') < BanThreshold
               /\ ~isBanned(a)'
        BY <1>1, <1>4, <1>6, <2>2, <2>8, <3>6, RecordOutcome
      <4>3. CASE isBanned(a)'
        <5>1. Len(Valid(a)) = BanThreshold - 1 /\ Len(Valid(a)') = 0
          BY <4>2, <4>3
        <5>2. spree'[a] + Cardinality(Trying(a)') <= BanThreshold + Cardinality(Tasks) - 1
          <6>1. spree'[a] <= (BanThreshold - 1) + Cardinality(Guess(a))
            BY <3>1, <4>1, <5>1
          <6>2. \A s, b, g, y, z, n \in Int :
                  s <= (b - 1) + g /\ z <= y /\ g + y <= n => s + z <= b + n - 1
            OBVIOUS
          <6> QED BY <3>1, <3>2, <3>3, <6>1, <6>2, PolicyAssumption
        <5>3. 0 < BanThreshold
          BY <1>6, PolicyAssumption
        <5> QED BY <4>3, <5>1, <5>2, <5>3 DEF Fits
      <4>4. CASE ~isBanned(a)'
        <5>1. Len(Valid(a)') = Len(Valid(a)) + 1 /\ Len(Valid(a)') < BanThreshold
          BY <4>2, <4>4
        <5>2. Guess(a) \ {t} \subseteq Guess(a)'
          BY <1>3 DEF Moves, Guess, ip
        <5>3. /\ IsFiniteSet(Guess(a) \ {t})
              /\ Cardinality(Guess(a) \ {t}) \in {Cardinality(Guess(a)), Cardinality(Guess(a)) - 1}
          BY <3>2, FS_RemoveElement
        <5>4. Cardinality(Guess(a) \ {t}) <= Cardinality(Guess(a)')
          BY <5>2, InFlightNext, FS_Subset
        <5>5. Cardinality(Guess(a)) <= Cardinality(Guess(a)') + 1
          BY <3>2, <5>3, <5>4
        <5>6. spree'[a] <= Len(Valid(a)') + Cardinality(Guess(a)')
          BY <3>1, <3>2, <3>4, <4>1, <5>1, <5>5
        <5> QED BY <4>4, <5>1, <5>6 DEF Fits
      <4> QED BY <4>3, <4>4
    <3> QED BY <3>5, <3>6
  <2>9. \A i \in Ips : Fits(i)'
    BY <2>7, <2>8
  <2> QED BY <2>4, <2>9 DEF SpreeInv
<1> QED BY <1>5, <1>6, PolicyAssumption

\* A successful administration login forgets the failures and the spree, and
\* leaves the ban.
LEMMA ClearStep ==
    ASSUME SpreeInv, NEW t \in Tasks, Clear(t)
    PROVE  SpreeInv'
<1>1. SpreeTyped /\ pc[t] = "clear" /\ pc[t] # "idle" /\ pc[t] # "wrong" /\ "idle" \in Pcs
  BY DEF SpreeInv, Clear, Pcs
<1>2. /\ Moves(t, "idle")
      /\ pc' \in [Tasks -> Pcs] /\ req' \in [Tasks -> Requests \cup {None}]
      /\ \A u \in Tasks : pc'[u] # "idle" => req'[u] \in Requests
  BY <1>1, GotoMoves DEF Clear
<1>3. /\ attempts \in [Ips -> Seq(Ages)] /\ spree \in [Ips -> Nat] /\ ip(t) \in Ips
      /\ BansTyped /\ \A i \in Ips : Ordered(attempts[i])
  BY <1>1, Address DEF SpreeTyped
<1>4. /\ attempts' = [attempts EXCEPT ![ip(t)] = <<>>] /\ bans' = bans
      /\ spree' = [spree EXCEPT ![ip(t)] = 0]
  BY DEF Clear, RemoveAttempts
<1>5. /\ attempts' \in [Ips -> Seq(Ages)] /\ spree' \in [Ips -> Nat] /\ BansTyped'
      /\ \A i \in Ips : Ordered(attempts'[i])
  BY <1>3, <1>4, NoAttempts DEF BansTyped
<1>6. SpreeTyped'
  BY <1>2, <1>5 DEF SpreeTyped
<1>7. ASSUME NEW i \in Ips, BanThreshold > 0 PROVE Fits(i)'
  <2>1. Fits(i) /\ isBanned(i)' = isBanned(i)
    BY <1>4, <1>7 DEF SpreeInv, isBanned
  <2>2. Guess(i) \subseteq Guess(i)' /\ Trying(i)' \subseteq Trying(i)
    BY <1>1, <1>2, NoGuess, NoneTries
  <2>3. CASE i # ip(t)
    <3>1. spree'[i] = spree[i] /\ attempts'[i] = attempts[i]
      BY <1>3, <1>4, <2>3
    <3>2. Len(Valid(i)') = Len(Valid(i))
      BY <3>1, ValidIsPruned
    <3> QED BY <1>1, <2>1, <2>2, <3>1, <3>2, FitsStays
  <2>4. CASE i = ip(t)
    <3>1. spree'[i] = 0 /\ attempts'[i] = <<>>
      BY <1>3, <1>4, <2>4
    <3>2. Len(Valid(i)') = 0
      BY <3>1, ValidIsPruned, NoAttempts
    <3>3. /\ Cardinality(Guess(i)') \in Nat /\ Cardinality(Trying(i)') \in Nat
          /\ Cardinality(Trying(i)) \in Nat /\ Cardinality(Tasks) \in Nat
          /\ Cardinality(Trying(i)) <= Cardinality(Tasks)
          /\ Cardinality(Trying(i)') <= Cardinality(Trying(i))
      <4>1. Cardinality(Trying(i)') <= Cardinality(Trying(i))
        BY <2>2, InFlight, FS_Subset
      <4>2. Cardinality(Guess(i)) \in Nat
        BY InFlight
      <4> QED BY <4>1, <4>2, InFlight, InFlightNext
    <3>4. spree'[i] + Cardinality(Trying(i)') <= BanThreshold + Cardinality(Tasks) - 1
      BY <1>7, <3>1, <3>3, PolicyAssumption
    <3>5. spree'[i] <= Len(Valid(i)') + Cardinality(Guess(i)')
      BY <3>1, <3>2, <3>3
    <3>6. Len(Valid(i)') < BanThreshold
      BY <1>7, <3>2, PolicyAssumption
    <3> QED BY <3>4, <3>5, <3>6 DEF Fits
  <2> QED BY <2>3, <2>4
<1> QED BY <1>6, <1>7 DEF SpreeInv

\* The clean-up drops what counts for nothing.
LEMMA CleanupStep ==
    ASSUME SpreeInv, CleanupExpired
    PROVE  SpreeInv'
<1>1. SpreeTyped /\ bans \in [Ips -> Nat \cup {None}]
  BY DEF SpreeInv, SpreeTyped, BansTyped
<1>2. /\ bans' = [i \in Ips |-> Forget(bans[i], BanDuration)]
      /\ attempts' = [i \in Ips |-> Valid(i)]
      /\ pc' = pc /\ req' = req /\ spree' = spree
  BY DEF CleanupExpired
<1>3. BansTyped' /\ \A i \in Ips : isBanned(i)' = isBanned(i)
  BY <1>1, <1>2, PolicyAssumption DEF BansTyped, Forget, isBanned
<1>4. ASSUME NEW i \in Ips
      PROVE  /\ attempts'[i] \in Seq(Ages) /\ Ordered(attempts'[i])
             /\ Len(Valid(i)') = Len(Valid(i))
  BY <1>1, <1>2, PruningKeeps
<1>5. attempts' \in [Ips -> Seq(Ages)]
  BY <1>2, <1>4
<1>6. SpreeTyped'
  BY <1>1, <1>2, <1>3, <1>4, <1>5 DEF SpreeTyped
<1>7. ASSUME NEW i \in Ips, BanThreshold > 0 PROVE Fits(i)'
  <2>1. Guess(i)' = Guess(i) /\ Trying(i)' = Trying(i) /\ Fits(i)
    BY <1>2, <1>7 DEF Guess, Trying, ip, SpreeInv
  <2> QED BY <1>1, <1>2, <1>3, <1>4, <2>1, FitsStays
<1> QED BY <1>6, <1>7 DEF SpreeInv

\* When an attempt or a ban runs out the spree starts anew; otherwise time
\* changes no count.
LEMMA TickStep ==
    ASSUME SpreeInv, Tick
    PROVE  SpreeInv'
<1>1. /\ SpreeTyped /\ bans \in [Ips -> Nat \cup {None}] /\ spree \in [Ips -> Nat]
      /\ attempts \in [Ips -> Seq(Ages)] /\ \A i \in Ips : Ordered(attempts[i])
  BY DEF SpreeInv, SpreeTyped, BansTyped
<1>2. /\ attempts' = [i \in Ips |-> [n \in 1 .. Len(attempts[i]) |->
                                       Older(attempts[i][n], AttemptsWindow - 1)]]
      /\ bans' = [i \in Ips |-> Older(bans[i], BanDuration)]
      /\ pc' = pc /\ req' = req
  BY DEF Tick
<1>3. spree' = [i \in Ips |->
         IF \/ bans[i] = BanDuration
            \/ \E n \in DOMAIN attempts[i] : attempts[i][n] = AttemptsWindow - 1
         THEN 0 ELSE spree[i]]
  BY DEF Tick
<1>4. BansTyped'
  BY <1>1, <1>2, PolicyAssumption DEF BansTyped, Older
<1>5. ASSUME NEW i \in Ips
      PROVE  /\ attempts'[i] \in Seq(Ages) /\ Ordered(attempts'[i])
             /\ Len(Valid(i)') <= Len(Valid(i))
             /\ (\A n \in 1 .. Len(attempts[i]) : attempts[i][n] # AttemptsWindow - 1)
                  => Len(Valid(i)') = Len(Valid(i))
  <2>1. attempts'[i] = [n \in 1 .. Len(attempts[i]) |->
                          Older(attempts[i][n], AttemptsWindow - 1)]
    BY <1>2
  <2> QED BY <1>1, <2>1, ValidIsPruned, AttemptsAge
<1>6. attempts' \in [Ips -> Seq(Ages)] /\ spree' \in [Ips -> Nat]
  <2>1. DOMAIN attempts' = Ips /\ attempts' = [i \in Ips |-> attempts'[i]]
    BY <1>2
  <2>2. attempts' \in [Ips -> Seq(Ages)]
    BY <1>5, <2>1
  <2>3. spree' \in [Ips -> Nat]
    BY <1>1, <1>3
  <2> QED BY <2>2, <2>3
<1>7. SpreeTyped'
  BY <1>1, <1>2, <1>4, <1>5, <1>6 DEF SpreeTyped
<1>8. ASSUME NEW i \in Ips, BanThreshold > 0 PROVE Fits(i)'
  <2>1. Guess(i)' = Guess(i) /\ Trying(i)' = Trying(i) /\ Fits(i)
    BY <1>2, <1>8 DEF Guess, Trying, ip, SpreeInv
  <2>2. bans'[i] = Older(bans[i], BanDuration) /\ bans[i] \in Nat \cup {None}
    BY <1>1, <1>2
  <2>3. /\ isBanned(i)' => isBanned(i) /\ bans[i] # BanDuration
        /\ isBanned(i) /\ bans[i] # BanDuration => isBanned(i)'
    BY <2>2, NoneAssumption, PolicyAssumption DEF Older, isBanned
  <2>4. CASE bans[i] # BanDuration
             /\ \A n \in 1 .. Len(attempts[i]) : attempts[i][n] # AttemptsWindow - 1
    <3>1. DOMAIN attempts[i] = 1 .. Len(attempts[i])
      BY <1>1
    <3>2. spree'[i] = spree[i]
      BY <1>3, <2>4, <3>1
    <3>3. isBanned(i)' = isBanned(i)
      BY <2>3, <2>4 DEF isBanned
    <3> QED BY <1>1, <1>5, <2>1, <2>4, <3>2, <3>3, FitsStays
  <2>5. CASE \/ bans[i] = BanDuration
             \/ \E n \in 1 .. Len(attempts[i]) : attempts[i][n] = AttemptsWindow - 1
    <3>1. DOMAIN attempts[i] = 1 .. Len(attempts[i])
      BY <1>1
    <3>2. spree'[i] = 0
      BY <1>3, <2>5, <3>1
    <3>3. Len(Valid(i)) \in Nat /\ Len(Valid(i)') \in Nat /\ Len(Valid(i)) < BanThreshold
          /\ Len(Valid(i)') <= Len(Valid(i))
      <4>1. Len(Valid(i)) \in Nat
        BY <1>1, ValidIsPruned, PrunedFacts
      <4>2. Len(Valid(i)') \in Nat
        BY <1>5, ValidIsPruned, PrunedFacts
      <4>3. Len(Valid(i)) < BanThreshold
        BY <2>1 DEF Fits
      <4> QED BY <1>5, <4>1, <4>2, <4>3
    <3>4. /\ Cardinality(Guess(i)) \in Nat /\ Cardinality(Trying(i)) \in Nat
          /\ Cardinality(Tasks) \in Nat /\ Cardinality(Trying(i)) <= Cardinality(Tasks)
      BY InFlight
    <3>5. Len(Valid(i)') < BanThreshold
      BY <3>3, PolicyAssumption
    <3>6. spree'[i] <= Len(Valid(i)') + Cardinality(Guess(i)')
      BY <2>1, <3>2, <3>3, <3>4
    <3>7. spree'[i] + Cardinality(Trying(i)') <= BanThreshold + Cardinality(Tasks) - 1
      BY <1>8, <2>1, <3>2, <3>4, PolicyAssumption
    <3> QED BY <3>5, <3>6, <3>7 DEF Fits
  <2> QED BY <2>4, <2>5
<1> QED BY <1>7, <1>8 DEF SpreeInv

LEMMA SpreeInvInit == Init => SpreeInv
<1> SUFFICES ASSUME Init PROVE SpreeInv
  OBVIOUS
<1>1. SpreeTyped
  BY NoAttempts DEF Init, SpreeTyped, BansTyped, Pcs
<1>2. ASSUME NEW i \in Ips, BanThreshold > 0 PROVE Fits(i)
  <2>1. spree[i] = 0 /\ bans[i] = None /\ attempts[i] = <<>>
    BY DEF Init
  <2>2. Len(Valid(i)) = 0
    BY <2>1, ValidIsPruned, NoAttempts
  <2>3. Cardinality(Guess(i)) \in Nat
    BY InFlight
  <2> QED BY <1>2, <2>1, <2>2, <2>3, PolicyAssumption DEF Fits, isBanned
<1> QED BY <1>1, <1>2 DEF SpreeInv

LEMMA HandleStep ==
    ASSUME SpreeInv, NEW t \in Tasks, Handle(t)
    PROVE  SpreeInv'
<1>1. CASE \E r \in Requests : Limiter(t, r)
  BY <1>1, LimiterStep
<1>2. CASE LoginStatus(t)
  <2>1. PICK p \in {"badForm", "captcha", "password"} : Goto(t, p)
    BY <1>2 DEF LoginStatus, ReadForm
  <2>2. /\ pc[t] = "status" /\ CheckSecurityStatus(ip(t)) /\ spree' = spree /\ p \in Pcs
    BY <1>2 DEF LoginStatus, Pcs
  <2> QED BY <2>1, <2>2, StatusStep
<1>3. CASE CaptchaStatus(t)
  <2>1. PICK p \in {"generate", "idle"} : Goto(t, p)
    BY <1>3 DEF CaptchaStatus
  <2>2. /\ pc[t] = "status" /\ CheckSecurityStatus(ip(t)) /\ spree' = spree /\ p \in Pcs
    BY <1>3 DEF CaptchaStatus, Pcs
  <2> QED BY <2>1, <2>2, StatusStep
<1>4. CASE Generate(t)
  BY <1>4, CaptchaStep DEF Generate, RequireCaptcha, Pcs
<1>5. CASE AnswerCaptcha(t)
  <2>1. PICK p \in {"idle", "password"} : Goto(t, p)
    BY <1>5 DEF AnswerCaptcha
  <2>2. /\ pc[t] = "captcha" /\ spree' = spree /\ attempts' = attempts /\ bans' = bans /\ p \in Pcs
    BY <1>5 DEF AnswerCaptcha, VerifyCaptcha, limiterVars, Pcs
  <2> QED BY <2>1, <2>2, CaptchaStep
<1>6. CASE Password(t)
  <2>1. pc[t] = "password" /\ attempts' = attempts /\ bans' = bans
        /\ {"idle", "clear"} \subseteq Pcs
    BY <1>6 DEF Password, limiterVars, Pcs
  <2>2. \/ Goto(t, "wrong") /\ spree' = [spree EXCEPT ![ip(t)] = @ + 1]
        \/ Goto(t, "idle") /\ spree' = spree
        \/ Goto(t, "clear") /\ spree' = spree
    BY <1>6 DEF Password
  <2> QED BY <2>1, <2>2, WrongStep, CaptchaStep
<1>7. CASE Recheck(t)
  BY <1>7, StatusStep DEF Recheck, Pcs
<1> QED BY <1>1, <1>2, <1>3, <1>4, <1>5, <1>6, <1>7, RecordStep, ClearStep DEF Handle

\* The invariant the bound rests on.
LEMMA SpreeInvariant == Spec => []SpreeInv
<1>1. SpreeInv /\ [Next]_vars => SpreeInv'
  <2> SUFFICES ASSUME SpreeInv, [Next]_vars PROVE SpreeInv'
    OBVIOUS
  <2>1. CASE UNCHANGED vars
    <3>1. /\ attempts' = attempts /\ bans' = bans /\ pc' = pc /\ req' = req /\ spree' = spree
      BY <2>1 DEF vars
    <3>2. SpreeTyped'
      BY <3>1 DEF SpreeInv, SpreeTyped, BansTyped
    <3>3. ASSUME NEW i \in Ips, BanThreshold > 0 PROVE Fits(i)'
      <4>1. Guess(i)' = Guess(i) /\ Trying(i)' = Trying(i) /\ isBanned(i)' = isBanned(i)
            /\ Len(Valid(i)') = Len(Valid(i))
        BY <3>1 DEF Guess, Trying, ip, isBanned, Valid, Expired
      <4>2. SpreeTyped /\ Fits(i)
        BY <3>3 DEF SpreeInv
      <4> QED BY <3>1, <4>1, <4>2, FitsStays
    <3> QED BY <3>2, <3>3 DEF SpreeInv
  <2> QED BY <2>1, HandleStep, CleanupStep, TickStep DEF Next
<1> QED BY <1>1, SpreeInvInit, PTL DEF Spec

\* However many logins of an address are in flight, and whatever their checks
\* saw, at most BanThreshold wrong passwords are tried in a row, and one for each
\* other request in flight (login_limiter.go, RecordFailedAttempt; the checks of
\* admin/login.go and middleware/limiter.go).
THEOREM SpreesAreBounded == Spec => []SpreeBounded
<1>1. SpreeInv => SpreeBounded
  <2> SUFFICES ASSUME SpreeInv, BanThreshold > 0, NEW i \in Ips
               PROVE  spree[i] <= BanThreshold + Cardinality(Tasks) - 1
    BY DEF SpreeBounded
  <2>1. SpreeTyped /\ Fits(i)
    BY DEF SpreeInv
  <2>2. /\ Cardinality(Guess(i)) \in Nat /\ Cardinality(Trying(i)) \in Nat
        /\ Cardinality(Tasks) \in Nat
        /\ Cardinality(Guess(i)) + Cardinality(Trying(i)) <= Cardinality(Tasks)
    BY InFlight
  <2>3. spree[i] \in Nat /\ Len(Valid(i)) \in Nat /\ Len(Valid(i)) < BanThreshold
    BY <2>1, ValidIsPruned, PrunedFacts DEF SpreeTyped, Fits
  <2>4. CASE isBanned(i)
    <3>1. spree[i] + Cardinality(Trying(i)) <= BanThreshold + Cardinality(Tasks) - 1
      BY <2>1, <2>4 DEF Fits
    <3> QED BY <2>2, <2>3, <3>1, PolicyAssumption
  <2>5. CASE ~isBanned(i)
    <3>1. spree[i] <= Len(Valid(i)) + Cardinality(Guess(i))
      BY <2>1, <2>5 DEF Fits
    <3> QED BY <2>2, <2>3, <3>1, PolicyAssumption
  <2> QED BY <2>4, <2>5
<1> QED BY <1>1, SpreeInvariant, PTL
-----------------------------------------------------------------------------
(* The tail that Valid takes *)

\* Pruning keeps the attempts that are younger than the window, all of them and
\* in their order: what the loop of pruneAttempts keeps.
KeepsTheValid ==
    \A i \in Ips : \A n \in 1 .. Len(attempts[i]) :
        LET dropped == Len(attempts[i]) - Len(Valid(i)) IN
        IF attempts[i][n] >= AttemptsWindow
        THEN n <= dropped
        ELSE n > dropped /\ Valid(i)[n - dropped] = attempts[i][n]

\* Pruning drops exactly the attempts that have run out (login_limiter.go,
\* pruneAttempts, which looks at every timestamp).
THEOREM PruningIsExact == Spec => []KeepsTheValid
<1>1. SpreeInv => KeepsTheValid
  <2> SUFFICES ASSUME SpreeInv, NEW i \in Ips, NEW n \in 1 .. Len(attempts[i]),
                      NEW dropped, dropped = Len(attempts[i]) - Len(Valid(i))
               PROVE  IF attempts[i][n] >= AttemptsWindow
                      THEN n <= dropped
                      ELSE n > dropped /\ Valid(i)[n - dropped] = attempts[i][n]
    BY DEF KeepsTheValid
  <2>1. attempts[i] \in Seq(Ages) /\ Ordered(attempts[i]) /\ AttemptsWindow \in Nat
    BY PolicyAssumption DEF SpreeInv, SpreeTyped
  <2>2. PICK s : s = attempts[i]
    OBVIOUS
  <2>3. PICK k \in 0 .. Len(s) : \A m \in 1 .. Len(s) : s[m] >= AttemptsWindow <=> m <= k
    BY <2>1, <2>2 DEF Ordered
  <2>4. /\ Len(Pruned(s)) = Len(s) - k
        /\ \A m \in 1 .. Len(s) - k : Pruned(s)[m] = s[m + k]
    BY <2>1, <2>2, <2>3, PrunedFrom
  <2>5. Valid(i) = Pruned(s) /\ Len(s) \in Nat
    BY <2>1, <2>2, ValidIsPruned
  <2>6. dropped = k
    BY <2>2, <2>4, <2>5
  <2>7. CASE s[n] >= AttemptsWindow
    BY <2>2, <2>3, <2>6, <2>7
  <2>8. CASE ~(s[n] >= AttemptsWindow)
    <3>1. n > k
      BY <2>2, <2>3, <2>8
    <3>2. n - k \in 1 .. Len(s) - k /\ (n - k) + k = n
      BY <2>2, <2>5, <3>1
    <3>3. Pruned(s)[n - k] = s[n]
      BY <2>4, <3>2
    <3> QED BY <2>2, <2>5, <2>6, <2>8, <3>1, <3>3
  <2> QED BY <2>7, <2>8
<1> QED BY <1>1, SpreeInvariant, PTL
=============================================================================
