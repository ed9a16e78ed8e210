-------------------------- MODULE IpBlockerProofs --------------------------
(***************************************************************************)
(* Theorems about IpBlocker, for every value of the limits and durations.  *)
(* The bounds on what devices see (granted, served) follow from the bounds *)
(* on the table (count, ids); the invariants below say how they relate.    *)
(***************************************************************************)
EXTENDS IpBlocker, FiniteSetTheorems, TLAPS

\* A device sees no grant the table has not counted, except the first one; and
\* the table never waits longer than the device thinks.
CountCovers ==
    \A i \in Ips :
        /\ granted[i] <= RateLimit + 2
        /\ i \in known => /\ age[i] <= grantAge[i]
                          /\ grantAge[i] <= BlockDur => granted[i] <= count[i] + 1
        /\ i \notin known => granted[i] = 0 \/ grantAge[i] > BlockDur

\* The set of ids covers what was served but for one id, and is bounded.
IdsCover ==
    \A i \in Ips :
        /\ IsFiniteSet(ids[i])
        /\ Cardinality(ids[i]) <= IdLimit + 1
        /\ i \notin known => served[i] = {}
        /\ served[i] = {} \/ \E x \in Ids : served[i] \subseteq ids[i] \cup {x}

\* An element added to a finite set adds one to its size at most.
LEMMA OneMore ==
    ASSUME NEW S, NEW x, IsFiniteSet(S)
    PROVE  /\ IsFiniteSet(S \cup {x})
           /\ Cardinality(S) \in Nat
           /\ Cardinality(S \cup {x}) \in Nat
           /\ Cardinality(S \cup {x}) <= Cardinality(S) + 1
  <1>1. Cardinality(S) \in Nat
    BY FS_CardinalityType
  <1>2. IsFiniteSet(S \cup {x})
    BY FS_AddElement
  <1>3. Cardinality(S \cup {x}) = (IF x \in S THEN Cardinality(S) ELSE Cardinality(S) + 1)
    BY FS_AddElement
  <1> QED
    BY <1>1, <1>2, <1>3

\* The initial state satisfies every invariant.
LEMMA Initially == Init => TypeOK /\ CountCovers /\ IdsCover
  BY ConstantsAssumption, FS_EmptySet DEF Init, TypeOK, CountCovers, IdsCover

\* Every step keeps the types.
LEMMA TypeStep == TypeOK /\ [Next]_vars => TypeOK'
  <1> SUFFICES ASSUME TypeOK, [Next]_vars PROVE TypeOK'
    OBVIOUS
  <1> USE ConstantsAssumption DEF TypeOK, table, seen
  <1>1. CASE UNCHANGED vars
    BY <1>1 DEF vars
  <1>2. CASE Command
    <2>1. UNCHANGED <<count, age, ids, idAge, answer, grantAge>> /\ known' \subseteq Ips
      BY <1>2 DEF Command
    <2>2. granted' \in [Ips -> Nat] /\ served' \in [Ips -> SUBSET Ids]
      BY <1>2 DEF Command
    <2> QED
      BY <2>1, <2>2
  <1>3. CASE Tick
    BY <1>3 DEF Tick, Older
  <1>4. ASSUME NEW ip \in Ips, NEW id \in Ids, check_ip_blocker(ip, id) PROVE TypeOK'
    <2>1. CASE FirstRequest(ip, id)
      BY <2>1 DEF FirstRequest, Grant
    <2>2. CASE TooManyRequests(ip, id)
      BY <2>2 DEF TooManyRequests, Refuse
    <2>3. ASSUME Counted(ip)
          PROVE  count' \in [Ips -> 0..(RateLimit + 1)] /\ age' \in [Ips -> 0..(BlockDur + 1)]
      BY <2>3 DEF Counted, RateExceeded
    <2>4. CASE QuotaUsedUp(ip, id)
      <3>1. UNCHANGED <<known, ids, idAge>>
        BY <2>4 DEF QuotaUsedUp
      <3>2. CASE Grant(ip, id, FALSE)
        BY <2>3, <2>4, <3>1, <3>2 DEF QuotaUsedUp, Grant
      <3>3. CASE Refuse(ip)
        BY <2>3, <2>4, <3>1, <3>3 DEF QuotaUsedUp, Refuse
      <3> QED
        BY <2>4, <3>2, <3>3 DEF QuotaUsedUp
    <2>5. CASE NewDay(ip, id)
      BY <2>3, <2>5 DEF NewDay, Grant
    <2>6. CASE WithinQuota(ip, id)
      BY <2>3, <2>6 DEF WithinQuota, Grant
    <2> QED
      BY <1>4, <2>1, <2>2, <2>4, <2>5, <2>6 DEF check_ip_blocker
  <1> QED
    BY <1>1, <1>2, <1>3, <1>4 DEF Next

\* What a counted request does to the bound on bursts, granted or refused.
LEMMA CountedCovers ==
    ASSUME TypeOK, CountCovers, NEW ip \in Ips, NEW id \in Ids, NEW emptied \in BOOLEAN,
           Counted(ip), known' = known, Grant(ip, id, emptied) \/ Refuse(ip)
    PROVE  CountCovers'
  <1> USE ConstantsAssumption DEF TypeOK
  <1>1. /\ ip \in known
        /\ age' = [age EXCEPT ![ip] = 0]
        /\ count' = [count EXCEPT ![ip] = IF age[ip] > BlockDur THEN 1 ELSE @ + 1]
        /\ age[ip] > BlockDur \/ count[ip] <= RateLimit
    BY DEF Counted, RateExceeded
  <1>2. CASE Refuse(ip)
    <2>1. ASSUME NEW i \in Ips
          PROVE  /\ granted'[i] <= RateLimit + 2
                 /\ i \in known => /\ age'[i] <= grantAge'[i]
                                   /\ grantAge'[i] <= BlockDur => granted'[i] <= count'[i] + 1
                 /\ i \notin known => granted'[i] = 0 \/ grantAge'[i] > BlockDur
      BY <1>1, <1>2 DEF Refuse, CountCovers
    <2> QED
      BY <2>1 DEF CountCovers
  <1>3. CASE Grant(ip, id, emptied)
    <2>1. granted'[ip] = (IF grantAge[ip] > BlockDur THEN 1 ELSE granted[ip] + 1)
          /\ grantAge'[ip] = 0 /\ age'[ip] = 0
      BY <1>1, <1>3 DEF Grant
    <2>2. granted'[ip] <= count'[ip] + 1 /\ granted'[ip] <= RateLimit + 2
      BY <1>1, <2>1 DEF CountCovers
    <2>3. ASSUME NEW i \in Ips \ {ip}
          PROVE  granted'[i] = granted[i] /\ grantAge'[i] = grantAge[i] /\ age'[i] = age[i]
                 /\ count'[i] = count[i]
      BY <1>1, <1>3 DEF Grant
    <2> QED
      BY <1>1, <2>1, <2>2, <2>3 DEF CountCovers
  <1> QED
    BY <1>2, <1>3

\* Every step keeps CountCovers.
LEMMA CountStep == TypeOK /\ CountCovers /\ [Next]_vars => CountCovers'
  <1> SUFFICES ASSUME TypeOK, CountCovers, [Next]_vars PROVE CountCovers'
    OBVIOUS
  <1> USE ConstantsAssumption DEF table, seen
  <1>1. CASE UNCHANGED vars
    BY <1>1 DEF vars, CountCovers
  <1>2. CASE Command
    <2>1. PICK removed \in {{}} \cup {{i} : i \in Ips} :
             /\ known' = {i \in known : age[i] <= BlockDur \/ idAge[i] <= Day} \ removed
             /\ granted' = [i \in Ips |-> IF i \in removed \cap known THEN 0 ELSE granted[i]]
      BY <1>2 DEF Command
    <2>2. UNCHANGED <<count, age, grantAge>>
      BY <1>2 DEF Command
    <2>3. ASSUME NEW i \in Ips
          PROVE  /\ granted'[i] <= RateLimit + 2
                 /\ i \in known' => /\ age'[i] <= grantAge'[i]
                                    /\ grantAge'[i] <= BlockDur => granted'[i] <= count'[i] + 1
                 /\ i \notin known' => granted'[i] = 0 \/ grantAge'[i] > BlockDur
      BY <2>1, <2>2 DEF CountCovers, TypeOK
    <2> QED
      BY <2>3 DEF CountCovers
  <1>3. CASE Tick
    BY <1>3 DEF Tick, Older, CountCovers, TypeOK
  <1>4. ASSUME NEW ip \in Ips, NEW id \in Ids, check_ip_blocker(ip, id) PROVE CountCovers'
    <2>1. CASE FirstRequest(ip, id)
      <3>1. /\ ip \notin known /\ known' = known \cup {ip}
            /\ count' = [count EXCEPT ![ip] = 0] /\ age' = [age EXCEPT ![ip] = 0]
            /\ granted' = [granted EXCEPT ![ip] = IF grantAge[ip] > BlockDur THEN 1 ELSE @ + 1]
            /\ grantAge' = [grantAge EXCEPT ![ip] = 0]
        BY <2>1 DEF FirstRequest, Grant
      <3>2. granted'[ip] = 1
        BY <3>1 DEF CountCovers, TypeOK
      <3> QED
        BY <3>1, <3>2 DEF CountCovers, TypeOK
    <2>2. CASE TooManyRequests(ip, id)
      BY <2>2 DEF TooManyRequests, Refuse, CountCovers
    <2>3. CASE QuotaUsedUp(ip, id)
      BY <2>3, CountedCovers DEF QuotaUsedUp
    <2>4. CASE NewDay(ip, id)
      BY <2>4, CountedCovers DEF NewDay
    <2>5. CASE WithinQuota(ip, id)
      BY <2>5, CountedCovers DEF WithinQuota
    <2> QED
      BY <1>4, <2>1, <2>2, <2>3, <2>4, <2>5 DEF check_ip_blocker
  <1> QED
    BY <1>1, <1>2, <1>3, <1>4 DEF Next

\* Every step keeps IdsCover.
LEMMA IdsStep == TypeOK /\ IdsCover /\ [Next]_vars => IdsCover'
  <1> SUFFICES ASSUME TypeOK, IdsCover, [Next]_vars PROVE IdsCover'
    OBVIOUS
  <1> USE ConstantsAssumption DEF table, seen
  <1>1. CASE UNCHANGED vars
    BY <1>1 DEF vars, IdsCover
  <1>2. CASE Command
    <2>1. ids' = ids /\ served' = [i \in Ips |-> IF i \in known' THEN served[i] ELSE {}]
      BY <1>2 DEF Command
    <2> QED
      BY <2>1 DEF IdsCover
  <1>3. CASE Tick
    BY <1>3 DEF Tick, IdsCover
  <1>4. ASSUME NEW ip \in Ips, NEW id \in Ids, check_ip_blocker(ip, id) PROVE IdsCover'
    <2> DEFINE Covered(s, S) ==
          /\ IsFiniteSet(S)
          /\ Cardinality(S) <= IdLimit + 1
          /\ s = {} \/ \E x \in Ids : s \subseteq S \cup {x}
    <2>1. Covered(served'[ip], ids'[ip]) /\ known' = known \cup {ip}
      <3> USE DEF TypeOK
      <3>1. CASE FirstRequest(ip, id)
        <4>1. ids'[ip] = {} /\ served'[ip] = {id} /\ known' = known \cup {ip}
          BY <3>1 DEF FirstRequest, Grant
        <4> QED
          BY <4>1, FS_EmptySet
      <3>2. CASE TooManyRequests(ip, id)
        BY <3>2 DEF TooManyRequests, Refuse, IdsCover
      <3>3. CASE QuotaUsedUp(ip, id)
        BY <3>3 DEF QuotaUsedUp, Counted, Grant, Refuse, IdsCover
      <3>4. CASE NewDay(ip, id)
        <4>1. ids'[ip] \in SUBSET {id} /\ served'[ip] = {id} /\ known' = known \cup {ip}
          BY <3>4 DEF NewDay, Counted, Grant
        <4>2. CASE ids'[ip] = {}
          BY <4>1, <4>2, FS_EmptySet
        <4>3. CASE ids'[ip] = {id}
          <5>1. IsFiniteSet({id}) /\ Cardinality({id}) = 1
            BY FS_Singleton
          <5> QED
            BY <4>1, <4>3, <5>1
        <4> QED
          BY <4>1, <4>2, <4>3
      <3>5. CASE WithinQuota(ip, id)
        <4>1. /\ ids'[ip] = ids[ip] \cup {id}
              /\ served'[ip] = served[ip] \cup {id}
              /\ known' = known \cup {ip}
          BY <3>5 DEF WithinQuota, Counted, Grant
        <4>2. IsFiniteSet(ids[ip]) /\ Cardinality(ids[ip]) \in Nat
          BY FS_CardinalityType DEF IdsCover
        <4>3. Cardinality(ids[ip]) <= IdLimit
          BY <3>5, <4>2 DEF WithinQuota, IdsFull
        <4>4. IsFiniteSet(ids'[ip]) /\ Cardinality(ids'[ip]) <= IdLimit + 1
          <5>1. /\ IsFiniteSet(ids[ip] \cup {id})
                /\ Cardinality(ids[ip] \cup {id}) \in Nat
                /\ Cardinality(ids[ip] \cup {id}) <= Cardinality(ids[ip]) + 1
            BY <4>2, OneMore
          <5>2. Cardinality(ids[ip] \cup {id}) <= IdLimit + 1
            BY <4>2, <4>3, <5>1
          <5> QED
            BY <4>1, <5>1, <5>2
        <4>5. \E x \in Ids : served'[ip] \subseteq ids'[ip] \cup {x}
          BY <4>1 DEF IdsCover
        <4> QED
          BY <4>1, <4>4, <4>5
      <3> QED
        BY <1>4, <3>1, <3>2, <3>3, <3>4, <3>5 DEF check_ip_blocker
    <2>2. \A i \in Ips \ {ip} : served'[i] = served[i] /\ ids'[i] = ids[i]
      BY <1>4 DEF check_ip_blocker, FirstRequest, TooManyRequests, QuotaUsedUp, NewDay, WithinQuota,
                  Grant, Refuse, TypeOK
    <2> QED
      BY <2>1, <2>2 DEF IdsCover
  <1> QED
    BY <1>1, <1>2, <1>3, <1>4 DEF Next

\* The invariants hold in every reachable state.
THEOREM BlockerInvariant == Spec => [](TypeOK /\ CountCovers /\ IdsCover)
  <1>1. TypeOK /\ CountCovers /\ IdsCover /\ [Next]_vars => (TypeOK /\ CountCovers /\ IdsCover)'
    BY TypeStep, CountStep, IdsStep
  <1> QED
    BY <1>1, Initially, PTL DEF Spec

\* The table's counters and ages stay within their ranges.
THEOREM TypeCorrect == Spec => []TypeOK
  BY BlockerInvariant, PTL

\* At most RateLimit + 2 requests of an address are granted in a row.
THEOREM BurstsAreBounded == Spec => []BurstBounded
  <1>1. CountCovers => BurstBounded
    BY DEF CountCovers, BurstBounded
  <1> QED
    BY <1>1, BlockerInvariant, PTL

\* At most IdLimit + 2 ids of an address are granted between two emptyings.
THEOREM IdsAreBounded == Spec => []IdsBounded
  <1>1. IdsCover => IdsBounded
    <2> SUFFICES ASSUME IdsCover, NEW i \in Ips PROVE Cardinality(served[i]) <= IdLimit + 2
      BY DEF IdsBounded
    <2> USE ConstantsAssumption
    <2>1. IsFiniteSet(ids[i]) /\ Cardinality(ids[i]) \in Nat /\ Cardinality(ids[i]) <= IdLimit + 1
      BY FS_CardinalityType DEF IdsCover
    <2>2. CASE served[i] = {}
      BY <2>2, FS_EmptySet
    <2>3. ASSUME NEW x \in Ids, served[i] \subseteq ids[i] \cup {x}
          PROVE  Cardinality(served[i]) <= IdLimit + 2
      <3>1. /\ IsFiniteSet(ids[i] \cup {x})
            /\ Cardinality(ids[i] \cup {x}) \in Nat
            /\ Cardinality(ids[i] \cup {x}) <= IdLimit + 2
        <4>1. /\ IsFiniteSet(ids[i] \cup {x})
              /\ Cardinality(ids[i] \cup {x}) \in Nat
              /\ Cardinality(ids[i] \cup {x}) <= Cardinality(ids[i]) + 1
          BY <2>1, OneMore
        <4> QED
          BY <2>1, <4>1
      <3>2. IsFiniteSet(served[i]) /\ Cardinality(served[i]) <= Cardinality(ids[i] \cup {x})
        BY <2>3, <3>1, FS_Subset
      <3>3. Cardinality(served[i]) \in Nat
        BY <3>2, FS_CardinalityType
      <3> QED
        BY <3>1, <3>2, <3>3
    <2> QED
      BY <2>2, <2>3 DEF IdsCover
  <1> QED
    BY <1>1, BlockerInvariant, PTL
=============================================================================
