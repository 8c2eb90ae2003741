------------------------- MODULE RateLimiterProofs -------------------------
(***************************************************************************)
(* Theorems about RateLimiter, for every set of processes and clients,     *)
(* every limit and every window.                                           *)
(***************************************************************************)
EXTENDS RateLimiter, FiniteSetTheorems, TLAPS

(***************************************************************************)
(* One list of request times.  s are the times of the grants, R the        *)
(* positions still remembered, t the clock.                                *)
(***************************************************************************)
\* Time never runs backwards, so what is remembered is the end of the list,
\* and what is forgotten is at least a window old.
Kept(s, R, t) ==
    /\ s \in Seq(Nat) /\ R \subseteq 1..Len(s)
    /\ \A i, j \in 1..Len(s) : i <= j => s[i] <= s[j]
    /\ \A i \in 1..Len(s) : s[i] <= t
    /\ \A i \in R, j \in 1..Len(s) : i <= j => j \in R
    /\ \A i \in 1..Len(s) : i \notin R => s[i] <= t - Window
    /\ Bounded(s, Limit)

LEMMA KeptAtStart == ASSUME NEW t \in Nat PROVE Kept(<<>>, {}, t)
BY DEF Kept, Bounded

LEMMA KeptInTime ==
    ASSUME NEW t \in Nat, NEW s, NEW R, Kept(s, R, t)
    PROVE  Kept(s, R, t + 1)
BY WindowAssumption DEF Kept

\* Forgetting what is a window old forgets a beginning of the list.
LEMMA KeptByCleanup ==
    ASSUME NEW t \in Nat, NEW s, NEW R, Kept(s, R, t)
    PROVE  Kept(s, {i \in R : s[i] > t - Window}, t)
<1>. DEFINE Q == {i \in R : s[i] > t - Window}
<1>. USE DEF Kept
<1>1. s \in Seq(Nat) /\ Q \subseteq 1..Len(s)
  OBVIOUS
<1>2. ASSUME NEW i \in Q, NEW j \in 1..Len(s), i <= j
      PROVE  j \in Q
  <2>1. i \in 1..Len(s) /\ i \in R /\ s[i] > t - Window
    OBVIOUS
  <2>2. j \in R /\ s[i] <= s[j]
    BY <2>1, <1>2
  <2>3. s[i] \in Nat /\ s[j] \in Nat
    BY <2>1
  <2>. QED
    BY <2>1, <2>2, <2>3, WindowAssumption
<1>3. ASSUME NEW i \in 1..Len(s), i \notin Q
      PROVE  s[i] <= t - Window
  <2>1. s[i] \in Nat
    OBVIOUS
  <2>. QED
    BY <2>1, <1>3, WindowAssumption
<1>. QED
  BY <1>1, <1>2, <1>3

\* A grant below the limit: Limit positions back, the list is forgotten.
LEMMA KeptByGrant ==
    ASSUME NEW t \in Nat, NEW s, NEW R, Kept(s, R, t), Cardinality(R) < Limit
    PROVE  Kept(Append(s, t), R \cup {Len(s) + 1}, t)
<1>. DEFINE n == Len(s)
            u == Append(s, t)
            Q == R \cup {n + 1}
<1>1. n \in Nat /\ s \in Seq(Nat) /\ R \subseteq 1..n
  BY DEF Kept
<1>0. /\ \A i, j \in 1..n : i <= j => s[i] <= s[j]
      /\ \A i \in 1..n : s[i] <= t
      /\ \A i \in R, j \in 1..n : i <= j => j \in R
      /\ \A i \in 1..n : i \notin R => s[i] <= t - Window
      /\ \A i \in 1..n : i + Limit \in 1..n => s[i + Limit] >= s[i] + Window
  BY DEF Kept, Bounded
<1>2. /\ u \in Seq(Nat) /\ Len(u) = n + 1
      /\ \A i \in 1..n : u[i] = s[i] /\ s[i] \in Nat
      /\ u[n + 1] = t
  <2>1. u \in Seq(Nat) /\ Len(u) = n + 1 /\ u[n + 1] = t
    BY <1>1
  <2>2. \A i \in 1..n : s[i] \in Nat
    BY <1>1
  <2>3. ASSUME NEW i \in 1..n PROVE u[i] = s[i]
    BY <1>1
  <2>. QED
    BY <2>1, <2>2, <2>3
<1>. HIDE DEF n, u
<1>3. Q \subseteq 1..Len(u)
  BY <1>1, <1>2
<1>4. \A i \in 1..Len(u) : u[i] <= t
  BY <1>1, <1>2, <1>0
<1>5. \A i, j \in 1..Len(u) : i <= j => u[i] <= u[j]
  <2>. SUFFICES ASSUME NEW i \in 1..Len(u), NEW j \in 1..Len(u), i <= j
                PROVE  u[i] <= u[j]
    OBVIOUS
  <2>1. CASE j = n + 1
    BY <2>1, <1>2, <1>4
  <2>2. CASE j # n + 1
    <3>1. i \in 1..n /\ j \in 1..n
      BY <2>2, <1>1, <1>2
    <3>. QED
      BY <3>1, <1>2, <1>0
  <2>. QED
    BY <2>1, <2>2
<1>6. \A i \in Q, j \in 1..Len(u) : i <= j => j \in Q
  <2>. SUFFICES ASSUME NEW i \in Q, NEW j \in 1..Len(u), i <= j
                PROVE  j \in Q
    OBVIOUS
  <2>1. CASE j = n + 1
    BY <2>1
  <2>2. CASE j # n + 1
    <3>1. i \in 1..n /\ j \in 1..n
      BY <2>2, <1>1, <1>2
    <3>2. i \in R
      BY <3>1, <1>1
    <3>. QED
      BY <3>1, <3>2, <1>0
  <2>. QED
    BY <2>1, <2>2
<1>7. \A i \in 1..Len(u) : i \notin Q => u[i] <= t - Window
  <2>. SUFFICES ASSUME NEW i \in 1..Len(u), i \notin Q
                PROVE  u[i] <= t - Window
    OBVIOUS
  <2>1. i \in 1..n /\ i \notin R
    BY <1>1, <1>2
  <2>. QED
    BY <2>1, <1>2, <1>0
<1>8. Bounded(u, Limit)
  <2>. SUFFICES ASSUME NEW i \in 1..Len(u), i + Limit \in 1..Len(u)
                PROVE  u[i + Limit] >= u[i] + Window
    BY <1>2 DEF Bounded
  <2>1. i \in 1..n
    BY <1>1, <1>2, LimitAssumption
  <2>2. CASE i + Limit = n + 1
    <3>1. i \notin R
      <4>. SUFFICES ASSUME i \in R PROVE FALSE
        OBVIOUS
      <4>1. i..n \subseteq R
        BY <1>1, <2>1, <1>0
      <4>2. IsFiniteSet(R)
        <5>1. IsFiniteSet(1..n)
          BY <1>1, FS_Interval
        <5>. QED
          BY <5>1, <1>1, FS_Subset
      <4>3. Cardinality(i..n) <= Cardinality(R)
        BY <4>1, <4>2, FS_Subset
      <4>4. Cardinality(i..n) = n - i + 1
        BY <1>1, <2>1, FS_Interval
      <4>5. Cardinality(R) \in Nat
        BY <4>2, FS_CardinalityType
      <4>. QED
        BY <4>3, <4>4, <4>5, <2>2, <2>1, <1>1, LimitAssumption
    <3>2. s[i] <= t - Window
      BY <3>1, <2>1, <1>0
    <3>. QED
      BY <3>2, <2>1, <2>2, <1>2, WindowAssumption
  <2>3. CASE i + Limit # n + 1
    <3>1. i + Limit \in 1..n
      BY <2>3, <1>1, <1>2, LimitAssumption
    <3>2. s[i + Limit] >= s[i] + Window
      BY <3>1, <2>1, <1>1, <1>0
    <3>. QED
      BY <3>1, <3>2, <2>1, <1>2
  <2>. QED
    BY <2>2, <2>3
<1>. QED
  BY <1>2, <1>3, <1>4, <1>5, <1>6, <1>7, <1>8 DEF Kept, n, u

(***************************************************************************)
(* The type invariant.                                                     *)
(***************************************************************************)
LEMMA KeyOfClient == ASSUME NEW c \in Clients PROVE get_key(c) \in Keys
BY DEF Keys

LEMMA CountType ==
    ASSUME TypeOK, NEW p \in Procs, check[p].busy
    PROVE  /\ check[p].key \in Keys /\ check[p].since \in Nat
           /\ IsFiniteSet(requests[p][check[p].key])
           /\ Count(p) \in Nat
<1>. DEFINE k == check[p].key
<1>1. k \in Keys /\ check[p].since \in Nat
  BY DEF TypeOK
<1>2. Len(stamp[p][k]) \in Nat /\ requests[p][k] \subseteq 1..Len(stamp[p][k])
  BY <1>1 DEF TypeOK
<1>3. IsFiniteSet(1..Len(stamp[p][k]))
  BY <1>2, FS_Interval
<1>4. IsFiniteSet(requests[p][k])
  BY <1>2, <1>3, FS_Subset
<1>. QED
  BY <1>1, <1>4, FS_CardinalityType DEF Count

LEMMA TypeInit == Init => TypeOK
BY LimitAssumption DEF Init, TypeOK, Idle, Unasked

LEMMA TypeNext == TypeOK /\ [Next]_vars => TypeOK'
<1>. SUFFICES ASSUME TypeOK, [Next]_vars PROVE TypeOK'
  OBVIOUS
<1>. USE DEF TypeOK, Idle, Unasked
<1>1. ASSUME NEW p \in Procs, NEW c \in Clients, Bypass(p, c)
      PROVE  TypeOK'
  BY <1>1, KeyOfClient, LimitAssumption DEF Bypass
<1>2. ASSUME NEW p \in Procs, NEW c \in Clients, Cleanup(p, c)
      PROVE  TypeOK'
  BY <1>2, KeyOfClient DEF Cleanup
<1>3. ASSUME NEW p \in Procs, Grant(p)
      PROVE  TypeOK'
  <2>. DEFINE k == check[p].key
  <2>1. k \in Keys /\ Count(p) \in Nat /\ Count(p) < Limit
    BY <1>3, CountType DEF Grant
  <2>2. [status |-> 200, remaining |-> Limit - Count(p) - 1]
            \in [status : {200, 429}, remaining : 0..Limit]
    BY <2>1, LimitAssumption
  <2>3. answer' \in [Procs -> [Keys -> [status : {200, 429}, remaining : 0..Limit]]]
    BY <1>3, <2>1, <2>2 DEF Grant
  <2>4. stamp[p][k] \in Seq(Nat) /\ now \in Nat /\ log[k] \in Seq(Nat)
    BY <2>1
  <2>5. Append(stamp[p][k], now) \in Seq(Nat) /\ Append(log[k], now) \in Seq(Nat)
        /\ Len(Append(stamp[p][k], now)) = Len(stamp[p][k]) + 1
    BY <2>4
  <2>6. stamp' \in [Procs -> [Keys -> Seq(Nat)]] /\ log' \in [Keys -> Seq(Nat)]
    BY <1>3, <2>1, <2>5 DEF Grant
  <2>7. requests' \in [Procs -> [Keys -> SUBSET Nat]]
    BY <1>3, <2>1, <2>4 DEF Grant
  <2>8. ASSUME NEW q \in Procs, NEW l \in Keys
        PROVE  requests'[q][l] \subseteq 1..Len(stamp'[q][l])
    <3>1. CASE q = p /\ l = k
      <4>1. /\ requests'[q][l] = requests[p][k] \cup {Len(stamp[p][k]) + 1}
            /\ Len(stamp'[q][l]) = Len(stamp[p][k]) + 1
        BY <3>1, <1>3, <2>1, <2>5 DEF Grant
      <4>. QED
        BY <4>1, <2>1, <2>4
    <3>2. CASE ~(q = p /\ l = k)
      <4>1. requests'[q][l] = requests[q][l] /\ stamp'[q][l] = stamp[q][l]
        BY <3>2, <1>3, <2>1 DEF Grant
      <4>. QED
        BY <4>1
    <3>. QED
      BY <3>1, <3>2
  <2>9. check' \in [Procs -> [busy : BOOLEAN, key : Keys \cup {<<>>}, since : Nat]]
        /\ \A q \in Procs : check'[q].busy => check'[q].key \in Keys
    BY <1>3 DEF Grant
  <2>. QED
    BY <1>3, <2>3, <2>6, <2>7, <2>8, <2>9 DEF Grant
<1>4. ASSUME NEW p \in Procs, Reject(p)
      PROVE  TypeOK'
  <2>1. check[p].key \in Keys /\ 0 \in 0..Limit
    BY <1>4, CountType, LimitAssumption DEF Reject
  <2>2. answer' \in [Procs -> [Keys -> [status : {200, 429}, remaining : 0..Limit]]]
    BY <1>4, <2>1 DEF Reject
  <2>3. check' \in [Procs -> [busy : BOOLEAN, key : Keys \cup {<<>>}, since : Nat]]
        /\ \A q \in Procs : check'[q].busy => check'[q].key \in Keys
    BY <1>4 DEF Reject
  <2>. QED
    BY <1>4, <2>2, <2>3 DEF Reject
<1>5. ASSUME NEW p \in Procs, Restart(p)
      PROVE  TypeOK'
  BY <1>5, LimitAssumption DEF Restart
<1>6. CASE Tick
  BY <1>6 DEF Tick
<1>7. CASE UNCHANGED vars
  BY <1>7 DEF vars
<1>. QED
  BY <1>1, <1>2, <1>3, <1>4, <1>5, <1>6, <1>7 DEF Next

\* The type invariant.
THEOREM TypeCorrect == Spec => []TypeOK
<1>. QED
  BY TypeInit, TypeNext, PTL DEF Spec

(***************************************************************************)
(* What a process remembers, and the windows it grants.                    *)
(***************************************************************************)
KeptInv == \A p \in Procs, k \in Keys : Kept(stamp[p][k], requests[p][k], now)

\* While a key is checked, what is remembered of it lies within the window
\* before the first reading of the clock.
CheckInv ==
    \A p \in Procs : check[p].busy =>
        LET k == check[p].key
        IN  \A i \in requests[p][k] : stamp[p][k][i] > check[p].since - Window

LimiterInv == TypeOK /\ KeptInv /\ CheckInv

LEMMA LimiterInit == Init => LimiterInv
<1>. SUFFICES ASSUME Init PROVE LimiterInv
  OBVIOUS
<1>1. KeptInv
  BY KeptAtStart DEF Init, KeptInv
<1>2. CheckInv
  BY DEF Init, CheckInv, Idle
<1>. QED
  BY <1>1, <1>2, TypeInit DEF LimiterInv

\* A step that leaves the lists of (p, k) and the clock alone keeps them.
LEMMA KeptNext == LimiterInv /\ [Next]_vars => KeptInv'
<1>. SUFFICES ASSUME LimiterInv, [Next]_vars,
                     NEW q \in Procs, NEW l \in Keys
              PROVE  Kept(stamp'[q][l], requests'[q][l], now')
  BY DEF KeptInv
<1>. USE DEF LimiterInv
<1>0. /\ Kept(stamp[q][l], requests[q][l], now) /\ now \in Nat
      /\ stamp \in [Procs -> [Keys -> Seq(Nat)]]
      /\ requests \in [Procs -> [Keys -> SUBSET Nat]]
  BY DEF KeptInv, TypeOK
<1>1. ASSUME NEW p \in Procs, NEW c \in Clients, Bypass(p, c)
      PROVE  Kept(stamp'[q][l], requests'[q][l], now')
  BY <1>0, <1>1 DEF Bypass
<1>2. ASSUME NEW p \in Procs, NEW c \in Clients, Cleanup(p, c)
      PROVE  Kept(stamp'[q][l], requests'[q][l], now')
  <2>1. CASE q = p /\ l = get_key(c)
    <3>1. requests'[q][l] = {i \in requests[q][l] : stamp[q][l][i] > now - Window}
      BY <2>1, <1>2, <1>0 DEF Cleanup
    <3>2. stamp' = stamp /\ now' = now
      BY <1>2 DEF Cleanup
    <3>3. Kept(stamp[q][l], {i \in requests[q][l] : stamp[q][l][i] > now - Window}, now)
      BY <1>0, KeptByCleanup
    <3>. QED
      BY <3>1, <3>2, <3>3
  <2>2. CASE ~(q = p /\ l = get_key(c))
    <3>1. requests'[q][l] = requests[q][l] /\ stamp' = stamp /\ now' = now
      BY <2>2, <1>2, <1>0 DEF Cleanup
    <3>. QED
      BY <3>1, <1>0
  <2>. QED
    BY <2>1, <2>2
<1>3. ASSUME NEW p \in Procs, Grant(p)
      PROVE  Kept(stamp'[q][l], requests'[q][l], now')
  <2>. DEFINE k == check[p].key
  <2>1. k \in Keys /\ Cardinality(requests[p][k]) < Limit /\ now' = now
    BY <1>3, CountType DEF Grant, Count
  <2>2. CASE q = p /\ l = k
    <3>1. /\ stamp'[q][l] = Append(stamp[q][l], now)
          /\ requests'[q][l] = requests[q][l] \cup {Len(stamp[q][l]) + 1}
      BY <2>1, <2>2, <1>0, <1>3 DEF Grant
    <3>2. Cardinality(requests[q][l]) < Limit
      BY <2>1, <2>2
    <3>3. Kept(Append(stamp[q][l], now), requests[q][l] \cup {Len(stamp[q][l]) + 1}, now)
      BY <1>0, <3>2, KeptByGrant
    <3>. QED
      BY <3>1, <3>3, <2>1
  <2>3. CASE ~(q = p /\ l = k)
    <3>1. stamp'[q][l] = stamp[q][l] /\ requests'[q][l] = requests[q][l]
      BY <2>1, <2>3, <1>0, <1>3 DEF Grant
    <3>. QED
      BY <3>1, <2>1, <1>0
  <2>. QED
    BY <2>2, <2>3
<1>4. ASSUME NEW p \in Procs, Reject(p)
      PROVE  Kept(stamp'[q][l], requests'[q][l], now')
  BY <1>0, <1>4 DEF Reject
<1>5. ASSUME NEW p \in Procs, Restart(p)
      PROVE  Kept(stamp'[q][l], requests'[q][l], now')
  <2>1. CASE q = p
    <3>1. stamp'[q][l] = <<>> /\ requests'[q][l] = {} /\ now' = now
      BY <2>1, <1>5, <1>0 DEF Restart
    <3>. QED
      BY <3>1, <1>0, KeptAtStart
  <2>2. CASE q # p
    <3>1. stamp'[q] = stamp[q] /\ requests'[q] = requests[q] /\ now' = now
      BY <2>2, <1>5, <1>0 DEF Restart
    <3>. QED
      BY <3>1, <1>0
  <2>. QED
    BY <2>1, <2>2
<1>6. CASE Tick
  BY <1>0, <1>6, KeptInTime DEF Tick
<1>7. CASE UNCHANGED vars
  BY <1>0, <1>7 DEF vars
<1>. QED
  BY <1>1, <1>2, <1>3, <1>4, <1>5, <1>6, <1>7 DEF Next

LEMMA CheckNext == LimiterInv /\ [Next]_vars => CheckInv'
<1>. SUFFICES ASSUME LimiterInv, [Next]_vars, NEW q \in Procs, check'[q].busy,
                     NEW i \in requests'[q][check'[q].key]
              PROVE  stamp'[q][check'[q].key][i] > check'[q].since - Window
  BY DEF CheckInv
<1>. USE DEF LimiterInv
<1>0. /\ check \in [Procs -> [busy : BOOLEAN, key : Keys \cup {<<>>}, since : Nat]]
      /\ stamp \in [Procs -> [Keys -> Seq(Nat)]]
      /\ requests \in [Procs -> [Keys -> SUBSET Nat]]
      /\ check[q].busy => check[q].key \in Keys
  BY DEF TypeOK
<1>1. ASSUME NEW p \in Procs, NEW c \in Clients, Bypass(p, c)
      PROVE  stamp'[q][check'[q].key][i] > check'[q].since - Window
  BY <1>1 DEF Bypass, CheckInv
<1>2. ASSUME NEW p \in Procs, NEW c \in Clients, Cleanup(p, c)
      PROVE  stamp'[q][check'[q].key][i] > check'[q].since - Window
  <2>1. CASE q = p
    <3>1. /\ check'[q].key = get_key(c) /\ check'[q].since = now /\ stamp' = stamp
          /\ requests'[q][get_key(c)]
                = {j \in requests[q][get_key(c)] : stamp[q][get_key(c)][j] > now - Window}
      BY <2>1, <1>0, <1>2, KeyOfClient DEF Cleanup
    <3>. QED
      BY <3>1
  <2>2. CASE q # p
    <3>1. check'[q] = check[q] /\ requests'[q] = requests[q] /\ stamp' = stamp
      BY <2>2, <1>0, <1>2 DEF Cleanup
    <3>. QED
      BY <3>1 DEF CheckInv
  <2>. QED
    BY <2>1, <2>2
<1>3. ASSUME NEW p \in Procs, Grant(p) \/ Reject(p) \/ Restart(p)
      PROVE  stamp'[q][check'[q].key][i] > check'[q].since - Window
  <2>1. q # p
    BY <1>0, <1>3 DEF Grant, Reject, Restart, Idle
  <2>2. check'[q] = check[q] /\ requests'[q] = requests[q] /\ stamp'[q] = stamp[q]
    BY <2>1, <1>0, <1>3 DEF Grant, Reject, Restart
  <2>. QED
    BY <2>2 DEF CheckInv
<1>4. CASE Tick
  BY <1>4 DEF Tick, CheckInv
<1>5. CASE UNCHANGED vars
  BY <1>5 DEF vars, CheckInv
<1>. QED
  BY <1>1, <1>2, <1>3, <1>4, <1>5 DEF Next

LEMMA LimiterCorrect == Spec => []LimiterInv
<1>1. LimiterInv /\ [Next]_vars => LimiterInv'
  BY TypeNext, KeptNext, CheckNext DEF LimiterInv
<1>. QED
  BY LimiterInit, <1>1, PTL DEF Spec

\* No process grants a key more than the limit in any window, although the
\* request is stamped later than the ones that count against it were counted.
THEOREM WindowCorrect == Spec => []WindowBound
<1>1. LimiterInv => WindowBound
  BY DEF LimiterInv, KeptInv, Kept, WindowBound
<1>. QED
  BY <1>1, LimiterCorrect, PTL

\* A check that ends without a grant had found the limit used up within the
\* window before it.
THEOREM RefusalsCorrect == Spec => RefusedOnlyWhenFull
<1>. DEFINE Full(p) ==
        LET k == check[p].key
        IN  Cardinality({i \in DOMAIN stamp[p][k] :
                stamp[p][k][i] > check[p].since - Window}) >= Limit
<1>1. ASSUME LimiterInv, [Next]_vars, NEW p \in Procs,
             check[p].busy, ~check'[p].busy, restarts' = restarts, UNCHANGED stamp
      PROVE  Full(p)
  <2>. DEFINE k == check[p].key
              R == requests[p][k]
              W == {i \in DOMAIN stamp[p][k] : stamp[p][k][i] > check[p].since - Window}
  <2>0. /\ check \in [Procs -> [busy : BOOLEAN, key : Keys \cup {<<>>}, since : Nat]]
        /\ stamp \in [Procs -> [Keys -> Seq(Nat)]] /\ restarts \in Nat
        /\ k \in Keys /\ Count(p) \in Nat
    BY <1>1, CountType DEF LimiterInv, TypeOK
  <2>1. Reject(p)
    <3>1. ASSUME NEW q \in Procs, NEW c \in Clients, Bypass(q, c)
          PROVE  FALSE
      BY <3>1, <1>1 DEF Bypass
    <3>2. ASSUME NEW q \in Procs, NEW c \in Clients, Cleanup(q, c)
          PROVE  FALSE
      BY <3>2, <1>1, <2>0 DEF Cleanup
    <3>3. ASSUME NEW q \in Procs, Grant(q)
          PROVE  FALSE
      <4>1. q = p
        BY <3>3, <1>1, <2>0 DEF Grant
      <4>2. stamp'[p][k] = Append(stamp[p][k], now) /\ stamp[p][k] \in Seq(Nat)
        BY <3>3, <4>1, <2>0 DEF Grant
      <4>3. Len(Append(stamp[p][k], now)) = Len(stamp[p][k]) + 1 /\ Len(stamp[p][k]) \in Nat
        BY <4>2
      <4>. QED
        BY <4>2, <4>3, <1>1
    <3>4. ASSUME NEW q \in Procs, Restart(q)
          PROVE  FALSE
      BY <3>4, <1>1, <2>0 DEF Restart
    <3>5. ASSUME NEW q \in Procs, Reject(q)
          PROVE  Reject(p)
      <4>1. q = p
        BY <3>5, <1>1, <2>0 DEF Reject
      <4>. QED
        BY <3>5, <4>1
    <3>6. ~Tick /\ ~UNCHANGED vars
      BY <1>1 DEF Tick, vars
    <3>. QED
      BY <1>1, <3>1, <3>2, <3>3, <3>4, <3>5, <3>6 DEF Next
  <2>2. R \subseteq W /\ IsFiniteSet(W)
    <3>1. stamp[p][k] \in Seq(Nat) /\ R \subseteq 1..Len(stamp[p][k])
      BY <2>0, <1>1 DEF LimiterInv, TypeOK
    <3>2. IsFiniteSet(1..Len(stamp[p][k]))
      <4>1. Len(stamp[p][k]) \in Int
        BY <3>1
      <4>. QED
        BY <4>1, FS_Interval
    <3>3. R \subseteq W
      BY <3>1, <1>1 DEF LimiterInv, CheckInv
    <3>4. W \in SUBSET (1..Len(stamp[p][k]))
      BY <3>1
    <3>. QED
      BY <3>2, <3>3, <3>4, FS_Subset
  <2>3. Cardinality(R) <= Cardinality(W)
    BY <2>2, FS_Subset
  <2>4. Cardinality(W) \in Nat
    BY <2>2, FS_CardinalityType
  <2>5. Cardinality(R) >= Limit /\ Cardinality(R) \in Nat
    BY <2>0, <2>1 DEF Reject, Count
  <2>. QED
    BY <2>3, <2>4, <2>5, LimitAssumption
<1>2. LimiterInv /\ [Next]_vars =>
        [\A p \in Procs :
            check[p].busy /\ ~check'[p].busy /\ restarts' = restarts /\ UNCHANGED stamp
                => Full(p)]_vars
  BY <1>1
<1>. QED
  BY <1>2, LimiterCorrect, PTL DEF Spec, RefusedOnlyWhenFull

(***************************************************************************)
(* What a key gets from all processes together.  Every limiter there has   *)
(* been, of a process that runs or of one that was started anew since, has *)
(* a seat for each request it may grant in a window; a limiter's requests  *)
(* take its seats in turn.                                                 *)
(***************************************************************************)
Limiters == ({"running"} \X Procs) \cup ({"gone"} \X (1..restarts))
Seats == Limiters \X (0..(Limit - 1))

\* Two requests that take the same seat lie a window apart.  s are the times of
\* all requests of a key, times those of each process since it started.
SeatsTaken(s, times, seats, seat) ==
    /\ \A i \in 1..Len(s) : seat[i] \in seats
    /\ \A i, j \in 1..Len(s) : i < j /\ seat[i] = seat[j] => s[j] >= s[i] + Window
    /\ \A i \in 1..Len(s), p \in Procs :
            seat[i][1] = <<"running", p>> =>
                \E m \in 1..Len(times[p]) : s[i] = times[p][m] /\ seat[i][2] = m % Limit

Ordered(s, t) ==
    /\ \A i, j \in 1..Len(s) : i <= j => s[i] <= s[j]
    /\ \A i \in 1..Len(s) : s[i] <= t

Times(k) == [p \in Procs |-> stamp[p][k]]

SeatedInv ==
    \A k \in Keys : Ordered(log[k], now) /\ \E seat : SeatsTaken(log[k], Times(k), Seats, seat)

\* Who comes to the same seat again has gone once round.
LEMMA Rounds ==
    ASSUME NEW m \in Nat, NEW n \in Nat, m < n, m % Limit = n % Limit
    PROVE  n >= m + Limit
<1>1. PICK q, r, x : q = m \div Limit /\ r = n \div Limit /\ x = m % Limit
  OBVIOUS
<1>2. q \in Int /\ r \in Int /\ x \in Int /\ m = Limit * q + x /\ n = Limit * r + x
  <2>1. m = Limit * (m \div Limit) + (m % Limit) /\ m \div Limit \in Int /\ m % Limit \in Int
    BY LimitAssumption
  <2>2. n = Limit * (n \div Limit) + (n % Limit) /\ n \div Limit \in Int
    BY LimitAssumption
  <2>. QED
    BY <1>1, <2>1, <2>2
<1>3. q < r
  <2>. SUFFICES ASSUME r <= q PROVE FALSE
    BY <1>2
  <2>1. PICK d \in Nat : q = r + d
    <3>1. q - r \in Nat /\ q = r + (q - r)
      BY <1>2
    <3>. QED
      BY <3>1
  <2>2. Limit * q = Limit * r + Limit * d /\ Limit * d >= 0
    BY <1>2, <2>1, LimitAssumption
  <2>3. Limit * q \in Int /\ Limit * r \in Int /\ Limit * d \in Int
    BY <1>2, <2>1, LimitAssumption
  <2>. QED
    BY <1>2, <2>2, <2>3
<1>4. PICK d \in Nat : r = q + 1 + d
  <2>1. r - q - 1 \in Nat /\ r = q + 1 + (r - q - 1)
    BY <1>2, <1>3
  <2>. QED
    BY <2>1
<1>5. Limit * r = Limit * q + Limit + Limit * d /\ Limit * d >= 0
  BY <1>2, <1>4, LimitAssumption
<1>6. Limit * q \in Int /\ Limit * r \in Int /\ Limit * d \in Int
  BY <1>2, <1>4, LimitAssumption
<1>. QED
  BY <1>2, <1>5, <1>6, LimitAssumption

\* One seat each: more requests than seats cannot fall into one window.
LEMMA OneSeatEach ==
    ASSUME NEW s \in Seq(Nat), NEW T, IsFiniteSet(T), NEW size \in Nat, Cardinality(T) = size,
           NEW seat, \A i \in 1..Len(s) : seat[i] \in T,
           \A i, j \in 1..Len(s) : i < j /\ seat[i] = seat[j] => s[j] >= s[i] + Window,
           \A i, j \in 1..Len(s) : i <= j => s[i] <= s[j]
    PROVE  Bounded(s, size)
<1>1. Len(s) \in Nat /\ DOMAIN s = 1..Len(s) /\ \A i \in 1..Len(s) : s[i] \in Nat
  OBVIOUS
<1>. SUFFICES ASSUME NEW i \in 1..Len(s), i + size \in 1..Len(s), ~(s[i + size] >= s[i] + Window)
              PROVE  FALSE
  BY <1>1 DEF Bounded
<1>2. PICK last : last = i + size
  OBVIOUS
<1>3. i \in Int /\ last \in Int /\ i <= last /\ last \in 1..Len(s) /\ size = last - i
  BY <1>1, <1>2
<1>4. i..last \subseteq 1..Len(s) /\ IsFiniteSet(i..last)
  BY <1>1, <1>3, FS_Interval
<1>5. Cardinality(T) < Cardinality(i..last)
  <2>1. Cardinality(i..last) = IF i > last THEN 0 ELSE last - i + 1
    BY <1>3, FS_Interval
  <2>. QED
    BY <1>3, <2>1
<1>6. PICK f : f = [j \in i..last |-> seat[j]]
  OBVIOUS
<1>7. f \in [i..last -> T]
  BY <1>4, <1>6
<1>8. PICK x \in i..last, y \in i..last : x # y /\ f[x] = f[y]
  BY <1>4, <1>5, <1>7, FS_PigeonHole
<1>9. ASSUME NEW a \in i..last, NEW b \in i..last, a < b, f[a] = f[b] PROVE FALSE
  <2>1. a \in 1..Len(s) /\ b \in 1..Len(s) /\ i <= a /\ b <= last /\ seat[a] = seat[b]
    BY <1>3, <1>4, <1>6, <1>9
  <2>2. s[b] >= s[a] + Window
    BY <1>9, <2>1
  <2>3. s[i] <= s[a] /\ s[b] <= s[last]
    BY <1>3, <2>1
  <2>4. s[i] \in Nat /\ s[a] \in Nat /\ s[b] \in Nat /\ s[last] \in Nat
    BY <1>1, <1>3, <2>1
  <2>5. ~(s[last] >= s[i] + Window)
    BY <1>2
  <2>6. PICK si, sa, sb, sl : si = s[i] /\ sa = s[a] /\ sb = s[b] /\ sl = s[last]
    OBVIOUS
  <2>7. si \in Int /\ sa \in Int /\ sb \in Int /\ sl \in Int /\ Window \in Int
    <3>1. si \in Nat /\ sa \in Nat /\ sb \in Nat /\ sl \in Nat
      BY <2>4, <2>6
    <3>. QED
      BY <3>1, WindowAssumption
  <2>8. sb >= sa + Window /\ si <= sa /\ sb <= sl /\ ~(sl >= si + Window)
    BY <2>2, <2>3, <2>5, <2>6
  <2>. QED
    BY <2>7, <2>8
<1>. QED
  <2>1. x \in Int /\ y \in Int
    BY <1>3
  <2>2. x < y \/ y < x
    BY <1>8, <2>1
  <2>. QED
    BY <1>8, <1>9, <2>2

LEMMA SeatedBound ==
    ASSUME TypeOK, NEW k \in Keys, Ordered(log[k], now),
           NEW seat, SeatsTaken(log[k], Times(k), Seats, seat)
    PROVE  Bounded(log[k], Limit * (Cardinality(Procs) + restarts))
<1>1. log[k] \in Seq(Nat) /\ restarts \in Nat
  BY DEF TypeOK
<1>2. IsFiniteSet(Seats)
      /\ Cardinality(Seats) = Limit * (Cardinality(Procs) + restarts)
      /\ Limit * (Cardinality(Procs) + restarts) \in Nat
  <2>1. IsFiniteSet({"running"} \X Procs) /\ Cardinality({"running"} \X Procs) = Cardinality(Procs)
        /\ Cardinality(Procs) \in Nat
    <3>1. IsFiniteSet({"running"}) /\ Cardinality({"running"}) = 1
      BY FS_Singleton
    <3>2. IsFiniteSet({"running"} \X Procs)
          /\ Cardinality({"running"} \X Procs) = Cardinality({"running"}) * Cardinality(Procs)
      BY <3>1, FS_Product, ProcsAssumption
    <3>3. Cardinality(Procs) \in Nat
      BY FS_CardinalityType, ProcsAssumption
    <3>. QED
      BY <3>1, <3>2, <3>3
  <2>2. IsFiniteSet({"gone"} \X (1..restarts)) /\ Cardinality({"gone"} \X (1..restarts)) = restarts
    <3>1. IsFiniteSet({"gone"}) /\ Cardinality({"gone"}) = 1
      BY FS_Singleton
    <3>2. IsFiniteSet(1..restarts) /\ Cardinality(1..restarts) = restarts
      <4>1. 1 \in Int /\ restarts \in Int /\ restarts >= 0
        BY <1>1
      <4>2. IsFiniteSet(1..restarts)
            /\ Cardinality(1..restarts) = IF 1 > restarts THEN 0 ELSE restarts - 1 + 1
        BY <4>1, FS_Interval
      <4>. QED
        BY <4>1, <4>2
    <3>3. IsFiniteSet({"gone"} \X (1..restarts))
          /\ Cardinality({"gone"} \X (1..restarts)) = Cardinality({"gone"}) * Cardinality(1..restarts)
      BY <3>1, <3>2, FS_Product
    <3>. QED
      BY <1>1, <3>1, <3>2, <3>3
  <2>3. IsFiniteSet(Limiters) /\ Cardinality(Limiters) = Cardinality(Procs) + restarts
    <3>1. ({"running"} \X Procs) \cap ({"gone"} \X (1..restarts)) = {}
      OBVIOUS
    <3>2. Cardinality({}) = 0
      BY FS_EmptySet
    <3>3. IsFiniteSet(Limiters)
          /\ Cardinality(Limiters) = Cardinality({"running"} \X Procs) + Cardinality({"gone"} \X (1..restarts))
                                     - Cardinality(({"running"} \X Procs) \cap ({"gone"} \X (1..restarts)))
      BY <2>1, <2>2, FS_Union DEF Limiters
    <3>4. Cardinality(({"running"} \X Procs) \cap ({"gone"} \X (1..restarts))) = 0
      BY <3>1, <3>2
    <3>. QED
      BY <1>1, <2>1, <2>2, <3>3, <3>4
  <2>4. IsFiniteSet(0..(Limit - 1)) /\ Cardinality(0..(Limit - 1)) = Limit
    BY FS_Interval, LimitAssumption
  <2>5. IsFiniteSet(Seats) /\ Cardinality(Seats) = Cardinality(Limiters) * Cardinality(0..(Limit - 1))
    BY <2>3, <2>4, FS_Product DEF Seats
  <2>6. Cardinality(Procs) + restarts \in Nat /\ Limit \in Nat
    BY <1>1, <2>1, LimitAssumption
  <2>. QED
    BY <2>3, <2>4, <2>5, <2>6
<1>3. PICK s, size : s = log[k] /\ size = Limit * (Cardinality(Procs) + restarts)
  OBVIOUS
<1>4. Bounded(s, size)
  <2>1. /\ \A i \in 1..Len(s) : seat[i] \in Seats
        /\ \A i, j \in 1..Len(s) : i < j /\ seat[i] = seat[j] => s[j] >= s[i] + Window
        /\ \A i, j \in 1..Len(s) : i <= j => s[i] <= s[j]
    BY <1>3 DEF SeatsTaken, Ordered
  <2>2. s \in Seq(Nat) /\ size \in Nat /\ IsFiniteSet(Seats) /\ Cardinality(Seats) = size
    BY <1>1, <1>2, <1>3
  <2>. QED
    BY <2>1, <2>2, OneSeatEach
<1>. QED
  BY <1>3, <1>4

LEMMA Appended ==
    ASSUME NEW s \in Seq(Nat), NEW t \in Nat, NEW u, u = Append(s, t)
    PROVE  /\ u \in Seq(Nat) /\ Len(s) \in Nat /\ Len(u) = Len(s) + 1 /\ u[Len(s) + 1] = t
           /\ \A i \in 1..Len(s) : u[i] = s[i] /\ s[i] \in Nat
<1>1. u \in Seq(Nat) /\ Len(s) \in Nat /\ Len(u) = Len(s) + 1 /\ u[Len(s) + 1] = t
  OBVIOUS
<1>2. ASSUME NEW i \in 1..Len(s) PROVE u[i] = s[i] /\ s[i] \in Nat
  OBVIOUS
<1>. QED
  BY <1>1, <1>2

LEMMA OrderedLater ==
    ASSUME NEW s \in Seq(Nat), NEW t \in Nat, Ordered(s, t), NEW v \in Nat, t <= v
    PROVE  Ordered(s, v)
<1>1. \A i \in 1..Len(s) : s[i] \in Nat
  OBVIOUS
<1>. QED
  BY <1>1 DEF Ordered

LEMMA OrderedAppend ==
    ASSUME NEW s \in Seq(Nat), NEW t \in Nat, Ordered(s, t), NEW u, u = Append(s, t)
    PROVE  Ordered(u, t)
<1>1. PICK n : n = Len(s)
  OBVIOUS
<1>2. /\ n \in Nat /\ Len(u) = n + 1 /\ u[n + 1] = t
      /\ \A i \in 1..n : u[i] = s[i] /\ s[i] \in Nat
  BY <1>1, Appended
<1>3. (\A i, j \in 1..n : i <= j => s[i] <= s[j]) /\ (\A i \in 1..n : s[i] <= t)
  BY <1>1 DEF Ordered
<1>4. \A i \in 1..(n + 1) : u[i] <= t
  BY <1>2, <1>3
<1>5. ASSUME NEW i \in 1..(n + 1), NEW j \in 1..(n + 1), i <= j PROVE u[i] <= u[j]
  <2>1. CASE j = n + 1
    BY <1>2, <1>4, <2>1
  <2>2. CASE j \in 1..n
    <3>1. i \in 1..n
      BY <1>2, <1>5, <2>2
    <3>. QED
      BY <1>2, <1>3, <1>5, <2>2, <3>1
  <2>. QED
    BY <1>2, <2>1, <2>2
<1>. QED
  BY <1>2, <1>4, <1>5 DEF Ordered

\* What a grant makes of the times of its key, and a restart of its process's.
Granted(p, s, t, u, times, later, R, seats) ==
    /\ p \in Procs /\ s \in Seq(Nat) /\ t \in Nat /\ u = Append(s, t)
    /\ times[p] \in Seq(Nat) /\ later[p] = Append(times[p], t)
    /\ \A q \in Procs \ {p} : later[q] = times[q]
    /\ Kept(later[p], R, t)
    /\ \A x \in 0..(Limit - 1) : <<<<"running", p>>, x>> \in seats

Restarted(p, s, r, times, later, seats, more) ==
    /\ p \in Procs /\ s \in Seq(Nat) /\ r \in Nat
    /\ later[p] = <<>> /\ \A q \in Procs \ {p} : later[q] = times[q]
    /\ seats = (({"running"} \X Procs) \cup ({"gone"} \X (1..r))) \X (0..(Limit - 1))
    /\ more = (({"running"} \X Procs) \cup ({"gone"} \X (1..(r + 1)))) \X (0..(Limit - 1))

\* The new request takes its limiter's next seat.
LEMMA SeatsByGrant ==
    ASSUME NEW p, NEW s, NEW t, NEW u, NEW times, NEW later, NEW R, NEW seats,
           Granted(p, s, t, u, times, later, R, seats),
           NEW seat, SeatsTaken(s, times, seats, seat)
    PROVE  \E taken : SeatsTaken(u, later, seats, taken)
<1>0. /\ p \in Procs /\ s \in Seq(Nat) /\ t \in Nat /\ u = Append(s, t)
      /\ times[p] \in Seq(Nat) /\ later[p] = Append(times[p], t)
      /\ \A q \in Procs \ {p} : later[q] = times[q]
      /\ Kept(later[p], R, t)
      /\ \A x \in 0..(Limit - 1) : <<<<"running", p>>, x>> \in seats
  BY DEF Granted
<1>1. PICK n, m, old, v : n = Len(s) /\ m = Len(old) /\ old = times[p] /\ v = later[p]
  OBVIOUS
<1>2. /\ n \in Nat /\ Len(u) = n + 1 /\ u[n + 1] = t
      /\ \A i \in 1..n : u[i] = s[i] /\ s[i] \in Nat
  BY <1>0, <1>1, Appended
<1>3. /\ m \in Nat /\ Len(v) = m + 1 /\ v[m + 1] = t
      /\ \A i \in 1..m : v[i] = old[i] /\ v[i] \in Nat
  <2>1. old \in Seq(Nat) /\ v = Append(old, t)
    BY <1>0, <1>1
  <2>2. /\ Len(old) \in Nat /\ Len(v) = Len(old) + 1 /\ v[Len(old) + 1] = t
        /\ \A i \in 1..Len(old) : v[i] = old[i] /\ old[i] \in Nat
    BY <2>1, Appended
  <2>. QED
    BY <1>1, <2>2
<1>4. PICK new : new = <<<<"running", p>>, (m + 1) % Limit>>
  OBVIOUS
<1>5. new \in seats /\ new[1] = <<"running", p>> /\ new[2] = (m + 1) % Limit
  <2>1. (m + 1) % Limit \in 0..(Limit - 1)
    BY <1>0, <1>3, LimitAssumption
  <2>. QED
    BY <1>0, <1>4, <2>1
<1>6. PICK taken : taken = [i \in 1..(n + 1) |-> IF i = n + 1 THEN new ELSE seat[i]]
  OBVIOUS
<1>7. (\A i \in 1..n : taken[i] = seat[i]) /\ taken[n + 1] = new
  BY <1>2, <1>6
<1>8. /\ \A i, j \in 1..(m + 1) : i <= j => v[i] <= v[j]
      /\ \A i \in 1..(m + 1) : i + Limit \in 1..(m + 1) => v[i + Limit] >= v[i] + Window
  <2>1. DOMAIN v = 1..Len(v)
    BY <1>0, <1>1 DEF Kept
  <2>2. (\A i, j \in 1..Len(v) : i <= j => v[i] <= v[j]) /\ Bounded(v, Limit)
    BY <1>0, <1>1 DEF Kept
  <2>. QED
    BY <1>3, <2>1, <2>2 DEF Bounded
<1>9. /\ \A i \in 1..n : seat[i] \in seats
      /\ \A i, j \in 1..n : i < j /\ seat[i] = seat[j] => s[j] >= s[i] + Window
      /\ \A i \in 1..n, q \in Procs :
            seat[i][1] = <<"running", q>> =>
                \E j \in 1..Len(times[q]) : s[i] = times[q][j] /\ seat[i][2] = j % Limit
  BY <1>0, <1>1 DEF SeatsTaken
\* Since the seat was taken before, its limiter went round.
<1>10. ASSUME NEW i \in 1..n, seat[i] = new PROVE t >= s[i] + Window
  <2>1. PICK j \in 1..m : s[i] = old[j] /\ (m + 1) % Limit = j % Limit
    <3>1. seat[i][1] = <<"running", p>> /\ seat[i][2] = (m + 1) % Limit
      BY <1>5, <1>10
    <3>2. \E j \in 1..Len(times[p]) : s[i] = times[p][j] /\ seat[i][2] = j % Limit
      BY <1>0, <1>9, <3>1
    <3>. QED
      BY <1>1, <3>1, <3>2
  <2>2. j \in Nat /\ m + 1 \in Nat /\ j < m + 1 /\ j \in 1..(m + 1)
    BY <1>3
  <2>3. m + 1 >= j + Limit
    BY <2>1, <2>2, Rounds
  <2>4. PICK k : k = j + Limit
    OBVIOUS
  <2>5. k \in 1..(m + 1) /\ m + 1 \in 1..(m + 1) /\ k <= m + 1
    BY <1>3, <2>2, <2>3, <2>4, LimitAssumption
  <2>6. v[k] >= v[j] + Window /\ v[k] <= v[m + 1]
    BY <1>8, <2>2, <2>4, <2>5
  <2>7. v[k] \in Int /\ v[j] \in Int /\ v[m + 1] \in Int /\ Window \in Int
    <3>1. ASSUME NEW a \in 1..(m + 1) PROVE v[a] \in Nat
      <4>1. CASE a = m + 1
        BY <1>0, <1>3, <4>1
      <4>2. CASE a \in 1..m
        BY <1>3, <4>2
      <4>. QED
        BY <1>3, <4>1, <4>2
    <3>2. v[k] \in Nat /\ v[j] \in Nat /\ v[m + 1] \in Nat
      BY <2>2, <2>5, <3>1
    <3>. QED
      BY <3>2, WindowAssumption
  <2>8. v[m + 1] >= v[j] + Window
    BY <2>6, <2>7
  <2>. QED
    BY <1>3, <2>1, <2>8
<1>11. ASSUME NEW i \in 1..(n + 1) PROVE taken[i] \in seats
  <2>1. CASE i = n + 1
    BY <1>5, <1>7, <2>1
  <2>2. CASE i \in 1..n
    BY <1>7, <1>9, <2>2
  <2>. QED
    BY <1>2, <2>1, <2>2
<1>12. ASSUME NEW i \in 1..(n + 1), NEW j \in 1..(n + 1), i < j, taken[i] = taken[j]
       PROVE  u[j] >= u[i] + Window
  <2>1. i \in 1..n
    BY <1>2, <1>12
  <2>2. CASE j = n + 1
    BY <1>2, <1>7, <1>10, <1>12, <2>1, <2>2
  <2>3. CASE j \in 1..n
    BY <1>2, <1>7, <1>9, <1>12, <2>1, <2>3
  <2>. QED
    BY <1>2, <2>2, <2>3
<1>13. ASSUME NEW i \in 1..(n + 1), NEW q \in Procs, taken[i][1] = <<"running", q>>
       PROVE  \E j \in 1..Len(later[q]) : u[i] = later[q][j] /\ taken[i][2] = j % Limit
  <2>1. CASE i = n + 1
    <3>1. q = p /\ taken[i][2] = (m + 1) % Limit
      BY <1>5, <1>7, <1>13, <2>1
    <3>2. m + 1 \in 1..Len(v) /\ u[i] = v[m + 1]
      BY <1>2, <1>3, <2>1
    <3>. QED
      BY <1>1, <3>1, <3>2
  <2>2. CASE i \in 1..n
    <3>1. taken[i] = seat[i] /\ u[i] = s[i]
      BY <1>2, <1>7, <2>2
    <3>2. PICK j \in 1..Len(times[q]) : s[i] = times[q][j] /\ seat[i][2] = j % Limit
      BY <1>9, <1>13, <2>2, <3>1
    <3>3. j \in 1..Len(later[q]) /\ later[q][j] = times[q][j]
      <4>1. CASE q = p
        <5>1. j \in 1..m
          BY <1>1, <3>2, <4>1
        <5>2. j \in 1..(m + 1) /\ v[j] = old[j]
          BY <1>3, <5>1
        <5>. QED
          BY <1>1, <1>3, <4>1, <5>2
      <4>2. CASE q # p
        BY <1>0, <3>2, <4>2
      <4>. QED
        BY <4>1, <4>2
    <3>. QED
      BY <3>1, <3>2, <3>3
  <2>. QED
    BY <1>2, <2>1, <2>2
<1>14. SeatsTaken(u, later, seats, taken)
  BY <1>2, <1>11, <1>12, <1>13 DEF SeatsTaken
<1>. QED
  BY <1>14

\* The requests of a limiter that is gone keep its seats, under another name.
LEMMA SeatsByRestart ==
    ASSUME NEW p, NEW s, NEW r, NEW times, NEW later, NEW seats, NEW more,
           Restarted(p, s, r, times, later, seats, more),
           NEW seat, SeatsTaken(s, times, seats, seat)
    PROVE  \E taken : SeatsTaken(s, later, more, taken)
<1>0. /\ p \in Procs /\ s \in Seq(Nat) /\ r \in Nat
      /\ later[p] = <<>> /\ \A q \in Procs \ {p} : later[q] = times[q]
      /\ seats = (({"running"} \X Procs) \cup ({"gone"} \X (1..r))) \X (0..(Limit - 1))
      /\ more = (({"running"} \X Procs) \cup ({"gone"} \X (1..(r + 1)))) \X (0..(Limit - 1))
  BY DEF Restarted
<1>1. PICK n : n = Len(s)
  OBVIOUS
<1>2. PICK taken : taken = [i \in 1..n |->
            IF seat[i][1] = <<"running", p>> THEN <<<<"gone", r + 1>>, seat[i][2]>> ELSE seat[i]]
  OBVIOUS
<1>3. /\ \A i \in 1..n : seat[i] \in seats
      /\ \A i, j \in 1..n : i < j /\ seat[i] = seat[j] => s[j] >= s[i] + Window
      /\ \A i \in 1..n, q \in Procs :
            seat[i][1] = <<"running", q>> =>
                \E j \in 1..Len(times[q]) : s[i] = times[q][j] /\ seat[i][2] = j % Limit
  BY <1>0, <1>1 DEF SeatsTaken
<1>4. ASSUME NEW i \in 1..n
      PROVE  /\ seat[i] = <<seat[i][1], seat[i][2]>> /\ seat[i][2] \in 0..(Limit - 1)
             /\ \/ \E q \in Procs : seat[i][1] = <<"running", q>>
                \/ \E a \in 1..r : seat[i][1] = <<"gone", a>>
  BY <1>0, <1>3
<1>5. ASSUME NEW i \in 1..n
      PROVE  \/ seat[i][1] = <<"running", p>> /\ taken[i] = <<<<"gone", r + 1>>, seat[i][2]>>
             \/ seat[i][1] # <<"running", p>> /\ taken[i] = seat[i]
  BY <1>2
<1>6. ASSUME NEW i \in 1..n PROVE taken[i] \in more
  <2>1. CASE seat[i][1] = <<"running", p>>
    <3>1. r + 1 \in 1..(r + 1)
      BY <1>0
    <3>2. PICK x \in 0..(Limit - 1) : x = seat[i][2]
      BY <1>4
    <3>3. <<"gone", r + 1>> \in ({"running"} \X Procs) \cup ({"gone"} \X (1..(r + 1)))
      BY <3>1
    <3>4. <<<<"gone", r + 1>>, x>> \in more
      BY <1>0, <3>3
    <3>. QED
      BY <1>5, <2>1, <3>2, <3>4
  <2>2. CASE seat[i][1] # <<"running", p>>
    <3>1. seat[i] \in seats /\ 1..r \subseteq 1..(r + 1)
      BY <1>0, <1>3
    <3>2. seats \subseteq more
      BY <1>0, <3>1
    <3>. QED
      BY <1>5, <2>2, <3>1, <3>2
  <2>. QED
    BY <2>1, <2>2
<1>7. ASSUME NEW i \in 1..n, seat[i][1] = <<"gone", r + 1>> PROVE FALSE
  <2>1. r + 1 \notin 1..r
    BY <1>0
  <2>2. \A a, b, q : <<"gone", a>> # <<"running", q>> /\ (<<"gone", a>> = <<"gone", b>> => a = b)
    OBVIOUS
  <2>. QED
    BY <1>4, <1>7, <2>1, <2>2
<1>8. ASSUME NEW i \in 1..n, NEW j \in 1..n, i < j, taken[i] = taken[j]
      PROVE  s[j] >= s[i] + Window
  <2>1. seat[i] = seat[j]
    <3>1. CASE seat[i][1] = <<"running", p>> /\ seat[j][1] = <<"running", p>>
      <4>1. seat[i][2] = seat[j][2]
        BY <1>5, <1>8, <3>1
      <4>. QED
        BY <1>4, <3>1, <4>1
    <3>2. CASE seat[i][1] # <<"running", p>> /\ seat[j][1] # <<"running", p>>
      BY <1>5, <1>8, <3>2
    <3>3. CASE seat[i][1] = <<"running", p>> /\ seat[j][1] # <<"running", p>>
      <4>1. seat[j][1] = <<"gone", r + 1>>
        BY <1>5, <1>8, <3>3
      <4>. QED
        BY <1>7, <4>1
    <3>4. CASE seat[i][1] # <<"running", p>> /\ seat[j][1] = <<"running", p>>
      <4>1. seat[i][1] = <<"gone", r + 1>>
        BY <1>5, <1>8, <3>4
      <4>. QED
        BY <1>7, <4>1
    <3>. QED
      BY <3>1, <3>2, <3>3, <3>4
  <2>. QED
    BY <1>3, <1>8, <2>1
<1>9. ASSUME NEW i \in 1..n, NEW q \in Procs, taken[i][1] = <<"running", q>>
      PROVE  \E j \in 1..Len(later[q]) : s[i] = later[q][j] /\ taken[i][2] = j % Limit
  <2>1. seat[i][1] # <<"running", p>> /\ taken[i] = seat[i]
    <3>1. <<"gone", r + 1>> # <<"running", q>>
      OBVIOUS
    <3>. QED
      BY <1>5, <1>9, <3>1
  <2>2. q # p
    BY <1>9, <2>1
  <2>3. \E j \in 1..Len(times[q]) : s[i] = times[q][j] /\ seat[i][2] = j % Limit
    BY <1>3, <1>9, <2>1
  <2>. QED
    BY <1>0, <2>1, <2>2, <2>3
<1>10. SeatsTaken(s, later, more, taken)
  BY <1>1, <1>6, <1>8, <1>9 DEF SeatsTaken
<1>. QED
  BY <1>10

LEMMA SeatedInit == Init => SeatedInv
<1>. SUFFICES ASSUME Init, NEW k \in Keys
              PROVE  Ordered(log[k], now) /\ \E seat : SeatsTaken(log[k], Times(k), Seats, seat)
  BY DEF SeatedInv
<1>1. log[k] = <<>> /\ Len(log[k]) = 0
  BY DEF Init
<1>2. Ordered(log[k], now)
  BY <1>1 DEF Ordered
<1>3. \A seat : SeatsTaken(log[k], Times(k), Seats, seat)
  BY <1>1 DEF SeatsTaken
<1>. QED
  BY <1>2, <1>3

\* A step that leaves the times of k alone, and starts nobody anew.
LEMMA SeatedKept ==
    ASSUME LimiterInv, SeatedInv, NEW k \in Keys, log'[k] = log[k], Times(k)' = Times(k),
           restarts' = restarts, now' \in Nat, now <= now'
    PROVE  Ordered(log'[k], now') /\ \E seat : SeatsTaken(log'[k], Times(k)', Seats', seat)
<1>1. log[k] \in Seq(Nat) /\ now \in Nat
  BY DEF LimiterInv, TypeOK
<1>2. PICK s, t, v : s = log[k] /\ t = now /\ v = now'
  OBVIOUS
<1>3. Ordered(s, v)
  <2>1. s \in Seq(Nat) /\ t \in Nat /\ v \in Nat /\ t <= v /\ Ordered(s, t)
    BY <1>1, <1>2 DEF SeatedInv
  <2>. QED
    BY <2>1, OrderedLater
<1>4. Seats' = Seats
  BY DEF Seats, Limiters
<1>5. PICK seat : SeatsTaken(s, Times(k), Seats, seat)
  BY <1>2 DEF SeatedInv
<1>6. SeatsTaken(s, Times(k)', Seats', seat)
  BY <1>4, <1>5
<1>7. s = log'[k] /\ v = now'
  BY <1>2
<1>. QED
  BY <1>3, <1>6, <1>7

LEMMA SeatedNext == LimiterInv /\ LimiterInv' /\ SeatedInv /\ [Next]_vars => SeatedInv'
<1>. DEFINE Seated(k) ==
        Ordered(log'[k], now') /\ \E seat : SeatsTaken(log'[k], Times(k)', Seats', seat)
<1>. SUFFICES ASSUME LimiterInv, LimiterInv', SeatedInv, [Next]_vars, NEW k \in Keys
              PROVE  Seated(k)
  BY DEF SeatedInv
<1>0. /\ now \in Nat /\ now' \in Nat /\ restarts \in Nat /\ log[k] \in Seq(Nat) /\ Ordered(log[k], now)
      /\ \A p \in Procs : stamp[p][k] \in Seq(Nat) /\ Times(k)[p] = stamp[p][k]
      /\ stamp \in [Procs -> [Keys -> Seq(Nat)]] /\ log \in [Keys -> Seq(Nat)]
      /\ \A p \in Procs : Times(k)'[p] = stamp'[p][k]
  BY DEF LimiterInv, TypeOK, SeatedInv, Times
<1>s. PICK seat : SeatsTaken(log[k], Times(k), Seats, seat)
  BY DEF SeatedInv
<1>1. ASSUME log' = log, stamp' = stamp, restarts' = restarts, now <= now' PROVE Seated(k)
  <2>1. Times(k)' = Times(k)
    BY <1>1 DEF Times
  <2>. QED
    BY <1>0, <1>1, <2>1, SeatedKept
<1>2. ASSUME NEW p \in Procs, NEW c \in Clients, Bypass(p, c) \/ Cleanup(p, c) PROVE Seated(k)
  BY <1>0, <1>1, <1>2 DEF Bypass, Cleanup
<1>3. ASSUME NEW p \in Procs, Reject(p) PROVE Seated(k)
  BY <1>0, <1>1, <1>3 DEF Reject
<1>4. CASE Tick
  BY <1>0, <1>1, <1>4 DEF Tick
<1>5. CASE UNCHANGED vars
  BY <1>0, <1>1, <1>5 DEF vars
<1>6. ASSUME NEW p \in Procs, Grant(p) PROVE Seated(k)
  <2>1. CASE k # check[p].key
    <3>1. log'[k] = log[k] /\ restarts' = restarts /\ now' = now
          /\ \A q \in Procs : stamp'[q][k] = stamp[q][k]
      BY <1>0, <1>6, <2>1 DEF Grant
    <3>2. Times(k)' = Times(k)
      BY <3>1 DEF Times
    <3>. QED
      BY <1>0, <3>1, <3>2, SeatedKept
  <2>2. CASE k = check[p].key
    <3>1. PICK s, u, t, times, later, seats, R :
            /\ s = log[k] /\ u = log'[k] /\ t = now /\ times = Times(k) /\ later = Times(k)'
            /\ seats = Seats /\ R = requests'[p][k]
      OBVIOUS
    <3>2. /\ u = Append(s, t) /\ now' = now /\ restarts' = restarts
          /\ stamp'[p][k] = Append(stamp[p][k], t)
          /\ \A q \in Procs \ {p} : stamp'[q][k] = stamp[q][k]
      BY <1>0, <1>6, <2>2, <3>1 DEF Grant
    <3>3. /\ s \in Seq(Nat) /\ t \in Nat /\ Ordered(s, t) /\ times[p] \in Seq(Nat)
          /\ SeatsTaken(s, times, seats, seat)
      BY <1>0, <1>s, <3>1
    <3>4. later[p] = Append(times[p], t) /\ \A q \in Procs \ {p} : later[q] = times[q]
      BY <1>0, <3>1, <3>2
    <3>5. Kept(later[p], R, t)
      <4>1. Kept(stamp'[p][k], requests'[p][k], now')
        BY DEF LimiterInv, KeptInv
      <4>. QED
        BY <1>0, <3>1, <3>2, <4>1
    <3>6. \A x \in 0..(Limit - 1) : <<<<"running", p>>, x>> \in seats
      BY <3>1 DEF Seats, Limiters
    <3>7. Ordered(u, t)
      BY <3>2, <3>3, OrderedAppend
    <3>8. \E taken : SeatsTaken(u, later, seats, taken)
      <4>1. Granted(p, s, t, u, times, later, R, seats)
        BY <3>2, <3>3, <3>4, <3>5, <3>6 DEF Granted
      <4>. QED
        BY <3>3, <4>1, SeatsByGrant
    <3>9. Seats' = seats /\ now' = t
      BY <3>1, <3>2 DEF Seats, Limiters
    <3>. QED
      BY <3>1, <3>7, <3>8, <3>9
  <2>. QED
    BY <2>1, <2>2
<1>7. ASSUME NEW p \in Procs, Restart(p) PROVE Seated(k)
  <2>1. PICK s, r, times, later, seats, more :
            /\ s = log[k] /\ r = restarts /\ times = Times(k) /\ later = Times(k)'
            /\ seats = Seats /\ more = Seats'
    OBVIOUS
  <2>2. /\ log' = log /\ now' = now /\ restarts' = r + 1
        /\ stamp'[p][k] = <<>> /\ \A q \in Procs \ {p} : stamp'[q][k] = stamp[q][k]
    BY <1>0, <1>7, <2>1 DEF Restart
  <2>3. later[p] = <<>> /\ \A q \in Procs \ {p} : later[q] = times[q]
    BY <1>0, <2>1, <2>2
  <2>4. /\ seats = (({"running"} \X Procs) \cup ({"gone"} \X (1..r))) \X (0..(Limit - 1))
        /\ more = (({"running"} \X Procs) \cup ({"gone"} \X (1..(r + 1)))) \X (0..(Limit - 1))
    BY <2>1, <2>2 DEF Seats, Limiters
  <2>5. \E taken : SeatsTaken(s, later, more, taken)
    <3>1. s \in Seq(Nat) /\ r \in Nat /\ SeatsTaken(s, times, seats, seat)
      BY <1>0, <1>s, <2>1
    <3>2. Restarted(p, s, r, times, later, seats, more)
      BY <2>3, <2>4, <3>1 DEF Restarted
    <3>. QED
      BY <3>1, <3>2, SeatsByRestart
  <2>. QED
    BY <1>0, <2>1, <2>2, <2>5
<1>. QED
  BY <1>2, <1>3, <1>4, <1>5, <1>6, <1>7 DEF Next

\* All processes together grant a key, in any window, no more than the limit
\* for each limiter there has been.
THEOREM ClusterCorrect == Spec => []ClusterBound
<1>1. LimiterInv /\ SeatedInv => ClusterBound
  <2>. SUFFICES ASSUME LimiterInv, SeatedInv, NEW k \in Keys
                PROVE  Bounded(log[k], Limit * (Cardinality(Procs) + restarts))
    BY DEF ClusterBound
  <2>1. PICK seat : SeatsTaken(log[k], Times(k), Seats, seat)
    BY DEF SeatedInv
  <2>. QED
    BY <2>1, SeatedBound DEF LimiterInv, SeatedInv
<1>. QED
  BY <1>1, SeatedInit, SeatedNext, LimiterCorrect, PTL DEF Spec
=============================================================================
