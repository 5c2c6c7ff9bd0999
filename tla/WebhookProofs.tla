--------------------------- MODULE WebhookProofs ----------------------------
(***************************************************************************)
(* Proofs about what stands before the webhooks: RateLimiter, for every    *)
(* number of callers, both limits, every window and every number of faults, *)
(* and Intake, for every set of posts, keys and limits.                    *)
(***************************************************************************)
EXTENDS RateLimiter, Intake, Integers, FoldLemmas

-----------------------------------------------------------------------------
(* The counts of a window, added up from the left.                         *)

(* P[n]: the sum of the first n values.                                    *)
SumsUpTo(P, f, w) ==
  /\ P \in [0..w -> Nat] /\ P[0] = 0
  /\ \A n \in 0..(w - 1) : P[n + 1] = P[n] + f[n]

LEMMA FirstSums ==
  ASSUME NEW w \in Nat \ {0}, NEW f \in [0..(w - 1) -> Nat]
  PROVE  \E P : SumsUpTo(P, f, w) /\ P[w] = SumFunction(f)
<1> DEFINE all == 0..(w - 1)
<1>1. IsFiniteSet(all)
  BY FS_Interval
<1>2. \A n \in all : f[n] \in Nat
  OBVIOUS
<1>5. PICK c \in [SUBSET all -> Nat] : AddsUp(c, all, f) /\ SumFunction(f) = c[all]
  <2>1. DOMAIN f = all
    OBVIOUS
  <2> HIDE DEF all
  <2>2. PICK c \in [SUBSET all -> Nat] : AddsUp(c, all, f) /\ SumFunctionOnSet(f, all) = c[all]
    BY <1>1, <1>2, SumOnSet
  <2> QED BY <2>1, <2>2 DEF SumFunction
<1>7. /\ c[{}] = 0
      /\ \A s \in SUBSET all : \A x \in s : c[s] = f[x] + c[s \ {x}]
  <2>1. f \in [all -> Nat]
    OBVIOUS
  <2> HIDE DEF all
  <2>2. InAnyOrder(c, all, f)
    BY <1>1, <1>5, <2>1, AnyOrder, Zenon
  <2> QED BY <2>2 DEF InAnyOrder
<1> DEFINE P == [n \in 0..w |-> c[0..(n - 1)]]
<1>8. \A n \in 0..w : 0..(n - 1) \in SUBSET all
  OBVIOUS
<1>9. P \in [0..w -> Nat] /\ P[w] = c[all]
  BY <1>8
<1>10. P[0] = 0
  <2>1. 0..(0 - 1) = {}
    OBVIOUS
  <2> QED BY <1>7, <2>1
<1>11. ASSUME NEW n \in 0..(w - 1) PROVE P[n + 1] = P[n] + f[n]
  <2> DEFINE m == n + 1
  <2>1. m \in 0..w /\ n \in 0..w /\ 0..n \in SUBSET all /\ n \in 0..n
    OBVIOUS
  <2>2. 0..(m - 1) = 0..n /\ (0..n) \ {n} = 0..(n - 1)
    OBVIOUS
  <2> HIDE DEF m
  <2>3. P[m] = c[0..n] /\ P[n] = c[0..(n - 1)]
    BY <2>1, <2>2
  <2>4. c[0..n] = f[n] + c[0..(n - 1)]
    <3>1. c[0..n] = f[n] + c[(0..n) \ {n}]
      BY <1>7, <2>1, Zenon
    <3> QED BY <2>2, <3>1, Zenon
  <2>5. f[n] \in Nat /\ c[0..(n - 1)] \in Nat
    BY <1>8, <2>1
  <2> HIDE DEF P
  <2> QED BY <2>3, <2>4, <2>5 DEF m
<1> QED BY <1>5, <1>9, <1>10, <1>11 DEF SumsUpTo

(* Whoever adds up from the left gets the sum.                             *)
LEMMA SumFromTheLeft ==
  ASSUME NEW w \in Nat \ {0}, NEW f \in [0..(w - 1) -> Nat], NEW P, SumsUpTo(P, f, w)
  PROVE  SumFunction(f) = P[w]
<1>1. PICK Q : SumsUpTo(Q, f, w) /\ Q[w] = SumFunction(f)
  BY FirstSums
<1> DEFINE T == {n \in Nat : n <= w => P[n] = Q[n]}
<1>2. 0 \in T
  BY <1>1 DEF SumsUpTo
<1>3. ASSUME NEW n \in T PROVE n + 1 \in T
  <2> SUFFICES ASSUME n + 1 <= w PROVE P[n + 1] = Q[n + 1]
    OBVIOUS
  <2>1. n \in 0..(w - 1) /\ n <= w
    OBVIOUS
  <2> QED BY <1>1, <2>1 DEF SumsUpTo
<1>4. T = Nat
  <2> HIDE DEF T
  <2>1. T \in SUBSET Nat
    BY DEF T
  <2> QED BY <1>2, <1>3, <2>1, UpFromZero
<1>5. w \in T
  BY <1>4
<1> QED BY <1>1, <1>5

-----------------------------------------------------------------------------
RInv == TypeOK /\ KeyLifetimes

LEMMA LimitIsPositive == Limit \in Nat \ {0}
  BY LimiterAssumption DEF Limit

LEMMA CapIsBounded ==
  ASSUME NEW n \in Nat
  PROVE  Cap(n) \in 0..(Limit + 1) /\ (n > 0 => Cap(n) > 0)
  BY LimitIsPositive DEF Cap

(* What counting a call does to the bookkeeping.                           *)
LEMMA CountsTyped ==
  ASSUME TypeOK, NEW c \in Callers, Counts(c)
  PROVE  /\ count' \in 1..(Limit + 1)
         /\ recent' \in [0..(Window - 1) -> Nat]
<1> USE LimiterAssumption, LimitIsPositive DEF TypeOK, Counts
<1>1. count' \in 1..(Limit + 1)
  <2>1. count + 1 \in Nat /\ count + 1 > 0 /\ count' = Cap(count + 1)
    OBVIOUS
  <2>2. QED
    BY <2>1, CapIsBounded
<1>2. recent' \in [0..(Window - 1) -> Nat]
  OBVIOUS
<1>3. QED
  BY <1>1, <1>2

LEMMA CallStepInv ==
  ASSUME RInv, NEW c \in Callers, CallStep(c)
  PROVE  RInv'
<1> USE LimiterAssumption DEF RInv, TypeOK, KeyLifetimes, NoTTL
<1>1. CASE IncrInMemory(c)
  BY <1>1, CountsTyped, LimitIsPositive DEF IncrInMemory, Decides, Counts
<1>2. CASE IncrRedis(c)
  BY <1>2, CountsTyped, LimitIsPositive DEF IncrRedis, Decides, Counts
<1>3. CASE CreateRedis(c)
  BY <1>3, CountsTyped, LimitIsPositive DEF CreateRedis
<1>4. CASE ExpireRedis(c)
  BY <1>4 DEF ExpireRedis, Decides
<1>5. CASE ExpireLost(c)
  BY <1>5 DEF ExpireLost
<1>6. CASE Returns(c)
  BY <1>6 DEF Returns
<1>7. CASE IncrLost(c)
  <2>1. count' \in 1..(Limit + 1)
    <3>1. count + 1 \in Nat /\ count + 1 > 0 /\ count' = Cap(count + 1)
      BY <1>7 DEF IncrLost
    <3>2. QED
      BY <3>1, CapIsBounded, LimitIsPositive
  <2>2. faults' \in 0..MaxFaults /\ faults' # 0
    BY <1>7 DEF IncrLost
  <2>3. TypeOK'
    BY <1>7, <2>1, <2>2 DEF IncrLost
  <2>4. KeyLifetimes'
    BY <1>7, <2>1, <2>2 DEF IncrLost
  <2>5. QED
    BY <2>3, <2>4
<1>8. QED
  BY <1>1, <1>2, <1>3, <1>4, <1>5, <1>6, <1>7 DEF CallStep

LEMMA InitRInv == Init => RInv
  BY LimiterAssumption, LimitIsPositive DEF Init, RInv, TypeOK, KeyLifetimes, NoTTL

LEMMA NextRInv == RInv /\ [Next]_vars => RInv'
<1> SUFFICES ASSUME RInv, [Next]_vars PROVE RInv'
  OBVIOUS
<1>1. CASE \E c \in Callers : CallStep(c)
  BY <1>1, CallStepInv
<1>2. CASE TimePasses
  BY <1>2, LimiterAssumption, LimitIsPositive
  DEF TimePasses, RInv, TypeOK, KeyLifetimes, NoTTL
<1>3. CASE UNCHANGED vars
  BY <1>3 DEF vars, RInv, TypeOK, KeyLifetimes
<1> QED BY <1>1, <1>2, <1>3 DEF Next

(* A key is counted from the moment it exists to the moment it expires,    *)
(* and EXPIRE is sent to it once, by the call that created it.             *)
THEOREM KeyLifetimesHold == Spec => []KeyLifetimes
  BY InitRInv, NextRInv, PTL DEF Spec, RInv

-----------------------------------------------------------------------------
(* The bound on bursts.  The calls of the last Window ticks belong to at   *)
(* most two keys: those of the last a ticks to the key that counts now,    *)
(* the older ones to the one before it.                                    *)
TwoKeys(P, a) ==
  /\ SumsUpTo(P, recent, Window)
  /\ a \in 0..Window
  /\ count = 0 => a = 0 /\ recent[0] = 0
  /\ count > 0 => a > 0
  /\ ttl <= Window /\ count > 0 => a + ttl > Window
  /\ P[a] <= count /\ P[a] <= Limit
  /\ P[Window] <= P[a] + Limit

BurstInv == RInv /\ \E P : \E a \in 0..Window : TwoKeys(P, a)

(* One more call in this tick.                                             *)
LEMMA OneMore ==
  ASSUME NEW w \in Nat \ {0}, NEW f \in [0..(w - 1) -> Nat], NEW P, SumsUpTo(P, f, w),
         NEW Q, Q = [n \in 0..w |-> IF n = 0 THEN 0 ELSE P[n] + 1],
         NEW g, g = [f EXCEPT ![0] = @ + 1]
  PROVE  SumsUpTo(Q, g, w)
<1>1. P \in [0..w -> Nat] /\ P[0] = 0 /\ \A n \in 0..(w - 1) : P[n + 1] = P[n] + f[n]
  BY DEF SumsUpTo
<1>2. Q \in [0..w -> Nat] /\ Q[0] = 0
  BY <1>1
<1>3. ASSUME NEW n \in 0..(w - 1) PROVE Q[n + 1] = Q[n] + g[n]
  <2> DEFINE m == n + 1
  <2>1. m \in 0..w /\ m # 0 /\ n \in 0..w /\ P[m] = P[n] + f[n]
    BY <1>1
  <2>2. P[n] \in Nat /\ f[n] \in Nat
    BY <1>1, <2>1
  <2> HIDE DEF m
  <2>3. Q[m] = P[m] + 1
    BY <2>1
  <2>4. CASE n = 0
    <3>1. Q[n] = 0 /\ P[n] = 0 /\ g[n] = f[n] + 1
      BY <1>1, <1>2, <2>4
    <3> QED BY <2>1, <2>2, <2>3, <3>1 DEF m
  <2>5. CASE n # 0
    <3>1. Q[n] = P[n] + 1 /\ g[n] = f[n]
      BY <2>1, <2>5
    <3> QED BY <2>1, <2>2, <2>3, <3>1 DEF m
  <2> QED BY <2>4, <2>5
<1> QED BY <1>2, <1>3 DEF SumsUpTo

(* A tick later.                                                           *)
LEMMA OneTickLater ==
  ASSUME NEW w \in Nat \ {0}, NEW f \in [0..(w - 1) -> Nat], NEW P, SumsUpTo(P, f, w),
         NEW Q, Q = [n \in 0..w |-> IF n = 0 THEN 0 ELSE P[n - 1]],
         NEW g, g = [k \in DOMAIN f |-> IF k = 0 THEN 0 ELSE f[k - 1]]
  PROVE  SumsUpTo(Q, g, w)
<1>1. P \in [0..w -> Nat] /\ P[0] = 0 /\ \A n \in 0..(w - 1) : P[n + 1] = P[n] + f[n]
  BY DEF SumsUpTo
<1>2. Q \in [0..w -> Nat] /\ Q[0] = 0
  BY <1>1
<1>3. ASSUME NEW n \in 0..(w - 1) PROVE Q[n + 1] = Q[n] + g[n]
  <2> DEFINE m == n + 1
  <2>1. m \in 0..w /\ m # 0 /\ n \in 0..w /\ m - 1 = n /\ P[n] \in Nat
    BY <1>1
  <2> HIDE DEF m
  <2>2. Q[m] = P[n]
    BY <2>1
  <2>3. CASE n = 0
    <3>1. Q[n] = 0 /\ P[n] = 0 /\ g[n] = 0
      BY <1>1, <1>2, <2>3
    <3> QED BY <2>2, <3>1 DEF m
  <2>4. CASE n # 0
    <3> DEFINE l == n - 1
    <3>1. l \in 0..(w - 1) /\ l + 1 = n
      BY <2>4
    <3>2. Q[n] = P[l] /\ g[n] = f[l]
      BY <2>1, <2>4
    <3> HIDE DEF l
    <3>3. P[n] = P[l] + f[l]
      BY <1>1, <3>1
    <3> QED BY <2>2, <3>2, <3>3 DEF m
  <2> QED BY <2>3, <2>4
<1> QED BY <1>2, <1>3 DEF SumsUpTo

LEMMA RunningSums ==
  ASSUME NEW w \in Nat \ {0}, NEW f \in [0..(w - 1) -> Nat], NEW P, SumsUpTo(P, f, w),
         NEW n \in 1..w
  PROVE  P[n - 1] \in Nat /\ P[n] \in Nat /\ P[n - 1] <= P[n] /\ P[1] = f[0]
<1>1. P \in [0..w -> Nat] /\ P[0] = 0 /\ \A k \in 0..(w - 1) : P[k + 1] = P[k] + f[k]
  BY DEF SumsUpTo
<1> DEFINE l == n - 1
<1>2. l \in 0..(w - 1) /\ l + 1 = n /\ n \in 0..w /\ l \in 0..w
  OBVIOUS
<1>3. P[1] = f[0]
  <2>1. 0 \in 0..(w - 1) /\ 0 + 1 = 1
    OBVIOUS
  <2>2. P[0 + 1] = P[0] + f[0] /\ f[0] \in Nat
    BY <1>1, <2>1
  <2> QED BY <1>1, <2>1, <2>2
<1> HIDE DEF l
<1>4. P[n] = P[l] + f[l] /\ f[l] \in Nat /\ P[l] \in Nat /\ P[n] \in Nat
  BY <1>1, <1>2
<1> QED BY <1>3, <1>4 DEF l

LEMMA CountsBurst ==
  ASSUME BurstInv, NEW c \in Callers, Counts(c), RInv',
         ttl' = ttl \/ (count = 0 /\ ttl' \in {Window, NoTTL})
  PROVE  BurstInv'
<1>1. PICK P : \E a \in 0..Window : TwoKeys(P, a)
  BY DEF BurstInv
<1>2. PICK a \in 0..Window : TwoKeys(P, a)
  BY <1>1
<1>3. /\ Window \in Nat \ {0} /\ Limit \in Nat \ {0} /\ MaxOf(c) \in Nat \ {0} /\ MaxOf(c) <= Limit
  BY LimiterAssumption DEF Limit, MaxOf
<1>4. /\ recent \in [0..(Window - 1) -> Nat] /\ count \in 0..(Limit + 1) /\ ttl \in 0..NoTTL
      /\ (count = 0 <=> ttl = 0)
  BY DEF BurstInv, RInv, TypeOK, KeyLifetimes
<1>5. /\ SumsUpTo(P, recent, Window)
      /\ count = 0 => a = 0 /\ recent[0] = 0
      /\ count > 0 => a > 0
      /\ ttl <= Window /\ count > 0 => a + ttl > Window
      /\ P[a] <= count /\ P[a] <= Limit
      /\ P[Window] <= P[a] + Limit
  BY <1>2 DEF TwoKeys
<1>6. P \in [0..Window -> Nat] /\ P[0] = 0 /\ P[a] \in Nat /\ P[Window] \in Nat
  BY <1>3, <1>5 DEF SumsUpTo
<1>7. count' > 0 /\ count' >= count /\ count' \in Nat
      /\ (count + 1 <= Limit => count' = count + 1)
  BY <1>3, <1>4 DEF Counts, Cap
<1>8. CASE ~Admits(c, count + 1)
  <2>1. count > 0 /\ recent' = recent
    BY <1>3, <1>4, <1>8 DEF Admits, Counts
  <2>2. TwoKeys(P, a)'
    BY <1>4, <1>5, <1>6, <1>7, <2>1 DEF TwoKeys
  <2> QED BY <2>2 DEF BurstInv
<1>9. CASE Admits(c, count + 1)
  <2>1. count + 1 <= Limit /\ recent' = [recent EXCEPT ![0] = @ + 1]
    BY <1>3, <1>4, <1>9 DEF Admits, Counts
  <2>b. PICK b : b = IF count = 0 THEN 1 ELSE a
    OBVIOUS
  <2>q. PICK Q : Q = [n \in 0..Window |-> IF n = 0 THEN 0 ELSE P[n] + 1]
    OBVIOUS
  <2>2. SumsUpTo(Q, recent', Window)
    BY <1>3, <1>4, <1>5, <2>1, <2>q, OneMore
  <2>3. b \in 1..Window /\ Window \in 1..Window
    BY <1>3, <1>4, <1>5, <2>b
  <2>4. Q[b] = P[b] + 1 /\ Q[Window] = P[Window] + 1 /\ P[b] \in Nat
    BY <1>6, <2>3, <2>q
  <2>5. count = 0 => P[b] = 0
    <3>1. P[1] = recent[0]
      BY <1>3, <1>4, <1>5, <2>3, RunningSums
    <3> QED BY <1>5, <2>b, <3>1
  <2>6. Q[b] <= count' /\ Q[b] <= Limit /\ Q[Window] <= Q[b] + Limit
    <3>1. CASE count = 0
      BY <1>3, <1>4, <1>5, <1>6, <1>7, <2>1, <2>4, <2>5, <2>b, <3>1
    <3>2. CASE count # 0
      <4>1. b = a /\ P[a] <= count /\ P[Window] <= P[a] + Limit
        BY <1>5, <2>b, <3>2
      <4>2. Limit \in Nat /\ count \in Nat /\ P[a] \in Nat /\ P[Window] \in Nat
        <5>1. Limit \in Nat
          BY <1>3
        <5>2. count \in Nat
          BY <1>4, <5>1
        <5> QED BY <1>6, <5>1, <5>2
      <4>3. count' = count + 1 /\ Q[a] = P[a] + 1 /\ Q[Window] = P[Window] + 1
        BY <1>7, <2>1, <2>4, <4>1
      <4> QED BY <2>1, <4>1, <4>2, <4>3
    <3> QED BY <3>1, <3>2
  <2>7. ttl' <= Window => b + ttl' > Window
    <3>1. ttl' = ttl \/ ttl' \in {Window, NoTTL}
      OBVIOUS
    <3>2. ttl' # 0
      BY <1>7 DEF RInv, KeyLifetimes
    <3> QED BY <1>3, <1>4, <1>5, <2>3, <2>b, <3>1, <3>2 DEF NoTTL
  <2>8. TwoKeys(Q, b)' /\ b \in 0..Window
    BY <1>7, <2>2, <2>3, <2>6, <2>7 DEF TwoKeys
  <2> QED BY <2>8 DEF BurstInv
<1> QED BY <1>8, <1>9

LEMMA TickBurst ==
  ASSUME BurstInv, TimePasses, RInv'
  PROVE  BurstInv'
<1>1. PICK P : \E a \in 0..Window : TwoKeys(P, a)
  BY DEF BurstInv
<1>2. PICK a \in 0..Window : TwoKeys(P, a)
  BY <1>1
<1>3. Window \in Nat \ {0} /\ Limit \in Nat \ {0}
  BY LimiterAssumption DEF Limit
<1>4. /\ recent \in [0..(Window - 1) -> Nat] /\ count \in 0..(Limit + 1) /\ ttl \in 0..NoTTL
      /\ (count = 0 <=> ttl = 0)
  BY DEF BurstInv, RInv, TypeOK, KeyLifetimes
<1>5. /\ SumsUpTo(P, recent, Window)
      /\ count = 0 => a = 0 /\ recent[0] = 0
      /\ count > 0 => a > 0
      /\ ttl <= Window /\ count > 0 => a + ttl > Window
      /\ P[a] <= count /\ P[a] <= Limit
      /\ P[Window] <= P[a] + Limit
  BY <1>2 DEF TwoKeys
<1>6. P \in [0..Window -> Nat] /\ P[0] = 0 /\ P[a] \in Nat /\ P[Window] \in Nat
  BY <1>3, <1>5 DEF SumsUpTo
<1>7. recent' = [k \in DOMAIN recent |-> IF k = 0 THEN 0 ELSE recent[k - 1]]
  BY DEF TimePasses
<1>b. PICK b : b = IF count' = 0 THEN 0 ELSE IF a = Window THEN Window ELSE a + 1
  OBVIOUS
<1>q. PICK Q : Q = [n \in 0..Window |-> IF n = 0 THEN 0 ELSE P[n - 1]]
  OBVIOUS
<1>8. SumsUpTo(Q, recent', Window)
  BY <1>3, <1>4, <1>5, <1>7, <1>q, OneTickLater
<1>9. b \in 0..Window
  BY <1>3, <1>b
<1>10. Q[Window] <= P[Window] /\ Q[Window] \in Nat
  <2>1. Window \in 1..Window /\ Window \in 0..Window /\ Window # 0
    BY <1>3
  <2>2. Q[Window] = P[Window - 1]
    BY <2>1, <1>q
  <2> QED BY <1>3, <1>4, <1>5, <2>1, <2>2, RunningSums
<1>11. recent'[0] = 0
  <2>1. 0 \in DOMAIN recent
    BY <1>3, <1>4
  <2> QED BY <1>7, <2>1
<1>12. CASE count' = 0
  <2>1. P[Window] <= Limit
    <3>1. CASE count = 0
      BY <1>3, <1>5, <1>6, <3>1
    <3>2. CASE count # 0
      <4>1. ttl = 1
        BY <1>12, <3>2 DEF TimePasses
      <4>2. a = Window
        BY <1>3, <1>4, <1>5, <3>2, <4>1
      <4> QED BY <1>5, <4>2
    <3> QED BY <3>1, <3>2
  <2>2. b = 0 /\ Q[0] = 0
    BY <1>3, <1>12, <1>b, <1>q
  <2>3. TwoKeys(Q, 0)'
    <3>1. Q[Window] <= Limit
      BY <1>3, <1>6, <1>10, <2>1
    <3>2. 0 <= count' /\ 0 <= Limit /\ Q[Window] <= 0 + Limit /\ 0 \in 0..Window /\ ~(count' > 0)
      BY <1>3, <1>10, <1>12, <3>1
    <3> QED BY <1>8, <1>11, <1>12, <2>2, <3>2 DEF TwoKeys
  <2> QED BY <1>9, <2>2, <2>3 DEF BurstInv
<1>13. CASE count' # 0
  <2>1. count' = count /\ count > 0
    BY <1>4, <1>13 DEF TimePasses
  <2>2. (ttl' = ttl /\ ttl = NoTTL) \/ (ttl' = ttl - 1 /\ ttl \in 2..Window)
    BY <1>4, <2>1 DEF TimePasses
  <2>3. b > 0
    BY <1>3, <1>13, <1>b
  <2>4. ttl' <= Window => b + ttl' > Window
    BY <1>3, <1>5, <1>13, <1>b, <2>1, <2>2 DEF NoTTL
  <2>5. Q[b] <= P[a] /\ Q[b] \in Nat /\ Q[Window] <= Q[b] + Limit
    <3>1. CASE a = Window
      <4>1. b = Window
        BY <1>13, <1>b, <3>1
      <4> QED BY <1>3, <1>10, <3>1, <4>1
    <3>2. CASE a # Window
      <4>1. b = a + 1 /\ b \in 0..Window /\ b # 0 /\ b - 1 = a
        BY <1>9, <1>13, <1>b, <3>2
      <4>2. Q[b] = P[a]
        BY <1>q, <4>1
      <4> QED BY <1>3, <1>5, <1>6, <1>10, <4>2
    <3> QED BY <3>1, <3>2
  <2>6. Q[b] <= count' /\ Q[b] <= Limit
    BY <1>3, <1>4, <1>5, <1>6, <2>1, <2>5
  <2>7. TwoKeys(Q, b)'
    BY <1>8, <1>9, <1>13, <2>3, <2>4, <2>5, <2>6 DEF TwoKeys
  <2> QED BY <1>9, <2>7 DEF BurstInv
<1> QED BY <1>12, <1>13

LEMMA RestBurst ==
  ASSUME BurstInv, RInv', recent' = recent, count' >= count, count > 0 \/ count' = count,
         ttl' = ttl \/ (count > 0 /\ ttl' = Window)
  PROVE  BurstInv'
<1>1. PICK P : \E a \in 0..Window : TwoKeys(P, a)
  BY DEF BurstInv
<1>2. PICK a \in 0..Window : TwoKeys(P, a)
  BY <1>1
<1>3. Window \in Nat \ {0} /\ Limit \in Nat \ {0}
  BY LimiterAssumption DEF Limit
<1>4. count \in Nat /\ count' \in Nat
  BY <1>3 DEF BurstInv, RInv, TypeOK
<1>5. P[a] \in Nat
  BY <1>2, <1>3 DEF TwoKeys, SumsUpTo
<1>6. TwoKeys(P, a)'
  BY <1>2, <1>3, <1>4, <1>5 DEF TwoKeys
<1> QED BY <1>6 DEF BurstInv

LEMMA CallBurst ==
  ASSUME BurstInv, NEW c \in Callers, CallStep(c), RInv'
  PROVE  BurstInv'
<1>1. CASE IncrInMemory(c) \/ IncrRedis(c) \/ CreateRedis(c)
  BY <1>1, CountsBurst DEF IncrInMemory, IncrRedis, CreateRedis
<1>2. CASE IncrLost(c)
  <2>1. count' >= count
    BY <1>2, LimiterAssumption DEF IncrLost, Cap, Limit, BurstInv, RInv, TypeOK
  <2> QED BY <1>2, <2>1, RestBurst DEF IncrLost
<1>3. CASE ExpireRedis(c)
  <2>1. count \in Nat /\ count > 0
    BY <1>3, LimiterAssumption DEF ExpireRedis, BurstInv, RInv, TypeOK, KeyLifetimes, NoTTL, Limit
  <2> QED BY <1>3, <2>1, RestBurst DEF ExpireRedis
<1>4. CASE ExpireLost(c) \/ Returns(c)
  <2>1. count \in Nat
    BY LimiterAssumption DEF BurstInv, RInv, TypeOK, Limit
  <2> QED BY <1>4, <2>1, RestBurst DEF ExpireLost, Returns
<1> QED BY <1>1, <1>2, <1>3, <1>4 DEF CallStep

(* security/rate_limit.py over both stores.  For any number of callers and *)
(* any interleaving of INCR and EXPIRE, also when one of them is lost: no  *)
(* Window ticks in a row see more calls admitted than twice the limit.     *)
THEOREM BurstIsBounded == Spec => []BurstBound
<1>1. RInv => Window \in Nat \ {0} /\ recent \in [0..(Window - 1) -> Nat]
  BY LimiterAssumption DEF RInv, TypeOK
<1>2. Init => BurstInv
  <2> SUFFICES ASSUME Init PROVE BurstInv
    OBVIOUS
  <2>1. RInv
    BY InitRInv
  <2> DEFINE P == [n \in 0..Window |-> 0]
  <2>2. Window \in Nat \ {0} /\ Limit \in Nat \ {0}
    BY LimiterAssumption DEF Limit
  <2>3. \A k \in 0..(Window - 1) : recent[k] = 0
    BY DEF Init
  <2>4. SumsUpTo(P, recent, Window)
    <3>1. \A n \in 0..(Window - 1) : n \in 0..Window /\ n + 1 \in 0..Window
      BY <2>2
    <3> QED BY <2>2, <2>3, <3>1 DEF SumsUpTo
  <2>5. P[0] = 0 /\ P[Window] = 0 /\ 0 \in 0..Window /\ recent[0] = 0 /\ count = 0
    BY <2>2, <2>3 DEF Init
  <2> HIDE DEF P
  <2>6. TwoKeys(P, 0)
    BY <2>2, <2>4, <2>5 DEF TwoKeys
  <2> QED BY <2>1, <2>5, <2>6 DEF BurstInv
<1>3. BurstInv /\ [Next]_vars => BurstInv'
  <2> SUFFICES ASSUME BurstInv, [Next]_vars PROVE BurstInv'
    OBVIOUS
  <2>1. RInv'
    BY NextRInv DEF BurstInv
  <2>2. CASE UNCHANGED vars
    <3>1. count \in Nat
      BY LimiterAssumption DEF BurstInv, RInv, TypeOK, Limit
    <3> QED BY <2>1, <2>2, <3>1, RestBurst DEF vars
  <2> QED BY <2>1, <2>2, CallBurst, TickBurst DEF Next
<1>4. BurstInv => BurstBound
  <2> SUFFICES ASSUME BurstInv PROVE BurstBound
    OBVIOUS
  <2>1. PICK P : \E a \in 0..Window : TwoKeys(P, a)
    BY DEF BurstInv
  <2>2. PICK a \in 0..Window : TwoKeys(P, a)
    BY <2>1
  <2>3. Window \in Nat \ {0} /\ Limit \in Nat \ {0} /\ recent \in [0..(Window - 1) -> Nat]
    BY <1>1, LimiterAssumption DEF BurstInv, Limit
  <2>4. SumFunction(recent) = P[Window]
    BY <2>2, <2>3, SumFromTheLeft DEF TwoKeys
  <2>5. P[a] \in Nat /\ P[Window] \in Nat
    BY <2>2, <2>3 DEF TwoKeys, SumsUpTo
  <2>6. P[a] <= Limit /\ P[Window] <= P[a] + Limit
    BY <2>2 DEF TwoKeys
  <2> QED BY <2>3, <2>4, <2>5, <2>6 DEF BurstBound
<1> QED BY <1>2, <1>3, <1>4, PTL DEF Spec

-----------------------------------------------------------------------------
(* Intake.                                                                 *)

TaskRecord ==
  [post : Posts, at : {"limit", "body", "claim", "answered"}, status : Nat]

(* What a 200 has to answer for.                                           *)
Settled(p, taken) ==
  \/ p.by = "m365" /\ p.token
  \/ Read(p).bounce
  \/ \E q \in taken : RawMessage(q) = RawMessage(p)

IntakeInv ==
  /\ task \in [Tasks -> {Free} \cup TaskRecord]
  /\ handled \subseteq Posts
  /\ \A k \in keys : \E q \in handled : k = RawMessage(q)
  /\ \A t \in Tasks : Taken(t, "answered") /\ task[t].status = 200 => Settled(task[t].post, handled)

LEMMA RelayedWords ==
  ASSUME NEW p
  PROVE  \/ /\ p.raw /\ p.mails # << >>
            /\ RawMessage(p) = [mime |-> Head(p.mails)]
            /\ Relayed(p) = {Read(p).text, Read(p).html} \ {""}
         \/ /\ ~(p.raw /\ p.mails # << >>)
            /\ DOMAIN RawMessage(p) = {"headers", "body"}
            /\ Relayed(p) = {Rebuilt(p).body} \ {""}
<1>1. CASE p.raw /\ p.mails # << >>
  <2>1. RawMessage(p) = [mime |-> Head(p.mails)]
    BY <1>1 DEF RawMessage
  <2>2. "mime" \in DOMAIN RawMessage(p)
    BY <2>1
  <2> QED BY <1>1, <2>1, <2>2 DEF Relayed
<1>2. CASE ~(p.raw /\ p.mails # << >>)
  <2>1. RawMessage(p) = Rebuilt(p) /\ DOMAIN Rebuilt(p) = {"headers", "body"}
    BY <1>2 DEF RawMessage, Rebuilt
  <2>2. "mime" \notin DOMAIN RawMessage(p)
    BY <2>1
  <2> QED BY <1>2, <2>1, <2>2 DEF Relayed
<1> QED BY <1>1, <1>2

LEMMA RebuiltBody ==
  ASSUME NEW p
  PROVE  Rebuilt(p).body = IF p.by \in {"m365", "google"} THEN Or(TextOf(p), HtmlOf(p)) ELSE TextOf(p)
BY DEF Rebuilt

LEMMA EveryPostIsScanned ==
  ASSUME NEW p \in Posts, Complete(p)
  PROVE  Relayed(p) \subseteq Scanned(p)
<1>1. Rebuilt(p).body \in {TextOf(p), HtmlOf(p)}
  BY RebuiltBody DEF Or
<1>2. p.by \notin {"ses", "m365"} => TextOf(p) = Read(p).text /\ HtmlOf(p) = Read(p).html
  BY DEF TextOf, HtmlOf, Field, Complete
<1> QED BY <1>1, <1>2, RelayedWords DEF Scanned, Complete

LEMMA EveryBodyArrives ==
  ASSUME NEW p \in Posts, p.by \in {"m365", "google"}, Scanned(p) # {}
  PROVE  Relayed(p) # {}
<1>1. TextOf(p) # "" \/ HtmlOf(p) # ""
  BY DEF Scanned
<1>2. TextOf(p) \in {"", Read(p).text} /\ HtmlOf(p) \in {"", Read(p).html}
  BY DEF TextOf, HtmlOf, Field
<1>3. Rebuilt(p).body # ""
  BY <1>1, RebuiltBody DEF Or
<1> QED BY <1>1, <1>2, <1>3, RelayedWords

(* The same source is the same mail.                                       *)
LEMMA SameSource ==
  ASSUME NEW p \in Posts, NEW q \in Posts, p.raw, p.mails # << >>, RawMessage(q) = RawMessage(p)
  PROVE  q.mails # << >> /\ Head(q.mails) = Head(p.mails)
<1>1. RawMessage(p) = [mime |-> Head(p.mails)]
  BY DEF RawMessage
<1>2. "mime" \in DOMAIN RawMessage(q) /\ RawMessage(q).mime = Head(p.mails)
  BY <1>1
<1>3. q.raw /\ q.mails # << >>
  <2>1. ~(q.raw /\ q.mails # << >>) => DOMAIN RawMessage(q) = {"headers", "body"}
    BY RelayedWords
  <2> QED BY <1>2, <2>1
<1>4. RawMessage(q) = [mime |-> Head(q.mails)]
  BY <1>3 DEF RawMessage
<1> QED BY <1>2, <1>3, <1>4

LEMMA SettledMeans ==
  ASSUME IntakeInv, NEW p \in Posts, Settled(p, handled)
  PROVE  \/ p.by = "m365" /\ p.token
         \/ Read(p).bounce
         \/ \E q \in handled :
              /\ RawMessage(q) = RawMessage(p)
              /\ p.raw /\ p.mails # << >> => q.mails # << >> /\ Head(q.mails) = Head(p.mails)
<1> SUFFICES ASSUME NEW q \in handled, RawMessage(q) = RawMessage(p)
             PROVE  p.raw /\ p.mails # << >> => q.mails # << >> /\ Head(q.mails) = Head(p.mails)
  BY DEF Settled
<1>1. q \in Posts
  BY DEF IntakeInv
<1> QED BY <1>1, SameSource

(* One handler moves: what has to be shown of it, and of the others        *)
(* nothing.                                                                *)
LEMMA HandlerMoves ==
  ASSUME IntakeInv, NEW t \in Tasks, NEW e \in TaskRecord, task' = [task EXCEPT ![t] = e],
         handled \subseteq handled', handled' \subseteq Posts,
         \A k \in keys' : \E q \in handled' : k = RawMessage(q),
         e.at = "answered" /\ e.status = 200 => Settled(e.post, handled')
  PROVE  IntakeInv'
<1>1. task' \in [Tasks -> {Free} \cup TaskRecord]
  BY DEF IntakeInv
<1>2. ASSUME NEW s \in Tasks, Taken(s, "answered")', task'[s].status = 200
      PROVE  Settled(task'[s].post, handled')
  <2>1. CASE s = t
    <3>1. task'[s] = e
      BY <2>1 DEF IntakeInv
    <3>2. e.at = "answered"
      BY <1>2, <3>1 DEF Taken
    <3> QED BY <1>2, <3>1, <3>2
  <2>2. CASE s # t
    <3>1. task'[s] = task[s]
      BY <2>2 DEF IntakeInv
    <3>2. Taken(s, "answered") /\ task[s].status = 200
      BY <1>2, <3>1 DEF Taken
    <3>3. Settled(task[s].post, handled)
      BY <3>2 DEF IntakeInv
    <3> QED BY <3>1, <3>3 DEF Settled
  <2> QED BY <2>1, <2>2
<1> QED BY <1>1, <1>2 DEF IntakeInv

LEMMA TaskOf ==
  ASSUME IntakeInv, NEW t \in Tasks, NEW what, Taken(t, what)
  PROVE  task[t] \in TaskRecord /\ task[t].at = what /\ task[t].post \in Posts /\ task[t].status \in Nat
<1>1. task[t] \in TaskRecord /\ task[t].at = what
  BY DEF IntakeInv, Taken
<1> QED BY <1>1 DEF TaskRecord

LEMMA Answered ==
  ASSUME IntakeInv, NEW t \in Tasks, NEW what, Taken(t, what), NEW n \in Nat, Answers(t, n)
  PROVE  \E e \in TaskRecord : /\ task' = [task EXCEPT ![t] = e] /\ e.at = "answered"
                               /\ e.status = n /\ e.post = task[t].post
<1> DEFINE e == [task[t] EXCEPT !.at = "answered", !.status = n]
<1>1. task' = [task EXCEPT ![t] = e]
  BY DEF Answers, IntakeInv
<1>2. e \in TaskRecord /\ e.at = "answered" /\ e.status = n /\ e.post = task[t].post
  BY TaskOf DEF TaskRecord
<1> QED BY <1>1, <1>2

LEMMA Awaited ==
  ASSUME IntakeInv, NEW t \in Tasks, NEW what, Taken(t, what),
         NEW next \in {"body", "claim"}, Awaits(t, next)
  PROVE  \E e \in TaskRecord : task' = [task EXCEPT ![t] = e] /\ e.at = next
<1> DEFINE e == [task[t] EXCEPT !.at = next]
<1>1. task' = [task EXCEPT ![t] = e]
  BY DEF Awaits, IntakeInv
<1>2. e \in TaskRecord /\ e.at = next
  BY TaskOf DEF TaskRecord
<1> QED BY <1>1, <1>2

(* An answer that does not have to answer for a claim of its own.          *)
LEMMA AnswerKeeps ==
  ASSUME IntakeInv, NEW t \in Tasks, NEW what, Taken(t, what), NEW n \in Nat, Answers(t, n),
         UNCHANGED <<keys, handled>>,
         n = 200 => \/ task[t].post.by = "m365" /\ task[t].post.token
                    \/ Read(task[t].post).bounce
                    \/ RawMessage(task[t].post) \in keys
  PROVE  IntakeInv'
<1>1. PICK e \in TaskRecord : /\ task' = [task EXCEPT ![t] = e] /\ e.at = "answered"
                              /\ e.status = n /\ e.post = task[t].post
  BY Answered
<1>2. n = 200 => Settled(e.post, handled')
  <2>1. RawMessage(e.post) \in keys => \E q \in handled : RawMessage(q) = RawMessage(e.post)
    BY DEF IntakeInv
  <2> QED BY <1>1, <2>1 DEF Settled
<1>3. handled' \subseteq Posts /\ \A k \in keys' : \E q \in handled' : k = RawMessage(q)
  BY DEF IntakeInv
<1> QED BY <1>1, <1>2, <1>3, HandlerMoves

LEMMA AwaitKeeps ==
  ASSUME IntakeInv, NEW t \in Tasks, NEW what, Taken(t, what),
         NEW next \in {"body", "claim"}, Awaits(t, next), UNCHANGED <<keys, handled>>
  PROVE  IntakeInv'
<1>1. PICK e \in TaskRecord : task' = [task EXCEPT ![t] = e] /\ e.at = next
  BY Awaited
<1> QED BY <1>1, HandlerMoves DEF IntakeInv

LEMMA ArriveKeeps ==
  ASSUME IntakeInv, NEW t \in Tasks, NEW p \in Posts, Arrive(t, p)
  PROVE  IntakeInv'
<1> DEFINE e == IF Refused(p) = {} THEN [post |-> p, at |-> "limit", status |-> 0]
                ELSE [post |-> p, at |-> "answered", status |-> CHOOSE c \in Refused(p) : TRUE]
<1>1. task' = [task EXCEPT ![t] = e] /\ UNCHANGED <<keys, handled>>
  BY DEF Arrive
<1>2. Refused(p) \in {{404}, {403}, {}}
  BY DEF Refused
<1>3. Refused(p) # {} => (CHOOSE c \in Refused(p) : TRUE) \in {404, 403}
  BY <1>2
<1>4. e \in TaskRecord /\ ~(e.at = "answered" /\ e.status = 200)
  <2>1. CASE Refused(p) = {}
    <3>1. e = [post |-> p, at |-> "limit", status |-> 0]
      BY <2>1
    <3> HIDE DEF e
    <3> QED BY <3>1 DEF TaskRecord
  <2>2. CASE Refused(p) # {}
    <3> DEFINE code == CHOOSE c \in Refused(p) : TRUE
    <3>1. code \in {404, 403} /\ e = [post |-> p, at |-> "answered", status |-> code]
      BY <1>3, <2>2
    <3> HIDE DEF e, code
    <3> QED BY <3>1 DEF TaskRecord
  <2> QED BY <2>1, <2>2
<1> HIDE DEF e
<1>5. handled' \subseteq Posts /\ \A k \in keys' : \E q \in handled' : k = RawMessage(q)
  BY <1>1 DEF IntakeInv
<1> QED BY <1>1, <1>4, <1>5, HandlerMoves

LEMMA AdmitKeeps ==
  ASSUME IntakeInv, NEW t \in Tasks, LimiterAdmits(t)
  PROVE  IntakeInv'
<1> DEFINE p == task[t].post
<1>1. Taken(t, "limit") /\ UNCHANGED <<keys, handled>>
  BY DEF LimiterAdmits
<1>2. CASE p.by = "sendgrid" /\ p.big
  BY <1>1, <1>2, AnswerKeeps DEF LimiterAdmits
<1>3. CASE ~(p.by = "sendgrid" /\ p.big) /\ p.by = "m365" /\ p.token
  BY <1>1, <1>3, AnswerKeeps DEF LimiterAdmits
<1>4. CASE ~(p.by = "sendgrid" /\ p.big) /\ ~(p.by = "m365" /\ p.token)
  BY <1>1, <1>4, AwaitKeeps DEF LimiterAdmits
<1> QED BY <1>2, <1>3, <1>4

LEMMA BodyKeeps ==
  ASSUME IntakeInv, NEW t \in Tasks, BodyArrives(t)
  PROVE  IntakeInv'
<1> DEFINE p == task[t].post
<1>1. Taken(t, "body") /\ UNCHANGED <<keys, handled>>
  BY DEF BodyArrives
<1>2. Fault(p) \in Nat /\ Fault(p) # 200
  BY DEF Fault
<1>3. CASE Fault(p) # 0
  BY <1>1, <1>2, <1>3, AnswerKeeps DEF BodyArrives
<1>4. CASE Fault(p) = 0 /\ Read(p).bounce
  BY <1>1, <1>4, AnswerKeeps DEF BodyArrives
<1>5. CASE Fault(p) = 0 /\ ~Read(p).bounce
  BY <1>1, <1>5, AwaitKeeps DEF BodyArrives
<1> QED BY <1>3, <1>4, <1>5

LEMMA ClaimKeeps ==
  ASSUME IntakeInv, NEW t \in Tasks, Claims(t)
  PROVE  IntakeInv'
<1> DEFINE p == task[t].post
<1>1. /\ Taken(t, "claim") /\ keys' = keys \cup {RawMessage(p)} /\ handled' = handled \cup {p}
      /\ Answers(t, 200)
  BY DEF Claims
<1>2. PICK e \in TaskRecord : /\ task' = [task EXCEPT ![t] = e] /\ e.at = "answered" /\ e.post = p
  BY <1>1, Answered
<1>3. p \in Posts /\ handled \subseteq Posts
  BY <1>1, TaskOf DEF IntakeInv
<1>4. \A k \in keys' : \E q \in handled' : k = RawMessage(q)
  BY <1>1 DEF IntakeInv
<1>5. Settled(p, handled')
  BY <1>1 DEF Settled
<1> HIDE DEF p
<1> QED BY <1>1, <1>2, <1>3, <1>4, <1>5, HandlerMoves

LEMMA IntakeKeeps == IntakeInv /\ [IntakeNext]_intakevars => IntakeInv'
<1> SUFFICES ASSUME IntakeInv, [IntakeNext]_intakevars PROVE IntakeInv'
  OBVIOUS
<1>1. CASE HashExpires
  <2>1. keys' \subseteq keys /\ UNCHANGED <<task, handled>>
    BY <1>1 DEF HashExpires
  <2> QED BY <2>1 DEF IntakeInv, Taken
<1>2. ASSUME NEW t \in Tasks, LimiterRefuses(t) PROVE IntakeInv'
  BY <1>2, AnswerKeeps DEF LimiterRefuses
<1>3. ASSUME NEW t \in Tasks, FindsDuplicate(t) PROVE IntakeInv'
  BY <1>3, AnswerKeeps DEF FindsDuplicate
<1>4. CASE UNCHANGED intakevars
  BY <1>4 DEF intakevars, IntakeInv, Taken, Settled
<1> QED BY <1>1, <1>2, <1>3, <1>4, AdmitKeeps, BodyKeeps, ClaimKeeps, ArriveKeeps DEF IntakeNext

(* webhook_receiver/app.py and the parsers.  For every set of posts and    *)
(* any order of their tasks: what the pipeline took with its text in the   *)
(* fields was scanned for all that is relayed of it, a body is not lost on *)
(* the way, and a 200 was given for no message that nobody claimed.        *)
THEOREM TakenIsSent == IntakeSpec => []TakenAsSent
<1>1. IntakeInit => IntakeInv
  BY DEF IntakeInit, IntakeInv, Taken
<1>2. IntakeInv => TakenAsSent
  <2> SUFFICES ASSUME IntakeInv PROVE TakenAsSent
    OBVIOUS
  <2>1. ASSUME NEW t \in Tasks, Taken(t, "answered"), task[t].status = 200
        PROVE  task[t].post \in Posts /\ Settled(task[t].post, handled)
    BY <2>1, TaskOf DEF IntakeInv
  <2>2. TwoHundredMeansTaken
    BY <2>1, SettledMeans DEF TwoHundredMeansTaken
  <2> QED BY <2>2, EveryPostIsScanned, EveryBodyArrives
          DEF IntakeInv, TakenAsSent, SentIsScanned, BodyArrivesWhole
<1> QED BY <1>1, <1>2, IntakeKeeps, PTL DEF IntakeSpec
=============================================================================
