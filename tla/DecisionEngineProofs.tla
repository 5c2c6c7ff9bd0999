------------------------- MODULE DecisionEngineProofs -------------------------
(***************************************************************************)
(* Proofs about DecisionEngine, for every set of domains, texts, tenants   *)
(* and stage scores, whatever is alike.                                    *)
(***************************************************************************)
EXTENDS DecisionEngine, FoldLemmas

(* What trust is worth after a streak of rejections.                       *)
Undone(d) == trust[d] >= Smaller(0, Step * streak[d] - Floor)

DInv == TypeOK /\ \A d \in Domains : Undone(d)

LEMMA DInvariance == Spec => []DInv
<1> USE DEF Floor, Ceiling, Step, CampaignSize, Smaller, Larger
<1>1. Init => DInv
  BY DEF Init, DInv, TypeOK, Undone
<1>2. DInv /\ [Next]_vars => DInv'
  <2> SUFFICES ASSUME DInv, [Next]_vars PROVE DInv'
    OBVIOUS
  <2> USE DEF DInv, TypeOK, Undone
  <2>1. ASSUME NEW b \in Bodies, Judge(b) PROVE DInv'
    BY <2>1 DEF Judge
  <2>2. ASSUME NEW b \in Bodies, Expire(b) PROVE DInv'
    BY <2>2 DEF Expire
  <2>3. ASSUME NEW d \in Domains, Release(d) PROVE DInv'
    BY <2>3 DEF Release
  <2>4. ASSUME NEW d \in Domains, Reject(d) PROVE DInv'
    BY <2>4 DEF Reject
  <2>5. CASE Restart
    BY <2>5 DEF Restart
  <2>6. CASE UNCHANGED vars
    BY <2>6 DEF vars
  <2>7. QED
    BY <2>1, <2>2, <2>3, <2>4, <2>5, <2>6 DEF Next
<1>3. QED
  BY <1>1, <1>2, PTL DEF Spec

(* The memories stay within their bounds: a domain's adjustment between    *)
(* -40 and 50, whatever is released and rejected.                          *)
THEOREM TypeCorrect == Spec => []TypeOK
  BY DInvariance, PTL DEF DInv

(* No history of releases makes a domain immune to three rejections.       *)
THEOREM RejectsUndoCreditHolds == Spec => []RejectsUndoCredit
<1>1. DInv => RejectsUndoCredit
  BY DEF DInv, TypeOK, Undone, RejectsUndoCredit, Smaller, Step, Floor
<1>2. QED
  BY <1>1, DInvariance, PTL

-----------------------------------------------------------------------------
(* What a message is made of.                                              *)
LEMMA MessageTyped ==
  ASSUME NEW m \in Message
  PROVE  /\ m.domain \in Domains
         /\ m.tenant.warn \in Nat \ {0}
         /\ m.tenant.quarantine \in Nat
         /\ m.listed \in {"no", "allowed", "blocked"}
         /\ m.vip \in BOOLEAN
         /\ \A s \in Stages : m.stages[s] \in Nat /\ m.tenant.weights[s] \in Nat
<1>1. m.tenant \in [warn : Nat \ {0}, quarantine : Nat, weights : [Stages -> Nat]]
  BY DecisionAssumption DEF Message
<1>2. \A s \in Stages : m.stages[s] \in Nat
  BY DecisionAssumption DEF Message
<1>3. QED
  BY <1>1, <1>2 DEF Message

LEMMA WeightedTyped ==
  ASSUME NEW m \in Message, NEW s \in Stages
  PROVE  Weighted(m, s) \in Nat
<1>1. m.stages[s] \in Nat /\ m.tenant.weights[s] \in Nat
  BY MessageTyped
<1>2. m.stages[s] * m.tenant.weights[s] \in Nat
  BY <1>1
<1>3. QED
  BY <1>2 DEF Weighted

(* The sum is bounded below by any one stage and the largest credit.       *)
LEMMA TotalBound ==
  ASSUME TypeOK, NEW m \in Message
  PROVE  /\ Total(m) \in Int
         /\ \A s \in Stages : Total(m) >= Weighted(m, s) - Floor
<1>1. \A s \in Stages : Weighted(m, s) \in Nat
  BY WeightedTyped
<1>2. trust[m.domain] \in (-Floor)..Ceiling
  BY MessageTyped DEF TypeOK
<1> DEFINE a == Weighted(m, "auth")
           c == Weighted(m, "content")
           t == Weighted(m, "attachments")
           v == IF m.vip THEN VIPBoost ELSE 0
           k == IF IsCampaign(m) THEN CampaignBoost ELSE 0
<1>3. a \in Nat /\ c \in Nat /\ t \in Nat
  BY <1>1 DEF Stages
<1>4. v \in Nat /\ k \in Nat
  BY DEF VIPBoost, CampaignBoost
<1>5. Total(m) = a + c + t + trust[m.domain] + v + k
  BY DEF Total
<1>6. \A s \in Stages : Weighted(m, s) \in {a, c, t}
  BY DEF Stages
<1> HIDE DEF a, c, t, v, k
<1>7. QED
  BY <1>2, <1>3, <1>4, <1>5, <1>6 DEF Floor, Ceiling

(* The threshold for quarantine stays above the one for a warning.         *)
LEMMA ThresholdsOrdered ==
  ASSUME NEW m \in Message, Valid(m)
  PROVE  QuarantineAt(m) \in Nat /\ QuarantineAt(m) > m.tenant.warn
  BY MessageTyped DEF QuarantineAt, Valid, Larger, Smaller, VIPThreshold

(* The recorded score accounts for every action.                           *)
THEOREM ScoreExplainsActionHolds == Spec => []ScoreExplainsAction
<1>1. TypeOK => ScoreExplainsAction
  <2> SUFFICES ASSUME TypeOK, NEW m \in Message, Valid(m)
               PROVE  Action(m) = ByThresholds(m, Score(m))
    BY DEF ScoreExplainsAction
  <2>1. Total(m) \in Int /\ QuarantineAt(m) \in Nat /\ QuarantineAt(m) > m.tenant.warn
    BY TotalBound, ThresholdsOrdered
  <2>2. m.tenant.warn \in Nat \ {0}
    BY MessageTyped
  <2>3. CASE m.listed = "blocked"
    BY <2>1, <2>2, <2>3 DEF Action, Score, ByThresholds, Larger
  <2>4. CASE m.listed # "blocked" /\ PassesByList(m)
    BY <2>1, <2>2, <2>4 DEF Action, Score, ByThresholds
  <2>5. CASE m.listed # "blocked" /\ ~PassesByList(m)
    BY <2>5 DEF Action, Score
  <2>6. QED
    BY <2>3, <2>4, <2>5
<1>2. QED
  BY <1>1, TypeCorrect, PTL

-----------------------------------------------------------------------------
(* A weight of at least one does not hide malware.                         *)
LEMMA MalwareKept ==
  ASSUME NEW m \in Message, NEW s \in Stages, m.stages[s] >= MalwareScore,
         m.tenant.weights[s] >= 2
  PROVE  Weighted(m, s) >= MalwareScore
<1>1. m.stages[s] \in Nat /\ m.tenant.weights[s] \in Nat
  BY MessageTyped
<1>2. ASSUME NEW x \in Nat, NEW w \in Nat, x >= 100, w >= 2
      PROVE  (x * w) \div 2 >= 100
  <2>1. x * w >= 100 * w
    BY <1>2
  <2>2. x * w \in Nat /\ 100 * w >= 200
    BY <1>2
  <2>3. QED
    BY <2>1, <2>2
<1>3. QED
  BY <1>1, <1>2 DEF Weighted, MalwareScore

(* Weights of at least one and a warning threshold of at most 60: no       *)
(* amount of credit, and no list, lets malware through unchanged.          *)
THEOREM MalwareIsNeverForwardedHolds ==
  ASSUME \A t \in Tenants : t.warn <= MalwareScore - Floor
                            /\ \A s \in Stages : t.weights[s] >= 2
  PROVE  Spec => []MalwareIsNeverForwarded
<1>1. TypeOK => MalwareIsNeverForwarded
  <2> SUFFICES ASSUME TypeOK, NEW m \in Message, Valid(m), HasMalware(m)
               PROVE  Action(m) # "forward"
    BY DEF MalwareIsNeverForwarded
  <2>1. PICK s \in Stages : m.stages[s] >= MalwareScore
    BY DEF HasMalware
  <2>2. m.tenant \in Tenants
    BY DEF Message
  <2>3. Weighted(m, s) >= MalwareScore /\ Weighted(m, s) \in Nat
    BY <2>1, <2>2, MalwareKept, WeightedTyped
  <2>4. ~PassesByList(m)
    BY <2>3 DEF PassesByList, MalwareScore
  <2>5. Total(m) \in Int /\ Total(m) >= m.tenant.warn
    BY <2>2, <2>3, TotalBound, MessageTyped DEF MalwareScore, Floor
  <2>6. ByThresholds(m, Total(m)) # "forward"
    BY <2>5, ThresholdsOrdered, MessageTyped DEF ByThresholds
  <2>7. QED
    BY <2>4, <2>6 DEF Action
<1>2. QED
  BY <1>1, TypeCorrect, PTL

(* Weights of at least one: the allowlist changes nothing about malware.   *)
THEOREM AllowlistNeverBypassesMalwareHolds ==
  ASSUME \A t \in Tenants : \A s \in Stages : t.weights[s] >= 2
  PROVE  Spec => []AllowlistNeverBypassesMalware
<1>1. AllowlistNeverBypassesMalware
  <2> SUFFICES ASSUME NEW m \in Message, Valid(m), m.listed = "allowed", HasMalware(m)
               PROVE  Action(m) = Action([m EXCEPT !.listed = "no"])
    BY DEF AllowlistNeverBypassesMalware
  <2> DEFINE n == [m EXCEPT !.listed = "no"]
  <2>1. PICK s \in Stages : m.stages[s] >= MalwareScore
    BY DEF HasMalware
  <2>2. m.tenant \in Tenants
    BY DEF Message
  <2>3. Weighted(m, s) >= MalwareScore /\ Weighted(m, s) \in Nat
    BY <2>1, <2>2, MalwareKept, WeightedTyped
  <2>4. ~PassesByList(m)
    BY <2>3 DEF PassesByList, MalwareScore
  <2>5. /\ n.domain = m.domain /\ n.body = m.body /\ n.stages = m.stages
        /\ n.tenant = m.tenant /\ n.vip = m.vip /\ n.listed = "no"
    BY DEF Message
  <2>6. ~PassesByList(n)
    BY <2>5 DEF PassesByList
  <2>7. Total(n) = Total(m)
    BY <2>5 DEF Total, Weighted, IsCampaign
  <2>8. ByThresholds(n, Total(n)) = ByThresholds(m, Total(m))
    <3>1. QuarantineAt(n) = QuarantineAt(m)
      BY <2>5 DEF QuarantineAt
    <3> HIDE DEF n
    <3>2. QED
      BY <2>5, <2>7, <3>1 DEF ByThresholds
  <2>9. QED
    BY <2>4, <2>5, <2>6, <2>8 DEF Action
<1>2. QED
  BY <1>1, PTL

-----------------------------------------------------------------------------
(* More evidence.                                                          *)

(* n is the message m with all that is known against m, or more.           *)
Heavier(n, m) ==
  /\ n \in Message /\ n.domain = m.domain /\ n.body = m.body /\ n.tenant = m.tenant
  /\ \A s \in Stages : n.stages[s] >= m.stages[s]
  /\ m.vip => n.vip
  /\ n.listed = m.listed \/ n.listed = "blocked" \/ (m.listed = "allowed" /\ n.listed = "no")

LEMMA WorsenedIsHeavier ==
  ASSUME NEW m \in Message, NEW n \in Worsened(m)
  PROVE  Heavier(n, m)
<1>1. m.stages \in [Stages -> Scores] /\ \A s \in Stages : m.stages[s] \in Nat
  BY MessageTyped DEF Message
<1>2. CASE \E s \in Stages, x \in Scores : x > m.stages[s] /\ n = [m EXCEPT !.stages[s] = x]
  <2>1. PICK s \in Stages, x \in Scores : x > m.stages[s] /\ n = [m EXCEPT !.stages[s] = x]
    BY <1>2
  <2>2. n = [m EXCEPT !.stages = [m.stages EXCEPT ![s] = x]]
    BY <2>1 DEF Message
  <2>3. [m.stages EXCEPT ![s] = x] \in [Stages -> Scores]
    BY <1>1
  <2>4. x \in Nat /\ \A t \in Stages : [m.stages EXCEPT ![s] = x][t] >= m.stages[t]
    BY <1>1, <2>1, DecisionAssumption
  <2> QED BY <2>2, <2>3, <2>4 DEF Heavier, Message
<1>3. CASE n = [m EXCEPT !.vip = TRUE]
  <2>1. /\ n \in Message /\ n.domain = m.domain /\ n.body = m.body /\ n.tenant = m.tenant
        /\ n.stages = m.stages /\ n.listed = m.listed /\ n.vip = TRUE
    BY <1>3 DEF Message
  <2>2. \A s \in Stages : n.stages[s] >= m.stages[s]
    BY <1>1, <2>1
  <2> QED BY <2>1, <2>2, Zenon DEF Heavier
<1>4. CASE n = [m EXCEPT !.listed = "blocked"]
  BY <1>1, <1>4 DEF Heavier, Message
<1>5. CASE n = [m EXCEPT !.listed = IF @ = "allowed" THEN "no" ELSE @]
  BY <1>1, <1>5 DEF Heavier, Message
<1> DEFINE raised(s) == {[m EXCEPT !.stages[s] = x] : x \in {y \in Scores : y > m.stages[s]}}
           other == {[m EXCEPT !.vip = TRUE], [m EXCEPT !.listed = "blocked"],
                     [m EXCEPT !.listed = IF @ = "allowed" THEN "no" ELSE @]}
<1>6. (\E s \in Stages : n \in raised(s)) \/ n \in other
  <2>1. n \in (UNION {raised(s) : s \in Stages}) \cup other
    BY DEF Worsened
  <2> HIDE DEF raised, other
  <2> QED BY <2>1, Zenon
<1>7. ASSUME NEW s \in Stages, n \in raised(s)
      PROVE  \E x \in Scores : x > m.stages[s] /\ n = [m EXCEPT !.stages[s] = x]
  BY <1>7, Zenon
<1> QED BY <1>2, <1>3, <1>4, <1>5, <1>6, <1>7, Zenon

LEMMA HeavierWeighs ==
  ASSUME NEW m \in Message, NEW n, Heavier(n, m), NEW s \in Stages
  PROVE  Weighted(m, s) \in Nat /\ Weighted(n, s) \in Nat /\ Weighted(n, s) >= Weighted(m, s)
<1>1. PICK x \in Nat, y \in Nat, w \in Nat :
        x = m.stages[s] /\ y = n.stages[s] /\ w = m.tenant.weights[s] /\ w = n.tenant.weights[s] /\ y >= x
  BY MessageTyped DEF Heavier
<1>2. PICK p \in Nat, q \in Nat : p = x * w /\ q = y * w /\ q >= p
  <2>1. PICK d \in Nat : y = x + d
    <3>1. y - x \in Nat /\ y = x + (y - x)
      BY <1>1
    <3> QED BY <3>1
  <2>2. y * w = x * w + d * w
    BY <2>1
  <2>3. x * w \in Nat /\ d * w \in Nat /\ y * w \in Nat
    OBVIOUS
  <2> QED BY <2>2, <2>3
<1>3. q \div 2 >= p \div 2 /\ q \div 2 \in Nat /\ p \div 2 \in Nat
  BY <1>2
<1> QED BY <1>1, <1>2, <1>3 DEF Weighted

(* A greater sum against thresholds that are not higher.                   *)
LEMMA GreaterIsNotMilder ==
  ASSUME NEW m \in Message, Valid(m), NEW n \in Message, n.tenant = m.tenant,
         QuarantineAt(n) <= QuarantineAt(m), NEW x \in Int, NEW y \in Int, x <= y
  PROVE  Severity(ByThresholds(n, y)) >= Severity(ByThresholds(m, x))
<1>1. PICK q \in Nat, r \in Nat, w \in Nat :
        q = QuarantineAt(m) /\ r = QuarantineAt(n) /\ w = m.tenant.warn /\ w < q /\ w < r /\ r <= q
  BY ThresholdsOrdered, MessageTyped DEF Valid
<1>2. ByThresholds(m, x) = IF x >= q THEN "quarantine" ELSE IF x >= w THEN "warn_and_strip" ELSE "forward"
  BY <1>1 DEF ByThresholds
<1>3. ByThresholds(n, y) = IF y >= r THEN "quarantine" ELSE IF y >= w THEN "warn_and_strip" ELSE "forward"
  BY <1>1 DEF ByThresholds
<1> HIDE <1>1
<1>4. Severity("forward") = 0 /\ Severity("warn_and_strip") = 1 /\ Severity("quarantine") = 2
  BY DEF Severity
<1>5. (x >= q => y >= r) /\ (x >= w => y >= w)
  BY <1>1
<1> QED BY <1>2, <1>3, <1>4, <1>5

LEMMA SeverityRange ==
  ASSUME TypeOK, NEW m \in Message, Valid(m)
  PROVE  Action(m) \in {"forward", "warn_and_strip", "quarantine"} /\ Severity(Action(m)) \in 0..2
<1>1. Total(m) \in Int /\ QuarantineAt(m) \in Nat /\ QuarantineAt(m) > m.tenant.warn /\ m.tenant.warn \in Nat
  BY TotalBound, ThresholdsOrdered, MessageTyped
<1>2. ByThresholds(m, Total(m)) \in {"forward", "warn_and_strip", "quarantine"}
  BY <1>1 DEF ByThresholds
<1>3. Action(m) \in {"forward", "warn_and_strip", "quarantine"}
  BY <1>2 DEF Action
<1> QED BY <1>3 DEF Severity

LEMMA HeavierIsNotMilder ==
  ASSUME TypeOK, NEW m \in Message, Valid(m), NEW n, Heavier(n, m)
  PROVE  Severity(Action(n)) >= Severity(Action(m))
<1>1. n \in Message /\ Valid(n) /\ n.tenant = m.tenant
  BY DEF Heavier, Valid
<1>2. \A s \in Stages : /\ Weighted(m, s) \in Nat /\ Weighted(n, s) \in Nat
                        /\ Weighted(n, s) >= Weighted(m, s)
  BY HeavierWeighs
<1>3. Severity(Action(m)) \in 0..2 /\ Severity(Action(n)) \in 0..2
  BY <1>1, SeverityRange
<1>4. CASE n.listed = "blocked"
  <2>1. Severity(Action(n)) = 2
    BY <1>4 DEF Action, Severity
  <2> QED BY <1>3, <2>1
<1>5. CASE n.listed # "blocked" /\ PassesByList(m)
  <2>1. m.listed # "blocked"
    BY <1>5 DEF PassesByList
  <2>2. Severity(Action(m)) = 0
    BY <1>5, <2>1 DEF Action, Severity
  <2> QED BY <1>3, <2>2
<1>6. CASE n.listed # "blocked" /\ ~PassesByList(m)
  <2>1. m.listed # "blocked" /\ (n.listed = "allowed" => m.listed = "allowed")
    BY <1>6 DEF Heavier
  <2>2. ~PassesByList(n)
    <3>1. CASE m.listed # "allowed"
      BY <2>1, <3>1 DEF PassesByList
    <3>2. CASE m.listed = "allowed"
      <4>1. PICK s \in Stages : ~(Weighted(m, s) < MalwareScore)
        BY <1>6, <3>2 DEF PassesByList
      <4>2. ~(Weighted(n, s) < MalwareScore)
        BY <1>2, <4>1 DEF MalwareScore
      <4> QED BY <4>2 DEF PassesByList
    <3> QED BY <3>1, <3>2
  <2>3. Action(m) = ByThresholds(m, Total(m)) /\ Action(n) = ByThresholds(n, Total(n))
    BY <1>6, <2>1, <2>2 DEF Action
  <2>4. QuarantineAt(n) <= QuarantineAt(m)
    <3>1. PICK w \in Nat, q \in Nat : w = m.tenant.warn /\ q = m.tenant.quarantine /\ w < q
      BY MessageTyped DEF Valid
    <3>2. m.vip \in BOOLEAN /\ n.vip \in BOOLEAN /\ (m.vip => n.vip)
      BY <1>1, MessageTyped DEF Heavier
    <3>3. Larger(w + 1, Smaller(q, VIPThreshold)) <= q /\ Larger(w + 1, Smaller(q, VIPThreshold)) \in Nat
      BY <3>1 DEF Larger, Smaller, VIPThreshold
    <3> QED BY <1>1, <3>1, <3>2, <3>3 DEF QuarantineAt
  <2>5. Total(m) \in Int /\ Total(n) \in Int /\ Total(m) <= Total(n)
    <3>1. Total(m) \in Int /\ Total(n) \in Int
      BY <1>1, TotalBound
    <3> DEFINE v(x) == IF x.vip THEN VIPBoost ELSE 0
               k(x) == IF IsCampaign(x) THEN CampaignBoost ELSE 0
    <3>2. PICK g \in Nat, h \in Nat : g = v(m) /\ h = v(n) /\ g <= h
      BY DEF Heavier, VIPBoost
    <3>3. PICK i \in Nat : i = k(m) /\ i = k(n)
      BY DEF Heavier, IsCampaign, CampaignBoost
    <3>4. PICK t \in Int : t = trust[m.domain] /\ t = trust[n.domain]
      BY MessageTyped DEF TypeOK, Heavier
    <3>5. /\ Total(m) = Weighted(m, "auth") + Weighted(m, "content") + Weighted(m, "attachments")
                        + trust[m.domain] + v(m) + k(m)
          /\ Total(n) = Weighted(n, "auth") + Weighted(n, "content") + Weighted(n, "attachments")
                        + trust[n.domain] + v(n) + k(n)
      BY DEF Total
    <3> HIDE DEF v, k
    <3>6. PICK a \in Nat, b \in Nat, c \in Nat :
            a = Weighted(m, "auth") /\ b = Weighted(m, "content") /\ c = Weighted(m, "attachments")
      BY <1>2 DEF Stages
    <3>7. PICK d \in Nat, e \in Nat, f \in Nat :
            /\ d = Weighted(n, "auth") /\ e = Weighted(n, "content") /\ f = Weighted(n, "attachments")
            /\ a <= d /\ b <= e /\ c <= f
      BY <1>2, <3>6 DEF Stages
    <3>8. Total(m) = a + b + c + t + g + i /\ Total(n) = d + e + f + t + h + i
      BY <3>2, <3>3, <3>4, <3>5, <3>6, <3>7, Zenon
    <3>9. a + b + c + t + g + i <= d + e + f + t + h + i
      BY <3>2, <3>7
    <3> QED BY <3>1, <3>8, <3>9, Zenon
  <2> QED BY <1>1, <2>3, <2>4, <2>5, GreaterIsNotMilder
<1> QED BY <1>4, <1>5, <1>6

(* More evidence against a message never makes the action on it milder,    *)
(* whatever the weights, thresholds, lists and memories are.               *)
THEOREM EvidenceNeverHelpsHolds == Spec => []EvidenceNeverHelps
<1>1. TypeOK => EvidenceNeverHelps
  BY WorsenedIsHeavier, HeavierIsNotMilder DEF EvidenceNeverHelps
<1>2. QED
  BY <1>1, TypeCorrect, PTL

-----------------------------------------------------------------------------
(* What the memories may do from one moment to the next.                   *)

LEMMA MoreOfACampaign ==
  ASSUME TypeOK, TypeOK', NEW m \in Message, IsCampaign(m),
         \A b \in Alike[m.body] : entries[b] <= entries'[b]
  PROVE  IsCampaign(m)'
<1> DEFINE D == Alike[m.body]
<1>1. m.body \in Bodies /\ D \in SUBSET Bodies
  BY DecisionAssumption DEF IsCampaign
<1>2. IsFiniteSet(D)
  BY <1>1, DecisionAssumption, FS_Subset
<1>3. \A b \in D : entries[b] \in Nat /\ entries'[b] \in Nat /\ entries[b] <= entries'[b]
  BY <1>1 DEF TypeOK, CampaignSize
<1> HIDE DEF D
<1>4. PICK x \in Nat, y \in Nat : x = SumFunctionOnSet(entries, D) /\ y = SumFunctionOnSet(entries', D) /\ x <= y
  BY <1>2, <1>3, SumNotLess
<1>5. x + 1 >= CampaignSize
  BY <1>4 DEF IsCampaign, D
<1>6. y + 1 >= CampaignSize
  BY <1>4, <1>5 DEF CampaignSize
<1> QED BY <1>1, <1>4, <1>6 DEF IsCampaign, D

LEMMA KeptInMind ==
  ASSUME TypeOK, TypeOK', [Next]_vars, NEW m \in Message, ~Forgives(m)
  PROVE  /\ trust[m.domain] <= trust'[m.domain]
         /\ m.body \in Bodies => \A b \in Alike[m.body] : entries[b] <= entries'[b]
<1>1. m.domain \in Domains /\ (m.body \in Bodies => Alike[m.body] \subseteq Bodies)
  BY MessageTyped, DecisionAssumption
<1>2. \A d \in Domains : trust[d] \in Int /\ trust[d] <= Ceiling
  BY DEF TypeOK, Floor, Ceiling
<1>3. \A b \in Bodies : entries[b] \in Nat /\ entries[b] <= CampaignSize
  BY DEF TypeOK, CampaignSize
<1>4. CASE \E b \in Bodies : Judge(b)
  BY <1>1, <1>2, <1>3, <1>4 DEF Judge, TypeOK, Smaller, CampaignSize
<1>5. CASE \E b \in Bodies : Expire(b)
  <2>1. PICK b \in Bodies : Expire(b)
    BY <1>5
  <2>2. m.body \in Bodies => b \notin Alike[m.body]
    BY <2>1 DEF Forgives
  <2>3. trust' = trust /\ \A c \in Bodies : c # b => entries'[c] = entries[c]
    BY <2>1 DEF Expire, TypeOK
  <2> QED BY <1>1, <1>2, <1>3, <2>2, <2>3
<1>6. CASE \E d \in Domains : Release(d)
  <2>1. PICK d \in Domains : Release(d) /\ d # m.domain
    BY <1>6 DEF Forgives
  <2>2. entries' = entries /\ trust'[m.domain] = trust[m.domain]
    BY <1>1, <2>1 DEF Release, TypeOK
  <2> QED BY <1>1, <1>2, <1>3, <2>2
<1>7. CASE \E d \in Domains : Reject(d)
  BY <1>1, <1>2, <1>3, <1>7 DEF Reject, TypeOK, Smaller, Step, Ceiling
<1>8. CASE UNCHANGED vars
  BY <1>1, <1>2, <1>3, <1>8 DEF vars
<1> QED BY <1>4, <1>5, <1>6, <1>7, <1>8 DEF Next, Forgives

(* An action on a message becomes milder only once its own domain was      *)
(* released, a text like it has expired, or the memories were lost.        *)
THEOREM MilderOnlyOnceForgivenHolds == Spec => MilderOnlyOnceForgiven
<1>1. ASSUME TypeOK, TypeOK', [Next]_vars, NEW m \in Message, Valid(m), ~Forgives(m)
      PROVE  Severity(Action(m))' >= Severity(Action(m))
  <2>1. Severity(Action(m)) \in 0..2
    BY <1>1, SeverityRange
  <2>2. CASE m.listed = "blocked" \/ PassesByList(m)
    <3>1. Action(m)' = Action(m)
      BY <2>2 DEF Action, PassesByList, Weighted
    <3> QED BY <2>1, <3>1
  <2>3. CASE m.listed # "blocked" /\ ~PassesByList(m)
    <3>1. Action(m) = ByThresholds(m, Total(m)) /\ Action(m)' = ByThresholds(m, Total(m)')
      BY <2>3 DEF Action, PassesByList, Weighted, ByThresholds, QuarantineAt
    <3>2. Total(m) \in Int
      BY <1>1, TotalBound
    <3>3. trust[m.domain] \in Int /\ trust'[m.domain] \in Int /\ trust[m.domain] <= trust'[m.domain]
      BY <1>1, KeptInMind, MessageTyped DEF TypeOK
    <3>4. IsCampaign(m) => IsCampaign(m)'
      <4>1. IsCampaign(m) => m.body \in Bodies
        BY DEF IsCampaign
      <4> QED BY <1>1, <4>1, KeptInMind, MoreOfACampaign
    <3>5. Total(m)' \in Int /\ Total(m) <= Total(m)'
      <4> DEFINE a == Weighted(m, "auth") + Weighted(m, "content") + Weighted(m, "attachments")
                 v == IF m.vip THEN VIPBoost ELSE 0
                 k == IF IsCampaign(m) THEN CampaignBoost ELSE 0
                 l == IF IsCampaign(m)' THEN CampaignBoost ELSE 0
      <4>1. a \in Nat
        BY WeightedTyped DEF Stages
      <4>2. v \in Nat
        BY DEF VIPBoost
      <4>3. k \in Nat /\ l \in Nat /\ k <= l
        BY <3>4 DEF CampaignBoost
      <4>4. Total(m) = a + trust[m.domain] + v + k /\ Total(m)' = a + trust'[m.domain] + v + l
        BY DEF Total, Weighted
      <4> HIDE DEF a, v, k, l
      <4> QED BY <3>3, <4>1, <4>2, <4>3, <4>4
    <3>6. QuarantineAt(m) <= QuarantineAt(m)
      BY <1>1, ThresholdsOrdered
    <3>7. Severity(ByThresholds(m, Total(m)')) >= Severity(ByThresholds(m, Total(m)))
      BY <1>1, <3>2, <3>5, <3>6, GreaterIsNotMilder
    <3> QED BY <3>1, <3>7 DEF Severity
  <2> QED BY <2>2, <2>3
<1>2. TypeOK /\ TypeOK' /\ [Next]_vars =>
        [\A m \in Message : Valid(m) /\ ~Forgives(m) => Severity(Action(m))' >= Severity(Action(m))]_vars
  BY <1>1
<1>3. QED
  BY <1>2, TypeCorrect, PTL DEF Spec, MilderOnlyOnceForgiven
=============================================================================
