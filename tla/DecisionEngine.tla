---------------------------- MODULE DecisionEngine ----------------------------
(***************************************************************************)
(* decision_engine: how the scores of the three analysis stages become one *)
(* action (scorer.py), and the two memories of the engine that bend the    *)
(* sum: what administrators and users have said of a sender's domain       *)
(* (feedback_loop.py) and which messages of the last hour look alike       *)
(* (campaign_clustering.py).  Both live in the process.                    *)
(*                                                                         *)
(* decide() itself changes nothing: it is the operator Action, and the     *)
(* invariants say of every reachable memory what any message would get.    *)
(* Weights are counted in halves; every stage score is a sum of points and *)
(* never negative, so int() truncates as \div does.                        *)
(***************************************************************************)
EXTENDS Integers, FiniteSets, Functions

CONSTANTS Domains,  \* sender domains
          Bodies,   \* texts, up to digits and word order
          Alike,    \* Alike[b]: the texts within the Hamming distance of b
          NoBody,   \* an empty text: no campaign is looked for
          Tenants,  \* TenantConfig: warn, quarantine, weights (in halves)
          Scores    \* scores that one stage may give

Stages == {"auth", "content", "attachments"}

ASSUME DecisionAssumption ==
  /\ NoBody \notin Bodies /\ IsFiniteSet(Bodies)
  /\ Alike \in [Bodies -> SUBSET Bodies]
  /\ Tenants \subseteq [warn : Nat \ {0}, quarantine : Nat, weights : [Stages -> Nat]]
  /\ Scores \subseteq Nat

VARIABLES trust,    \* trust[d]: _domain_scores, negative for a trusted domain
          entries,  \* entries[b]: messages with text b in the last hour
          streak    \* rejections of d since its last release (bookkeeping)

vars == <<trust, entries, streak>>

Step == 15
Floor == 40
Ceiling == 50
VIPBoost == 25
VIPThreshold == 45
CampaignBoost == 20
CampaignSize == 3
MalwareScore == 100

Larger(a, b)  == IF a >= b THEN a ELSE b
Smaller(a, b) == IF a <= b THEN a ELSE b

TypeOK ==
  /\ trust   \in [Domains -> (-Floor)..Ceiling]
  /\ entries \in [Bodies -> 0..CampaignSize]
  /\ streak  \in [Domains -> 0..3]

Init ==
  /\ trust   = [d \in Domains |-> 0]
  /\ entries = [b \in Bodies |-> 0]
  /\ streak  = [d \in Domains |-> 0]

-----------------------------------------------------------------------------
(* decide().                                                               *)

Message == [domain : Domains, body : Bodies \cup {NoBody}, stages : [Stages -> Scores],
            tenant : Tenants, listed : {"no", "allowed", "blocked"}, vip : BOOLEAN]

(* Otherwise decide() raises ValueError.                                   *)
Valid(m) == m.tenant.warn < m.tenant.quarantine

QuarantineAt(m) ==
  IF m.vip THEN Larger(m.tenant.warn + 1, Smaller(m.tenant.quarantine, VIPThreshold))
           ELSE m.tenant.quarantine

Weighted(m, s) == (m.stages[s] * m.tenant.weights[s]) \div 2

(* A deliberate fault: only a campaign of just that size is one.           *)
IsCampaign_Exactly(m) ==
  /\ m.body \in Bodies
  /\ SumFunctionOnSet(entries, Alike[m.body]) + 1 = CampaignSize

IsCampaign(m) ==
  /\ m.body \in Bodies
  /\ SumFunctionOnSet(entries, Alike[m.body]) + 1 >= CampaignSize

(* A deliberate fault: the stages that found something are averaged.       *)
Total_Averaged(m) ==
  LET found == {s \in Stages : m.stages[s] > 0}
  IN  (Weighted(m, "auth") + Weighted(m, "content") + Weighted(m, "attachments"))
        \div (IF found = {} THEN 1 ELSE Cardinality(found))
      + trust[m.domain]
      + (IF m.vip THEN VIPBoost ELSE 0)
      + (IF IsCampaign(m) THEN CampaignBoost ELSE 0)

Total(m) ==
  Weighted(m, "auth") + Weighted(m, "content") + Weighted(m, "attachments")
  + trust[m.domain]
  + (IF m.vip THEN VIPBoost ELSE 0)
  + (IF IsCampaign(m) THEN CampaignBoost ELSE 0)

(* A deliberate fault: the allowlist is obeyed whatever the scores.        *)
PassesByList_Always(m) == m.listed = "allowed"

PassesByList(m) ==
  /\ m.listed = "allowed"
  /\ \A s \in Stages : Weighted(m, s) < MalwareScore

ByThresholds(m, n) ==
  CASE n >= QuarantineAt(m)                      -> "quarantine"
    [] n >= m.tenant.warn /\ n < QuarantineAt(m) -> "warn_and_strip"
    [] n < m.tenant.warn /\ n < QuarantineAt(m)  -> "forward"

Action(m) ==
  IF m.listed = "blocked" THEN "quarantine"
  ELSE IF PassesByList(m) THEN "forward"
  ELSE ByThresholds(m, Total(m))

(* total_score of the decision, which the audit log keeps.                 *)
Score(m) ==
  IF m.listed = "blocked" THEN Larger(Total(m), QuarantineAt(m))
  ELSE IF PassesByList(m) THEN 0
  ELSE Total(m)

-----------------------------------------------------------------------------
(* A message is scored: its text is registered, before decide() is called  *)
(* and whether or not that raises.                                         *)
Judge(b) ==
  /\ entries' = [entries EXCEPT ![b] = Smaller(@ + 1, CampaignSize)]
  /\ UNCHANGED <<trust, streak>>

(* The oldest entries fall out of the window of an hour.                   *)
Expire(b) ==
  /\ \E n \in 0..CampaignSize : n < entries[b] /\ entries' = [entries EXCEPT ![b] = n]
  /\ UNCHANGED <<trust, streak>>

(* record_feedback("release"), once for each call, even on the same item.  *)
Release(d) ==
  /\ trust' = [trust EXCEPT ![d] = Larger(@ - Step, -Floor)]
  /\ streak' = [streak EXCEPT ![d] = 0]
  /\ UNCHANGED entries

(* A deliberate fault: the step that the comment on _domain_scores names.  *)
Reject_StepOfTen(d) ==
  /\ trust' = [trust EXCEPT ![d] = Smaller(@ + 10, Ceiling)]
  /\ streak' = [streak EXCEPT ![d] = Smaller(@ + 1, 3)]
  /\ UNCHANGED entries

(* record_feedback("reject"): an administrator's rejection of an item or a *)
(* user's report of a message.                                             *)
Reject(d) ==
  /\ trust' = [trust EXCEPT ![d] = Smaller(@ + Step, Ceiling)]
  /\ streak' = [streak EXCEPT ![d] = Smaller(@ + 1, 3)]
  /\ UNCHANGED entries

(* The process is started again: nothing of this is on disk.               *)
Restart ==
  /\ trust'   = [d \in Domains |-> 0]
  /\ entries' = [b \in Bodies |-> 0]
  /\ streak'  = [d \in Domains |-> 0]

Next ==
  \/ \E b \in Bodies : Judge(b) \/ Expire(b)
  \/ \E d \in Domains : Release(d) \/ Reject(d)
  \/ Restart

Spec == Init /\ [][Next]_vars

-----------------------------------------------------------------------------
(* Properties.                                                             *)

HasMalware(m) == \E s \in Stages : m.stages[s] >= MalwareScore

(* However much credit releases have given a domain, and whatever list its *)
(* sender is on, a message in which one stage found malware (+100) is not  *)
(* forwarded unchanged.  Holds for weights of at least one and a warning   *)
(* threshold of at most 60.                                                *)
MalwareIsNeverForwarded ==
  \A m \in Message : Valid(m) /\ HasMalware(m) => Action(m) # "forward"

(* What more evidence makes of a message: a higher score of a stage, a     *)
(* look-alike of a VIP's name, an allowance withdrawn, a block.            *)
Worsened(m) ==
  (UNION {{[m EXCEPT !.stages[s] = x] : x \in {y \in Scores : y > m.stages[s]}} : s \in Stages}) \cup
  {[m EXCEPT !.vip = TRUE], [m EXCEPT !.listed = "blocked"],
   [m EXCEPT !.listed = IF @ = "allowed" THEN "no" ELSE @]}

Severity(a) == CASE a = "forward" -> 0 [] a = "warn_and_strip" -> 1 [] a = "quarantine" -> 2

(* Whatever the tenant's weights and thresholds, the lists, the lowered    *)
(* threshold for a VIP and the memories: no further evidence against a     *)
(* message makes the action on it milder.                                  *)
EvidenceNeverHelps ==
  \A m \in Message : Valid(m) =>
    LET before == Severity(Action(m))
    IN  \A n \in Worsened(m) : Severity(Action(n)) >= before

(* Only these make the engine think better of a message.                   *)
Forgives(m) ==
  \/ Release(m.domain) \/ Restart
  \/ m.body \in Bodies /\ \E b \in Alike[m.body] : Expire(b)

(* A message gets a milder action than a moment before only because its    *)
(* own domain was released, a text like it was forgotten or the process    *)
(* was started again: not because of what is said of other domains, and    *)
(* never because more of its campaign came in or its domain was rejected.  *)
MilderOnlyOnceForgiven ==
  [][\A m \in Message : Valid(m) /\ ~Forgives(m) => Severity(Action(m))' >= Severity(Action(m))]_vars

(* The score and the thresholds that the audit log and the explainability  *)
(* report show account for the action taken, also when a list decided it.  *)
ScoreExplainsAction ==
  \A m \in Message : Valid(m) => Action(m) = ByThresholds(m, Score(m))

(* docs/modules/decision_engine.md: an allowlisted sender cannot bypass a  *)
(* stage score of 100 or more: such a message gets the action it would get *)
(* without the list.                                                       *)
AllowlistNeverBypassesMalware ==
  \A m \in Message : Valid(m) /\ m.listed = "allowed" /\ HasMalware(m) =>
    Action(m) = Action([m EXCEPT !.listed = "no"])

(* Three rejections in a row undo whatever credit a domain had: no history *)
(* of releases makes a domain immune to feedback.                          *)
RejectsUndoCredit == \A d \in Domains : streak[d] = 3 => trust[d] >= 0
=============================================================================
