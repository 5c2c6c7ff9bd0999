----------------------------- MODULE AuthChecks -----------------------------
(***************************************************************************)
(* What authentication adds to a message's score (auth_checker/pipeline.py *)
(* and the checks it calls): DKIM, DMARC with its alignment, ARC, forward- *)
(* confirmed reverse DNS, the blocklist of addresses and the sender's      *)
(* history, which one process keeps for all its messages.  The result of   *)
(* SPF comes with the message; how it comes about is the module SPF.       *)
(***************************************************************************)
EXTENDS Naturals, Sequences

CONSTANTS Names,        \* domain names
          NoName,       \* no address, or one without a domain
          Org,          \* _org_domain: the organizational domain of a name
          DMARCZones,   \* what the names may publish under _dmarc
          Mail,         \* the messages that arrive
          Established,  \* messages after which a new network is an anomaly
          MaxSeen,      \* bound on the messages of a process
          MaxLives      \* bound on the restarts

(* A DMARC record, or none, several, or a query that fails; "missing" is a *)
(* record without p.                                                       *)
Policies == {"reject", "quarantine", "none"}
DMARCRecords ==
  [kind : {"record"}, p : Policies \cup {"missing"}, aspf : {"r", "s"}, adkim : {"r", "s"}]
DMARCAnswers == DMARCRecords \cup [kind : {"none", "several", "error"}]

Message ==
  [ from   : Names \cup {NoName},  \* the visible sender's domain
    env    : Names \cup {NoName},  \* the envelope sender's domain
    spf    : {"pass", "fail", "softfail", "neutral", "none", "permerror", "temperror"},
    parses : BOOLEAN,              \* its headers can be read
    sigs   : Seq([d : Names, ok : BOOLEAN]),  \* DKIM signatures: domain, verifies
    sha1   : BOOLEAN,              \* the first signature uses SHA-1
    arc    : [seal : BOOLEAN, cvfail : BOOLEAN, chain : {"valid", "invalid", "ended", "raises"}],
    ptr    : Seq(BOOLEAN),         \* the client's PTR names: do they lead back
    net    : STRING,               \* the client's subnet
    listed : BOOLEAN ]             \* the client is on the blocklist

ASSUME AuthAssumption ==
  /\ NoName \notin Names
  /\ Org \in [Names -> Names] /\ \A d \in Names : Org[Org[d]] = Org[d]
  /\ \A z \in DMARCZones : z \in [Names -> DMARCAnswers]
  /\ \A m \in Mail : m \in Message
  /\ Established \in Nat \ {0} /\ MaxSeen \in Nat /\ MaxLives \in Nat

VARIABLES dmarc,     \* the DMARC records published
          history,   \* SenderBaselineStore: messages and networks of each name
          judged,    \* the last message and what it was charged
          greeted,   \* how often each name was charged for first contact
          seen,      \* messages of this process
          lives      \* restarts

authvars == <<dmarc, history, judged, greeted, seen, lives>>

Nobody == [count |-> 0, nets |-> {}]

AuthTypeOK ==
  /\ dmarc \in [Names -> DMARCAnswers]
  /\ \A d \in Names : history[d].count \in Nat /\ history[d].nets \subseteq STRING
  /\ judged = << >> \/ (judged[1] \in Mail /\ judged[2] \in Nat)
  /\ greeted \in [Names -> Nat] /\ seen \in 0..MaxSeen /\ lives \in 0..MaxLives

AuthInit ==
  /\ dmarc \in DMARCZones
  /\ history = [d \in Names |-> Nobody]
  /\ judged = << >>
  /\ greeted = [d \in Names |-> 0]
  /\ seen = 0 /\ lives = 0

-----------------------------------------------------------------------------
(* The checks.                                                             *)

EnvelopeDomain(m) == IF m.env = NoName THEN m.from ELSE m.env

(* check_dkim: the first signature that verifies.                          *)
Verifying(m) == {i \in DOMAIN m.sigs : m.parses /\ m.sigs[i].ok}
Signer(m) == m.sigs[CHOOSE i \in Verifying(m) : \A j \in Verifying(m) : i <= j].d
DKIMCode(m) ==
  IF ~m.parses THEN "permerror"
  ELSE IF m.sigs = << >> THEN "none" ELSE IF Verifying(m) = {} THEN "fail" ELSE "pass"

(* fetch_dmarc_policy: the name's own record, else its organization's.     *)
(* None and several count as no record; after a query that failed nothing  *)
(* is compared, as without a record.                                       *)
DMARCRecordOf(d) ==
  IF d = NoName THEN [kind |-> "none"]
  ELSE IF dmarc[d].kind \in {"none", "several"} THEN dmarc[Org[d]]
  ELSE dmarc[d]

(* _domains_aligned.                                                       *)
IsAligned(d, from, mode) == d # NoName /\ from # NoName /\
  IF mode = "s" THEN d = from ELSE Org[d] = Org[from]

(* A deliberate fault: the envelope's own pass is enough.                  *)
DMARCCode_AnyDomain(m) ==
  LET r == DMARCRecordOf(m.from)
  IN IF r.kind # "record" THEN "none"
     ELSE IF r.p = "missing" THEN "permerror"
     ELSE IF \/ m.spf = "pass"
             \/ DKIMCode(m) = "pass" /\ IsAligned(Signer(m), m.from, r.adkim)
     THEN "pass" ELSE "fail"

(* evaluate_dmarc: an aligned pass of either kind.                         *)
DMARCCode(m) ==
  LET r == DMARCRecordOf(m.from)
  IN IF r.kind # "record" THEN "none"
     ELSE IF r.p = "missing" THEN "permerror"
     ELSE IF \/ m.spf = "pass" /\ IsAligned(EnvelopeDomain(m), m.from, r.aspf)
             \/ DKIMCode(m) = "pass" /\ IsAligned(Signer(m), m.from, r.adkim)
     THEN "pass" ELSE "fail"

(* check_arc: a seal, no cv=fail anywhere in the message, and a verifier   *)
(* that answers.  Its answer is only tested for being there: nothing for a *)
(* chain that has ended, but a name for an invalid one as for a valid one. *)
ARCCode(m) ==
  IF ~m.arc.seal THEN "none"
  ELSE IF m.arc.cvfail \/ m.arc.chain = "ended" THEN "fail"
  ELSE IF m.arc.chain = "raises" THEN "permerror" ELSE "pass"

(* check_fcrdns fails if there are PTR names and none leads back.          *)
FCrDNSFails(m) == m.ptr # << >> /\ \A i \in DOMAIN m.ptr : ~m.ptr[i]

-----------------------------------------------------------------------------
(* The points.                                                             *)

SpfPoints == [pass |-> 0, neutral |-> 0, none |-> 0, fail |-> 30, softfail |-> 15,
              permerror |-> 5, temperror |-> 5]
DkimPoints == [pass |-> 0, none |-> 15, fail |-> 30, permerror |-> 5]
DmarcPoints == [reject |-> 50, quarantine |-> 35, none |-> 10]

(* A chain that passes stands in for a failed SPF or DMARC, and for DKIM.  *)
AuthenticationPoints(m) ==
  IF ARCCode(m) = "pass" /\ (m.spf = "fail" \/ DMARCCode(m) = "fail") THEN 5
  ELSE SpfPoints[m.spf] + DkimPoints[DKIMCode(m)]
       + IF DMARCCode(m) = "fail" THEN DmarcPoints[DMARCRecordOf(m.from).p] ELSE 0

(* evaluate_sender_baseline.                                               *)
BaselineDomain(m) == IF m.from # NoName THEN m.from ELSE EnvelopeDomain(m)
IsFirstContact(m) == BaselineDomain(m) # NoName /\ history[BaselineDomain(m)].count = 0
IsNewNetwork(m) ==
  /\ BaselineDomain(m) # NoName
  /\ history[BaselineDomain(m)].count >= Established
  /\ m.net # "" /\ m.net \notin history[BaselineDomain(m)].nets

(* evaluate_dkim_policy, check_connecting_ip_reputation.                   *)
DkimPolicyPoints(m) == IF m.sha1 THEN 20 ELSE 0
IPReputationPoints(m) == IF m.listed THEN 40 ELSE 0

Points(m) ==
  AuthenticationPoints(m)
  + (IF FCrDNSFails(m) THEN 15 ELSE 0)
  + (IF IsFirstContact(m) \/ IsNewNetwork(m) THEN 10 ELSE 0)
  + DkimPolicyPoints(m) + IPReputationPoints(m)

(* run_auth_checks, in one step of the event loop: the message is judged   *)
(* by the history without it and then recorded.                            *)
RunAuthChecks(m) ==
  /\ seen < MaxSeen
  /\ seen' = seen + 1
  /\ judged' = <<m, Points(m)>>
  /\ LET d == BaselineDomain(m) IN
       IF d = NoName THEN UNCHANGED <<history, greeted>>
       ELSE /\ history' = [history EXCEPT
                 ![d].count = @ + 1,
                 ![d].nets = IF m.net = "" THEN @ ELSE @ \cup {m.net}]
            /\ greeted' = IF IsFirstContact(m) THEN [greeted EXCEPT ![d] = @ + 1] ELSE greeted
  /\ UNCHANGED <<dmarc, lives>>

(* The history is in memory only.                                          *)
HistoryLost ==
  /\ lives < MaxLives /\ lives' = lives + 1
  /\ history' = [d \in Names |-> Nobody]
  /\ seen' = 0 /\ judged' = << >>
  /\ UNCHANGED <<dmarc, greeted>>

AuthNext == HistoryLost \/ \E m \in Mail : RunAuthChecks(m)

AuthSpec == AuthInit /\ [][AuthNext]_authvars

-----------------------------------------------------------------------------
(* Some identity of the message, whichever signature carries it, is in the *)
(* organization of the visible sender.                                     *)
Authentic(m) ==
  /\ m.from # NoName
  /\ \/ m.spf = "pass" /\ Org[EnvelopeDomain(m)] = Org[m.from]
     \/ \E i \in Verifying(m) : Org[m.sigs[i].d] = Org[m.from]

Enforces(d, p) ==
  LET answer == IF dmarc[d].kind = "record" \/ dmarc[d].kind = "error" THEN dmarc[d] ELSE dmarc[Org[d]]
  IN answer.kind = "record" /\ answer.p = p

(* A message that nobody in the visible sender's organization vouches for  *)
(* is charged at least what that organization's policy asks, 50 points for *)
(* reject and 35 for quarantine: passing SPF or DKIM for somebody else's   *)
(* domain buys it nothing.  A seal that check_arc passes does; what it     *)
(* costs then are five points.                                             *)
SpoofedIsCharged ==
  judged # << >> =>
    LET m == judged[1]
        Least(n) == IF ARCCode(m) = "pass" THEN 5 ELSE n
    IN ~Authentic(m) /\ m.from # NoName =>
         /\ Enforces(m.from, "reject") => judged[2] >= Least(50)
         /\ Enforces(m.from, "quarantine") => judged[2] >= Least(35)

(* Every name is charged for first contact at most once in the life of a   *)
(* process, and no message of a name that is still unknown escapes it.     *)
GreetedOnce ==
  \A d \in Names :
    /\ greeted[d] <= lives + 1
    /\ history[d].count > 0 => greeted[d] > 0

(* What a message is charged for, it has earned.                           *)
ChargesAreEarned == SpoofedIsCharged /\ GreetedOnce
=============================================================================
