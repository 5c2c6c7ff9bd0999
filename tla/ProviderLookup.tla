---------------------------- MODULE ProviderLookup ----------------------------
(***************************************************************************)
(* A lookup at a reputation provider (content_analysis/reputation.py,      *)
(* attachment_analysis/reputation.py): the cache of                        *)
(* content_analysis/caching.py around the circuit breaker around the       *)
(* retries of resilience/retry.py.  Many messages are analysed at once,    *)
(* so many lookups share one breaker and one cache, and interleave at      *)
(* every await: reading the cache, each attempt, each back-off, writing    *)
(* the cache.                                                              *)
(***************************************************************************)
EXTENDS CircuitBreaker

CONSTANTS Lookups,      \* lookups that may be underway at a time (bound)
          Subjects,     \* the URLs, domains or hashes looked up
          Malformed,    \* subjects whose request raises no httpx.RequestError
                        \* but, say, httpx.InvalidURL
          MaxAttempts   \* max_attempts of with_retry

ASSUME LookupAssumption == MaxAttempts \in Nat \ {0} /\ Malformed \subseteq Subjects

VARIABLES at,       \* at[l]: where lookup l stands
          subject,  \* subject[l]: what l looks up
          tries,    \* tries[l]: attempts begun
          found,    \* found[l]: the verdict of l, or "none"
          cache,    \* cache[s]: the cached verdict on s, or "none"
          well      \* the provider can be reached

lvars == <<at, subject, tries, found, cache, well>>
vars  == <<bvars, lvars>>

(* "known" is any verdict the provider gave; "unknown" is a failed lookup  *)
(* or an answer without a verdict.                                         *)
Verdicts == {"known", "unknown"}
InFlight == {"attempt", "backoff"}
Underway == {"read", "ask", "write"} \cup InFlight

TypeOK ==
  /\ BTypeOK
  /\ at      \in [Lookups -> {"idle"} \cup Underway]
  /\ subject \in [Lookups -> Subjects]
  /\ tries   \in [Lookups -> 0..MaxAttempts]
  /\ found   \in [Lookups -> Verdicts \cup {"none"}]
  /\ cache   \in [Subjects -> Verdicts \cup {"none"}]
  /\ well    \in BOOLEAN

Init ==
  /\ BInit
  /\ at      = [l \in Lookups |-> "idle"]
  /\ subject \in [Lookups -> Subjects]
  /\ tries   = [l \in Lookups |-> 0]
  /\ found   = [l \in Lookups |-> "none"]
  /\ cache   = [s \in Subjects |-> "none"]
  /\ well    = TRUE

Move(l, from, to) == at[l] = from /\ at' = [at EXCEPT ![l] = to]

Yields(l, v) == found' = [found EXCEPT ![l] = v]

Begin(l, s) ==
  /\ Move(l, "idle", "read")
  /\ subject' = [subject EXCEPT ![l] = s]
  /\ tries' = [tries EXCEPT ![l] = 0]
  /\ Yields(l, "none")
  /\ UNCHANGED <<bvars, cache, well>>

-----------------------------------------------------------------------------
(* The cache.                                                              *)

Hit(l) ==
  /\ cache[subject[l]] # "none"
  /\ Move(l, "read", "idle")
  /\ Yields(l, cache[subject[l]])
  /\ UNCHANGED <<bvars, subject, tries, cache, well>>

Miss(l) ==
  /\ cache[subject[l]] = "none"
  /\ Move(l, "read", "ask")
  /\ UNCHANGED <<bvars, subject, tries, found, cache, well>>

(* A failed lookup is cached too, for a shorter time.                      *)
Write(l) ==
  /\ Move(l, "write", "idle")
  /\ cache' = [cache EXCEPT ![subject[l]] = found[l]]
  /\ UNCHANGED <<bvars, subject, tries, found, well>>

(* Redis raises: the exception leaves the lookup.                          *)
StoreRaises(l) ==
  /\ Move(l, "read", "idle") \/ Move(l, "write", "idle")
  /\ UNCHANGED <<bvars, subject, tries, found, cache, well>>

-----------------------------------------------------------------------------
(* CircuitBreaker.call around with_retry around the request.               *)

Refused(l) ==
  /\ Move(l, "ask", "write")
  /\ Refuses
  /\ Yields(l, "unknown")
  /\ UNCHANGED <<subject, tries, cache, well>>

LetThrough(l) ==
  /\ Move(l, "ask", "attempt")
  /\ LetsThrough
  /\ tries' = [tries EXCEPT ![l] = 1]
  /\ UNCHANGED <<subject, found, cache, well>>

(* An HTTP response, with whatever status, is a success for the breaker.   *)
Answered(l, v) ==
  /\ well
  /\ subject[l] \notin Malformed
  /\ Move(l, "attempt", "write")
  /\ RecordSuccess
  /\ Yields(l, v)
  /\ UNCHANGED <<subject, tries, cache, well>>

(* A response whose JSON has another shape than the parser handles: for    *)
(* the breaker a success, but the exception leaves the lookup.             *)
AnsweredOddly(l) ==
  /\ well
  /\ subject[l] \notin Malformed
  /\ Move(l, "attempt", "idle")
  /\ RecordSuccess
  /\ UNCHANGED <<subject, tries, found, cache, well>>

(* httpx.RequestError with attempts left.                                  *)
Breaks(l) ==
  /\ ~well
  /\ subject[l] \notin Malformed
  /\ tries[l] < MaxAttempts
  /\ Move(l, "attempt", "backoff")
  /\ UNCHANGED <<bvars, subject, tries, found, cache, well>>

BackoffEnds(l) ==
  /\ Move(l, "backoff", "attempt")
  /\ tries' = [tries EXCEPT ![l] = @ + 1]
  /\ UNCHANGED <<bvars, subject, found, cache, well>>

(* A deliberate fault: the last failed attempt starts the loop over.       *)
Exhausted_StartsOver(l) ==
  /\ ~well
  /\ subject[l] \notin Malformed
  /\ tries[l] = MaxAttempts
  /\ Move(l, "attempt", "backoff")
  /\ tries' = [tries EXCEPT ![l] = 0]
  /\ UNCHANGED <<bvars, subject, found, cache, well>>

(* RetryExhausted: one failure for the breaker, "unknown" for the caller.  *)
Exhausted(l) ==
  /\ ~well
  /\ subject[l] \notin Malformed
  /\ tries[l] = MaxAttempts
  /\ Move(l, "attempt", "write")
  /\ RecordFailure
  /\ Yields(l, "unknown")
  /\ UNCHANGED <<subject, tries, cache, well>>

(* Any other exception is not retried: a failure for the breaker, and it   *)
(* leaves the lookup.                                                      *)
Raises(l) ==
  /\ subject[l] \in Malformed
  /\ Move(l, "attempt", "idle")
  /\ RecordFailure
  /\ UNCHANGED <<subject, tries, found, cache, well>>

-----------------------------------------------------------------------------
TimePasses == Tick /\ UNCHANGED lvars

CacheExpires(s) ==
  /\ cache[s] # "none"
  /\ cache' = [cache EXCEPT ![s] = "none"]
  /\ UNCHANGED <<bvars, at, subject, tries, found, well>>

(* The provider goes down or comes back.                                   *)
Turns ==
  /\ well' = ~well
  /\ UNCHANGED <<bvars, at, subject, tries, found, cache>>

LookupStep(l) ==
  \/ Hit(l) \/ Miss(l) \/ Write(l) \/ StoreRaises(l)
  \/ Refused(l) \/ LetThrough(l)
  \/ AnsweredOddly(l) \/ \E v \in Verdicts : Answered(l, v)
  \/ Breaks(l) \/ BackoffEnds(l) \/ Exhausted(l) \/ Raises(l)

Next ==
  \/ \E l \in Lookups, s \in Subjects : Begin(l, s)
  \/ \E l \in Lookups : LookupStep(l)
  \/ TimePasses
  \/ \E s \in Subjects : CacheExpires(s)
  \/ Turns

Spec == Init /\ [][Next]_vars

(* The event loop runs every lookup: a request, a back-off and the store   *)
(* answer or time out.  Time passes.  Nothing obliges mail to come in, a   *)
(* cached verdict to expire or the provider to recover.                    *)
Fairness == (\A l \in Lookups : WF_vars(LookupStep(l))) /\ WF_vars(TimePasses)

FairSpec == Spec /\ Fairness

-----------------------------------------------------------------------------
(* Properties.                                                             *)

(* Every lookup ends, however long the provider stays down.                *)
LookupsEnd == \A l \in Lookups : at[l] \in Underway ~> at[l] = "idle"

(* Once the provider stays reachable, the circuit closes for good if       *)
(* lookups keep reaching it: late failures of calls begun before, and      *)
(* calls that end out of order, cannot keep it open.  Lookups that fail    *)
(* whatever the provider answers must end too: each counts as a failure.   *)
CircuitRecovers ==
  (/\ <>[](well /\ \A l \in Lookups : at[l] \in Underway => subject[l] \notin Malformed)
   /\ []<>(\E l \in Lookups : at[l] = "ask"))
    => <>[](state = "closed")
=============================================================================
