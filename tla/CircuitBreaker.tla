---------------------------- MODULE CircuitBreaker ----------------------------
(***************************************************************************)
(* resilience/circuit_breaker.py: the breaker that all calls of one        *)
(* provider share.  The reading of the clock is cooling, the time left     *)
(* until reset_timeout has passed since the circuit opened.                *)
(***************************************************************************)
EXTENDS Naturals

CONSTANTS Threshold,     \* failure_threshold
          ResetTimeout   \* reset_timeout, in ticks

ASSUME BreakerAssumption == Threshold \in Nat \ {0} /\ ResetTimeout \in Nat \ {0}

VARIABLES state,     \* _state
          failures,  \* _consecutive_failures, which matters only up to Threshold
          cooling    \* ticks until an open circuit may be tried

bvars == <<state, failures, cooling>>

BTypeOK ==
  /\ state \in {"closed", "open", "half_open"}
  /\ failures \in 0..Threshold
  /\ cooling \in 0..ResetTimeout

BInit == state = "closed" /\ failures = 0 /\ cooling = 0

(* A deliberate fault: the timeout is not looked at.                       *)
Seen_NoTimeout == state

(* The property `state`: reading it turns an open circuit half open when   *)
(* the timeout has passed.                                                 *)
Seen == IF state = "open" /\ cooling = 0 THEN "half_open" ELSE state

Refuses == Seen = "open" /\ UNCHANGED bvars

LetsThrough ==
  /\ Seen # "open"
  /\ state' = Seen
  /\ UNCHANGED <<failures, cooling>>

RecordSuccess ==
  /\ state' = "closed"
  /\ failures' = 0
  /\ cooling' = 0

(* From the Threshold-th failure in a row on, every failure opens the      *)
(* circuit and starts the timeout anew, whatever state it is in.           *)
RecordFailure ==
  \/ /\ failures + 1 < Threshold
     /\ failures' = failures + 1
     /\ UNCHANGED <<state, cooling>>
  \/ /\ failures + 1 >= Threshold
     /\ failures' = Threshold
     /\ state' = "open"
     /\ cooling' = ResetTimeout

Tick ==
  /\ cooling > 0
  /\ cooling' = cooling - 1
  /\ UNCHANGED <<state, failures>>

-----------------------------------------------------------------------------
(* The circuit is open or half open exactly when the last Threshold calls  *)
(* that ended have failed, in whatever order concurrent calls end.         *)
StateMatchesFailures == state = "closed" <=> failures < Threshold
=============================================================================
