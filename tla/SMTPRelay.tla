------------------------------ MODULE SMTPRelay ------------------------------
(***************************************************************************)
(* delivery/relay.py with resilience/retry.py: one call of SMTPRelay.send  *)
(* by each task.  A connection-level failure is retried, up to MaxAttempts *)
(* attempts in all; a reply of the destination that rejects the message    *)
(* becomes a RelayError at once; any other exception escapes from send.    *)
(* The connection may break after the destination has taken the message:   *)
(* the caller then sees a failure although a copy was delivered.           *)
(***************************************************************************)
EXTENDS Naturals

CONSTANTS Senders,      \* the tasks that call send
          MaxAttempts,  \* SMTPRelay(max_attempts=3)
          MaxFaults     \* bound: failures of the network and the destination

ASSUME RelayAssumption == MaxAttempts \in Nat \ {0} /\ MaxFaults \in Nat

VARIABLES send,     \* send[t]:   where the call of t stands
          tries,    \* tries[t]:  attempts begun
          copies,   \* copies[t]: copies the destination took from t
          faults    \* failures so far

svars == <<send, tries, copies, faults>>

(* "failed" is RelayError, "raised" any other exception. *)
SendReturned == {"sent", "failed", "raised"}

STypeOK ==
  /\ send   \in [Senders -> {"none", "attempt", "backoff"} \cup SendReturned]
  /\ tries  \in [Senders -> 0..MaxAttempts]
  /\ copies \in [Senders -> 0..MaxAttempts]
  /\ faults \in 0..MaxFaults

SInit ==
  /\ send   = [t \in Senders |-> "none"]
  /\ tries  = [t \in Senders |-> 0]
  /\ copies = [t \in Senders |-> 0]
  /\ faults = 0

Fault == faults < MaxFaults /\ faults' = faults + 1

SendCall(t) ==
  /\ send[t] = "none"
  /\ send' = [send EXCEPT ![t] = "attempt"]
  /\ tries' = [tries EXCEPT ![t] = 1]
  /\ UNCHANGED <<copies, faults>>

Accepted(t) ==
  /\ send[t] = "attempt"
  /\ send' = [send EXCEPT ![t] = "sent"]
  /\ copies' = [copies EXCEPT ![t] = @ + 1]
  /\ UNCHANGED <<tries, faults>>

(* SMTPResponseException: surfaces at once as RelayError.                  *)
Rejected(t) ==
  /\ send[t] = "attempt"
  /\ Fault
  /\ send' = [send EXCEPT ![t] = "failed"]
  /\ UNCHANGED <<tries, copies>>

(* An exception that is neither retried nor turned into RelayError, such   *)
(* as SMTPRecipientsRefused.                                               *)
Raises(t) ==
  /\ send[t] = "attempt"
  /\ Fault
  /\ send' = [send EXCEPT ![t] = "raised"]
  /\ UNCHANGED <<tries, copies>>

(* A connection failure, before (taken = 0) or after (taken = 1) the       *)
(* destination took the message: back off, or RetryExhausted as RelayError *)
(* after the last attempt.                                                 *)
Breaks(t, taken) ==
  /\ send[t] = "attempt"
  /\ Fault
  /\ copies' = [copies EXCEPT ![t] = @ + taken]
  /\ send' = [send EXCEPT ![t] = IF tries[t] = MaxAttempts THEN "failed" ELSE "backoff"]
  /\ UNCHANGED tries

BackoffEnds(t) ==
  /\ send[t] = "backoff"
  /\ send' = [send EXCEPT ![t] = "attempt"]
  /\ tries' = [tries EXCEPT ![t] = @ + 1]
  /\ UNCHANGED <<copies, faults>>

SendStep(t) ==
  \/ Accepted(t) \/ Rejected(t) \/ Raises(t) \/ BackoffEnds(t)
  \/ \E taken \in {0, 1} : Breaks(t, taken)

(* The tasks die with the process; what the destination took stays taken.  *)
SendersDie ==
  /\ send' = [t \in Senders |-> IF send[t] \in {"attempt", "backoff"}
                                THEN "raised" ELSE send[t]]
  /\ UNCHANGED <<tries, copies, faults>>
=============================================================================
