------------------------------ MODULE TaskLedger ------------------------------
(***************************************************************************)
(* What the queues of scalability/ promise of a task, whatever queue,      *)
(* workers, retries and cancellations are behind them: it is taken in      *)
(* once; its failures are counted one by one, and only while it is open;   *)
(* it is given up with the last of them and not before; and what was done, *)
(* given up or forgotten stays so.                                         *)
(***************************************************************************)
EXTENDS Naturals

CONSTANTS Entries,
          Limit      \* the number of failures after which an entry is given up

VARIABLES fate,      \* fate[e]: new, open, done, dead, lost
          failures

LInit ==
  /\ fate = [e \in Entries |-> "new"]
  /\ failures = [e \in Entries |-> 0]

Becomes(e, f) == fate[e] = "open" /\ fate' = [fate EXCEPT ![e] = f]

Admit(e) ==
  /\ fate[e] = "new"
  /\ fate' = [fate EXCEPT ![e] = "open"]
  /\ UNCHANGED failures

Fulfil(e) == Becomes(e, "done") /\ UNCHANGED failures

Fail(e) ==
  /\ fate[e] = "open"
  /\ failures[e] + 1 < Limit
  /\ failures' = [failures EXCEPT ![e] = @ + 1]
  /\ UNCHANGED fate

GiveUp(e) ==
  /\ Becomes(e, "dead")
  /\ failures[e] + 1 = Limit
  /\ failures' = [failures EXCEPT ![e] = @ + 1]

(* Workers are cancelled with the entries in their hands.                  *)
Forget(entries) ==
  /\ \A e \in entries : fate[e] = "open"
  /\ fate' = [e \in Entries |-> IF e \in entries THEN "lost" ELSE fate[e]]
  /\ UNCHANGED failures

LNext ==
  \/ \E e \in Entries : Admit(e) \/ Fulfil(e) \/ Fail(e) \/ GiveUp(e)
  \/ \E entries \in SUBSET Entries : Forget(entries)

LSpec == LInit /\ [][LNext]_<<fate, failures>>
=============================================================================
