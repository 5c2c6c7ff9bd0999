--------------------------- MODULE MCSideSystems ---------------------------
(***************************************************************************)
(* The parts of the gateway that share no state with the request path or   *)
(* with each other: removals, compliance, keys and backups, the SMTP       *)
(* receiver and the older queue.  Each behaviour runs one of them.         *)
(***************************************************************************)
EXTENDS Removal, Compliance, KeyRotation, SMTPReceiver,
        AsyncWorkerPool, TLC

CONSTANTS m1, m2, m3, u1, u2, l1, l2, f1, f2, s1, t1, t2, t3

MCBoxes == m1 :> <<"m365", "google">> @@ m2 :> <<"simulated", "other">> @@ m3 :> << >>
MCHolders == u1 :> {m1, m2} @@ u2 :> {m2, m3}
MCBodies == {<<u1, u2>>}
MCLineIds == l1 :> {m1} @@ l2 :> {s1}
MCMentions == s1 :> {l1, l2, f1, f2}
MCLength == t1 :> 1 @@ t2 :> 2 @@ t3 :> 3
Sym == Permutations(Calls)

VARIABLE part

Init ==
  /\ RInit /\ CInitial /\ KInit /\ SInitial /\ PInit
  /\ part \in {"removal", "compliance", "keys", "smtp", "pool"}

Next ==
  /\ UNCHANGED part
  /\ \/ part = "removal"    /\ RNext /\ UNCHANGED <<cvars, kvars, svars, pvars>>
     \/ part = "compliance" /\ CNext /\ UNCHANGED <<rvars, kvars, svars, pvars>>
     \/ part = "keys"       /\ KNext /\ UNCHANGED <<rvars, cvars, svars, pvars>>
     \/ part = "smtp"       /\ SNext /\ UNCHANGED <<rvars, cvars, kvars, pvars>>
     \/ part = "pool"       /\ PNext /\ UNCHANGED <<rvars, cvars, kvars, svars>>

Spec == Init /\ [][Next]_<<part, rvars, cvars, kvars, svars, pvars>>

(* Every variable of the five parts keeps its type.                        *)
TypeOK == RTypeOK /\ CTypeOK /\ KTypeOK /\ STypeOK /\ PTypeOK
=============================================================================
