--------------------------- MODULE MCDecisionEngine ---------------------------
(* Small instances of DecisionEngine: the default thresholds, a stricter   *)
(* tenant and a misconfigured one; scores below, between and above the     *)
(* thresholds.                                                             *)
EXTENDS DecisionEngine

CONSTANTS b1, b2, b3

MCBodies == {b1, b2, b3}
(* Closeness is not transitive: b1 and b3 are both close to b2 only.       *)
MCAlike == [b \in MCBodies |->
              CASE b = b1 -> {b1, b2} [] b = b2 -> {b1, b2, b3} [] b = b3 -> {b2, b3}]

Times(h) == [s \in Stages |-> h]

Default == [warn |-> 30, quarantine |-> 70, weights |-> Times(2)]
Strict  == [warn |-> 20, quarantine |-> 40,
            weights |-> [auth |-> 3, content |-> 2, attachments |-> 2]]
Broken  == [warn |-> 50, quarantine |-> 50, weights |-> Times(2)]

UnitTenants == {Default, Strict, Broken}
=============================================================================
