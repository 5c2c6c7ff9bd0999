-------------------------- MODULE MCQuarantineStore --------------------------
(* Three tasks on two items: a store, and two administrators that resolve  *)
(* the same item or different ones.                                        *)
EXTENDS QuarantineStore

CONSTANTS t1, t2, t3, i1, i2

MCTasks == {t1, t2, t3}
MCItems == {i1, i2}
=============================================================================
