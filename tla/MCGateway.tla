------------------------------ MODULE MCGateway ------------------------------
(* Small instances of Gateway: up to three posts of one or two messages,   *)
(* one call of an administrator.                                           *)
EXTENDS Gateway, TLC

CONSTANTS r1, r2, r3, a1, m1, m2, i1, i2

TwoRequests   == {r1, r2}
ThreeRequests == {r1, r2, r3}
OneAdmin      == {a1}
MCTasks       == Requests \cup Admins
OneMsg        == {m1}
TwoMsgs       == {m1, m2}
SecondBounces == {m2}
NoBounces     == {}
OneItem       == {i1}
TwoItems      == {i1, i2}

(* Requests, calls and items are interchangeable. *)
MCSymmetry == Permutations(Requests) \cup Permutations(Admins) \cup Permutations(Items)
=============================================================================
