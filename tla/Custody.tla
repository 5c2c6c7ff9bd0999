------------------------------- MODULE Custody -------------------------------
(***************************************************************************)
(* What delivery/quarantine.py promises about a held item, whatever files, *)
(* threads and locks are behind it: it is taken in once, as "pending"; an  *)
(* administrator's decision replaces its status and is never undone by     *)
(* anything but another decision; and an item that an interrupted write    *)
(* has made unreadable stays so.                                           *)
(***************************************************************************)
CONSTANT Items
VARIABLE custody

Decided == {"released", "rejected"}

CInit == custody = [i \in Items |-> "none"]

Take(i) ==
  /\ custody[i] = "none"
  /\ custody' = [custody EXCEPT ![i] = "pending"]

Decide(i, s) ==
  /\ custody[i] \in {"pending"} \cup Decided
  /\ custody' = [custody EXCEPT ![i] = s]

Lose(i) == custody' = [custody EXCEPT ![i] = "lost"]

CNext == \E i \in Items : Take(i) \/ Lose(i) \/ \E s \in Decided : Decide(i, s)

CSpec == CInit /\ [][CNext]_custody
=============================================================================
