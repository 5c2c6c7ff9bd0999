----------------------------- MODULE MCAdminPlane -----------------------------
(* Two accounts at most, two tenants, and a domain with a sub-domain.      *)
EXTENDS AdminPlane, TLC

CONSTANTS d1, d2, t1, t2

MCParent == (d1 :> NoDomain) @@ (d2 :> d1)
(* An analyst by a name of its own, an administrator by the first's.       *)
MCClaims == {[name |-> "bob", groups |-> {"SOCAnalysts"}],
             [name |-> RootName, groups |-> {"Staff", "GatewayAdmins"}]}
MCSymmetry == Permutations({t1, t2}) \cup Permutations(Keys)
=============================================================================
