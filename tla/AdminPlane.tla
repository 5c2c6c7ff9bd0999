------------------------------ MODULE AdminPlane ------------------------------
(***************************************************************************)
(* The administration endpoints of webhook_receiver/app.py over accounts,  *)
(* sessions and tenants.  A handler verifies the request's session first   *)
(* (_verify_admin); those that need the body then await it, and the        *)
(* session is not looked at again; the change itself has no await in it.   *)
(* The rate limiter in front of them is the module RateLimiter; a refused  *)
(* request changes nothing and is no step.                                 *)
(***************************************************************************)
EXTENDS Identity, Tenancy

CONSTANTS MaxCalls, MaxRestarts   \* bounds

ASSUME PlaneAssumption == {MaxCalls, MaxRestarts} \subseteq Nat

VARIABLES calls,
          awaiting   \* the kinds of handlers that were let in and await their body

vars == <<ivars, tvars, calls, awaiting>>

TypeOK ==
  /\ ITypeOK /\ TTypeOK
  /\ calls \in 0..MaxCalls
  /\ awaiting \subseteq {"account", "tenant"}

Init == IInit /\ TInit /\ calls = 0 /\ awaiting = {}

Call == calls < MaxCalls /\ calls' = calls + 1

OnSessions == UNCHANGED tvars
OnTenants  == UNCHANGED ivars

(* login, refresh_token, sso_callback *)
SessionCall ==
  /\ Call /\ OnSessions
  /\ \/ \E n \in Names, s \in 0..MaxNow : Login(n, s)
     \/ \E claims \in Claims : SsoLogin(claims)
     \/ \E t \in issued : Refresh(t)
  /\ UNCHANGED awaiting

(* Accounts need the role and the scope, tenants any valid session.        *)
LetsIn(kind) ==
  \E cred \in Credentials :
    IF kind = "account" THEN May(cred, "admin", "user:manage") ELSE May(cred, "", "")

(* A handler that has verified its caller goes on to request.json().       *)
AwaitsBody(kind) ==
  /\ Call
  /\ LetsIn(kind)
  /\ kind \notin awaiting
  /\ awaiting' = awaiting \cup {kind}
  /\ UNCHANGED <<ivars, tvars>>

HasBody(kind) ==
  /\ kind \in awaiting
  /\ awaiting' = awaiting \ {kind}
  /\ UNCHANGED calls

(* create_user; delete_user needs no body.                                 *)
AccountCall ==
  /\ OnSessions
  /\ \/ /\ HasBody("account")
        /\ \E n \in Names, role \in GivenRoles, mfa \in BOOLEAN : CreateUser(n, role, mfa)
     \/ /\ Call /\ LetsIn("account")
        /\ \E n \in Names : DeleteUser(n)
        /\ UNCHANGED awaiting

(* create_tenant and update_tenant, which raise ValueError for a tenant    *)
(* that is there or is not; deprovision_tenant and get_msp_dashboard.      *)
TenantCall ==
  /\ OnTenants
  /\ \/ /\ HasBody("tenant")
        /\ \/ \E t \in Tenants, ds \in SUBSET Domains, k \in Keys : CreateTenant(t, ds, k)
           \/ \E t \in Tenants, ds \in SUBSET Domains : UpdateDomains(t, ds)
           \/ \E t \in Tenants, k \in Keys : UpdateKey(t, k)
     \/ /\ Call /\ LetsIn("tenant")
        /\ \/ \E t \in Tenants, purge \in BOOLEAN : Deprovision(t, purge)
           \/ Dashboard
        /\ UNCHANGED awaiting

(* The body is malformed, or what it asks for cannot be done.              *)
BodyRefused ==
  /\ \E kind \in awaiting : HasBody(kind)
  /\ UNCHANGED <<ivars, tvars>>

(* TenantIsolatedQuarantine.store, by whoever handles a tenant's mail.     *)
MailArrives == Call /\ OnTenants /\ (\E t \in Tenants : StoreMail(t)) /\ UNCHANGED awaiting

Tick == Second /\ UNCHANGED <<tvars, calls, awaiting>>

Restart ==
  /\ restarts < MaxRestarts
  /\ ProcessRestarts /\ TenantsRestart
  /\ awaiting' = {}
  /\ UNCHANGED calls

Next ==
  \/ SessionCall \/ AccountCall \/ TenantCall \/ MailArrives
  \/ \E kind \in {"account", "tenant"} : AwaitsBody(kind)
  \/ BodyRefused \/ Tick \/ Restart

Spec == Init /\ [][Next]_vars
=============================================================================
