------------------------------- MODULE Identity -------------------------------
(***************************************************************************)
(* identity/: accounts (middleware.UserManager), sessions                  *)
(* (tokens.SessionTokenManager), TOTP (mfa), single sign-on (sso) and      *)
(* roles (rbac).  A session is a signed token that clients hold; the       *)
(* process keeps the accounts and the set of revoked tokens in memory and  *)
(* nothing else.  A token is its payload: the signature makes any other    *)
(* string an invalid token.  Two tokens with the same payload are the      *)
(* same string; iat and exp are whole seconds.                             *)
(*                                                                         *)
(* A wrong password changes nothing and is left out, as are the tenant of  *)
(* an account, which no check reads, and custom scopes.                    *)
(***************************************************************************)
EXTENDS Naturals, FiniteSets, Bags

CONSTANTS Names,         \* usernames, lower-cased
          RootName,      \* "admin", the account made at start
          GivenRoles,    \* roles asked for in create_user
          Claims,        \* [name, groups]: the claims that callers post
          SecretSet,     \* ADMIN_SHARED_SECRET is not empty
          Presented,     \* what callers present: "none", "secret", "session"
          Ttl,           \* default_ttl_seconds
          CodeStep,      \* TOTP time_step
          MaxNow,        \* bound on the clock
          MaxLogins,     \* bound
          NoUser

ROLE_SCOPES ==
  [admin |-> {"quarantine:read", "quarantine:write", "report:submit", "tenant:manage",
              "user:manage", "audit:read", "stats:read", "system:admin"},
   analyst |-> {"quarantine:read", "quarantine:write", "report:submit", "audit:read", "stats:read"},
   read_only |-> {"quarantine:read", "audit:read", "stats:read"}]

Roles == DOMAIN ROLE_SCOPES

ASSUME IdentityAssumption ==
  /\ RootName \in Names
  /\ Claims \subseteq [name : Names, groups : SUBSET STRING]
  /\ NoUser \notin [id : Nat, role : Roles, mfa : BOOLEAN]
  /\ {Ttl, CodeStep} \subseteq Nat \ {0}
  /\ {MaxNow, MaxLogins} \subseteq Nat
  /\ SecretSet \in BOOLEAN
  /\ Presented \subseteq {"none", "secret", "session"}

VARIABLES now,       \* int(time.time())
          users,     \* users[n]: the account of n, or NoUser
          issued,    \* tokens handed to clients, by any process so far
          revoked,   \* _revoked_tokens
          logins,    \* bag of the identities that logged in
          restarts

ivars == <<now, users, issued, revoked, logins, restarts>>

User == [id : Nat, role : Roles, mfa : BOOLEAN]
Identities == [sub : {"user", "sso"} \X Nat, name : Names, role : Roles, mfa : BOOLEAN]
Token(who, iat) == [who |-> who, exp |-> iat + Ttl]

ITypeOK ==
  /\ now \in 0..MaxNow
  /\ users \in [Names -> User \cup {NoUser}]
  /\ \A t \in issued : t.who \in Identities /\ t.exp \in Nat
  /\ revoked \subseteq issued
  /\ BagToSet(logins) \subseteq Identities
  /\ restarts \in Nat

(* The accounts of a new process: IdentityAuthManager.__init__.            *)
FirstUsers == [n \in Names |-> IF n = RootName THEN [id |-> 1, role |-> "admin", mfa |-> FALSE]
                                               ELSE NoUser]

IInit ==
  /\ now = 0
  /\ users = FirstUsers
  /\ issued = {} /\ revoked = {}
  /\ logins = EmptyBag
  /\ restarts = 0

Accounts == {n \in Names : users[n] # NoUser}

----------------------------------------------------------------------------
(* Sessions *)

Valid(t) == t \in issued \ revoked /\ t.exp >= now
Live == {t \in issued : Valid(t)}

(* A login by any way: the identity gets a token of this second.           *)
Issue(who) ==
  /\ BagCardinality(logins) < MaxLogins
  /\ issued' = issued \cup {Token(who, now)}
  /\ logins' = logins (+) SetToBag({who})
  /\ UNCHANGED <<now, users, revoked, restarts>>

(* The code of time step s is taken within one step of its own.            *)
VerifyTotp(s) == \E delta \in {0, 1} : s + delta = now \div CodeStep \/ s = now \div CodeStep + delta

(* s: the time step the presented code was generated for.                  *)
Login(n, s) ==
  /\ users[n] # NoUser
  /\ users[n].mfa => VerifyTotp(s)
  /\ Issue([sub |-> <<"user", users[n].id>>, name |-> n, role |-> users[n].role, mfa |-> users[n].mfa])

MapClaimsToRole(groups) ==
  IF "GatewayAdmins" \in groups THEN "admin"
  ELSE IF "SOCAnalysts" \in groups THEN "analyst" ELSE "read_only"

(* authenticate_oidc_claims takes the claims as they are posted, whoever   *)
(* posts them: no code is exchanged with a provider and no token verified. *)
(* The subject is a random one each time.                                  *)
SsoLogin(claims) ==
  Issue([sub |-> <<"sso", BagCardinality(logins)>>, name |-> claims.name,
         role |-> MapClaimsToRole(claims.groups), mfa |-> TRUE])

(* A deliberate fault: the old session is not revoked.                     *)
Refresh_KeepsOld(t) ==
  /\ Valid(t)
  /\ issued' = issued \cup {Token(t.who, now)}
  /\ UNCHANGED <<now, users, revoked, logins, restarts>>

(* refresh_session_token: the old token is revoked and one with the same   *)
(* identity issued; within one second the two are the same token, and the  *)
(* client is left with a revoked one.  The account is not consulted.       *)
Refresh(t) ==
  /\ Valid(t)
  /\ revoked' = revoked \cup {t}
  /\ issued' = issued \cup {Token(t.who, now)}
  /\ UNCHANGED <<now, users, logins, restarts>>

----------------------------------------------------------------------------
(* Accounts *)

CreateUser(n, role, mfa) ==
  /\ users[n] = NoUser
  /\ role \in Roles
  /\ users' = [users EXCEPT ![n] = [id |-> Cardinality(Accounts) + 1, role |-> role, mfa |-> mfa]]
  /\ UNCHANGED <<now, issued, revoked, logins, restarts>>

DeleteUser(n) ==
  /\ users[n] # NoUser
  /\ users' = [users EXCEPT ![n] = NoUser]
  /\ UNCHANGED <<now, issued, revoked, logins, restarts>>

----------------------------------------------------------------------------
(* What a request's Authorization header stands for: no bearer token, the  *)
(* shared secret (or what is taken for it when none is set), or a session. *)
Credentials ==
  [kind : Presented \ {"session"}] \cup [kind : Presented \cap {"session"}, token : issued]

HasPermission(role, scope) == role = "admin" \/ scope \in ROLE_SCOPES[role]

(* A deliberate fault: the role is not compared.                           *)
VerifyRequest_AnyRole(cred, role, scope) ==
  CASE cred.kind = "none" -> IF SecretSet THEN "401" ELSE "admin"
    [] cred.kind = "secret" -> "admin"
    [] cred.kind = "session" -> IF Valid(cred.token) THEN cred.token.who.role ELSE "401"

(* verify_request: the role the request acts in, or the error.  A session  *)
(* that lacks a right is refused; one that is invalid is compared with the *)
(* shared secret, which it is not.                                         *)
VerifyRequest(cred, role, scope) ==
  CASE cred.kind = "none" -> IF SecretSet THEN "401" ELSE "admin"
    [] cred.kind = "secret" -> "admin"
    [] cred.kind = "session" ->
         IF ~Valid(cred.token) THEN "401"
         ELSE IF \/ role = "admin" /\ cred.token.who.role # "admin"
                 \/ scope # "" /\ ~HasPermission(cred.token.who.role, scope)
              THEN "403" ELSE cred.token.who.role

May(cred, role, scope) == VerifyRequest(cred, role, scope) \in Roles

----------------------------------------------------------------------------
Second == now < MaxNow /\ now' = now + 1 /\ UNCHANGED <<users, issued, revoked, logins, restarts>>

(* The accounts and the revocations die with the process; the signing key  *)
(* is configuration, so the tokens do not.                                 *)
ProcessRestarts ==
  /\ users' = FirstUsers
  /\ revoked' = {}
  /\ restarts' = restarts + 1
  /\ UNCHANGED <<now, issued, logins>>

----------------------------------------------------------------------------
LoginsOf(who) == IF BagIn(who, logins) THEN logins[who] ELSE 0

(* Sessions come from logins: whatever is refreshed, revoked, deleted or   *)
(* created again, at most as many sessions of one identity (account, role  *)
(* and second factor) are valid at a time as that identity has logged in.  *)
(* A restart forgets what was revoked (tokens.py:29).                      *)
SessionsComeFromLogins ==
  restarts = 0 =>
    \A who \in {t.who : t \in Live} :
      Cardinality({t \in Live : t.who = who}) <= LoginsOf(who)

(* What the rights of an administrator go back to: the first account, used *)
(* with its password, or claims with the administrators' group, which      *)
(* SsoLogin lets any caller post.                                          *)
FirstAccount == [sub |-> <<"user", 1>>, name |-> RootName, role |-> "admin", mfa |-> FALSE]
Origins == {FirstAccount} \cup {who \in BagToSet(logins) : who.sub[1] = "sso" /\ who.role = "admin"}

(* Without the shared secret nobody works up to an administrator: in       *)
(* whatever order sessions are refreshed, expire and are replaced, accounts*)
(* deleted, made again under an old number or name, and handlers resumed   *)
(* after an await, an administrator's session and every account that is    *)
(* not as at the start go back to one of the Origins; an analyst and a     *)
(* session of single sign-on with lesser groups never suffice              *)
(* (middleware.py:39, middleware.py:144-154, app.py:879-912).              *)
AdminsGoBack ==
  /\ SecretSet
  /\ "secret" \notin Presented
  /\ users # FirstUsers \/ \E t \in issued : t.who.role = "admin"
  => \E who \in Origins : BagIn(who, logins)
=============================================================================
