--------------------------- MODULE AdminPlaneProofs ---------------------------
(***************************************************************************)
(* Proofs about the administration endpoints, AdminPlane, for every set of *)
(* accounts, groups, tenants, domains and keys, any clock and any number   *)
(* of calls and restarts.                                                  *)
(***************************************************************************)
EXTENDS AdminPlane, FiniteSetTheorems, TLAPS

-----------------------------------------------------------------------------
(* Tenants.                                                                *)

(* What a domain maps to is registered and lists it.                       *)
MapIsClaimed ==
  \A d \in Domains : owner[d] # NoTenant => owner[d] \in Registered /\ d \in domainsOf[owner[d]]

(* What this process has stored is under the key of the cached store.      *)
CachedKeyStored ==
  \A i \in items : i.earlier \/ stores[i.tenant] = i.key

TenantInv == TTypeOK /\ MapIsClaimed /\ CachedKeyStored

LEMMA TenantInit == TInit => TenantInv
  BY TenancyAssumption
  DEF TInit, TenantInv, TTypeOK, Item, MapIsClaimed, Registered, CachedKeyStored

(* create_tenant(), update_tenant() and deprovision_tenant().              *)
LEMMA CreateTenantInv ==
  ASSUME TenantInv, NEW t \in Tenants, NEW ds \in SUBSET Domains, NEW k \in Keys,
         CreateTenant(t, ds, k)
  PROVE  TenantInv'
  BY TenancyAssumption
  DEF TenantInv, TTypeOK, Item, MapIsClaimed, Registered, CachedKeyStored, CreateTenant, Remapped

LEMMA UpdateDomainsInv ==
  ASSUME TenantInv, NEW t \in Tenants, NEW ds \in SUBSET Domains, UpdateDomains(t, ds)
  PROVE  TenantInv'
  BY TenancyAssumption
  DEF TenantInv, TTypeOK, Item, MapIsClaimed, Registered, CachedKeyStored, UpdateDomains, Remapped

LEMMA UpdateKeyInv ==
  ASSUME TenantInv, NEW t \in Tenants, NEW k \in Keys, UpdateKey(t, k)
  PROVE  TenantInv'
  BY TenancyAssumption
  DEF TenantInv, TTypeOK, Item, MapIsClaimed, Registered, CachedKeyStored, UpdateKey

LEMMA DeprovisionInv ==
  ASSUME TenantInv, NEW t \in Tenants, NEW purge \in BOOLEAN, Deprovision(t, purge)
  PROVE  TenantInv'
  BY TenancyAssumption
  DEF TenantInv, TTypeOK, Item, MapIsClaimed, Registered, CachedKeyStored, Deprovision, Remapped

(* get_store_for_tenant() gives a store a key, and keeps a cached one.     *)
LEMMA FetchKeys ==
  ASSUME TTypeOK, NEW ts \in SUBSET Tenants, Fetch(ts)
  PROVE  /\ \A t \in Tenants : StoreKey(t) \in Keys \cup {Plain}
         /\ stores' \in [Tenants -> Keys \cup {Plain, NoStore}]
         /\ dirs' \subseteq Tenants
         /\ \A t \in Tenants : stores[t] # NoStore => stores'[t] = stores[t]
         /\ \A t \in ts : stores'[t] = StoreKey(t)
  BY TenancyAssumption DEF TTypeOK, Fetch, StoreKey, Registered

LEMMA StoreMailInv ==
  ASSUME TenantInv, NEW t \in Tenants, StoreMail(t)
  PROVE  TenantInv'
<1>1. TTypeOK /\ Fetch({t})
  BY DEF TenantInv, StoreMail
<1>2. /\ StoreKey(t) \in Keys \cup {Plain}
      /\ stores' \in [Tenants -> Keys \cup {Plain, NoStore}] /\ dirs' \subseteq Tenants
      /\ \A u \in Tenants : stores[u] # NoStore => stores'[u] = stores[u]
      /\ stores'[t] = StoreKey(t)
  BY <1>1, FetchKeys
<1>3. items' \subseteq items \cup {[tenant |-> t, key |-> StoreKey(t), earlier |-> FALSE]}
  BY DEF StoreMail
<1>4. items' \subseteq Item
  <2>1. [tenant |-> t, key |-> StoreKey(t), earlier |-> FALSE] \in Item
    BY <1>2 DEF Item
  <2> QED BY <1>1, <1>3, <2>1 DEF TTypeOK
<1>5. CachedKeyStored'
  <2> SUFFICES ASSUME NEW i \in items'
               PROVE  i.earlier \/ stores'[i.tenant] = i.key
    BY DEF CachedKeyStored
  <2>1. CASE i \in items
    <3>1. i \in Item
      BY <1>1, <2>1 DEF TTypeOK
    <3>2. i.tenant \in Tenants /\ i.key \in Keys \cup {Plain}
      BY <3>1 DEF Item
    <3> QED BY <1>2, <2>1, <3>2, TenancyAssumption DEF TenantInv, CachedKeyStored
  <2>2. CASE i = [tenant |-> t, key |-> StoreKey(t), earlier |-> FALSE]
    BY <1>2, <2>2
  <2> QED BY <2>1, <2>2, <1>3
<1> QED
  BY <1>1, <1>2, <1>4, <1>5 DEF TenantInv, TTypeOK, StoreMail, MapIsClaimed, Registered

LEMMA DashboardInv ==
  ASSUME TenantInv, Dashboard
  PROVE  TenantInv'
<1>1. TTypeOK /\ Fetch(Registered) /\ Registered \subseteq Tenants
  BY DEF TenantInv, Dashboard, Registered
<1>2. /\ stores' \in [Tenants -> Keys \cup {Plain, NoStore}] /\ dirs' \subseteq Tenants
      /\ \A u \in Tenants : stores[u] # NoStore => stores'[u] = stores[u]
  BY <1>1, FetchKeys
<1>3. CachedKeyStored'
  <2> SUFFICES ASSUME NEW i \in items
               PROVE  i.earlier \/ stores'[i.tenant] = i.key
    BY DEF CachedKeyStored, Dashboard
  <2>1. i.tenant \in Tenants /\ i.key \in Keys \cup {Plain}
    BY <1>1 DEF TTypeOK, Item
  <2> QED BY <1>2, <2>1, TenancyAssumption DEF TenantInv, CachedKeyStored
<1> QED
  BY <1>1, <1>2, <1>3 DEF TenantInv, TTypeOK, Dashboard, MapIsClaimed, Registered

LEMMA TenantsRestartInv ==
  ASSUME TenantInv, TenantsRestart
  PROVE  TenantInv'
<1>1. items' \subseteq Item /\ \A i \in items' : i.earlier
  BY DEF TenantInv, TTypeOK, Item, TenantsRestart
<1> QED
  BY <1>1, TenancyAssumption
  DEF TenantInv, TTypeOK, TenantsRestart, MapIsClaimed, Registered, CachedKeyStored

LEMMA TenantStep ==
  ASSUME TenantInv, [Next]_vars
  PROVE  TenantInv'
<1>1. CASE UNCHANGED tvars
  BY <1>1 DEF tvars, TenantInv, TTypeOK, MapIsClaimed, Registered, CachedKeyStored
<1>2. CASE TenantCall
  BY <1>2, CreateTenantInv, UpdateDomainsInv, UpdateKeyInv, DeprovisionInv, DashboardInv
  DEF TenantCall
<1>3. CASE MailArrives
  BY <1>3, StoreMailInv DEF MailArrives
<1>4. CASE Restart
  BY <1>4, TenantsRestartInv DEF Restart
<1> QED
  BY <1>1, <1>2, <1>3, <1>4
  DEF Next, vars, SessionCall, AccountCall, OnSessions, AwaitsBody, BodyRefused, Tick

LEMMA TenantInvariant == Spec => []TenantInv
<1>1. Init => TenantInv
  BY TenantInit DEF Init
<1> QED BY <1>1, TenantStep, PTL DEF Spec

(* multi_tenancy/tenant_manager.py: create_tenant(), update_tenant(),      *)
(* deprovision_tenant() and get_tenant_by_domain().  However the domains   *)
(* are claimed and given up, a domain resolves only to a tenant that is    *)
(* registered and lists the domain or its parent.                          *)
THEOREM DomainsResolveToClaimants == Spec => []ResolvesToClaimant
<1>1. TenantInv => ResolvesToClaimant
  BY TenancyAssumption DEF TenantInv, TTypeOK, MapIsClaimed, ResolvesToClaimant, Resolve
<1> QED BY <1>1, TenantInvariant, PTL

(* multi_tenancy/isolation.py: get_store_for_tenant().  What a process     *)
(* stored for a tenant is under the key of the store it would read with.   *)
THEOREM MailStaysReadable == Spec => []OwnMailReadable
<1>1. TenantInv => OwnMailReadable
  <2> SUFFICES ASSUME TenantInv, NEW i \in items, ~i.earlier
               PROVE  StoreKey(i.tenant) = i.key
    BY DEF OwnMailReadable
  <2>1. i.key \in Keys \cup {Plain} /\ stores[i.tenant] = i.key
    BY DEF TenantInv, TTypeOK, Item, CachedKeyStored
  <2> QED BY <2>1, TenancyAssumption DEF StoreKey
<1> QED BY <1>1, TenantInvariant, PTL

-----------------------------------------------------------------------------
(* Accounts.                                                               *)

(* A token names an identity that has logged in; and with accounts closed  *)
(* to the secret, any change of the accounts, a handler about to make one  *)
(* and an administrator's login mean that one of the Origins has logged in.*)
TokensNameLogins == \A t \in issued : t.who \in BagToSet(logins)

AdminLoggedIn == \E who \in BagToSet(logins) : who.role = "admin"

Closed == SecretSet /\ "secret" \notin Presented

HasOrigin == \E who \in Origins : BagIn(who, logins)

AccountInv ==
  /\ TokensNameLogins
  /\ Closed /\ (users # FirstUsers \/ "account" \in awaiting \/ AdminLoggedIn) => HasOrigin

(* While the accounts are as at the start, a password belongs to the first.*)
LEMMA FirstUserLogsIn ==
  ASSUME users = FirstUsers, NEW n \in Names, users[n] # NoUser
  PROVE  [sub |-> <<"user", users[n].id>>, name |-> n, role |-> users[n].role, mfa |-> users[n].mfa]
           = FirstAccount
<1>1. n = RootName
  BY DEF FirstUsers
<1>2. users[n] = [id |-> 1, role |-> "admin", mfa |-> FALSE]
  BY <1>1 DEF FirstUsers
<1> QED BY <1>1, <1>2 DEF FirstAccount

(* verify_request() with the role of an administrator.                     *)
LEMMA AccountHandlersNeedAdmin ==
  ASSUME TokensNameLogins, Closed, LetsIn("account")
  PROVE  AdminLoggedIn
<1>1. PICK cred \in Credentials : May(cred, "admin", "user:manage")
  BY DEF LetsIn
<1>2. cred.kind \in {"none", "session"} /\ (cred.kind = "session" => cred.token \in issued)
  BY <1>1, IdentityAssumption DEF Credentials, Closed
<1>3. "401" \notin Roles /\ "403" \notin Roles
  BY DEF Roles, ROLE_SCOPES
<1>4. CASE cred.kind = "none"
  BY <1>1, <1>3, <1>4 DEF May, VerifyRequest, Closed
<1>5. CASE cred.kind = "session"
  <2>1. cred.token \in issued /\ cred.token.who.role = "admin"
    BY <1>1, <1>2, <1>3, <1>5 DEF May, VerifyRequest
  <2> QED BY <2>1 DEF TokensNameLogins, AdminLoggedIn
<1> QED BY <1>2, <1>4, <1>5

(* A login by any way adds its own identity to both.                       *)
LEMMA IssueNames ==
  ASSUME TokensNameLogins, NEW who, Issue(who)
  PROVE  /\ TokensNameLogins'
         /\ BagToSet(logins') = BagToSet(logins) \cup {who}
<1>1. BagToSet(logins') = BagToSet(logins) \cup {who}
  BY DEF Issue, BagToSet, SetToBag, (+)
<1>2. \A t \in issued' : t \in issued \/ t.who = who
  BY DEF Issue, Token
<1> QED BY <1>1, <1>2 DEF TokensNameLogins

(* Origins stay: no login is forgotten.                                    *)
LEMMA OriginsStay ==
  ASSUME HasOrigin, BagToSet(logins) \subseteq BagToSet(logins')
  PROVE  HasOrigin'
BY DEF HasOrigin, Origins, BagIn

(* A login leaves the invariant when it is an origin or there is one.      *)
LEMMA IssueKeeps ==
  ASSUME AccountInv, NEW who, Issue(who), awaiting' = awaiting,
         Closed /\ ~HasOrigin /\ who.role = "admin" =>
           who = FirstAccount \/ who.sub[1] = "sso"
  PROVE  AccountInv'
<1>1. TokensNameLogins' /\ BagToSet(logins') = BagToSet(logins) \cup {who}
  BY IssueNames DEF AccountInv
<1>2. users' = users
  BY DEF Issue
<1>3. CASE HasOrigin
  BY <1>1, <1>3, OriginsStay DEF AccountInv
<1>4. CASE ~HasOrigin
  <2>1. CASE Closed /\ who.role = "admin"
    <3>1. who \in Origins'
      BY <1>1, <1>4, <2>1 DEF Origins
    <3> QED BY <1>1, <3>1 DEF AccountInv, HasOrigin, BagIn
  <2>2. CASE ~(Closed /\ who.role = "admin")
    <3>1. Closed /\ AdminLoggedIn' => AdminLoggedIn
      BY <1>1, <2>2 DEF AdminLoggedIn
    <3>2. ~Closed \/ ~(users # FirstUsers \/ "account" \in awaiting \/ AdminLoggedIn)
      BY <1>4 DEF AccountInv
    <3> QED BY <1>1, <1>2, <3>1, <3>2 DEF AccountInv, Closed, FirstUsers
  <2> QED BY <2>1, <2>2
<1> QED BY <1>3, <1>4

LEMMA SessionCallNames ==
  ASSUME AccountInv, SessionCall
  PROVE  AccountInv'
<1> USE DEF SessionCall
<1>1. ASSUME NEW n \in Names, NEW s \in 0..MaxNow, Login(n, s)
      PROVE  AccountInv'
  <2> DEFINE who == [sub |-> <<"user", users[n].id>>, name |-> n,
                     role |-> users[n].role, mfa |-> users[n].mfa]
  <2>1. users[n] # NoUser /\ Issue(who)
    BY <1>1 DEF Login
  <2>2. Closed /\ ~HasOrigin => who = FirstAccount
    BY <2>1, FirstUserLogsIn DEF AccountInv
  <2> HIDE DEF who
  <2> QED BY <2>1, <2>2, IssueKeeps
<1>2. ASSUME NEW claims \in Claims, SsoLogin(claims)
      PROVE  AccountInv'
  <2> DEFINE who == [sub |-> <<"sso", BagCardinality(logins)>>, name |-> claims.name,
                     role |-> MapClaimsToRole(claims.groups), mfa |-> TRUE]
  <2>1. Issue(who) /\ who.sub[1] = "sso"
    BY <1>2 DEF SsoLogin
  <2> HIDE DEF who
  <2> QED BY <2>1, IssueKeeps
<1>3. ASSUME NEW t \in issued, Refresh(t)
      PROVE  AccountInv'
  <2>1. issued' = issued \cup {Token(t.who, now)} /\ logins' = logins /\ users' = users
    BY <1>3 DEF Refresh
  <2>2. TokensNameLogins'
    BY <2>1 DEF AccountInv, TokensNameLogins, Token
  <2> QED
    BY <2>1, <2>2 DEF AccountInv, Closed, FirstUsers, AdminLoggedIn, HasOrigin, Origins
<1> QED BY <1>1, <1>2, <1>3

LEMMA AccountStep ==
  ASSUME AccountInv, [Next]_vars
  PROVE  AccountInv'
<1> USE DEF AccountInv, TokensNameLogins, Closed, AdminLoggedIn, HasOrigin, Origins, FirstUsers
<1>1. CASE SessionCall
  BY <1>1, SessionCallNames
<1>2. CASE AccountCall
  <2>1. issued' = issued /\ logins' = logins
    BY <1>2 DEF AccountCall, CreateUser, DeleteUser
  <2>2. Closed => HasOrigin
    BY <1>2, AccountHandlersNeedAdmin DEF AccountCall, HasBody
  <2> QED BY <2>1, <2>2
<1>3. ASSUME NEW kind \in {"account", "tenant"}, AwaitsBody(kind)
      PROVE  AccountInv'
  <2>1. Closed /\ kind = "account" => HasOrigin
    BY <1>3, AccountHandlersNeedAdmin DEF AwaitsBody
  <2> QED BY <1>3, <2>1 DEF AwaitsBody, ivars
<1>4. CASE Restart
  <2>1. issued' = issued /\ logins' = logins /\ awaiting' = {} /\ users' = FirstUsers
    BY <1>4 DEF Restart, ProcessRestarts
  <2> QED BY <2>1
<1>5. CASE UNCHANGED <<users, issued, logins>> /\ awaiting' \subseteq awaiting
  BY <1>5
<1> QED
  BY <1>1, <1>2, <1>3, <1>4, <1>5
  DEF Next, vars, ivars, TenantCall, HasBody, OnTenants, BodyRefused, MailArrives, Tick, Second

LEMMA AccountInvariant == Spec => []AccountInv
<1>1. BagToSet(EmptyBag) = {}
  BY DEF BagToSet, EmptyBag, SetToBag
<1>2. Init => AccountInv
  BY <1>1 DEF Init, IInit, AccountInv, TokensNameLogins, AdminLoggedIn
<1> QED BY <1>2, AccountStep, PTL DEF Spec

(* identity/middleware.py: verify_request(), create_user(), delete_user(). *)
(* When the shared secret is set and not known, an administrator's session *)
(* and every change of the accounts go back to a login with the password   *)
(* of the first account, or to posted claims of the administrators' group. *)
THEOREM AdminsGoBackToOrigins == Spec => []AdminsGoBack
<1>1. AccountInv => AdminsGoBack
  BY DEF AccountInv, AdminsGoBack, TokensNameLogins, Closed, AdminLoggedIn, HasOrigin
<1> QED BY <1>1, AccountInvariant, PTL

-----------------------------------------------------------------------------
(* Sessions.                                                               *)

(* Tokens of an identity that are not revoked, expired ones too.           *)
Unrevoked(who) == {t \in issued \ revoked : t.who = who}

SessionInv ==
  /\ IsABag(logins)
  /\ IsFiniteSet(issued)
  /\ restarts \in Nat
  /\ restarts = 0 =>
       \A who \in {t.who : t \in issued} : Cardinality(Unrevoked(who)) <= LoginsOf(who)

LEMMA LoginsCount ==
  ASSUME IsABag(logins), NEW who, Issue(who)
  PROVE  /\ IsABag(logins')
         /\ LoginsOf(who)' = LoginsOf(who) + 1
         /\ \A w : w # who => LoginsOf(w)' = LoginsOf(w)
<1>1. logins' = [e \in DOMAIN logins \cup {who} |->
                   (IF e \in DOMAIN logins THEN logins[e] ELSE 0) + (IF e = who THEN 1 ELSE 0)]
  BY DEF Issue, SetToBag, (+)
<1>2. \A e \in DOMAIN logins : logins[e] \in Nat /\ logins[e] > 0
  BY DEF IsABag
<1> QED
  BY <1>1, <1>2 DEF IsABag, LoginsOf, BagIn, BagToSet

(* An identity without a token has none that is not revoked either.        *)
LEMMA UnrevokedCount ==
  ASSUME SessionInv, restarts = 0, NEW who
  PROVE  /\ IsFiniteSet(Unrevoked(who)) /\ Cardinality(Unrevoked(who)) \in Nat
         /\ LoginsOf(who) \in Nat /\ Cardinality(Unrevoked(who)) <= LoginsOf(who)
<1>1. Unrevoked(who) \in SUBSET issued
  BY DEF Unrevoked
<1>2. IsFiniteSet(Unrevoked(who)) /\ Cardinality(Unrevoked(who)) \in Nat
  BY <1>1, FS_Subset, FS_CardinalityType DEF SessionInv
<1>3. LoginsOf(who) \in Nat
  BY DEF SessionInv, IsABag, LoginsOf, BagIn, BagToSet
<1>4. CASE who \in {t.who : t \in issued}
  BY <1>2, <1>3, <1>4 DEF SessionInv
<1>5. CASE who \notin {t.who : t \in issued}
  <2>1. Unrevoked(who) = {}
    BY <1>5 DEF Unrevoked
  <2> QED BY <1>2, <1>3, <2>1, FS_EmptySet
<1> QED BY <1>4, <1>5

(* One token more makes at most one more.                                  *)
LEMMA OneMore ==
  ASSUME NEW S, IsFiniteSet(S), NEW t, NEW T \in SUBSET (S \cup {t})
  PROVE  IsFiniteSet(T) /\ Cardinality(T) \in Nat /\ Cardinality(T) <= Cardinality(S) + 1
<1>1. IsFiniteSet(S \cup {t}) /\ Cardinality(S \cup {t}) <= Cardinality(S) + 1
  <2>1. Cardinality(S) \in Nat
    BY FS_CardinalityType
  <2>2. /\ IsFiniteSet(S \cup {t})
        /\ Cardinality(S \cup {t}) = IF t \in S THEN Cardinality(S) ELSE Cardinality(S) + 1
    BY FS_AddElement
  <2> QED BY <2>1, <2>2
<1>2. IsFiniteSet(T) /\ Cardinality(T) <= Cardinality(S \cup {t})
  BY <1>1, FS_Subset
<1> QED BY <1>1, <1>2, FS_CardinalityType

LEMMA IssueSessions ==
  ASSUME SessionInv, NEW who, Issue(who)
  PROVE  SessionInv'
<1>1. /\ issued' = issued \cup {Token(who, now)} /\ revoked' = revoked /\ restarts' = restarts
      /\ Token(who, now).who = who
  BY DEF Issue, Token
<1>2. IsABag(logins') /\ IsFiniteSet(issued') /\ restarts' \in Nat
  BY <1>1, LoginsCount, FS_AddElement DEF SessionInv
<1>3. ASSUME restarts' = 0, NEW w
      PROVE  Cardinality(Unrevoked(w)') <= LoginsOf(w)'
  <2>1. /\ IsFiniteSet(Unrevoked(w)) /\ Cardinality(Unrevoked(w)) \in Nat
        /\ LoginsOf(w) \in Nat /\ Cardinality(Unrevoked(w)) <= LoginsOf(w)
    BY <1>1, <1>3, UnrevokedCount
  <2>2. CASE w = who
    <3>1. Unrevoked(w)' \subseteq Unrevoked(w) \cup {Token(who, now)}
      BY <1>1 DEF Unrevoked
    <3>2. Cardinality(Unrevoked(w)') \in Nat /\ Cardinality(Unrevoked(w)') <= Cardinality(Unrevoked(w)) + 1
      BY <2>1, <3>1, OneMore
    <3>3. LoginsOf(w)' = LoginsOf(w) + 1
      BY <2>2, LoginsCount DEF SessionInv
    <3> QED BY <2>1, <3>2, <3>3
  <2>3. CASE w # who
    <3>1. Unrevoked(w)' = Unrevoked(w)
      BY <1>1, <2>3 DEF Unrevoked
    <3>2. LoginsOf(w)' = LoginsOf(w)
      BY <2>3, LoginsCount DEF SessionInv
    <3> QED BY <2>1, <3>1, <3>2
  <2> QED BY <2>2, <2>3
<1> QED BY <1>2, <1>3 DEF SessionInv

LEMMA RefreshSessions ==
  ASSUME SessionInv, NEW t \in issued, Refresh(t)
  PROVE  SessionInv'
<1>1. /\ issued' = issued \cup {Token(t.who, now)} /\ revoked' = revoked \cup {t}
      /\ restarts' = restarts /\ logins' = logins
      /\ Token(t.who, now).who = t.who
      /\ t \in issued \ revoked
  BY DEF Refresh, Token, Valid
<1>2. IsABag(logins') /\ IsFiniteSet(issued') /\ restarts' \in Nat
  BY <1>1, FS_AddElement DEF SessionInv
<1>3. ASSUME restarts' = 0, NEW w
      PROVE  Cardinality(Unrevoked(w)') <= LoginsOf(w)'
  <2>1. /\ IsFiniteSet(Unrevoked(w)) /\ Cardinality(Unrevoked(w)) \in Nat
        /\ LoginsOf(w) \in Nat /\ Cardinality(Unrevoked(w)) <= LoginsOf(w)
    BY <1>1, <1>3, UnrevokedCount
  <2>2. LoginsOf(w)' = LoginsOf(w)
    BY <1>1 DEF LoginsOf
  <2>3. CASE w = t.who
    <3>1. t \in Unrevoked(w)
      BY <1>1, <2>3 DEF Unrevoked
    <3>2. /\ IsFiniteSet(Unrevoked(w) \ {t})
          /\ Cardinality(Unrevoked(w) \ {t}) = Cardinality(Unrevoked(w)) - 1
      BY <2>1, <3>1, FS_RemoveElement
    <3>3. Unrevoked(w)' \subseteq (Unrevoked(w) \ {t}) \cup {Token(t.who, now)}
      BY <1>1 DEF Unrevoked
    <3>4. /\ Cardinality(Unrevoked(w)') \in Nat
          /\ Cardinality(Unrevoked(w)') <= Cardinality(Unrevoked(w) \ {t}) + 1
      BY <3>2, <3>3, OneMore
    <3> QED BY <2>1, <2>2, <3>2, <3>4
  <2>4. CASE w # t.who
    <3>1. Unrevoked(w)' = Unrevoked(w)
      BY <1>1, <2>4 DEF Unrevoked
    <3> QED BY <2>1, <2>2, <3>1
  <2> QED BY <2>3, <2>4
<1> QED BY <1>2, <1>3 DEF SessionInv

LEMMA SessionStep ==
  ASSUME SessionInv, [Next]_vars
  PROVE  SessionInv'
<1>1. CASE SessionCall
  BY <1>1, IssueSessions, RefreshSessions DEF SessionCall, Login, SsoLogin
<1>2. CASE Restart
  BY <1>2 DEF Restart, ProcessRestarts, SessionInv
<1>3. CASE UNCHANGED <<issued, revoked, logins, restarts>>
  BY <1>3 DEF SessionInv, Unrevoked, LoginsOf
<1> QED
  BY <1>1, <1>2, <1>3
  DEF Next, vars, ivars, AccountCall, CreateUser, DeleteUser, AwaitsBody, TenantCall, OnTenants,
      BodyRefused, MailArrives, Tick, Second

(* identity/tokens.py: create_session_token(), refresh_session_token() and *)
(* verify_session_token().  Until a restart forgets the revocations, an    *)
(* identity has at most as many valid sessions as it has logged in.        *)
THEOREM SessionsAreLogins == Spec => []SessionsComeFromLogins
<1>1. Init => SessionInv
  BY FS_EmptySet DEF Init, IInit, SessionInv, IsABag, EmptyBag, SetToBag
<1>2. SessionInv => SessionsComeFromLogins
  <2> SUFFICES ASSUME SessionInv, restarts = 0, NEW who
               PROVE  Cardinality({t \in Live : t.who = who}) <= LoginsOf(who)
    BY DEF SessionsComeFromLogins
  <2>1. {t \in Live : t.who = who} \in SUBSET Unrevoked(who)
    BY DEF Live, Valid, Unrevoked
  <2>2. /\ IsFiniteSet({t \in Live : t.who = who})
        /\ Cardinality({t \in Live : t.who = who}) <= Cardinality(Unrevoked(who))
    BY <2>1, UnrevokedCount, FS_Subset
  <2>3. Cardinality({t \in Live : t.who = who}) \in Nat
    BY <2>2, FS_CardinalityType
  <2> QED BY <2>2, <2>3, UnrevokedCount
<1> QED BY <1>1, <1>2, SessionStep, PTL DEF Spec
=============================================================================
