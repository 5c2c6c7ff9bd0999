-------------------------------- MODULE Tenancy --------------------------------
(***************************************************************************)
(* multi_tenancy/: the tenants and the map from domains to tenants         *)
(* (tenant_manager), and the quarantine stores per tenant (isolation).     *)
(* Tenants, domain map and the cache of stores are in memory; what is      *)
(* stored is on disk, in a directory per tenant, under the key the store   *)
(* was made with.  The cache of ciphers is read only while a store is made *)
(* and a store is never dropped, so it is not told apart from the cache of *)
(* stores.  Storing is one step here; QuarantineStore has its steps.       *)
(***************************************************************************)
EXTENDS Naturals, FiniteSets

CONSTANTS Tenants,    \* tenant ids
          Domains,
          Parent,     \* Parent[d]: d without its first label, or NoDomain
          NoDomain,
          Keys,       \* encryption keys, given or generated
          Plain,      \* no encryption: RawMailCipher without a key
          NoTenant, NoStore

ASSUME TenancyAssumption ==
  /\ Parent \in [Domains -> Domains \cup {NoDomain}]
  /\ NoDomain \notin Domains /\ NoTenant \notin Tenants
  /\ Plain \notin Keys /\ NoStore \notin Keys \cup {Plain}

VARIABLES domainsOf,  \* domainsOf[t]: tenant.domains; {} when t is no tenant
          keyOf,      \* keyOf[t]: tenant.encryption_key, NoStore when t is no tenant
          owner,      \* _domain_map
          stores,     \* stores[t]: key of the cached store of t, or NoStore
          dirs,       \* tenants whose directory exists
          items       \* what is on disk

tvars == <<domainsOf, keyOf, owner, stores, dirs, items>>

(* earlier: stored by a process that has ended since.                      *)
Item == [tenant : Tenants, key : Keys \cup {Plain}, earlier : BOOLEAN]

TTypeOK ==
  /\ domainsOf \in [Tenants -> SUBSET Domains]
  /\ keyOf \in [Tenants -> Keys \cup {NoStore}]
  /\ owner \in [Domains -> Tenants \cup {NoTenant}]
  /\ stores \in [Tenants -> Keys \cup {Plain, NoStore}]
  /\ dirs \subseteq Tenants
  /\ items \subseteq Item

Registered == {t \in Tenants : keyOf[t] # NoStore}

TInit ==
  /\ domainsOf = [t \in Tenants |-> {}]
  /\ keyOf = [t \in Tenants |-> NoStore]
  /\ owner = [d \in Domains |-> NoTenant]
  /\ stores = [t \in Tenants |-> NoStore]
  /\ dirs = {} /\ items = {}

----------------------------------------------------------------------------
(* TenantManager *)

(* The domain map after t has let go of the domains gone and claimed ds:   *)
(* what maps to another tenant is not let go of, but it is claimed.        *)
Remapped(t, gone, ds) ==
  [d \in Domains |-> IF d \in ds THEN t
                     ELSE IF d \in gone /\ owner[d] = t THEN NoTenant ELSE owner[d]]

(* k: the key of the request or a generated one.                           *)
CreateTenant(t, ds, k) ==
  /\ t \notin Registered
  /\ domainsOf' = [domainsOf EXCEPT ![t] = ds]
  /\ keyOf' = [keyOf EXCEPT ![t] = k]
  /\ owner' = Remapped(t, {}, ds)
  /\ UNCHANGED <<stores, dirs, items>>

(* A deliberate fault: the domains given up stay mapped.                   *)
UpdateDomains_KeepsMap(t, ds) ==
  /\ t \in Registered
  /\ domainsOf' = [domainsOf EXCEPT ![t] = ds]
  /\ owner' = Remapped(t, {}, ds)
  /\ UNCHANGED <<keyOf, stores, dirs, items>>

UpdateDomains(t, ds) ==
  /\ t \in Registered
  /\ domainsOf' = [domainsOf EXCEPT ![t] = ds]
  /\ owner' = Remapped(t, domainsOf[t], ds)
  /\ UNCHANGED <<keyOf, stores, dirs, items>>

(* update_tenant sets any attribute; the cached store keeps the old key.   *)
UpdateKey(t, k) ==
  /\ t \in Registered
  /\ keyOf' = [keyOf EXCEPT ![t] = k]
  /\ UNCHANGED <<domainsOf, owner, stores, dirs, items>>

Deprovision(t, purge) ==
  /\ t \in Registered
  /\ domainsOf' = [domainsOf EXCEPT ![t] = {}]
  /\ keyOf' = [keyOf EXCEPT ![t] = NoStore]
  /\ owner' = Remapped(t, domainsOf[t], {})
  /\ items' = IF purge THEN {i \in items : i.tenant # t} ELSE items
  /\ dirs' = IF purge THEN dirs \ {t} ELSE dirs
  /\ UNCHANGED stores

(* get_tenant_by_domain: the domain's own tenant, else the parent's.       *)
Resolve(d) ==
  IF owner[d] # NoTenant THEN owner[d]
  ELSE IF Parent[d] # NoDomain THEN owner[Parent[d]] ELSE NoTenant

----------------------------------------------------------------------------
(* TenantIsolatedQuarantine *)

(* A deliberate fault: the store is made anew for every call.              *)
StoreKey_NotCached(t) == IF t \in Registered THEN keyOf[t] ELSE Plain

(* get_store_for_tenant: the cached store, or a new one under the tenant's *)
(* key, without encryption when the tenant is unknown.                     *)
StoreKey(t) ==
  IF stores[t] # NoStore THEN stores[t]
  ELSE IF t \in Registered THEN keyOf[t] ELSE Plain

(* The stores of ts are fetched, and made where there were none.           *)
Fetch(ts) ==
  /\ stores' = [t \in Tenants |-> IF t \in ts THEN StoreKey(t) ELSE stores[t]]
  /\ dirs' = dirs \cup {t \in ts : stores[t] = NoStore}

(* The directory of a store that was cached before a purge is not made     *)
(* again: the write fails.                                                 *)
StoreMail(t) ==
  /\ Fetch({t})
  /\ items' = IF t \in dirs' THEN items \cup {[tenant |-> t, key |-> StoreKey(t), earlier |-> FALSE]}
                             ELSE items
  /\ UNCHANGED <<domainsOf, keyOf, owner>>

(* MSPAdminView.generate_dashboard_summary lists every tenant's store.     *)
Dashboard ==
  /\ Fetch(Registered)
  /\ UNCHANGED <<domainsOf, keyOf, owner, items>>

(* Only the disk outlives the process.                                     *)
TenantsRestart ==
  /\ domainsOf' = [t \in Tenants |-> {}]
  /\ keyOf' = [t \in Tenants |-> NoStore]
  /\ owner' = [d \in Domains |-> NoTenant]
  /\ stores' = [t \in Tenants |-> NoStore]
  /\ items' = {[i EXCEPT !.earlier = TRUE] : i \in items}
  /\ UNCHANGED dirs

----------------------------------------------------------------------------
(* A domain resolves only to a tenant that is registered now and lists the *)
(* domain or its parent now, however the domains were claimed, taken over, *)
(* given up and deprovisioned (tenant_manager.py:17-128).                  *)
ResolvesToClaimant ==
  \A d \in Domains :
    Resolve(d) # NoTenant =>
      /\ Resolve(d) \in Registered
      /\ {d, Parent[d]} \cap domainsOf[Resolve(d)] # {}

(* Mail a process has stored for a tenant stays readable through the       *)
(* tenant's store as long as the process lives, across changes of the      *)
(* tenant's key, deprovisioning and registration anew (isolation.py:38-49).*)
OwnMailReadable == \A i \in items : i.earlier \/ StoreKey(i.tenant) = i.key
=============================================================================
