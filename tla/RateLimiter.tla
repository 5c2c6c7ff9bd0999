------------------------------ MODULE RateLimiter ------------------------------
(***************************************************************************)
(* security/rate_limit.py over KeyValueStore.incr (storage/memory.py,      *)
(* storage/redis_store.py): the counter of one client address.             *)
(* InMemoryStore counts and sets the expiry in one step under its lock;    *)
(* RedisStore sends INCR and then, after the first INCR only, EXPIRE.      *)
(* webhook_receiver/app.py builds two limiters over the same store with    *)
(* the same key prefix, one for webhooks and one for the admin API: both   *)
(* count on the key modelled here.                                         *)
(***************************************************************************)
EXTENDS Naturals, Functions

CONSTANTS Callers,      \* requests underway at a time (bound)
          AdminCallers, \* those of them that call the admin API
          MaxRequests,  \* rate_limit_max_requests
          AdminMax,     \* admin_rate_limit_max_requests
          Window,       \* window_seconds, in ticks
          Stores,       \* the stores the gateway may be configured with
          MaxFaults     \* bound: lost connections and crashes between the commands

ASSUME LimiterAssumption ==
  /\ AdminCallers \subseteq Callers
  /\ {MaxRequests, AdminMax, Window} \subseteq Nat \ {0}
  /\ Stores \subseteq {"redis", "memory"}
  /\ MaxFaults \in Nat

VARIABLES store,     \* USE_REDIS: the store of this deployment
          count,     \* value of the key, 0 when there is none
          ttl,       \* ticks until the key expires, or NoTTL
          at,        \* at[c]: where the call of c stands
          recent,    \* recent[k]: calls counted k ticks ago and admitted
          faults

vars == <<store, count, ttl, at, recent, faults>>

NoTTL == Window + 1

(* The larger limit: counters matter only up to the call after it.         *)
Limit == IF AdminMax > MaxRequests THEN AdminMax ELSE MaxRequests
Cap(n) == IF n > Limit + 1 THEN Limit + 1 ELSE n

TypeOK ==
  /\ store \in Stores
  /\ count \in 0..(Limit + 1)
  /\ ttl \in 0..NoTTL
  /\ at \in [Callers -> {"idle", "expire", "admitted", "refused", "raised"}]
  /\ recent \in [0..(Window - 1) -> Nat]
  /\ faults \in 0..MaxFaults

Init ==
  /\ store \in Stores
  /\ count = 0 /\ ttl = 0
  /\ at = [c \in Callers |-> "idle"]
  /\ recent = [k \in 0..(Window - 1) |-> 0]
  /\ faults = 0

MaxOf(c) == IF c \in AdminCallers THEN AdminMax ELSE MaxRequests

(* A deliberate fault: the call after the last one is admitted too.        *)
Admits_OneMore(c, n) == n <= MaxOf(c) + 1

(* check() raises RateLimitExceeded when the count is above the limit.     *)
Admits(c, n) == n <= MaxOf(c)

(* Every call is counted, refused ones too.                                *)
Counts(c) ==
  /\ at[c] = "idle"
  /\ count' = Cap(count + 1)
  /\ recent' = IF Admits(c, count + 1) THEN [recent EXCEPT ![0] = @ + 1] ELSE recent

Decides(c, n) == at' = [at EXCEPT ![c] = IF Admits(c, n) THEN "admitted" ELSE "refused"]

(* A deliberate fault: every call starts the window anew.                  *)
IncrInMemory_Restarts(c) ==
  /\ store = "memory"
  /\ Counts(c)
  /\ ttl' = Window
  /\ Decides(c, count + 1)
  /\ UNCHANGED <<store, faults>>

(* InMemoryStore.incr: a new key gets its expiry, a live one keeps it.     *)
IncrInMemory(c) ==
  /\ store = "memory"
  /\ Counts(c)
  /\ ttl' = IF count = 0 THEN Window ELSE ttl
  /\ Decides(c, count + 1)
  /\ UNCHANGED <<store, faults>>

(* INCR on a live key.                                                     *)
IncrRedis(c) ==
  /\ store = "redis" /\ count > 0
  /\ Counts(c)
  /\ Decides(c, count + 1)
  /\ UNCHANGED <<store, ttl, faults>>

(* A deliberate fault: only the call that reaches the limit sends EXPIRE.  *)
CreateRedis_ExpireAtLimit(c) ==
  /\ store = "redis" /\ count = 0
  /\ Counts(c)
  /\ ttl' = NoTTL
  /\ at' = [at EXCEPT ![c] = IF count + 1 = MaxOf(c) THEN "expire" ELSE "admitted"]
  /\ UNCHANGED <<store, faults>>

(* INCR is done but its answer does not come: the call raises.             *)
IncrLost(c) ==
  /\ store = "redis" /\ count > 0
  /\ at[c] = "idle"
  /\ faults < MaxFaults
  /\ faults' = faults + 1
  /\ count' = Cap(count + 1)
  /\ at' = [at EXCEPT ![c] = "raised"]
  /\ UNCHANGED <<store, ttl, recent>>

(* INCR that creates the key; its answer 1 makes this call send EXPIRE.    *)
CreateRedis(c) ==
  /\ store = "redis" /\ count = 0
  /\ Counts(c)
  /\ ttl' = NoTTL
  /\ at' = [at EXCEPT ![c] = "expire"]
  /\ UNCHANGED <<store, faults>>

ExpireRedis(c) ==
  /\ at[c] = "expire"
  /\ ttl' = Window
  /\ Decides(c, 1)
  /\ UNCHANGED <<store, count, recent, faults>>

(* The connection is lost, or the process dies, before EXPIRE: the call    *)
(* raises, the key keeps no expiry.                                        *)
ExpireLost(c) ==
  /\ at[c] = "expire"
  /\ faults < MaxFaults
  /\ faults' = faults + 1
  /\ at' = [at EXCEPT ![c] = "raised"]
  /\ UNCHANGED <<store, count, ttl, recent>>

(* The caller has its answer; another call may come.                       *)
Returns(c) ==
  /\ at[c] \in {"admitted", "refused", "raised"}
  /\ at' = [at EXCEPT ![c] = "idle"]
  /\ UNCHANGED <<store, count, ttl, recent, faults>>

(* A tick of the clock; the key is gone when its time is up.               *)
TimePasses ==
  /\ recent' = [k \in DOMAIN recent |-> IF k = 0 THEN 0 ELSE recent[k - 1]]
  /\ \/ ttl \in 2..Window /\ ttl' = ttl - 1 /\ UNCHANGED count
     \/ ttl = 1 /\ ttl' = 0 /\ count' = 0
     \/ ttl \in {0, NoTTL} /\ UNCHANGED <<ttl, count>>
  /\ UNCHANGED <<store, at, faults>>

CallStep(c) ==
  \/ IncrInMemory(c) \/ IncrRedis(c) \/ IncrLost(c)
  \/ CreateRedis(c) \/ ExpireRedis(c) \/ ExpireLost(c)
  \/ Returns(c)

Next == TimePasses \/ \E c \in Callers : CallStep(c)

Spec == Init /\ [][Next]_vars

(* Time passes and a command that was sent is answered or lost.  Nothing   *)
(* obliges a client to call.                                               *)
Fairness ==
  /\ WF_vars(TimePasses)
  /\ \A c \in Callers : WF_vars(ExpireRedis(c) \/ ExpireLost(c))

FairSpec == Spec /\ Fairness

-----------------------------------------------------------------------------
(* Properties.                                                             *)

(* rate_limit.py accepts a burst of twice the limit at a window boundary   *)
(* and no more: whatever the interleaving of calls and of INCR and EXPIRE, *)
(* no stretch of Window ticks sees more calls admitted than that.          *)
BurstBound == SumFunction(recent) <= 2 * Limit

(* EXPIRE reaches each key once, before its first tick of life counts: a   *)
(* key lacks an expiry only while the one call that created it is about to *)
(* send EXPIRE, or after that call was cut off.  So no EXPIRE of an older  *)
(* key ever prolongs or shortens a window, and a window has one length.    *)
KeyLifetimes ==
  /\ count = 0 <=> ttl = 0
  /\ \A c \in Callers : at[c] = "expire" => ttl = NoTTL
  /\ \A c, d \in Callers : at[c] = "expire" /\ at[d] = "expire" => c = d
  /\ ttl = NoTTL /\ faults = 0 => \E c \in Callers : at[c] = "expire"

(* A client that is refused is admitted again after a while: no stream of  *)
(* calls, refused ones included, keeps its counter alive.  Only a lost     *)
(* command can: a key whose EXPIRE never came stays for good.              *)
WindowEnds == count > 0 ~> (count = 0 \/ faults > 0)
=============================================================================
