---------------------------- MODULE KeyRotation ----------------------------
(***************************************************************************)
(* reliability/key_rotation.py: the versions of one secret, the newest     *)
(* first, with a grace period for the one a rotation supersedes; and       *)
(* reliability/backup.py and restore.py: encrypted archives whose key is   *)
(* rotated by rewriting them in place.  All of it is synchronous; a crash  *)
(* can come between opening a file for writing, which empties it, and      *)
(* writing it.  Fernet refuses any key but the one it encrypted with.      *)
(***************************************************************************)
EXTENDS Naturals, Sequences

CONSTANTS Keys,        \* values of the secret, keys of backups
          Graces,      \* grace periods asked for
          Backups,     \* output paths
          NoKey,       \* an empty or missing file
          MaxTime,     \* bound on the clock
          MaxVersions, \* bound on the list of versions
          MaxDeaths   \* bound

ASSUME KeyRotationAssumption ==
  /\ Graces \subseteq Nat
  /\ NoKey \notin Keys
  /\ {MaxTime, MaxVersions, MaxDeaths} \subseteq Nat

Never == MaxTime + 1   \* expires_at = None: after every time of the model

VARIABLES time,
          versions,  \* _secrets[name]: key and expiry, newest first
          graced,    \* bookkeeping: superseded values, each with the end of its grace
          pinned,    \* bookkeeping: values that were primary when another was set
          sealed,    \* sealed[b]: the key the file at b can be opened with
          keyId,     \* bookkeeping: the key the caller has on record for b
          writing,   \* the file open for writing and its new key, or << >>
          spoiled,      \* bookkeeping: files a crash left empty
          deaths

kvars == <<time, versions, graced, pinned, sealed, keyId, writing, spoiled, deaths>>
secrets == <<versions, graced, pinned>>
backups == <<sealed, keyId, writing, spoiled, deaths>>

KTypeOK ==
  /\ time \in 0..MaxTime
  /\ \A i \in DOMAIN versions : versions[i].key \in Keys /\ versions[i].expires \in Nat
  /\ graced \subseteq Keys \X Nat
  /\ pinned \subseteq Keys
  /\ {sealed, keyId} \subseteq [Backups -> Keys \cup {NoKey}]
  /\ spoiled \subseteq Backups
  /\ deaths \in 0..MaxDeaths

KInit ==
  /\ time = 0
  /\ versions = << >>
  /\ graced = {}
  /\ pinned = {}
  /\ sealed = [b \in Backups |-> NoKey]
  /\ keyId = [b \in Backups |-> NoKey]
  /\ writing = << >>
  /\ spoiled = {}
  /\ deaths = 0

-----------------------------------------------------------------------------
(* The rotator.                                                            *)

Primary(k) == [key |-> k, expires |-> Never]

(* set_primary_secret(): the versions before stay as they are, and one     *)
(* that was primary stays valid for good.                                  *)
SetPrimary(k) ==
  /\ Len(versions) < MaxVersions
  /\ versions' = <<Primary(k)>> \o versions
  /\ pinned' = pinned \cup {versions[i].key : i \in DOMAIN versions \cap {1}}
  /\ UNCHANGED <<time, graced, backups>>

(* A deliberate fault: the grace period is given to the oldest version.    *)
Rotate_Oldest(k, g) ==
  /\ versions # << >> /\ Len(versions) < MaxVersions
  /\ versions' = <<Primary(k)>> \o [versions EXCEPT ![Len(versions)].expires = time + g]
  /\ graced' = graced \cup {<<versions[1].key, time + g>>}
  /\ UNCHANGED <<time, pinned, backups>>

(* rotate_secret().  Without a primary it sets one.                        *)
Rotate(k, g) ==
  /\ versions # << >> /\ Len(versions) < MaxVersions
  /\ versions' = <<Primary(k)>> \o [versions EXCEPT ![1].expires = time + g]
  /\ graced' = graced \cup {<<versions[1].key, time + g>>}
  /\ UNCHANGED <<time, pinned, backups>>

IsValid(k) == \E i \in DOMAIN versions : versions[i].key = k /\ versions[i].expires > time

Passes ==
  /\ time < MaxTime
  /\ time' = time + 1
  /\ UNCHANGED <<secrets, backups>>

-----------------------------------------------------------------------------
(* Backups.                                                                *)

(* create_backup(): the archive is encrypted in memory, then written.      *)
Create(b, k) ==
  /\ writing = << >>
  /\ sealed' = [sealed EXCEPT ![b] = NoKey]
  /\ keyId' = [keyId EXCEPT ![b] = NoKey]
  /\ writing' = <<b, k>>
  /\ spoiled' = spoiled \ {b}
  /\ UNCHANGED <<time, secrets, deaths>>

(* rotate_backup_key(): decrypt() raises under a wrong key, before the     *)
(* file is touched.  A deliberate fault: the key is not tried.             *)
Reencrypt_KeyUntried(b, old, new) ==
  /\ writing = << >>
  /\ sealed[b] # NoKey
  /\ sealed' = [sealed EXCEPT ![b] = old]
  /\ UNCHANGED <<time, secrets, keyId, writing, spoiled, deaths>>

Reencrypt(b, old, new) ==
  /\ writing = << >>
  /\ sealed[b] = old
  /\ sealed' = [sealed EXCEPT ![b] = NoKey]
  /\ writing' = <<b, new>>
  /\ UNCHANGED <<time, secrets, keyId, spoiled, deaths>>

(* The file is written and the call returns its hash.  Which key opens it  *)
(* is in no file: the caller, who chose the key, notes it.                 *)
Written ==
  /\ writing # << >>
  /\ sealed' = [sealed EXCEPT ![writing[1]] = writing[2]]
  /\ keyId' = [keyId EXCEPT ![writing[1]] = writing[2]]
  /\ writing' = << >>
  /\ UNCHANGED <<time, secrets, spoiled, deaths>>

(* restore_backup(): reads, verifies and opens with the key it is given.   *)
Restores(b, k) == sealed[b] = k

(* The rotator's versions are in memory only.                              *)
RotatorDies ==
  /\ deaths < MaxDeaths
  /\ deaths' = deaths + 1
  /\ versions' = << >>
  /\ graced' = {}
  /\ pinned' = {}
  /\ spoiled' = spoiled \cup (IF writing = << >> THEN {} ELSE {writing[1]})
  /\ writing' = << >>
  /\ UNCHANGED <<time, sealed, keyId>>

KNext ==
  \/ \E k \in Keys : SetPrimary(k) \/ \E g \in Graces : Rotate(k, g)
  \/ Passes
  \/ \E b \in Backups, k, old \in Keys : Create(b, k) \/ Reencrypt(b, old, k)
  \/ Written \/ RotatorDies

KSpec == KInit /\ [][KNext]_kvars

-----------------------------------------------------------------------------
(* Properties.                                                             *)

(* key_rotation.py: dual-active key windows, without locking out data      *)
(* during rotation.  However the values come and go, a value is accepted   *)
(* while it is primary, through every grace period it was given and, if    *)
(* another was set over it without a rotation, for good; and at no other   *)
(* time.                                                                   *)
GraceHolds ==
  \A k \in Keys :
    IsValid(k) <=> \/ versions # << >> /\ versions[1].key = k
                   \/ k \in pinned
                   \/ \E g \in graced : g[1] = k /\ time < g[2]

(* A backup on record can be restored with the key on record, unless its   *)
(* file is being written or a crash emptied it.                            *)
BackupRestores ==
  \A b \in Backups :
    \/ keyId[b] = NoKey \/ b \in spoiled
    \/ writing # << >> /\ writing[1] = b
    \/ Restores(b, keyId[b])
=============================================================================
