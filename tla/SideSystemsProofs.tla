------------------------- MODULE SideSystemsProofs -------------------------
(***************************************************************************)
(* Proofs about the systems beside the mail path, for every set of keys,   *)
(* backups, mails, subjects and commands.                                  *)
(***************************************************************************)
EXTENDS Removal, KeyRotation, Compliance, TLAPS

-----------------------------------------------------------------------------
(* KeyRotation: versions of a secret, and backups rewritten in place.      *)

(* Every version is the primary, was one when another was set over it, or  *)
(* is in a grace period it was given; and what the bookkeeping says was    *)
(* pinned or given a grace period has its version in the list.             *)
Version == [key : Keys, expires : Nat]
VersionsTyped == versions \in Seq(Version)
PrimaryStands == versions # << >> => versions[1].expires = Never
OlderAreHeld ==
  \A i \in DOMAIN versions \ {1} :
    \/ versions[i].expires = Never /\ versions[i].key \in pinned
    \/ <<versions[i].key, versions[i].expires>> \in graced
PinnedIsListed ==
  \A k \in pinned : \E i \in DOMAIN versions \ {1} :
    versions[i].key = k /\ versions[i].expires = Never
GracedIsListed ==
  \A g \in graced : \E i \in DOMAIN versions \ {1} :
    versions[i].key = g[1] /\ versions[i].expires = g[2]

RotatorInv ==
  /\ time \in 0..MaxTime
  /\ graced \subseteq Keys \X Nat
  /\ VersionsTyped
  /\ PrimaryStands
  /\ OlderAreHeld
  /\ PinnedIsListed
  /\ GracedIsListed

(* The versions after one more is put in front. *)
LEMMA PutInFront ==
  ASSUME NEW S, NEW v \in S, NEW q \in Seq(S), NEW w, w = <<v>> \o q
  PROVE  /\ w \in Seq(S) /\ w # << >> /\ w[1] = v
         /\ \A i \in DOMAIN q : i + 1 \in DOMAIN w \ {1} /\ w[i + 1] = q[i]
         /\ \A i \in DOMAIN w \ {1} : i - 1 \in DOMAIN q /\ w[i] = q[i - 1]
  OBVIOUS

LEMMA SetPrimaryInv ==
  ASSUME RotatorInv, NEW k \in Keys, SetPrimary(k)
  PROVE  RotatorInv'
<1> USE KeyRotationAssumption DEF RotatorInv, Never
<1>1. Primary(k) \in Version /\ versions \in Seq(Version)
  BY DEF Primary, Version, VersionsTyped
<1>2. /\ versions' # << >> /\ versions'[1] = Primary(k) /\ versions' \in Seq(Version)
      /\ \A i \in DOMAIN versions : i + 1 \in DOMAIN versions' \ {1} /\ versions'[i + 1] = versions[i]
      /\ \A i \in DOMAIN versions' \ {1} : i - 1 \in DOMAIN versions /\ versions'[i] = versions[i - 1]
  <2>1. versions' = <<Primary(k)>> \o versions
    BY DEF SetPrimary
  <2> HIDE DEF RotatorInv
  <2> QED BY <1>1, <2>1, PutInFront
<1>3. DOMAIN versions = 1..Len(versions) /\ Len(versions) \in Nat
  BY DEF VersionsTyped
<1>4. /\ time' = time /\ graced' = graced
      /\ pinned' = pinned \cup {versions[i].key : i \in DOMAIN versions \cap {1}}
  BY DEF SetPrimary
<1>5. VersionsTyped' /\ PrimaryStands'
  BY <1>2 DEF VersionsTyped, PrimaryStands, Primary
<1>6. OlderAreHeld'
  <2> SUFFICES ASSUME NEW i \in DOMAIN versions' \ {1}
               PROVE  \/ versions'[i].expires = Never /\ versions'[i].key \in pinned'
                      \/ <<versions'[i].key, versions'[i].expires>> \in graced'
    BY <1>4 DEF OlderAreHeld
  <2>1. i - 1 \in DOMAIN versions /\ versions'[i] = versions[i - 1]
    BY <1>2
  <2>2. CASE i - 1 = 1
    BY <2>1, <2>2, <1>3, <1>4 DEF PrimaryStands
  <2>3. CASE i - 1 # 1
    BY <2>1, <2>3, <1>4 DEF OlderAreHeld
  <2> QED BY <2>2, <2>3
<1>7. PinnedIsListed'
  <2> SUFFICES ASSUME NEW p \in pinned'
               PROVE  \E i \in DOMAIN versions' \ {1} : versions'[i].key = p /\ versions'[i].expires = Never
    BY DEF PinnedIsListed
  <2>1. \E i \in DOMAIN versions : versions[i].key = p /\ versions[i].expires = Never
    BY <1>3, <1>4 DEF PinnedIsListed, PrimaryStands
  <2> QED BY <2>1, <1>2
<1>8. GracedIsListed'
  BY <1>2, <1>4 DEF GracedIsListed
<1> QED BY <1>4, <1>5, <1>6, <1>7, <1>8

(* Rotation gives the version that was primary its end, and nothing else.  *)
LEMMA RotateInv ==
  ASSUME RotatorInv, NEW k \in Keys, NEW g \in Graces, Rotate(k, g)
  PROVE  RotatorInv'
<1> USE KeyRotationAssumption DEF RotatorInv, Never
<1> DEFINE q == [versions EXCEPT ![1].expires = time + g]
<1>1. Primary(k) \in Version /\ versions \in Seq(Version) /\ versions # << >> /\ time + g \in Nat
  BY DEF Primary, Version, VersionsTyped, Rotate
<1>2. /\ q \in Seq(Version) /\ DOMAIN q = DOMAIN versions /\ 1 \in DOMAIN versions
      /\ q[1] = [key |-> versions[1].key, expires |-> time + g]
      /\ \A i \in DOMAIN versions \ {1} : q[i] = versions[i]
  <2> DEFINE r == [key |-> versions[1].key, expires |-> time + g]
  <2> HIDE DEF RotatorInv
  <2>1. 1 \in DOMAIN versions /\ DOMAIN versions = 1..Len(versions) /\ Len(versions) \in Nat
    BY <1>1
  <2>2. versions[1] \in Version /\ \A i \in DOMAIN versions : versions[i] \in Version
    BY <1>1, <2>1
  <2>3. r \in Version /\ [versions[1] EXCEPT !.expires = time + g] = r
    BY <1>1, <2>2 DEF Version
  <2>4. q = [versions EXCEPT ![1] = r]
    BY <2>1, <2>3
  <2> QED
    <3> HIDE DEF r, q
    <3>1. q = [i \in 1..Len(versions) |-> IF i = 1 THEN r ELSE versions[i]]
      BY <2>1, <2>4, <1>1
    <3>2. q \in Seq(Version)
      BY <2>1, <2>2, <2>3, <3>1
    <3> QED BY <2>1, <3>1, <3>2 DEF r
<1>3. /\ versions' # << >> /\ versions'[1] = Primary(k) /\ versions' \in Seq(Version)
      /\ \A i \in DOMAIN q : i + 1 \in DOMAIN versions' \ {1} /\ versions'[i + 1] = q[i]
      /\ \A i \in DOMAIN versions' \ {1} : i - 1 \in DOMAIN q /\ versions'[i] = q[i - 1]
  <2>1. versions' = <<Primary(k)>> \o q
    BY DEF Rotate
  <2> HIDE DEF RotatorInv, q
  <2> QED BY <1>1, <1>2, <2>1, PutInFront
<1>4. /\ time' = time /\ pinned' = pinned /\ graced' = graced \cup {<<versions[1].key, time + g>>}
  BY DEF Rotate
<1>5. VersionsTyped' /\ PrimaryStands'
  BY <1>3 DEF VersionsTyped, PrimaryStands, Primary
<1>6. versions[1].key \in Keys
  BY <1>1, <1>2 DEF Version
<1> HIDE DEF q
<1>7. OlderAreHeld'
  <2> SUFFICES ASSUME NEW i \in DOMAIN versions' \ {1}
               PROVE  \/ versions'[i].expires = Never /\ versions'[i].key \in pinned'
                      \/ <<versions'[i].key, versions'[i].expires>> \in graced'
    BY DEF OlderAreHeld
  <2>1. i - 1 \in DOMAIN versions /\ versions'[i] = q[i - 1]
    BY <1>2, <1>3
  <2>2. CASE i - 1 = 1
    BY <2>1, <2>2, <1>2, <1>4
  <2>3. CASE i - 1 # 1
    BY <2>1, <2>3, <1>2, <1>4 DEF OlderAreHeld
  <2> QED BY <2>2, <2>3
<1>8. PinnedIsListed'
  <2> SUFFICES ASSUME NEW p \in pinned
               PROVE  \E i \in DOMAIN versions' \ {1} : versions'[i].key = p /\ versions'[i].expires = Never
    BY <1>4 DEF PinnedIsListed
  <2>1. PICK i \in DOMAIN versions \ {1} : versions[i].key = p /\ versions[i].expires = Never
    BY DEF PinnedIsListed
  <2>2. i + 1 \in DOMAIN versions' \ {1} /\ versions'[i + 1] = versions[i]
    BY <1>2, <1>3
  <2> QED BY <2>1, <2>2
<1>9. GracedIsListed'
  <2> SUFFICES ASSUME NEW e \in graced'
               PROVE  \E i \in DOMAIN versions' \ {1} :
                        versions'[i].key = e[1] /\ versions'[i].expires = e[2]
    BY DEF GracedIsListed
  <2>1. CASE e \in graced
    <3>1. PICK i \in DOMAIN versions \ {1} : versions[i].key = e[1] /\ versions[i].expires = e[2]
      BY <2>1 DEF GracedIsListed
    <3>2. i + 1 \in DOMAIN versions' \ {1} /\ versions'[i + 1] = versions[i]
      BY <1>2, <1>3
    <3> QED BY <3>1, <3>2
  <2>2. CASE e = <<versions[1].key, time + g>>
    <3>1. 1 + 1 \in DOMAIN versions' \ {1} /\ versions'[1 + 1] = q[1]
      BY <1>2, <1>3, Zenon
    <3> QED BY <2>2, <3>1, <1>2
  <2> QED BY <2>1, <2>2, <1>4
<1> QED BY <1>4, <1>5, <1>6, <1>7, <1>8, <1>9, <1>1

LEMMA RotatorStep ==
  ASSUME RotatorInv, [KNext]_kvars
  PROVE  RotatorInv'
<1> USE KeyRotationAssumption
<1>1. ASSUME NEW k \in Keys, SetPrimary(k)
      PROVE  RotatorInv'
  BY <1>1, SetPrimaryInv
<1>2. ASSUME NEW k \in Keys, NEW g \in Graces, Rotate(k, g)
      PROVE  RotatorInv'
  BY <1>2, RotateInv
<1>3. CASE Passes
  BY <1>3 DEF Passes, secrets, RotatorInv, VersionsTyped, PrimaryStands, OlderAreHeld,
              PinnedIsListed, GracedIsListed
<1>4. CASE UNCHANGED <<time, secrets>>
  BY <1>4 DEF secrets, RotatorInv, VersionsTyped, PrimaryStands, OlderAreHeld,
              PinnedIsListed, GracedIsListed
<1>5. CASE RotatorDies
  BY <1>5 DEF RotatorDies, RotatorInv, VersionsTyped, PrimaryStands, OlderAreHeld,
              PinnedIsListed, GracedIsListed
<1>6. ASSUME NEW b \in Backups, NEW k \in Keys, NEW was \in Keys,
             Create(b, k) \/ Reencrypt(b, was, k)
      PROVE  RotatorInv'
  BY <1>6, <1>4 DEF Create, Reencrypt
<1> QED
  BY <1>1, <1>2, <1>3, <1>4, <1>5, <1>6 DEF KNext, Written, kvars, secrets

LEMMA RotatorInvariant == KSpec => []RotatorInv
<1>1. KInit => RotatorInv
  BY KeyRotationAssumption
  DEF KInit, RotatorInv, VersionsTyped, PrimaryStands, OlderAreHeld, PinnedIsListed,
      GracedIsListed
<1> QED BY <1>1, RotatorStep, PTL DEF KSpec

(* reliability/key_rotation.py: set_primary_secret(), rotate_secret() and  *)
(* is_valid().  For every set of keys and grace periods and any order of   *)
(* the calls: a value is accepted exactly while it is primary, pinned or   *)
(* in a grace period it was given.                                         *)
THEOREM GraceIsKept == KSpec => []GraceHolds
<1> USE KeyRotationAssumption
<1>1. RotatorInv => GraceHolds
  <2> SUFFICES ASSUME RotatorInv, NEW k \in Keys
               PROVE  IsValid(k) <=> \/ versions # << >> /\ versions[1].key = k
                                     \/ k \in pinned
                                     \/ \E g \in graced : g[1] = k /\ time < g[2]
    BY DEF GraceHolds
  <2>1. time < Never
    BY DEF RotatorInv, Never
  <2>2. versions # << >> => 1 \in DOMAIN versions
    BY DEF RotatorInv, VersionsTyped
  <2>3. ASSUME NEW i \in DOMAIN versions, versions[i].key = k, versions[i].expires > time
        PROVE  \/ versions # << >> /\ versions[1].key = k
               \/ k \in pinned
               \/ \E g \in graced : g[1] = k /\ time < g[2]
    <3>1. CASE i = 1
      BY <2>3, <3>1 DEF RotatorInv, VersionsTyped
    <3>2. CASE i # 1
      <4>1. CASE versions[i].key \in pinned
        BY <4>1, <2>3
      <4>2. CASE <<versions[i].key, versions[i].expires>> \in graced
        <5>1. versions[i] \in Version /\ time \in Nat
          BY DEF RotatorInv, VersionsTyped
        <5>2. versions[i].expires \in Nat
          BY <5>1 DEF Version
        <5> QED BY <4>2, <2>3, <5>1, <5>2
      <4> QED BY <3>2, <4>1, <4>2 DEF RotatorInv, OlderAreHeld
    <3> QED BY <3>1, <3>2
  <2>4. ASSUME versions # << >>, versions[1].key = k
        PROVE  IsValid(k)
    BY <2>1, <2>2, <2>4 DEF IsValid, RotatorInv, PrimaryStands, Never
  <2>5. ASSUME k \in pinned
        PROVE  IsValid(k)
    BY <2>1, <2>5 DEF IsValid, RotatorInv, PinnedIsListed, Never
  <2>6. ASSUME NEW g \in graced, g[1] = k, time < g[2]
        PROVE  IsValid(k)
    <3>1. g[2] \in Nat /\ time \in Nat
      BY DEF RotatorInv
    <3> QED BY <2>6, <3>1 DEF IsValid, RotatorInv, GracedIsListed
  <2> QED BY <2>3, <2>4, <2>5, <2>6 DEF IsValid
<1> QED BY <1>1, RotatorInvariant, PTL

(* reliability/backup.py: a file open for writing has one new key.         *)
BackupInv ==
  /\ writing \in {<< >>} \cup Backups \X Keys
  /\ {sealed, keyId} \subseteq [Backups -> Keys \cup {NoKey}]
  /\ spoiled \subseteq Backups
  /\ BackupRestores

(* reliability/backup.py: create_backup(), rotate_backup_key() and         *)
(* restore_backup().  A backup on record opens with the key on record      *)
(* unless its file is being written or a crash left it empty.              *)
THEOREM BackupsRestore == KSpec => []BackupRestores
<1> USE KeyRotationAssumption DEF BackupInv, BackupRestores, Restores
<1>1. KInit => BackupInv
  BY DEF KInit
<1>2. BackupInv /\ [KNext]_kvars => BackupInv'
  <2> SUFFICES ASSUME BackupInv, [KNext]_kvars
               PROVE  BackupInv'
    OBVIOUS
  <2>1. CASE UNCHANGED backups
    BY <2>1 DEF backups
  <2>2. ASSUME NEW b \in Backups, NEW k \in Keys, Create(b, k)
        PROVE  BackupInv'
    BY <2>2 DEF Create
  <2>3. ASSUME NEW b \in Backups, NEW was \in Keys, NEW k \in Keys, Reencrypt(b, was, k)
        PROVE  BackupInv'
    BY <2>3 DEF Reencrypt
  <2>4. CASE Written
    BY <2>4 DEF Written
  <2>5. CASE RotatorDies
    BY <2>5 DEF RotatorDies
  <2> QED
    BY <2>1, <2>2, <2>3, <2>4, <2>5 DEF KNext, SetPrimary, Rotate, Passes, kvars, backups
<1>3. BackupInv => BackupRestores
  OBVIOUS
<1> QED BY <1>1, <1>2, <1>3, PTL DEF KSpec

-----------------------------------------------------------------------------
(* Compliance: holds, and the rewriting of the audit log.                  *)

(* Outside of _save() the file holds what is in memory; what add_hold()    *)
(* returned for is held.                                                   *)
HoldsOnFile == busy = "saving" \/ holdFile = holds
PromisesHeld == "holds" \in torn \/ promised \subseteq holds

(* The lines a rewrite will write, and what is in the log until it empties *)
(* it, are all that was recorded and neither left out nor caught by it.    *)
RewriteKeeps ==
  "log" \in torn
  \/ /\ busy # "emptied" => recorded \subseteq log \cup purged \cup exposed
     /\ busy \in {"read", "emptied"} => recorded \subseteq kept \cup purged \cup exposed

ComplianceInv ==
  /\ HoldsOnFile
  /\ PromisesHeld
  /\ purged \subseteq Dated
  /\ RewriteKeeps

LEMMA ComplianceStep ==
  ASSUME ComplianceInv, [CNext]_cvars
  PROVE  ComplianceInv'
<1> USE DEF ComplianceInv, HoldsOnFile, PromisesHeld, RewriteKeeps, files, ghosts, Begin
<1>1. ASSUME NEW l \in Lines, HandOver(l)
      PROVE  ComplianceInv'
  BY <1>1 DEF HandOver
<1>2. CASE AppendLine
  BY <1>2 DEF AppendLine
<1>3. ASSUME NEW x \in Lines \cup Files, Age(x)
      PROVE  ComplianceInv'
  BY <1>3 DEF Age
<1>4. ASSUME NEW i \in HoldIds, NEW t \in Targets, AddHold(i, t)
      PROVE  ComplianceInv'
  BY <1>4 DEF AddHold
<1>5. ASSUME NEW h \in HoldIds \X Targets, RemoveHold(h)
      PROVE  ComplianceInv'
  BY <1>5 DEF RemoveHold
<1>6. CASE Saved
  BY <1>6 DEF Saved
<1>7. CASE Purge
  BY <1>7 DEF Purge, ExpiredLines
<1>8. ASSUME NEW s \in Subjects, Erase(s)
      PROVE  ComplianceInv'
  BY <1>8 DEF Erase
<1>9. CASE Empties
  BY <1>9 DEF Empties
<1>10. CASE Rewritten
  BY <1>10 DEF Rewritten
<1>11. CASE Dies
  BY <1>11 DEF Dies
<1>12. CASE UNCHANGED cvars
  BY <1>12 DEF cvars
<1> QED
  BY <1>1, <1>2, <1>3, <1>4, <1>5, <1>6, <1>7, <1>8, <1>9, <1>10, <1>11, <1>12 DEF CNext

LEMMA ComplianceInvariant == CSpec => []ComplianceInv
<1>1. CInitial => ComplianceInv
  BY DEF CInitial, ComplianceInv, HoldsOnFile, PromisesHeld, RewriteKeeps
<1> QED BY <1>1, ComplianceStep, PTL DEF CSpec

(* compliance/retention.py: _purge_audit_log(), and erase_subject_data()   *)
(* of gdpr.py, beside audit/logger.py.  Whatever is purged and erased, a   *)
(* recorded line is in the log unless it expired, was appended during a    *)
(* rewrite, or a crash caught the rewrite.                                 *)
THEOREM EvidenceIsKept == CSpec => []EvidenceKept
<1>1. ComplianceInv => EvidenceKept
  BY DEF ComplianceInv, RewriteKeeps, EvidenceKept
<1> QED BY <1>1, ComplianceInvariant, PTL

(* compliance/retention.py: add_hold(), remove_hold(), is_held(),          *)
(* purge_raw_mail_directory() and purge_audit_log_file(), and              *)
(* erase_subject_data() of gdpr.py.  For every set of holds, files, lines  *)
(* and subjects and any crash but one of a save: the retention removes no  *)
(* file by the name of a hold and no line that shows what a hold is on,    *)
(* and an erasure removes only what mentions a subject without a hold.     *)
THEOREM HoldsProtectFiles == CSpec => HoldsProtect
<1> DEFINE Protected ==
      \/ "holds" \in torn
      \/ /\ \A f \in raw \ raw' :
              \/ erasing' = {} /\ f \notin On(promised)
              \/ \E s \in erasing' \ On(promised) : f \in Mentions[s] \ Sealed
         /\ \A l \in purged' \ purged : Shown(l) \cap On(promised) = {}
<1>1. ComplianceInv /\ [CNext]_cvars => [Protected]_cvars
  <2> SUFFICES ASSUME ComplianceInv, CNext, "holds" \notin torn
               PROVE  Protected
    OBVIOUS
  <2>1. On(promised) \subseteq On(holds)
    BY DEF ComplianceInv, PromisesHeld, On
  <2>2. CASE Purge
    <3>1. erasing' = {} /\ raw \ raw' \subseteq ExpiredFiles /\ purged' \ purged \subseteq ExpiredLines
      BY <2>2 DEF Purge
    <3>2. \A f \in ExpiredFiles : f \notin On(promised)
      BY <2>1 DEF ExpiredFiles, Held
    <3>3. \A l \in ExpiredLines : Shown(l) \cap On(promised) = {}
      BY <2>1 DEF ExpiredLines, Held
    <3> QED BY <3>1, <3>2, <3>3
  <2>3. ASSUME NEW s \in Subjects, Erase(s)
        PROVE  Protected
    <3>1. /\ s \in erasing' \ On(promised) /\ purged' = purged
          /\ raw \ raw' \subseteq Mentions[s] \ Sealed
      BY <2>1, <2>3 DEF Erase, Held, ghosts
    <3> QED BY <3>1
  <2>4. ASSUME UNCHANGED <<raw, purged>>
        PROVE  Protected
    BY <2>4
  <2>5. \/ Purge \/ \E s \in Subjects : Erase(s)
        \/ UNCHANGED <<raw, purged>>
    BY DEF CNext, HandOver, AppendLine, Age, AddHold, RemoveHold, Saved, Empties, Rewritten, Dies,
           files, ghosts
  <2> HIDE DEF Protected
  <2> QED BY <2>2, <2>3, <2>4, <2>5
<1> QED BY <1>1, ComplianceInvariant, PTL DEF CSpec, HoldsProtect

-----------------------------------------------------------------------------
(* Removal: taking delivered mail back.                                    *)

Recs == Messages \X Nat

RemovalCall ==
  [at : {"notMade", "scan", "ask", "answered", "end"}, looks : Seq(Urls),
   wanted : SUBSET Messages, todo : Seq(Recs), i : Nat, ok : BOOLEAN,
   seen : SUBSET Recs, asked : SUBSET (Recs \X Nat), returned : SUBSET Recs]

RemovalTyped ==
  /\ order \in Seq(Messages)
  /\ delivery \in [Messages -> Nat]
  /\ zapped \subseteq Recs
  /\ calls \in [Calls -> RemovalCall]

(* What is marked, named, still to be done or was to be done is of a       *)
(* registration that has happened.                                         *)
Known(r) == r[2] <= delivery[r[1]]
RecordsKnown ==
  /\ \A r \in zapped : Known(r)
  /\ \A c \in Calls : \A r \in calls[c].returned \cup calls[c].seen : Known(r)
  /\ \A c \in Calls : \A k \in DOMAIN calls[c].todo : Known(calls[c].todo[k])

(* Nobody with a client still sees the record.                             *)
GoneFor(r, i) == <<r, i>> \in inMailbox => Boxes[r[1]][i] = "simulated"
Gone(r) == \A i \in DOMAIN Boxes[r[1]] : GoneFor(r, i)

MarkedAreGone ==
  /\ \A r \in zapped : Gone(r)
  /\ \A c \in Calls : \A r \in calls[c].returned : Gone(r)

(* A call in the middle of a record has asked for the copies before, and   *)
(* if each succeeded they are gone.                                        *)
Past(c) == IF calls[c].at = "answered" THEN calls[c].i ELSE calls[c].i - 1
Middle(c) ==
  calls[c].at \in {"ask", "answered"} =>
    /\ calls[c].todo # << >>
    /\ calls[c].i \in DOMAIN Boxes[Record(c)[1]]
    /\ \A j \in 1..Past(c) : <<Record(c), j>> \in calls[c].asked
    /\ calls[c].ok => \A j \in 1..Past(c) : GoneFor(Record(c), j)

(* What a call had to do is still to be done, or done.                     *)
Dealt(c, r) ==
  \A i \in DOMAIN Boxes[r[1]] : <<r, i>> \in calls[c].asked \/ GoneFor(r, i)
Ahead(c, r) ==
  r[1] \in calls[c].wanted /\ \E k \in DOMAIN calls[c].todo : calls[c].todo[k] = r
NothingLost(c) ==
  /\ \A r \in calls[c].seen : Ahead(c, r) \/ Dealt(c, r)
  /\ calls[c].at = "end" => calls[c].todo = << >>

RemovalInv ==
  /\ RemovalTyped /\ RecordsKnown /\ MarkedAreGone
  /\ \A c \in Calls : Middle(c) /\ NothingLost(c)

LEMMA RemovalImplies == RemovalInv => RemovedMeansGone /\ NobodySkipped
<1> SUFFICES ASSUME RemovalInv
             PROVE  RemovedMeansGone /\ NobodySkipped
  OBVIOUS
<1>1. ASSUME NEW r \in zapped \cup UNION {calls[c].returned : c \in Calls},
             NEW x \in Copies(r) \cap inMailbox
      PROVE  Boxes[r[1]][x[2]] = "simulated"
  <2>1. PICK i \in DOMAIN Boxes[r[1]] : x = <<r, i>>
    BY <1>1 DEF Copies
  <2>2. Gone(r)
    BY <1>1 DEF RemovalInv, MarkedAreGone
  <2> QED BY <1>1, <2>1, <2>2 DEF Gone, GoneFor
<1>2. ASSUME NEW c \in Calls, calls[c].at = "end", NEW r \in calls[c].seen,
             NEW x \in Copies(r) \cap inMailbox
      PROVE  x \in calls[c].asked \/ Boxes[r[1]][x[2]] = "simulated"
  <2>1. PICK i \in DOMAIN Boxes[r[1]] : x = <<r, i>>
    BY <1>2 DEF Copies
  <2>2. Dealt(c, r)
    BY <1>2 DEF RemovalInv, NothingLost, Ahead
  <2> QED BY <1>2, <2>1, <2>2 DEF Dealt, GoneFor
<1> QED BY <1>1, <1>2 DEF RemovedMeansGone, NobodySkipped

(* register_delivery(): the copies that arrive are of a new registration.  *)
LEMMA RegisterInv ==
  ASSUME RemovalInv, NEW m \in Messages, Register(m)
  PROVE  RemovalInv'
<1>1. /\ delivery' = [delivery EXCEPT ![m] = @ + 1]
      /\ order' \in Seq(Messages)
      /\ inMailbox' = inMailbox \cup Copies(<<m, delivery[m] + 1>>)
      /\ zapped' = zapped /\ calls' = calls
      /\ delivery \in [Messages -> Nat]
  BY DEF Register, RemovalInv, RemovalTyped
<1>2. RemovalTyped'
  BY <1>1 DEF RemovalInv, RemovalTyped
<1>3. ASSUME NEW r \in Recs, Known(r)
      PROVE  /\ Known(r)'
             /\ \A i : GoneFor(r, i) => GoneFor(r, i)'
  <2>1. r[1] \in Messages /\ r[2] \in Nat /\ r[2] <= delivery[r[1]]
    BY <1>3 DEF Recs, Known
  <2>2. r # <<m, delivery[m] + 1>>
    BY <1>1, <2>1
  <2>3. \A i : <<r, i>> \notin Copies(<<m, delivery[m] + 1>>)
    BY <2>2 DEF Copies
  <2>4. Known(r)'
    BY <1>1, <2>1 DEF Known
  <2> QED BY <1>1, <2>3, <2>4 DEF GoneFor
<1>4. /\ \A r \in zapped : r \in Recs /\ Known(r)
      /\ \A c \in Calls : \A r \in calls[c].returned \cup calls[c].seen : r \in Recs /\ Known(r)
      /\ \A c \in Calls : \A k \in DOMAIN calls[c].todo :
           calls[c].todo[k] \in Recs /\ Known(calls[c].todo[k])
  BY DEF RemovalInv, RemovalTyped, RemovalCall, RecordsKnown
<1>5. RecordsKnown' /\ MarkedAreGone'
  BY <1>1, <1>3, <1>4 DEF RemovalInv, RecordsKnown, MarkedAreGone, Gone
<1>6. ASSUME NEW c \in Calls
      PROVE  Middle(c)'
  <2> SUFFICES ASSUME calls[c].at \in {"ask", "answered"}, calls[c].ok,
                      NEW j \in 1..Past(c), NEW r, r = Record(c)
               PROVE  GoneFor(r, j)'
    BY <1>1 DEF RemovalInv, Middle, Past, Record, GoneFor
  <2>1. calls[c].todo # << >> /\ calls[c].todo \in Seq(Recs)
    BY DEF RemovalInv, Middle, RemovalTyped, RemovalCall
  <2>2. r \in Recs /\ Known(r)
    BY <2>1, <1>4 DEF Record
  <2>3. GoneFor(r, j)
    BY DEF RemovalInv, Middle
  <2> QED BY <2>2, <2>3, <1>3
<1>7. ASSUME NEW c \in Calls
      PROVE  NothingLost(c)'
  <2> SUFFICES ASSUME NEW r \in calls[c].seen
               PROVE  Ahead(c, r) \/ Dealt(c, r)'
    BY <1>1 DEF RemovalInv, NothingLost, Ahead
  <2>1. r \in Recs /\ Known(r) /\ (Ahead(c, r) \/ Dealt(c, r))
    BY <1>4 DEF RemovalInv, NothingLost
  <2> QED BY <1>1, <1>3, <2>1 DEF Dealt
<1> QED BY <1>2, <1>5, <1>6, <1>7 DEF RemovalInv

(* What one call does, as the others see it: copies only go, and a mark is *)
(* set or taken off.                                                       *)
LEMMA OneCallMoves ==
  ASSUME RemovalInv, NEW c \in Calls, NEW e \in RemovalCall,
         calls' = [calls EXCEPT ![c] = e],
         delivery' = delivery, order' = order, inMailbox' \subseteq inMailbox,
         zapped' \subseteq Recs,
         \A r \in zapped' : r \in zapped \/ (Known(r) /\ Gone(r)'),
         \A r \in e.returned : r \in calls[c].returned \/ (Known(r) /\ Gone(r)'),
         \A r \in e.seen : Known(r),
         \A k \in DOMAIN e.todo : Known(e.todo[k]),
         Middle(c)', NothingLost(c)'
  PROVE  RemovalInv'
<1>1. calls \in [Calls -> RemovalCall] /\ calls'[c] = e /\ \A d \in Calls \ {c} : calls'[d] = calls[d]
  BY DEF RemovalInv, RemovalTyped
<1>2. RemovalTyped'
  BY <1>1 DEF RemovalInv, RemovalTyped
<1>3. /\ \A r, i : GoneFor(r, i) => GoneFor(r, i)'
      /\ \A r : Gone(r) => Gone(r)'
      /\ \A r : Known(r)' <=> Known(r)
  BY DEF GoneFor, Gone, Known
<1>4. RecordsKnown'
  <2>1. ASSUME NEW d \in Calls
        PROVE  /\ \A r \in calls'[d].returned \cup calls'[d].seen : Known(r)
               /\ \A k \in DOMAIN calls'[d].todo : Known(calls'[d].todo[k])
    BY <1>1 DEF RemovalInv, RecordsKnown
  <2>2. \A r \in zapped' : Known(r)
    BY DEF RemovalInv, RecordsKnown
  <2> QED BY <1>3, <2>1, <2>2 DEF RecordsKnown, Known
<1>5. MarkedAreGone'
  <2>1. ASSUME NEW d \in Calls, NEW r \in calls'[d].returned
        PROVE  Gone(r)'
    BY <1>1, <1>3, <2>1 DEF RemovalInv, MarkedAreGone
  <2>2. \A r \in zapped' : Gone(r)'
    BY <1>3 DEF RemovalInv, MarkedAreGone
  <2> QED BY <2>1, <2>2 DEF MarkedAreGone
<1>6. ASSUME NEW d \in Calls \ {c}
      PROVE  Middle(d)' /\ NothingLost(d)'
  <2>1. calls'[d] = calls[d] /\ Record(d)' = Record(d) /\ Past(d)' = Past(d)
    BY <1>1 DEF Record, Past
  <2>2. Middle(d) /\ NothingLost(d)
    BY DEF RemovalInv
  <2>3. Middle(d)'
    BY <2>1, <2>2, <1>3 DEF Middle, GoneFor
  <2>4. NothingLost(d)'
    BY <2>1, <2>2, <1>3 DEF NothingLost, Ahead, Dealt
  <2> QED BY <2>3, <2>4
<1> QED BY <1>2, <1>4, <1>5, <1>6 DEF RemovalInv

LEMMA SnapshotKnown ==
  ASSUME RemovalInv
  PROVE  /\ Snapshot \in Seq(Recs) /\ \A k \in DOMAIN Snapshot : Known(Snapshot[k])
         /\ \A m \in Messages : Current(m) \in Recs /\ Known(Current(m))
<1>1. order \in Seq(Messages) /\ delivery \in [Messages -> Nat]
  BY DEF RemovalInv, RemovalTyped
<1>2. \A m \in Messages : Current(m) \in Recs /\ Known(Current(m))
  BY <1>1 DEF Current, Recs, Known
<1>3. /\ Snapshot = [k \in 1..Len(order) |-> Current(order[k])] /\ Len(order) \in Nat
      /\ \A k \in 1..Len(order) : order[k] \in Messages
  BY <1>1 DEF Snapshot
<1> QED BY <1>2, <1>3

LEMMA BeginsInv ==
  ASSUME RemovalInv, NEW c \in Calls, NEW looks \in Seq(Urls), NEW wanted \in SUBSET Messages,
         NEW todo \in Seq(Recs), \A k \in DOMAIN todo : Known(todo[k]),
         Begins(c, looks, wanted, todo),
         UNCHANGED <<order, delivery, zapped, inMailbox>>
  PROVE  RemovalInv'
<1>1. calls \in [Calls -> RemovalCall]
  BY DEF RemovalInv, RemovalTyped
<1> DEFINE e == [calls[c] EXCEPT !.at = "scan", !.looks = looks, !.wanted = wanted, !.todo = todo,
                                 !.seen = Wanted(todo, wanted)]
<1>2. Wanted(todo, wanted) \subseteq Recs
  BY DEF Wanted, ToSet
<1>3. calls' = [calls EXCEPT ![c] = e]
  BY <1>1 DEF Begins, RemovalCall
<1>4. /\ e \in RemovalCall /\ e.at = "scan" /\ e.wanted = wanted /\ e.todo = todo
      /\ e.seen = Wanted(todo, wanted) /\ e.returned = calls[c].returned
  <2>1. PICK s \in SUBSET Recs : s = Wanted(todo, wanted)
    BY <1>2
  <2>2. e = [calls[c] EXCEPT !.at = "scan", !.looks = looks, !.wanted = wanted, !.todo = todo,
                             !.seen = s]
    BY <2>1
  <2>3. calls[c] \in RemovalCall
    BY <1>1
  <2> HIDE DEF e
  <2> QED BY <2>1, <2>2, <2>3 DEF RemovalCall
<1> HIDE DEF e
<1>5. calls'[c] = e
  BY <1>1, <1>3
<1>6. \A r \in e.seen : Known(r) /\ r[1] \in wanted /\ \E k \in DOMAIN todo : todo[k] = r
  BY <1>4 DEF Wanted, ToSet
<1>7. Middle(c)' /\ NothingLost(c)'
  BY <1>4, <1>5, <1>6 DEF Middle, NothingLost, Ahead
<1>8. zapped' \subseteq Recs
  BY DEF RemovalInv, RemovalTyped
<1>9. /\ delivery' = delivery /\ order' = order /\ inMailbox' \subseteq inMailbox
      /\ \A r \in zapped' : r \in zapped \/ (Known(r) /\ Gone(r)')
      /\ \A r \in e.returned : r \in calls[c].returned \/ (Known(r) /\ Gone(r)')
      /\ \A r \in e.seen : Known(r)
      /\ \A k \in DOMAIN e.todo : Known(e.todo[k])
  BY <1>4, <1>6
<1>10. e \in RemovalCall
  BY <1>4
<1> QED
  BY <1>3, <1>7, <1>8, <1>9, <1>10, OneCallMoves, Zenon

LEMMA NewCallInv ==
  ASSUME RemovalInv, NEW c \in Calls, ZapByContent(c) \/ ZapById(c) \/ Report(c)
  PROVE  RemovalInv'
<1>1. CASE ZapByContent(c)
  <2>1. PICK u \in Urls : Begins(c, << >>, Holders[u], Snapshot)
    BY <1>1 DEF ZapByContent
  <2>2. Holders[u] \in SUBSET Messages /\ << >> \in Seq(Urls)
    BY RemovalAssumption
  <2> QED BY <1>1, <2>1, <2>2, SnapshotKnown, BeginsInv DEF ZapByContent
<1>2. CASE ZapById(c)
  <2>1. PICK m \in Messages :
          Begins(c, << >>, {m}, IF delivery[m] = 0 THEN << >> ELSE <<Current(m)>>)
    BY <1>2 DEF ZapById
  <2> DEFINE todo == IF delivery[m] = 0 THEN << >> ELSE <<Current(m)>>
  <2>2. todo \in Seq(Recs) /\ \A k \in DOMAIN todo : Known(todo[k])
    BY SnapshotKnown
  <2>3. << >> \in Seq(Urls) /\ {m} \in SUBSET Messages /\ Begins(c, << >>, {m}, todo)
    BY <2>1
  <2>4. UNCHANGED <<order, delivery, zapped, inMailbox>>
    BY <1>2 DEF ZapById
  <2> HIDE DEF todo
  <2> QED BY <2>2, <2>3, <2>4, BeginsInv
<1>3. CASE Report(c)
  <2>1. PICK looks \in Bodies : Begins(c, looks, {}, << >>)
    BY <1>3 DEF Report
  <2>2. looks \in Seq(Urls)
    BY RemovalAssumption
  <2>3. {} \in SUBSET Messages /\ << >> \in Seq(Recs) /\ \A k \in DOMAIN << >> : Known(<< >>[k])
    OBVIOUS
  <2>4. UNCHANGED <<order, delivery, zapped, inMailbox>>
    BY <1>3 DEF Report
  <2> QED BY <2>1, <2>2, <2>3, <2>4, BeginsInv
<1> QED BY <1>1, <1>2, <1>3

(* The head of what is to be done is known, and the rest is what is left.  *)
LEMMA HeadOfTodo ==
  ASSUME RemovalInv, NEW c \in Calls, calls[c].todo # << >>
  PROVE  /\ Record(c) \in Recs /\ Known(Record(c))
         /\ Boxes[Record(c)[1]] \in Seq(Providers)
         /\ Tail(calls[c].todo) \in Seq(Recs)
         /\ \A k \in DOMAIN Tail(calls[c].todo) : Known(Tail(calls[c].todo)[k])
         /\ \A k \in DOMAIN calls[c].todo :
              \/ calls[c].todo[k] = Record(c)
              \/ \E j \in DOMAIN Tail(calls[c].todo) : Tail(calls[c].todo)[j] = calls[c].todo[k]
<1> DEFINE q == calls[c].todo
<1>1. q \in Seq(Recs) /\ q # << >> /\ \A k \in DOMAIN q : Known(q[k])
  BY DEF RemovalInv, RemovalTyped, RemovalCall, RecordsKnown
<1>2. Record(c) = q[1]
  BY <1>1 DEF Record
<1> HIDE DEF q
<1>3. /\ 1 \in DOMAIN q /\ q[1] \in Recs
      /\ Tail(q) \in Seq(Recs) /\ Len(q) \in Nat
      /\ DOMAIN q = 1..Len(q) /\ DOMAIN Tail(q) = 1..(Len(q) - 1)
      /\ \A j \in 1..(Len(q) - 1) : Tail(q)[j] = q[j + 1]
  BY <1>1
<1>4. \A k \in DOMAIN Tail(q) : Known(Tail(q)[k])
  <2> SUFFICES ASSUME NEW k \in DOMAIN Tail(q)
               PROVE  Known(Tail(q)[k])
    OBVIOUS
  <2>1. k + 1 \in DOMAIN q /\ Tail(q)[k] = q[k + 1]
    BY <1>3
  <2> QED BY <1>1, <2>1
<1>5. ASSUME NEW k \in DOMAIN q
      PROVE  q[k] = q[1] \/ \E j \in DOMAIN Tail(q) : Tail(q)[j] = q[k]
  <2>1. CASE k # 1
    <3>1. k - 1 \in DOMAIN Tail(q) /\ Tail(q)[k - 1] = q[k]
      BY <1>3, <2>1
    <3> QED BY <3>1
  <2> QED BY <2>1
<1>6. q[1][1] \in Messages
  BY <1>3 DEF Recs
<1>7. Boxes[q[1][1]] \in Seq(Providers)
  BY <1>6, RemovalAssumption
<1> QED BY <1>1, <1>2, <1>3, <1>4, <1>5, <1>7 DEF q

(* A call is done with a record and goes on to the next.                   *)
LEMMA NextRecordInv ==
  ASSUME RemovalInv, NEW c \in Calls, calls[c].todo # << >>, calls[c].at # "end",
         NEW e \in RemovalCall,
         calls' = [calls EXCEPT ![c] = e],
         e.at = "scan", e.todo = Tail(calls[c].todo), e.wanted = calls[c].wanted,
         e.seen = calls[c].seen, e.asked = calls[c].asked,
         e.returned \subseteq calls[c].returned \cup {Record(c)},
         UNCHANGED <<order, delivery, inMailbox>>,
         zapped' \subseteq zapped \cup {Record(c)},
         Record(c) \in zapped' \cup e.returned => Gone(Record(c)) \/ Record(c) \in zapped,
         Record(c)[1] \in calls[c].wanted => Dealt(c, Record(c))
  PROVE  RemovalInv'
<1>1. calls \in [Calls -> RemovalCall] /\ zapped \subseteq Recs
  BY DEF RemovalInv, RemovalTyped
<1>2. calls'[c] = e
  BY <1>1
<1>3. \A r \in zapped \cup calls[c].returned \cup calls[c].seen : Known(r)
  BY DEF RemovalInv, RecordsKnown
<1>4. Record(c) \in zapped' \cup e.returned => Gone(Record(c))
  BY DEF RemovalInv, MarkedAreGone
<1>5. \A r, i : GoneFor(r, i)' <=> GoneFor(r, i)
  BY DEF GoneFor
<1>6. \A r : Gone(r)' <=> Gone(r)
  BY <1>5 DEF Gone
<1>7. Middle(c)'
  BY <1>2 DEF Middle
<1>8. NothingLost(c)'
  <2>1. ASSUME NEW r \in calls[c].seen
        PROVE  Ahead(c, r)' \/ Dealt(c, r)'
    <3>1. CASE Dealt(c, r)
      BY <3>1, <1>2, <1>5 DEF Dealt
    <3>2. CASE Ahead(c, r)
      <4>1. PICK k \in DOMAIN calls[c].todo : calls[c].todo[k] = r
        BY <3>2 DEF Ahead
      <4>2. CASE r = Record(c)
        <5>1. Dealt(c, r)
          BY <3>2, <4>2 DEF Ahead
        <5> QED BY <5>1, <3>1
      <4>3. CASE \E j \in DOMAIN Tail(calls[c].todo) : Tail(calls[c].todo)[j] = r
        BY <3>2, <4>3, <1>2 DEF Ahead
      <4> QED BY <4>1, <4>2, <4>3, HeadOfTodo
    <3> QED BY <3>1, <3>2 DEF RemovalInv, NothingLost
  <2> QED BY <2>1, <1>2 DEF NothingLost
<1>9. Record(c) \in Recs /\ Known(Record(c))
  BY HeadOfTodo
<1>10. /\ delivery' = delivery /\ order' = order /\ inMailbox' \subseteq inMailbox
       /\ zapped' \subseteq Recs
       /\ \A r \in zapped' : r \in zapped \/ (Known(r) /\ Gone(r)')
       /\ \A r \in e.returned : r \in calls[c].returned \/ (Known(r) /\ Gone(r)')
       /\ \A r \in e.seen : Known(r)
  BY <1>1, <1>3, <1>4, <1>6, <1>9
<1>11. \A k \in DOMAIN e.todo : Known(e.todo[k])
  BY HeadOfTodo
<1> QED
  BY <1>7, <1>8, <1>10, <1>11, OneCallMoves, Zenon

LEMMA PassOverInv ==
  ASSUME RemovalInv, NEW c \in Calls, PassOver(c)
  PROVE  RemovalInv'
<1> DEFINE e == [calls[c] EXCEPT !.todo = Tail(@)]
<1>1. calls \in [Calls -> RemovalCall] /\ calls[c] \in RemovalCall
  BY DEF RemovalInv, RemovalTyped
<1>2. calls[c].at = "scan" /\ calls[c].todo # << >> /\ calls' = [calls EXCEPT ![c] = e]
  BY <1>1 DEF PassOver
<1>3. Tail(calls[c].todo) \in Seq(Recs)
  BY <1>2, HeadOfTodo
<1>4. /\ e \in RemovalCall /\ e.at = "scan" /\ e.todo = Tail(calls[c].todo)
      /\ e.wanted = calls[c].wanted /\ e.seen = calls[c].seen /\ e.asked = calls[c].asked
      /\ e.returned = calls[c].returned
  BY <1>1, <1>2, <1>3 DEF RemovalCall
<1> HIDE DEF e
<1>5. Record(c)[1] \in calls[c].wanted => Dealt(c, Record(c))
  BY <1>2 DEF PassOver, ToRemove, RemovalInv, MarkedAreGone, Gone, Dealt
<1>6. /\ UNCHANGED <<order, delivery, inMailbox>>
      /\ zapped' \subseteq zapped \cup {Record(c)}
      /\ e.returned \subseteq calls[c].returned \cup {Record(c)}
      /\ Record(c) \in zapped' \cup e.returned => Gone(Record(c)) \/ Record(c) \in zapped
  BY <1>4 DEF PassOver, RemovalInv, MarkedAreGone
<1> QED
  BY <1>2, <1>4, <1>5, <1>6, NextRecordInv, Zenon

LEMMA NobodyToAskInv ==
  ASSUME RemovalInv, NEW c \in Calls, NobodyToAsk(c)
  PROVE  RemovalInv'
<1> DEFINE e == [calls[c] EXCEPT !.todo = Tail(@), !.returned = @ \cup {Record(c)}]
<1>1. calls \in [Calls -> RemovalCall] /\ calls[c] \in RemovalCall
  BY DEF RemovalInv, RemovalTyped
<1>2. /\ calls[c].at = "scan" /\ calls[c].todo # << >> /\ calls' = [calls EXCEPT ![c] = e]
      /\ UNCHANGED <<order, delivery, inMailbox>> /\ zapped' = zapped \cup {Record(c)}
      /\ Boxes[Record(c)[1]] = << >>
  BY <1>1 DEF NobodyToAsk, ToRemove
<1>3. Tail(calls[c].todo) \in Seq(Recs) /\ Record(c) \in Recs
  BY <1>2, HeadOfTodo
<1>4. /\ e \in RemovalCall /\ e.at = "scan" /\ e.todo = Tail(calls[c].todo)
      /\ e.wanted = calls[c].wanted /\ e.seen = calls[c].seen /\ e.asked = calls[c].asked
      /\ e.returned = calls[c].returned \cup {Record(c)}
  BY <1>1, <1>2, <1>3 DEF RemovalCall
<1> HIDE DEF e
<1>5. Gone(Record(c)) /\ Dealt(c, Record(c))
  BY <1>2 DEF Gone, Dealt
<1>6. /\ zapped' \subseteq zapped \cup {Record(c)}
      /\ e.returned \subseteq calls[c].returned \cup {Record(c)}
      /\ Record(c) \in zapped' \cup e.returned => Gone(Record(c)) \/ Record(c) \in zapped
      /\ calls[c].at # "end"
  BY <1>2, <1>4, <1>5
<1> QED
  BY <1>2, <1>4, <1>5, <1>6, NextRecordInv, Zenon

(* _execute_zap() returns: every recipient has been asked.                 *)
LEMMA MarksInv ==
  ASSUME RemovalInv, NEW c \in Calls, Marks(c)
  PROVE  RemovalInv'
<1> DEFINE e == [calls[c] EXCEPT !.at = "scan", !.todo = Tail(@), !.i = 0, !.ok = TRUE,
                                 !.returned = IF calls[c].ok THEN @ \cup {Record(c)} ELSE @]
<1>1. calls \in [Calls -> RemovalCall] /\ calls[c] \in RemovalCall
  BY DEF RemovalInv, RemovalTyped
<1>2. /\ calls[c].at = "answered" /\ calls[c].i = Len(Boxes[Record(c)[1]])
      /\ calls' = [calls EXCEPT ![c] = e]
      /\ UNCHANGED <<order, delivery, inMailbox>>
      /\ zapped' \subseteq zapped \cup {Record(c)}
      /\ Record(c) \in zapped' => calls[c].ok
  BY <1>1 DEF Marks
<1>3. /\ calls[c].todo # << >>
      /\ \A j \in 1..Past(c) : <<Record(c), j>> \in calls[c].asked
      /\ calls[c].ok => \A j \in 1..Past(c) : GoneFor(Record(c), j)
  BY <1>2 DEF RemovalInv, Middle
<1>4. Tail(calls[c].todo) \in Seq(Recs) /\ Record(c) \in Recs /\ Boxes[Record(c)[1]] \in Seq(Providers)
  BY <1>3, HeadOfTodo
<1>5. DOMAIN Boxes[Record(c)[1]] = 1..Past(c)
  BY <1>2, <1>4 DEF Past
<1>6. /\ e \in RemovalCall /\ e.at = "scan" /\ e.todo = Tail(calls[c].todo)
      /\ e.wanted = calls[c].wanted /\ e.seen = calls[c].seen /\ e.asked = calls[c].asked
      /\ e.returned = IF calls[c].ok THEN calls[c].returned \cup {Record(c)} ELSE calls[c].returned
  BY <1>1, <1>3, <1>4 DEF RemovalCall
<1> HIDE DEF e
<1>7. Dealt(c, Record(c)) /\ (calls[c].ok => Gone(Record(c)))
  BY <1>3, <1>5 DEF Dealt, Gone
<1>8. /\ e.returned \subseteq calls[c].returned \cup {Record(c)}
      /\ Record(c) \in zapped' \cup e.returned => Gone(Record(c)) \/ Record(c) \in zapped
      /\ calls[c].at # "end"
  BY <1>2, <1>6, <1>7 DEF RemovalInv, MarkedAreGone
<1> QED
  BY <1>2, <1>3, <1>6, <1>7, <1>8, NextRecordInv, Zenon

(* A call stays with the record it is at.                                  *)
LEMMA SameRecordInv ==
  ASSUME RemovalInv, NEW c \in Calls, calls[c].todo # << >>, calls[c].at # "end",
         NEW e \in RemovalCall,
         calls' = [calls EXCEPT ![c] = e],
         e.at # "end", e.todo = calls[c].todo, e.wanted = calls[c].wanted,
         e.seen = calls[c].seen, calls[c].asked \subseteq e.asked,
         e.returned = calls[c].returned,
         UNCHANGED <<order, delivery, zapped>>, inMailbox' \subseteq inMailbox,
         Middle(c)'
  PROVE  RemovalInv'
<1>1. calls \in [Calls -> RemovalCall] /\ zapped \subseteq Recs
  BY DEF RemovalInv, RemovalTyped
<1>2. calls'[c] = e
  BY <1>1
<1>3. \A r \in zapped \cup calls[c].returned \cup calls[c].seen : Known(r)
  BY DEF RemovalInv, RecordsKnown
<1>4. NothingLost(c)'
  <2>1. ASSUME NEW r \in calls[c].seen
        PROVE  Ahead(c, r)' \/ Dealt(c, r)'
    BY <1>2 DEF RemovalInv, NothingLost, Ahead, Dealt, GoneFor
  <2> QED BY <2>1, <1>2 DEF NothingLost
<1>5. /\ delivery' = delivery /\ order' = order /\ inMailbox' \subseteq inMailbox
      /\ zapped' \subseteq Recs
      /\ \A r \in zapped' : r \in zapped \/ (Known(r) /\ Gone(r)')
      /\ \A r \in e.returned : r \in calls[c].returned \/ (Known(r) /\ Gone(r)')
      /\ \A r \in e.seen : Known(r)
  BY <1>1, <1>3
<1>6. \A k \in DOMAIN e.todo : Known(e.todo[k])
  BY DEF RemovalInv, RecordsKnown
<1> QED
  BY <1>4, <1>5, <1>6, OneCallMoves, Zenon

LEMMA StartInv ==
  ASSUME RemovalInv, NEW c \in Calls, Start(c)
  PROVE  RemovalInv'
<1> DEFINE e == [calls[c] EXCEPT !.at = "ask", !.i = 1, !.ok = TRUE]
<1>1. calls \in [Calls -> RemovalCall] /\ calls[c] \in RemovalCall
  BY DEF RemovalInv, RemovalTyped
<1>2. /\ calls[c].at = "scan" /\ calls[c].todo # << >> /\ Boxes[Record(c)[1]] # << >>
      /\ calls' = [calls EXCEPT ![c] = e]
      /\ UNCHANGED <<order, delivery, zapped>> /\ inMailbox' \subseteq inMailbox
  BY <1>1 DEF Start, ToRemove
<1>3. /\ e \in RemovalCall /\ e.at = "ask" /\ e.i = 1 /\ e.todo = calls[c].todo
      /\ e.wanted = calls[c].wanted /\ e.seen = calls[c].seen /\ e.asked = calls[c].asked
      /\ e.returned = calls[c].returned
  BY <1>1, <1>2 DEF RemovalCall
<1> HIDE DEF e
<1>4. calls'[c] = e
  BY <1>1, <1>2
<1>5. 1 \in DOMAIN Boxes[Record(c)[1]]
  <2>1. Boxes[Record(c)[1]] \in Seq(Providers)
    BY <1>2, HeadOfTodo
  <2> QED BY <1>2, <2>1
<1>6. Record(c)' = Record(c) /\ Past(c)' = 0
  BY <1>3, <1>4 DEF Record, Past
<1>7. Middle(c)'
  BY <1>2, <1>3, <1>4, <1>5, <1>6 DEF Middle
<1>8. calls[c].at # "end" /\ e.at # "end" /\ calls[c].asked \subseteq e.asked
  BY <1>2, <1>3
<1> QED
  BY <1>2, <1>3, <1>7, <1>8, SameRecordInv, Zenon

(* A recipient's provider has answered, or failed.                         *)
LEMMA AskedInv ==
  ASSUME RemovalInv, NEW c \in Calls, NEW ok \in BOOLEAN, calls[c].at = "ask", Asked(c, ok),
         UNCHANGED <<order, delivery, zapped>>, inMailbox' \subseteq inMailbox,
         ok => \/ Copy(c) \notin inMailbox'
               \/ Provider(c) = "simulated"
  PROVE  RemovalInv'
<1> DEFINE e == [calls[c] EXCEPT !.at = "answered", !.ok = @ /\ ok, !.asked = @ \cup {Copy(c)}]
<1>1. calls \in [Calls -> RemovalCall] /\ calls[c] \in RemovalCall
  BY DEF RemovalInv, RemovalTyped
<1>2. calls' = [calls EXCEPT ![c] = e]
  BY <1>1 DEF Asked
<1>3. /\ calls[c].todo # << >> /\ calls[c].i \in DOMAIN Boxes[Record(c)[1]]
      /\ \A j \in 1..Past(c) : <<Record(c), j>> \in calls[c].asked
      /\ calls[c].ok => \A j \in 1..Past(c) : GoneFor(Record(c), j)
      /\ Past(c) = calls[c].i - 1
  BY DEF RemovalInv, Middle, Past
<1>4. Record(c) \in Recs /\ calls[c].i \in Nat /\ Copy(c) \in Recs \X Nat
  <2>1. Record(c) \in Recs
    BY <1>3, HeadOfTodo
  <2>2. calls[c].i \in Nat
    BY <1>1 DEF RemovalCall
  <2> QED BY <2>1, <2>2 DEF Copy
<1>5. /\ e \in RemovalCall /\ e.at = "answered" /\ e.i = calls[c].i /\ e.todo = calls[c].todo
      /\ e.wanted = calls[c].wanted /\ e.seen = calls[c].seen
      /\ e.asked = calls[c].asked \cup {<<Record(c), calls[c].i>>}
      /\ e.returned = calls[c].returned /\ (e.ok => calls[c].ok /\ ok)
  BY <1>1, <1>4 DEF RemovalCall, Copy
<1> HIDE DEF e
<1>6. calls'[c] = e
  BY <1>1, <1>2
<1>7. Record(c)' = Record(c) /\ Past(c)' = calls[c].i
  BY <1>5, <1>6 DEF Record, Past
<1>8. \A j \in 1..calls[c].i : j \in 1..Past(c) \/ j = calls[c].i
  BY <1>3, <1>4
<1>9. ASSUME NEW j \in 1..calls[c].i
      PROVE  /\ <<Record(c), j>> \in e.asked
             /\ e.ok => (<<Record(c), j>> \in inMailbox' => Boxes[Record(c)[1]][j] = "simulated")
  BY <1>3, <1>5, <1>8 DEF GoneFor, Copy, Provider
<1>10. Middle(c)'
  BY <1>3, <1>5, <1>6, <1>7, <1>9 DEF Middle, GoneFor
<1>11. calls[c].at # "end" /\ e.at # "end" /\ calls[c].asked \subseteq e.asked
  BY <1>5
<1> QED
  BY <1>2, <1>3, <1>5, <1>10, <1>11, SameRecordInv, Zenon

LEMMA AnswerInv ==
  ASSUME RemovalInv, NEW c \in Calls, Simulated(c) \/ Removed(c) \/ NotRemoved(c)
  PROVE  RemovalInv'
<1>1. CASE Simulated(c)
  BY <1>1, AskedInv DEF Simulated
<1>2. CASE Removed(c)
  BY <1>2, AskedInv DEF Removed, Reachable
<1>3. CASE NotRemoved(c)
  BY <1>3, AskedInv DEF NotRemoved
<1> QED BY <1>1, <1>2, <1>3

LEMMA GoesInv ==
  ASSUME RemovalInv, NEW c \in Calls, Goes(c)
  PROVE  RemovalInv'
<1> DEFINE e == [calls[c] EXCEPT !.at = "ask", !.i = @ + 1]
<1>1. calls \in [Calls -> RemovalCall] /\ calls[c] \in RemovalCall
  BY DEF RemovalInv, RemovalTyped
<1>2. /\ calls' = [calls EXCEPT ![c] = e] /\ calls[c].at = "answered"
      /\ calls[c].i < Len(Boxes[Record(c)[1]])
      /\ UNCHANGED <<order, delivery, zapped>> /\ inMailbox' = inMailbox
  BY <1>1 DEF Goes
<1>3. /\ calls[c].todo # << >> /\ calls[c].i \in DOMAIN Boxes[Record(c)[1]]
      /\ \A j \in 1..Past(c) : <<Record(c), j>> \in calls[c].asked
      /\ calls[c].ok => \A j \in 1..Past(c) : GoneFor(Record(c), j)
      /\ Past(c) = calls[c].i
  BY <1>2 DEF RemovalInv, Middle, Past
<1>4. calls[c].i \in Nat /\ Boxes[Record(c)[1]] \in Seq(Providers)
  BY <1>1, <1>3, HeadOfTodo DEF RemovalCall
<1>5. /\ e \in RemovalCall /\ e.at = "ask" /\ e.i = calls[c].i + 1 /\ e.todo = calls[c].todo
      /\ e.wanted = calls[c].wanted /\ e.seen = calls[c].seen /\ e.asked = calls[c].asked
      /\ e.returned = calls[c].returned /\ e.ok = calls[c].ok
  <2>1. e.at = "ask" /\ e.i = calls[c].i + 1 /\ e.i \in Nat
    BY <1>1, <1>4 DEF RemovalCall
  <2>2. /\ e.todo = calls[c].todo /\ e.wanted = calls[c].wanted /\ e.seen = calls[c].seen
        /\ e.asked = calls[c].asked /\ e.returned = calls[c].returned /\ e.ok = calls[c].ok
        /\ e.looks = calls[c].looks
    BY <1>1 DEF RemovalCall
  <2>3. e \in RemovalCall
    <3> DEFINE n == calls[c].i + 1
    <3>1. n \in Nat
      BY <1>4
    <3>2. e = [calls[c] EXCEPT !.at = "ask", !.i = n]
      OBVIOUS
    <3> HIDE DEF n, e
    <3> QED BY <1>1, <3>1, <3>2 DEF RemovalCall
  <2> HIDE DEF e
  <2> QED BY <2>1, <2>2, <2>3
<1> HIDE DEF e
<1>6. calls'[c] = e
  BY <1>1, <1>2
<1>7. Record(c)' = Record(c) /\ Past(c)' = Past(c)
  <2>1. Record(c)' = Record(c)
    BY <1>5, <1>6, Zenon DEF Record
  <2>2. Past(c)' = (calls[c].i + 1) - 1
    BY <1>5, <1>6 DEF Past
  <2> QED BY <1>3, <1>4, <2>1, <2>2
<1>8. calls[c].i + 1 \in DOMAIN Boxes[Record(c)[1]]
  BY <1>2, <1>3, <1>4
<1>9. Middle(c)'
  BY <1>2, <1>3, <1>5, <1>6, <1>7, <1>8 DEF Middle, GoneFor
<1>10. /\ calls[c].at # "end" /\ e.at # "end" /\ calls[c].asked \subseteq e.asked
       /\ inMailbox' \subseteq inMailbox
  BY <1>2, <1>5
<1> QED
  BY <1>2, <1>3, <1>5, <1>9, <1>10, SameRecordInv, Zenon

(* The snapshot is done: the next URL of a report, or the end.             *)
LEMMA NextUrlInv ==
  ASSUME RemovalInv, NEW c \in Calls, NextUrl(c)
  PROVE  RemovalInv'
<1>1. calls \in [Calls -> RemovalCall] /\ calls[c] \in RemovalCall
  BY DEF RemovalInv, RemovalTyped
<1>2. /\ calls[c].at = "scan" /\ calls[c].todo = << >>
      /\ UNCHANGED <<order, delivery, zapped, inMailbox>>
  BY DEF NextUrl
<1>3. /\ zapped' \subseteq Recs
      /\ \A r \in calls[c].returned \cup calls[c].seen : Known(r)
      /\ \A r \in calls[c].seen : Dealt(c, r)
  BY <1>2 DEF RemovalInv, RemovalTyped, RecordsKnown, NothingLost, Ahead
<1>4. CASE Len(calls[c].looks) > 0
  <2> DEFINE wanted == Holders[Head(calls[c].looks)]
             e == [calls[c] EXCEPT !.looks = Tail(@), !.wanted = wanted, !.todo = Snapshot,
                                   !.seen = @ \cup Wanted(Snapshot, wanted)]
  <2>1. calls' = [calls EXCEPT ![c] = e]
    BY <1>1, <1>4 DEF NextUrl
  <2>2. wanted \in SUBSET Messages /\ Tail(calls[c].looks) \in Seq(Urls)
    <3>1. calls[c].looks \in Seq(Urls)
      BY <1>1 DEF RemovalCall
    <3>2. Head(calls[c].looks) \in Urls /\ Tail(calls[c].looks) \in Seq(Urls)
      BY <1>4, <3>1
    <3> QED BY <3>2, RemovalAssumption
  <2>3. Snapshot \in Seq(Recs) /\ \A k \in DOMAIN Snapshot : Known(Snapshot[k])
    BY SnapshotKnown
  <2> HIDE DEF wanted
  <2>4. /\ Wanted(Snapshot, wanted) \subseteq Recs
        /\ \A r \in Wanted(Snapshot, wanted) :
             Known(r) /\ r[1] \in wanted /\ \E k \in DOMAIN Snapshot : Snapshot[k] = r
    BY <2>3 DEF Wanted, ToSet
  <2>5. /\ e \in RemovalCall /\ e.at = "scan" /\ e.wanted = wanted /\ e.todo = Snapshot
        /\ e.seen = calls[c].seen \cup Wanted(Snapshot, wanted) /\ e.asked = calls[c].asked
        /\ e.returned = calls[c].returned
    BY <1>1, <1>2, <2>2, <2>3, <2>4 DEF RemovalCall
  <2> HIDE DEF e
  <2>6. calls'[c] = e
    BY <1>1, <2>1
  <2>7. Middle(c)'
    BY <2>5, <2>6 DEF Middle
  <2>8. NothingLost(c)'
    <3>1. ASSUME NEW r \in e.seen
          PROVE  Ahead(c, r)' \/ Dealt(c, r)'
      BY <1>2, <1>3, <2>4, <2>5, <2>6 DEF Ahead, Dealt, GoneFor
    <3> QED BY <3>1, <2>5, <2>6 DEF NothingLost
  <2>9. /\ delivery' = delivery /\ order' = order /\ inMailbox' \subseteq inMailbox
        /\ \A r \in zapped' : r \in zapped \/ (Known(r) /\ Gone(r)')
        /\ \A r \in e.returned : r \in calls[c].returned \/ (Known(r) /\ Gone(r)')
        /\ \A r \in e.seen : Known(r)
        /\ \A k \in DOMAIN e.todo : Known(e.todo[k])
    BY <1>2, <1>3, <2>3, <2>4, <2>5
  <2> QED BY <1>3, <2>1, <2>5, <2>7, <2>8, <2>9, OneCallMoves, Zenon
<1>5. CASE ~(Len(calls[c].looks) > 0)
  <2> DEFINE e == [calls[c] EXCEPT !.at = "end"]
  <2>1. calls' = [calls EXCEPT ![c] = e]
    BY <1>1, <1>5 DEF NextUrl
  <2>2. /\ e \in RemovalCall /\ e.at = "end" /\ e.wanted = calls[c].wanted /\ e.todo = << >>
        /\ e.seen = calls[c].seen /\ e.asked = calls[c].asked
        /\ e.returned = calls[c].returned
    BY <1>1, <1>2 DEF RemovalCall
  <2> HIDE DEF e
  <2>3. calls'[c] = e
    BY <1>1, <2>1
  <2>4. Middle(c)'
    BY <2>2, <2>3 DEF Middle
  <2>5. NothingLost(c)'
    BY <1>2, <1>3, <2>2, <2>3 DEF NothingLost, Dealt, GoneFor
  <2>6. /\ delivery' = delivery /\ order' = order /\ inMailbox' \subseteq inMailbox
        /\ \A r \in zapped' : r \in zapped \/ (Known(r) /\ Gone(r)')
        /\ \A r \in e.returned : r \in calls[c].returned \/ (Known(r) /\ Gone(r)')
        /\ \A r \in e.seen : Known(r)
        /\ \A k \in DOMAIN e.todo : Known(e.todo[k])
    BY <1>2, <1>3, <2>2
  <2> QED BY <1>3, <2>1, <2>2, <2>4, <2>5, <2>6, OneCallMoves, Zenon
<1> QED BY <1>4, <1>5

LEMMA RemovalStepInv ==
  ASSUME RemovalInv, [RNext]_rvars
  PROVE  RemovalInv'
<1>1. CASE UNCHANGED <<order, delivery, zapped, inMailbox, calls>>
  <2> USE <1>1
  <2>1. RemovalTyped' /\ RecordsKnown'
    BY DEF RemovalInv, RemovalTyped, RecordsKnown, Known
  <2>2. MarkedAreGone'
    BY DEF RemovalInv, MarkedAreGone, Gone, GoneFor
  <2>3. \A c \in Calls : Middle(c)'
    BY DEF RemovalInv, Middle, GoneFor, Past, Record
  <2>4. \A c \in Calls : NothingLost(c)'
    BY DEF RemovalInv, NothingLost, Ahead, Dealt, GoneFor, Past, Record
  <2> QED BY <2>1, <2>2, <2>3, <2>4 DEF RemovalInv
<1> QED
  BY <1>1, RegisterInv, NewCallInv, PassOverInv, NobodyToAskInv, StartInv, NextUrlInv, AnswerInv,
     GoesInv, MarksInv
  DEF RNext, RemovalStep, GetToken, TokenExpires, rvars

LEMMA RemovalInvariant == RSpec => []RemovalInv
<1>1. RInit => RemovalInv
  <2> SUFFICES ASSUME RInit
               PROVE  RemovalInv
    OBVIOUS
  <2>1. NotMade \in RemovalCall
    BY DEF NotMade, RemovalCall
  <2>2. /\ RemovalTyped
        /\ \A c \in Calls : calls[c] = NotMade
    BY <2>1 DEF RInit, RemovalTyped
  <2>3. RecordsKnown /\ MarkedAreGone
    BY <2>2 DEF RInit, NotMade, RecordsKnown, MarkedAreGone
  <2>4. ASSUME NEW c \in Calls
        PROVE  Middle(c) /\ NothingLost(c)
    BY <2>2 DEF NotMade, Middle, NothingLost
  <2> QED BY <2>2, <2>3, <2>4 DEF RemovalInv
<1> QED BY <1>1, RemovalStepInv, PTL DEF RSpec

(* delivery/auto_zap.py: _execute_zap() and the three triggers, over       *)
(* mailbox_actions.py and its two clients.  For every set of messages,     *)
(* recipients, providers and concurrent calls: a record that is marked or  *)
(* named as removed is seen by no recipient whose provider has a client.   *)
THEOREM RemovedIsGone == RSpec => []RemovedMeansGone
<1>1. RemovalInv => RemovedMeansGone
  BY RemovalImplies
<1> QED BY <1>1, RemovalInvariant, PTL

(* delivery/auto_zap.py and user_reports.py: a call that has ended asked   *)
(* for every copy of every record it found, or the copy is gone.           *)
THEOREM EveryoneIsAsked == RSpec => []NobodySkipped
<1>1. RemovalInv => NobodySkipped
  BY RemovalImplies
<1> QED BY <1>1, RemovalInvariant, PTL
=============================================================================
