----------------------------- MODULE Compliance -----------------------------
(***************************************************************************)
(* compliance/retention.py (legal holds and the retention purge) and       *)
(* gdpr.py (erasure), against the audit log of audit/logger.py and the raw *)
(* mail directory.  Holds live in memory and in a file that is opened for  *)
(* writing, which empties it, and then written; the audit log is rewritten *)
(* the same way.  These functions are synchronous, so what can happen in   *)
(* the middle of one is a crash, and the one line of the log that a thread *)
(* of AuditLogger may be appending.                                        *)
(*                                                                         *)
(* purge_quarantine_store and the first part of the erasure ask for        *)
(* list_all, which no store of the repository has: they change nothing.    *)
(***************************************************************************)
EXTENDS Naturals

CONSTANTS Lines,      \* lines of the audit log
          LineIds,    \* LineIds[l]: the message id and the operator in line l
          Dated,      \* lines whose timestamp is ISO text; AuditLogger writes numbers
          Files,      \* files of the raw mail directory, by name
          Sealed,     \* the encrypted ones
          Subjects,   \* e-mail addresses of data subjects
          Mentions,   \* Mentions[s]: the lines and the files whose text contains s
          LowerCase,  \* lines that write the address in lower case
          Targets,    \* what holds are put on: an id, a file's name, a subject
          HoldIds,    \* bound: holds that exist at a time
          MaxCrashes, \* bound
          MaxOps,     \* bound: holds added or removed, purges and erasures
          NoLine

ASSUME ComplianceAssumption ==
  /\ NoLine \notin Lines
  /\ Dated \subseteq Lines /\ LowerCase \subseteq Lines /\ Sealed \subseteq Files
  /\ LineIds \in [Lines -> SUBSET Targets]
  /\ Files \cup Subjects \subseteq Targets
  /\ Mentions \in [Subjects -> SUBSET (Lines \cup Files)]
  /\ \A s \in Subjects, l \in Lines : s \in LineIds[l] => l \in Mentions[s]
  /\ MaxCrashes \in Nat /\ MaxOps \in Nat

VARIABLES holds,     \* LegalHoldManager.holds: pairs of an id and a target
          holdFile,  \* what the persistence file would load
          log,       \* lines in the audit log
          anonymous, \* pairs of a line and a subject whose address was replaced in it
          handed,    \* the line a thread is about to append
          raw,       \* files in the raw mail directory
          old,       \* lines and files beyond their retention
          busy,      \* the synchronous function that runs: "no", "saving", "read", "emptied"
          kept,      \* lines the running rewrite will write
          erasing,   \* the subject the rewrite anonymises, if any
          ops, crashes,
          promised,  \* bookkeeping: holds add_hold returned for, until removed
          recorded,  \* bookkeeping: lines whose append has returned
          purged,    \* bookkeeping: lines the retention left out
          exposed,   \* bookkeeping: lines appended in the middle of a rewrite
          torn       \* bookkeeping: files a crash left empty

files == <<holdFile, log, anonymous, raw>>
ghosts == <<promised, recorded, purged, exposed, torn>>
cvars == <<holds, files, handed, old, busy, kept, erasing, ops, crashes, ghosts>>

CTypeOK ==
  /\ {holds, holdFile, promised} \subseteq SUBSET (HoldIds \X Targets)
  /\ {log, kept, recorded, purged, exposed} \subseteq SUBSET Lines
  /\ anonymous \subseteq Lines \X Subjects
  /\ erasing \subseteq Subjects
  /\ handed \in Lines \cup {NoLine}
  /\ raw \subseteq Files
  /\ old \subseteq Lines \cup Files
  /\ busy \in {"no", "saving", "read", "emptied"}
  /\ torn \subseteq {"holds", "log"}
  /\ ops \in 0..MaxOps /\ crashes \in 0..MaxCrashes

CInitial ==
  /\ holds = {} /\ holdFile = {} /\ log = {} /\ anonymous = {}
  /\ handed = NoLine
  /\ raw = Files
  /\ old = {}
  /\ busy = "no"
  /\ kept = {} /\ erasing = {}
  /\ ops = 0 /\ crashes = 0
  /\ promised = {} /\ recorded = {} /\ purged = {} /\ exposed = {} /\ torn = {}

Begin == busy = "no" /\ ops < MaxOps /\ ops' = ops + 1

-----------------------------------------------------------------------------
(* AuditLogger.record(): the line goes to a thread, which appends it.      *)

HandOver(l) ==
  /\ busy = "no"
  /\ handed = NoLine
  /\ l \notin recorded
  /\ handed' = l
  /\ UNCHANGED <<holds, files, old, busy, kept, erasing, ops, crashes, ghosts>>

AppendLine ==
  /\ handed # NoLine
  /\ log' = log \cup {handed}
  /\ recorded' = recorded \cup {handed}
  /\ exposed' = IF busy \in {"read", "emptied"} THEN exposed \cup {handed} ELSE exposed
  /\ handed' = NoLine
  /\ UNCHANGED <<holds, holdFile, anonymous, raw, old, busy, kept, erasing, ops, crashes,
                 promised, purged, torn>>

(* A line or a file grows older than the policy keeps it (external).       *)
Age(x) ==
  /\ x \in (recorded \cup raw) \ old
  /\ old' = old \cup {x}
  /\ UNCHANGED <<holds, files, handed, busy, kept, erasing, ops, crashes, ghosts>>

-----------------------------------------------------------------------------
(* Legal holds.  _save() opens the file, which empties it, and writes it.  *)
(* add_hold() makes an id of its own for every hold: a target may have     *)
(* several, and remove_hold() takes one of them away.                      *)

On(hs) == {h[2] : h \in hs}

(* is_held(): some hold is on it.                                          *)
Held(t) == t \in On(holds)

AddHold(i, t) ==
  /\ Begin
  /\ \A h \in holds \cup promised : h[1] # i
  /\ holds' = holds \cup {<<i, t>>}
  /\ holdFile' = {}
  /\ busy' = "saving"
  /\ UNCHANGED <<log, anonymous, raw, handed, old, kept, erasing, crashes, ghosts>>

RemoveHold(h) ==
  /\ Begin
  /\ h \in holds
  /\ holds' = holds \ {h}
  /\ promised' = promised \ {h}
  /\ holdFile' = {}
  /\ busy' = "saving"
  /\ UNCHANGED <<log, anonymous, raw, handed, old, kept, erasing, crashes,
                 recorded, purged, exposed, torn>>

Saved ==
  /\ busy = "saving"
  /\ holdFile' = holds
  /\ promised' = promised \cup holds
  /\ busy' = "no"
  /\ UNCHANGED <<holds, log, anonymous, raw, handed, old, kept, erasing, ops, crashes,
                 recorded, purged, exposed, torn>>

-----------------------------------------------------------------------------
(* run_full_purge(): the raw mail directory, then the audit log.           *)

(* A deliberate fault: the holds are not asked.                            *)
ExpiredFiles_Unasked == raw \cap old

(* is_held(message_id=file): a file is asked for by its own name.          *)
ExpiredFiles == {f \in raw \cap old : ~Held(f)}

(* The message id and the operator a line still shows.                     *)
Shown(l) == {x \in LineIds[l] : <<l, x>> \notin anonymous}

(* A line whose timestamp is no text raises and is kept.                   *)
ExpiredLines == {l \in log \cap old \cap Dated : \A x \in Shown(l) : ~Held(x)}

Purge ==
  /\ Begin
  /\ raw' = raw \ ExpiredFiles
  /\ kept' = log \ ExpiredLines
  /\ erasing' = {}
  /\ purged' = purged \cup ExpiredLines
  /\ busy' = "read"
  /\ UNCHANGED <<holds, holdFile, log, anonymous, handed, old, crashes,
                 promised, recorded, exposed, torn>>

(* erase_subject_data(): refused under a hold on the address, and no other *)
(* hold is asked; encrypted files do not contain the address; every line   *)
(* is kept, without the address where it is in lower case.                 *)
Erase(s) ==
  /\ Begin
  /\ ~Held(s)
  /\ raw' = raw \ (Mentions[s] \ Sealed)
  /\ kept' = log
  /\ erasing' = {s}
  /\ busy' = "read"
  /\ UNCHANGED <<holds, holdFile, log, anonymous, handed, old, crashes, ghosts>>

(* The log is opened for writing ...                                       *)
Empties ==
  /\ busy = "read"
  /\ log' = {}
  /\ busy' = "emptied"
  /\ UNCHANGED <<holds, holdFile, anonymous, raw, handed, old, kept, erasing, ops, crashes, ghosts>>

(* A deliberate fault: the rewrite keeps only the lines it anonymised.     *)
Rewritten_OnlyChanged ==
  /\ busy = "emptied"
  /\ log' = {l \in kept : \E s \in erasing : l \in Mentions[s]}
  /\ busy' = "no"
  /\ kept' = {} /\ erasing' = {}
  /\ UNCHANGED <<holds, holdFile, anonymous, raw, handed, old, ops, crashes, ghosts>>

(* ... and written from its start, over a line appended meanwhile.         *)
Rewritten ==
  /\ busy = "emptied"
  /\ log' = IF kept = {} THEN log ELSE kept
  /\ anonymous' = anonymous \cup
       {p \in kept \X erasing : p[1] \in LowerCase \cap Mentions[p[2]]}
  /\ busy' = "no"
  /\ kept' = {} /\ erasing' = {}
  /\ UNCHANGED <<holds, holdFile, raw, handed, old, ops, crashes, ghosts>>

-----------------------------------------------------------------------------
(* The process dies and is started again: __init__ loads what it can.      *)
Dies ==
  /\ crashes < MaxCrashes
  /\ crashes' = crashes + 1
  /\ holds' = holdFile
  /\ handed' = NoLine
  /\ busy' = "no"
  /\ kept' = {} /\ erasing' = {}
  /\ torn' = torn \cup (IF busy = "saving" THEN {"holds"} ELSE {})
                  \cup (IF busy = "emptied" THEN {"log"} ELSE {})
  /\ UNCHANGED <<files, old, ops, promised, recorded, purged, exposed>>

CNext ==
  \/ \E l \in Lines : HandOver(l)
  \/ AppendLine
  \/ \E x \in Lines \cup Files : Age(x)
  \/ \E i \in HoldIds, t \in Targets : AddHold(i, t)
  \/ \E h \in HoldIds \X Targets : RemoveHold(h)
  \/ Saved \/ Purge
  \/ \E s \in Subjects : Erase(s)
  \/ Empties \/ Rewritten \/ Dies

CSpec == CInitial /\ [][CNext]_cvars

-----------------------------------------------------------------------------
(* Properties.                                                             *)

(* retention.py rewrites the audit log while it is in use.  A line that    *)
(* was recorded stays in it, anonymous or not, unless it expired, or was   *)
(* appended while a rewrite was running, or a crash found the log empty.   *)
(* No line of AuditLogger's own is ever left out by the retention.         *)
EvidenceKept ==
  /\ purged \subseteq Dated
  /\ busy = "emptied" \/ "log" \in torn \/ recorded \subseteq log \cup purged \cup exposed

(* LegalHoldManager says it keeps a purge from what is held.  While a hold *)
(* that add_hold() returned for is not removed, over restarts, other holds *)
(* and erasures: the retention takes no file by that name and no line that *)
(* still shows its target, and an erasure removes files only for a subject *)
(* without a hold, whom they mention in the clear.  What is excepted is a  *)
(* crash in the middle of the saving of holds.  An erasure asks no hold    *)
(* but the subject's: it does remove files that are held themselves.       *)
HoldsProtect ==
  [][\/ "holds" \in torn
     \/ /\ \A f \in raw \ raw' :
            \/ erasing' = {} /\ f \notin On(promised)
            \/ \E s \in erasing' \ On(promised) : f \in Mentions[s] \ Sealed
        /\ \A l \in purged' \ purged : Shown(l) \cap On(promised) = {}]_cvars
=============================================================================
