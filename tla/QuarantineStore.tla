--------------------------- MODULE QuarantineStore ---------------------------
(***************************************************************************)
(* delivery/quarantine.py: the directory in which held mail is kept.  One  *)
(* quarantined item is two files, the message (<id>.eml or <id>.eml.enc)   *)
(* and its metadata (<id>.json), written one after the other, each in a    *)
(* thread, under the asyncio lock of the store.  Readers (list_pending,    *)
(* get_record, get_raw_message) take no lock.  write_text truncates before *)
(* it writes, so a file can be seen, or left by a crash or a full disk, in *)
(* a state that does not parse: "torn" metadata, a "partial" message.      *)
(*                                                                         *)
(* A task is a coroutine of the one gateway process that owns the          *)
(* directory; it makes one call of store, release or reject at a time.     *)
(***************************************************************************)

CONSTANTS Tasks,    \* the coroutines that call the store
          Items,    \* the quarantine ids (uuid4: never minted twice)
          NoTask,   \* nobody holds the lock
          NoItem    \* a task that makes no call

ASSUME QuarantineAssumption == NoTask \notin Tasks /\ NoItem \notin Items

VARIABLES eml,      \* eml[i]:  state of the message file of item i
          meta,     \* meta[i]: state of the metadata file of item i
          lock,     \* the task inside `async with self._lock`, or NoTask
          op        \* op[t]:   the call task t is making

qvars == <<eml, meta, lock, op>>

Resolutions == {"released", "rejected"}
Statuses    == {"pending"} \cup Resolutions

(* Where a call stands: queued on the lock, writing a file, or returned    *)
(* ("ok", "missing" for None, "error" for an exception).                   *)
Waiting  == {"store", "resolve"}
Writing  == {"eml", "gap", "meta", "rewrite"}
Returned == {"ok", "missing", "error"}

Idle == [pc |-> "idle", item |-> NoItem, status |-> "pending"]

QTypeOK ==
  /\ eml  \in [Items -> {"absent", "partial", "whole"}]
  /\ meta \in [Items -> {"absent", "torn"} \cup Statuses]
  /\ lock \in Tasks \cup {NoTask}
  /\ op   \in [Tasks -> [pc : {"idle"} \cup Waiting \cup Writing \cup Returned,
                         item : Items \cup {NoItem}, status : Statuses]]

QInit ==
  /\ eml  = [i \in Items |-> "absent"]
  /\ meta = [i \in Items |-> "absent"]
  /\ lock = NoTask
  /\ op   = [t \in Tasks |-> Idle]

(* The next point of t's call. *)
Goto(t, pc) == op' = [op EXCEPT ![t].pc = pc]

Call(t, pc, i, s) ==
  /\ op[t].pc = "idle"
  /\ op' = [op EXCEPT ![t] = [pc |-> pc, item |-> i, status |-> s]]
  /\ UNCHANGED <<eml, meta, lock>>

(* An id that uuid4 may still return. *)
Fresh(i) ==
  /\ eml[i] = "absent"
  /\ meta[i] = "absent"
  /\ \A t \in Tasks : op[t].item # i

(* store(): a record with a new id and status "pending" is built, then the *)
(* task waits for the lock.                                                *)
StoreCall(t, i) == Fresh(i) /\ Call(t, "store", i, "pending")

(* release() and reject(): _resolve waits for the lock.                    *)
ResolveCall(t, i, s) == Call(t, "resolve", i, s)

-----------------------------------------------------------------------------
(* store(), inside the lock.                                               *)

StoreLocked(t) ==
  /\ op[t].pc = "store"
  /\ lock = NoTask
  /\ lock' = t
  /\ eml' = [eml EXCEPT ![op[t].item] = "partial"]
  /\ Goto(t, "eml")
  /\ UNCHANGED meta

(* A deliberate fault: the metadata does not wait for the message.         *)
EmlWritten_NotAwaited(t) ==
  /\ op[t].pc = "eml"
  /\ Goto(t, "gap")
  /\ UNCHANGED <<eml, meta, lock>>

EmlWritten(t) ==
  /\ op[t].pc = "eml"
  /\ eml' = [eml EXCEPT ![op[t].item] = "whole"]
  /\ Goto(t, "gap")
  /\ UNCHANGED <<meta, lock>>

MetaOpened(t) ==
  /\ op[t].pc = "gap"
  /\ meta' = [meta EXCEPT ![op[t].item] = "torn"]
  /\ Goto(t, "meta")
  /\ UNCHANGED <<eml, lock>>

-----------------------------------------------------------------------------
(* _resolve(), inside the lock: the record is read and rewritten with the  *)
(* new status, whatever the old one was.                                   *)

ResolveUnknown(t) ==
  /\ op[t].pc = "resolve"
  /\ lock = NoTask
  /\ meta[op[t].item] = "absent"
  /\ Goto(t, "missing")
  /\ UNCHANGED <<eml, meta, lock>>

(* A deliberate fault: the record is read without the lock.                *)
ResolveUnreadable_NoLock(t) ==
  /\ op[t].pc = "resolve"
  /\ meta[op[t].item] = "torn"
  /\ Goto(t, "error")
  /\ UNCHANGED <<eml, meta, lock>>

(* json.loads raises on a torn file, or a whole one cannot be opened to be *)
(* rewritten: the lock is given back.                                      *)
ResolveUnreadable(t) ==
  /\ op[t].pc = "resolve"
  /\ lock = NoTask
  /\ meta[op[t].item] # "absent"
  /\ Goto(t, "error")
  /\ UNCHANGED <<eml, meta, lock>>

ResolveKnown(t) ==
  /\ op[t].pc = "resolve"
  /\ lock = NoTask
  /\ meta[op[t].item] \in Statuses
  /\ lock' = t
  /\ meta' = [meta EXCEPT ![op[t].item] = "torn"]
  /\ Goto(t, "rewrite")
  /\ UNCHANGED eml

(* A deliberate fault: the status of the call is not the one written.      *)
MetaWritten_StatusKept(t) ==
  /\ op[t].pc \in {"meta", "rewrite"}
  /\ meta' = [meta EXCEPT ![op[t].item] = "pending"]
  /\ lock' = NoTask
  /\ Goto(t, "ok")
  /\ UNCHANGED eml

(* The metadata is on disk, the lock is given back and the call returns.   *)
MetaWritten(t) ==
  /\ op[t].pc \in {"meta", "rewrite"}
  /\ meta' = [meta EXCEPT ![op[t].item] = op[t].status]
  /\ lock' = NoTask
  /\ Goto(t, "ok")
  /\ UNCHANGED eml

-----------------------------------------------------------------------------
(* A deliberate fault: an exception leaves the lock taken.                 *)
WriteFails_LockKept(t) ==
  /\ op[t].pc \in Writing
  /\ Goto(t, "error")
  /\ UNCHANGED <<eml, meta, lock>>

(* Opening or writing a file raises (no space left, an I/O error): the     *)
(* file stays as the write left it, `async with` gives the lock back, the  *)
(* caller sees the exception.                                              *)
WriteFails(t) ==
  /\ op[t].pc \in Writing
  /\ lock' = NoTask
  /\ Goto(t, "error")
  /\ UNCHANGED <<eml, meta>>

(* The caller goes on with its result.                                     *)
CallEnds(t) ==
  /\ op[t].pc \in Returned
  /\ op' = [op EXCEPT ![t] = Idle]
  /\ UNCHANGED <<eml, meta, lock>>

(* The process dies: the tasks and the lock are gone, the files stay.      *)
ProcessDies ==
  /\ lock' = NoTask
  /\ op' = [t \in Tasks |-> Idle]
  /\ UNCHANGED <<eml, meta>>

(* One step of the store on behalf of task t.                              *)
StoreStep(t) ==
  \/ StoreLocked(t) \/ EmlWritten(t) \/ MetaOpened(t)
  \/ ResolveUnknown(t) \/ ResolveUnreadable(t) \/ ResolveKnown(t)
  \/ MetaWritten(t) \/ WriteFails(t)

QNext ==
  \/ \E t \in Tasks, i \in Items : StoreCall(t, i)
  \/ \E t \in Tasks, i \in Items, s \in Resolutions : ResolveCall(t, i, s)
  \/ \E t \in Tasks : StoreStep(t) \/ CallEnds(t)
  \/ ProcessDies

QSpec == QInit /\ [][QNext]_qvars

(* asyncio.Lock wakes its waiters first in, first out: a waiting call is   *)
(* served although the lock is taken and given back over and over.         *)
QFairness == \A t \in Tasks : SF_qvars(StoreStep(t)) /\ WF_qvars(CallEnds(t))

QFairSpec == QSpec /\ QFairness

-----------------------------------------------------------------------------
(* Properties.                                                             *)

(* Whatever metadata exists, even torn, the message it describes is on     *)
(* disk in full: store() writes the message first, so get_raw_message of   *)
(* a known item never finds it missing or cut short, across crashes.       *)
RecordHasContent == \A i \in Items : meta[i] # "absent" => eml[i] = "whole"

(* release() and reject() fail to parse a record only when it is damaged   *)
(* for good, never because another call is halfway through writing it.     *)
NoErrorFromConcurrentWrite ==
  [][\A t \in Tasks :
       op[t].pc = "resolve" /\ op'[t].pc = "error" =>
         \A u \in Tasks : op[u].pc \in Writing => op[u].item # op[t].item]_qvars

(* The abstract item: a write in progress counts as done for a decision    *)
(* and as not yet done for a new item; torn metadata that nobody is        *)
(* writing is lost.                                                        *)
InHand(i) == lock # NoTask /\ op[lock].item = i
CustodyOf(i) ==
  CASE meta[i] = "absent" -> "none"
    [] meta[i] = "torn" /\ InHand(i) /\ op[lock].pc = "meta" -> "none"
    [] meta[i] = "torn" /\ InHand(i) /\ op[lock].pc # "meta" -> op[lock].status
    [] meta[i] = "torn" /\ ~InHand(i) -> "lost"
    [] OTHER -> meta[i]

ItemCustody == [i \in Items |-> CustodyOf(i)]

C == INSTANCE Custody WITH custody <- ItemCustody

(* The files implement Custody: a decision is never undone, an item never  *)
(* becomes pending again, a damaged one stays damaged.                     *)
ImplementsCustody == C!CSpec

(* Every call of store, release and reject returns (or the process dies),  *)
(* whatever writes fail.                                                   *)
CallsReturn ==
  \A t \in Tasks : op[t].pc \in Waiting \cup Writing
                     ~> op[t].pc \notin Waiting \cup Writing
=============================================================================
