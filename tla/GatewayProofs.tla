---------------------------- MODULE GatewayProofs ----------------------------
(***************************************************************************)
(* Proofs about QuarantineStore, for every set of tasks and of items,      *)
(* about SMTPRelay, for every set of senders, every number of attempts and *)
(* of failures, and about Gateway, which composes them, for every number   *)
(* of requests, administrators, messages, items, failures and crashes.     *)
(***************************************************************************)
EXTENDS Gateway, TLAPS

-----------------------------------------------------------------------------
(* QuarantineStore: who writes, and what the files look like meanwhile.    *)

(* Calls that hold an id nobody else may store under. *)
Minting == {"store", "eml", "gap", "meta"}

(* The task that writes is the one that holds the lock. *)
LockDiscipline == \A t \in Tasks : op[t].pc \in Writing <=> lock = t

(* A call under way is about an item. *)
CallHasItem == \A t \in Tasks : op[t].pc # "idle" => op[t].item \in Items

(* No two calls of store have the same id. *)
MintedOnce ==
  \A t, u \in Tasks :
    /\ op[t].pc \in Minting /\ op[u].pc \in Minting
    /\ op[t].item = op[u].item
    => t = u

(* What the files look like at each point of a call that writes them. *)
FilesMatchCalls ==
  \A t \in Tasks :
    /\ op[t].pc \in {"store", "eml", "gap"} => meta[op[t].item] = "absent"
    /\ op[t].pc \in {"gap", "meta"} => eml[op[t].item] = "whole"
    /\ op[t].pc \in {"meta", "rewrite"} => meta[op[t].item] = "torn"

(* store() writes "pending", release() and reject() their own status. *)
StatusMatchesCall ==
  \A t \in Tasks :
    /\ op[t].pc \in Minting => op[t].status = "pending"
    /\ op[t].pc \in {"resolve", "rewrite"} => op[t].status \in Resolutions

QInv ==
  /\ QTypeOK
  /\ LockDiscipline
  /\ CallHasItem
  /\ MintedOnce
  /\ FilesMatchCalls
  /\ StatusMatchesCall
  /\ RecordHasContent

LEMMA QInitInv == QInit => QInv
  BY QuarantineAssumption
  DEF QInit, QInv, QTypeOK, Idle, Statuses, Resolutions, Waiting, Writing, Returned,
      Minting, LockDiscipline, CallHasItem, MintedOnce, FilesMatchCalls,
      StatusMatchesCall, RecordHasContent

LEMMA StoreCallInv ==
  ASSUME QInv, NEW t \in Tasks, NEW i \in Items, StoreCall(t, i)
  PROVE  QInv'
  BY QuarantineAssumption
  DEF QInv, QTypeOK, Statuses, Resolutions, Waiting, Writing, Returned, StoreCall, Fresh, Call,
      Minting, LockDiscipline, CallHasItem, MintedOnce, FilesMatchCalls,
      StatusMatchesCall, RecordHasContent

LEMMA ResolveCallInv ==
  ASSUME QInv, NEW t \in Tasks, NEW i \in Items, NEW s \in Resolutions, ResolveCall(t, i, s)
  PROVE  QInv'
  BY QuarantineAssumption
  DEF QInv, QTypeOK, Statuses, Resolutions, Waiting, Writing, Returned, ResolveCall, Call,
      Minting, LockDiscipline, CallHasItem, MintedOnce, FilesMatchCalls,
      StatusMatchesCall, RecordHasContent

LEMMA StoreStepInv ==
  ASSUME QInv, NEW t \in Tasks, StoreStep(t)
  PROVE  QInv'
<1> USE QuarantineAssumption
    DEF QInv, QTypeOK, Statuses, Resolutions, Waiting, Writing, Returned, Goto,
        Minting, LockDiscipline, CallHasItem, MintedOnce, FilesMatchCalls,
      StatusMatchesCall, RecordHasContent
<1>1. CASE StoreLocked(t)
  BY <1>1 DEF StoreLocked
<1>2. CASE EmlWritten(t)
  BY <1>2 DEF EmlWritten
<1>3. CASE MetaOpened(t)
  BY <1>3 DEF MetaOpened
<1>4. CASE ResolveUnknown(t)
  BY <1>4 DEF ResolveUnknown
<1>5. CASE ResolveUnreadable(t)
  BY <1>5 DEF ResolveUnreadable
<1>6. CASE ResolveKnown(t)
  BY <1>6 DEF ResolveKnown
<1>7. CASE MetaWritten(t)
  BY <1>7 DEF MetaWritten
<1>8. CASE WriteFails(t)
  BY <1>8 DEF WriteFails
<1>9. QED
  BY <1>1, <1>2, <1>3, <1>4, <1>5, <1>6, <1>7, <1>8 DEF StoreStep

LEMMA CallEndsInv ==
  ASSUME QInv, NEW t \in Tasks, CallEnds(t)
  PROVE  QInv'
  BY QuarantineAssumption
  DEF QInv, QTypeOK, Statuses, Resolutions, Waiting, Writing, Returned, CallEnds, Idle,
      Minting, LockDiscipline, CallHasItem, MintedOnce, FilesMatchCalls,
      StatusMatchesCall, RecordHasContent

LEMMA ProcessDiesInv ==
  ASSUME QInv, ProcessDies
  PROVE  QInv'
  BY QuarantineAssumption
  DEF QInv, QTypeOK, Statuses, Resolutions, Waiting, Writing, Returned, ProcessDies, Idle,
      Minting, LockDiscipline, CallHasItem, MintedOnce, FilesMatchCalls,
      StatusMatchesCall, RecordHasContent

LEMMA QStutterInv ==
  ASSUME QInv, UNCHANGED qvars
  PROVE  QInv'
  BY DEF QInv, QTypeOK, qvars,
      LockDiscipline, CallHasItem, MintedOnce, FilesMatchCalls,
      StatusMatchesCall, RecordHasContent

(* The inductive invariant of the store holds in every reachable state.    *)
THEOREM QInvariance == QSpec => []QInv
<1>1. QInv /\ [QNext]_qvars => QInv'
  <2> SUFFICES ASSUME QInv, [QNext]_qvars PROVE QInv'
    OBVIOUS
  <2>1. CASE \E t \in Tasks, i \in Items : StoreCall(t, i)
    BY <2>1, StoreCallInv
  <2>2. CASE \E t \in Tasks, i \in Items, s \in Resolutions : ResolveCall(t, i, s)
    BY <2>2, ResolveCallInv
  <2>3. CASE \E t \in Tasks : StoreStep(t) \/ CallEnds(t)
    BY <2>3, StoreStepInv, CallEndsInv
  <2>4. CASE ProcessDies
    BY <2>4, ProcessDiesInv
  <2>5. CASE UNCHANGED qvars
    BY <2>5, QStutterInv
  <2>6. QED
    BY <2>1, <2>2, <2>3, <2>4, <2>5 DEF QNext
<1>2. QED
  BY QInitInv, <1>1, PTL DEF QSpec

(* Every reachable state of the store is well typed. *)
THEOREM QTypeCorrect == QSpec => []QTypeOK
  BY QInvariance, PTL DEF QInv

(* Metadata on disk, readable or torn, always describes a message that is  *)
(* on disk in full, whatever writes fail and whenever the process dies.    *)
THEOREM RecordHasContentHolds == QSpec => []RecordHasContent
  BY QInvariance, PTL DEF QInv

(* delivery/quarantine.py: _resolve() reads the record inside the lock.    *)
(* For any number of tasks and items, whatever writes fail: release() and  *)
(* reject() never stumble over a record that another call is writing.      *)
THEOREM WritesAreNeverSeen == QSpec => NoErrorFromConcurrentWrite
<1>1. QInv /\ [QNext]_qvars =>
        [\A t \in Tasks : op[t].pc = "resolve" /\ op'[t].pc = "error" =>
           \A u \in Tasks : op[u].pc \in Writing => op[u].item # op[t].item]_qvars
  <2> SUFFICES ASSUME QInv, QNext, NEW t \in Tasks, op[t].pc = "resolve", op'[t].pc = "error",
                      NEW u \in Tasks, op[u].pc \in Writing
               PROVE  FALSE
    OBVIOUS
  <2>1. op \in [Tasks -> [pc : {"idle"} \cup Waiting \cup Writing \cup Returned,
                          item : Items \cup {NoItem}, status : Statuses]]
    BY DEF QInv, QTypeOK
  <2>2. lock = u /\ lock # NoTask
    BY QuarantineAssumption DEF QInv, LockDiscipline
  <2>3. ASSUME NEW v \in Tasks, StoreStep(v) PROVE FALSE
    <3>1. v = t
      BY <2>1, <2>3
      DEF StoreStep, StoreLocked, EmlWritten, MetaOpened, ResolveUnknown, ResolveUnreadable,
          ResolveKnown, MetaWritten, WriteFails, Goto
    <3>2. ResolveUnreadable(t)
      BY <2>1, <2>3, <3>1
      DEF StoreStep, StoreLocked, EmlWritten, MetaOpened, ResolveUnknown, ResolveUnreadable,
          ResolveKnown, MetaWritten, WriteFails, Goto, Writing
    <3> QED BY <2>2, <3>2 DEF ResolveUnreadable
  <2>4. ASSUME NEW v \in Tasks, CallEnds(v) PROVE FALSE
    BY <2>1, <2>4 DEF CallEnds, Returned, Idle
  <2>5. CASE \E v \in Tasks, i \in Items : StoreCall(v, i)
    BY <2>1, <2>5 DEF StoreCall, Call
  <2>6. CASE \E v \in Tasks, i \in Items, s \in Resolutions : ResolveCall(v, i, s)
    BY <2>1, <2>6 DEF ResolveCall, Call
  <2>7. CASE ProcessDies
    BY <2>7 DEF ProcessDies, Idle
  <2> QED BY <2>3, <2>4, <2>5, <2>6, <2>7 DEF QNext
<1> QED BY <1>1, QInvariance, PTL DEF QSpec, NoErrorFromConcurrentWrite

-----------------------------------------------------------------------------
(* The refinement of Custody.                                              *)

(* A step that changes the custody of no item. *)
LEMMA SameCustody ==
  ASSUME \A i \in Items : CustodyOf(i)' = CustodyOf(i)
  PROVE  UNCHANGED ItemCustody
  BY DEF ItemCustody

(* The steps of Custody, in terms of the items they leave alone. *)
LEMMA TakeStep ==
  ASSUME NEW i \in Items, CustodyOf(i) = "none", CustodyOf(i)' = "pending",
         \A j \in Items \ {i} : CustodyOf(j)' = CustodyOf(j)
  PROVE  C!CNext
  BY DEF ItemCustody, C!Take, C!CNext

LEMMA DecideStep ==
  ASSUME NEW i \in Items, NEW s \in Resolutions,
         CustodyOf(i) \in Statuses, CustodyOf(i)' = s,
         \A j \in Items \ {i} : CustodyOf(j)' = CustodyOf(j)
  PROVE  C!CNext
<1>1. C!Decide(i, s)
  BY DEF ItemCustody, C!Decide, C!Decided, Statuses, Resolutions
<1>2. QED
  BY <1>1 DEF C!CNext, C!Decided, Resolutions

LEMMA LoseStep ==
  ASSUME NEW i \in Items, CustodyOf(i)' = "lost",
         \A j \in Items \ {i} : CustodyOf(j)' = CustodyOf(j)
  PROVE  C!CNext
  BY DEF ItemCustody, C!Lose, C!CNext

LEMMA StoreStepRefines ==
  ASSUME QInv, NEW t \in Tasks, StoreStep(t)
  PROVE  [C!CNext]_ItemCustody
<1> USE QuarantineAssumption
    DEF QInv, QTypeOK, Statuses, Resolutions, Waiting, Writing, Returned, Goto,
        LockDiscipline, CallHasItem, MintedOnce, FilesMatchCalls, StatusMatchesCall, Minting
<1>0. PICK i \in Items : i = op[t].item
  BY DEF StoreStep, StoreLocked, EmlWritten, MetaOpened, ResolveUnknown, ResolveUnreadable,
         ResolveKnown, MetaWritten, WriteFails
<1>1. CASE StoreLocked(t) \/ EmlWritten(t) \/ MetaOpened(t)
           \/ ResolveUnknown(t) \/ ResolveUnreadable(t)
  <2>1. \A j \in Items : CustodyOf(j)' = CustodyOf(j)
    BY <1>1 DEF StoreLocked, EmlWritten, MetaOpened, ResolveUnknown, ResolveUnreadable,
                CustodyOf, InHand
  <2>2. QED
    BY <2>1, SameCustody
<1>2. CASE ResolveKnown(t)
  <2>1. CustodyOf(i) \in Statuses
    BY <1>0, <1>2 DEF ResolveKnown, CustodyOf, InHand
  <2>2. CustodyOf(i)' = op[t].status /\ op[t].status \in Resolutions
    BY <1>0, <1>2 DEF ResolveKnown, CustodyOf, InHand
  <2>3. \A j \in Items \ {i} : CustodyOf(j)' = CustodyOf(j)
    BY <1>0, <1>2 DEF ResolveKnown, CustodyOf, InHand
  <2>4. QED
    BY <2>1, <2>2, <2>3, DecideStep
<1>3. CASE MetaWritten(t) /\ op[t].pc = "meta"
  <2>1. CustodyOf(i) = "none" /\ CustodyOf(i)' = "pending"
    BY <1>0, <1>3 DEF MetaWritten, CustodyOf, InHand
  <2>2. \A j \in Items \ {i} : CustodyOf(j)' = CustodyOf(j)
    BY <1>0, <1>3 DEF MetaWritten, CustodyOf, InHand
  <2>3. QED
    BY <2>1, <2>2, TakeStep
<1>4. CASE \/ MetaWritten(t) /\ op[t].pc = "rewrite"
           \/ WriteFails(t) /\ op[t].pc \in {"eml", "gap"}
  <2>1. \A j \in Items : CustodyOf(j)' = CustodyOf(j)
    BY <1>4 DEF MetaWritten, WriteFails, CustodyOf, InHand
  <2>2. QED
    BY <2>1, SameCustody
<1>5. CASE WriteFails(t) /\ op[t].pc \in {"meta", "rewrite"}
  <2>1. CustodyOf(i)' = "lost"
    BY <1>0, <1>5 DEF WriteFails, CustodyOf, InHand
  <2>2. \A j \in Items \ {i} : CustodyOf(j)' = CustodyOf(j)
    BY <1>0, <1>5 DEF WriteFails, CustodyOf, InHand
  <2>3. QED
    BY <2>1, <2>2, LoseStep
<1>6. QED
  BY <1>1, <1>2, <1>3, <1>4, <1>5 DEF StoreStep, MetaWritten, WriteFails

LEMMA ProcessDiesRefines ==
  ASSUME QInv, ProcessDies
  PROVE  [C!CNext]_ItemCustody
<1> USE QuarantineAssumption
    DEF QInv, QTypeOK, Statuses, Resolutions, Waiting, Writing, Returned, Idle, ProcessDies,
        LockDiscipline, CallHasItem, FilesMatchCalls
<1>1. CASE lock \in Tasks /\ op[lock].pc \in {"meta", "rewrite"}
  <2>1. PICK i \in Items : i = op[lock].item
    BY <1>1
  <2>2. CustodyOf(i)' = "lost"
    BY <1>1, <2>1 DEF CustodyOf, InHand
  <2>3. \A j \in Items \ {i} : CustodyOf(j)' = CustodyOf(j)
    BY <1>1, <2>1 DEF CustodyOf, InHand
  <2>4. QED
    BY <2>2, <2>3, LoseStep
<1>2. CASE ~(lock \in Tasks /\ op[lock].pc \in {"meta", "rewrite"})
  <2>1. \A j \in Items : CustodyOf(j)' = CustodyOf(j)
    BY <1>2 DEF CustodyOf, InHand
  <2>2. QED
    BY <2>1, SameCustody
<1>3. QED
  BY <1>1, <1>2

LEMMA CallRefines ==
  ASSUME QInv, NEW t \in Tasks,
         \/ \E i \in Items : StoreCall(t, i)
         \/ \E i \in Items, s \in Resolutions : ResolveCall(t, i, s)
         \/ CallEnds(t)
  PROVE  [C!CNext]_ItemCustody
<1>1. \A j \in Items : CustodyOf(j)' = CustodyOf(j)
  BY QuarantineAssumption
  DEF QInv, QTypeOK, Statuses, Resolutions, Waiting, Writing, Returned, Idle, LockDiscipline,
      StoreCall, ResolveCall, Call, CallEnds, CustodyOf, InHand
<1>2. QED
  BY <1>1, SameCustody

(* The two files and the lock implement the abstract custody of an item:   *)
(* taken in once, decided by administrators only, lost only for good.      *)
THEOREM CustodyRefined == QSpec => ImplementsCustody
<1>1. QInit => C!CInit
  BY DEF QInit, C!CInit, ItemCustody, CustodyOf, InHand
<1>2. QInv /\ [QNext]_qvars => [C!CNext]_ItemCustody
  <2> SUFFICES ASSUME QInv, [QNext]_qvars PROVE [C!CNext]_ItemCustody
    OBVIOUS
  <2>1. CASE \E t \in Tasks, i \in Items : StoreCall(t, i)
    BY <2>1, CallRefines
  <2>2. CASE \E t \in Tasks, i \in Items, s \in Resolutions : ResolveCall(t, i, s)
    BY <2>2, CallRefines
  <2>3. CASE \E t \in Tasks : StoreStep(t) \/ CallEnds(t)
    BY <2>3, StoreStepRefines, CallRefines
  <2>4. CASE ProcessDies
    BY <2>4, ProcessDiesRefines
  <2>5. CASE UNCHANGED qvars
    <3>1. \A j \in Items : CustodyOf(j)' = CustodyOf(j)
      BY <2>5 DEF qvars, CustodyOf, InHand
    <3>2. QED
      BY <3>1, SameCustody
  <2>6. QED
    BY <2>1, <2>2, <2>3, <2>4, <2>5 DEF QNext
<1>3. QED
  BY <1>1, <1>2, QInvariance, PTL DEF QSpec, ImplementsCustody, C!CSpec

-----------------------------------------------------------------------------
(* SMTPRelay: the copies that the attempts of one call may leave.          *)

(* A call has begun at most MaxAttempts attempts, and each attempt hands   *)
(* over at most one copy.                                                  *)
AttemptsBoundCopies ==
  \A t \in Senders :
    /\ send[t] = "none" => tries[t] = 0 /\ copies[t] = 0
    /\ send[t] # "none" => tries[t] > 0
    /\ copies[t] <= tries[t]
    /\ send[t] = "attempt" => copies[t] < tries[t]
    /\ send[t] = "backoff" => tries[t] < MaxAttempts
    /\ send[t] = "sent" => copies[t] > 0

SInv == STypeOK /\ AttemptsBoundCopies

LEMMA SInitInv == SInit => SInv
  BY RelayAssumption DEF SInit, SInv, STypeOK, SendReturned, AttemptsBoundCopies

LEMMA SendCallInv ==
  ASSUME SInv, NEW t \in Senders, SendCall(t)
  PROVE  SInv'
  BY RelayAssumption DEF SInv, STypeOK, SendReturned, AttemptsBoundCopies, SendCall

LEMMA SendStepInv ==
  ASSUME SInv, NEW t \in Senders, SendStep(t)
  PROVE  SInv'
<1> USE RelayAssumption DEF SInv, STypeOK, SendReturned, AttemptsBoundCopies, Fault
<1>1. CASE Accepted(t)
  BY <1>1 DEF Accepted
<1>2. CASE Rejected(t)
  BY <1>2 DEF Rejected
<1>3. CASE Raises(t)
  BY <1>3 DEF Raises
<1>4. CASE BackoffEnds(t)
  BY <1>4 DEF BackoffEnds
<1>5. CASE \E taken \in {0, 1} : Breaks(t, taken)
  BY <1>5 DEF Breaks
<1>6. QED
  BY <1>1, <1>2, <1>3, <1>4, <1>5 DEF SendStep

LEMMA SendersDieInv ==
  ASSUME SInv, SendersDie
  PROVE  SInv'
  BY RelayAssumption DEF SInv, STypeOK, SendReturned, AttemptsBoundCopies, SendersDie

LEMMA SStutterInv ==
  ASSUME SInv, UNCHANGED svars
  PROVE  SInv'
  BY DEF SInv, STypeOK, AttemptsBoundCopies, svars

-----------------------------------------------------------------------------
(* Gateway.                                                                *)

(* A request or a call that has not begun, or has not come that far, has   *)
(* no message, makes no call of the store, has sent nothing.               *)
Undelivered == {"unused", "posted", "claimed", "logged", "judged"}

CallsInOrder ==
  /\ \A r \in Requests :
       /\ pc[r] # "unused" => msg[r] \in Msgs
       /\ pc[r] \in Undelivered => op[r].pc = "idle" /\ r \notin audit
       /\ pc[r] \in Undelivered \cup {"holding"} => send[r] = "none"
  /\ \A a \in Admins :
       /\ adm[a] = "unused" => op[a].pc = "idle"
       /\ adm[a] \in AdminUnderway => op[a].pc # "idle"
       /\ adm[a] \in {"unused"} \cup (AdminUnderway \ {"relaying"}) => send[a] = "none"

(* A call of the store is about the item that holds the task's message.    *)
ItemHoldsMessage ==
  /\ \A i \in Items : meta[i] # "absent" => holds[i] \in Msgs
  /\ \A t \in Tasks :
       /\ op[t].pc # "idle" => holds[op[t].item] = msg[t] /\ msg[t] \in Msgs
       /\ op[t].pc = "ok" => meta[op[t].item] # "absent"

(* The key of a message is live for as long as a request processes it.     *)
KeyHeld == \A r \in Requests : pc[r] \in Processing => msg[r] \in keys

(* The raw copy is there before anything that is done with the message.    *)
Logged ==
  /\ \A r \in Requests : pc[r] \in Processing \ {"claimed"} => msg[r] \in rawlog
  /\ \A t \in Tasks : send[t] # "none" => msg[t] \in rawlog
  /\ \A i \in Items : holds[i] \in rawlog \cup {NoMsg}

GInv ==
  /\ QInv /\ SInv /\ GTypeOK
  /\ CallsInOrder
  /\ ItemHoldsMessage
  /\ KeyHeld
  /\ OneProcessing
  /\ Logged

LEMMA GInitInv == Init => GInv
<1>1. Init => QInv /\ SInv
  BY QInitInv, SInitInv DEF Init
<1>2. Init => GTypeOK /\ CallsInOrder /\ ItemHoldsMessage /\ KeyHeld /\ OneProcessing /\ Logged
  BY GatewayAssumption
  DEF Init, QInit, SInit, GTypeOK, Actions, Outcomes, Processing, Underway, Interrupted,
      AdminUnderway, Undelivered, Idle, CallsInOrder, ItemHoldsMessage, KeyHeld,
      OneProcessing, Logged
<1>3. QED
  BY <1>1, <1>2 DEF GInv

LEMMA RequestStepInv ==
  ASSUME GInv, NEW r \in Requests, RequestStep(r)
  PROVE  GInv'
<1> USE GatewayAssumption
    DEF GInv, GTypeOK, Actions, Outcomes, Processing, Underway, Interrupted,
      AdminUnderway, Undelivered, CallsInOrder, ItemHoldsMessage, KeyHeld,
      OneProcessing, Logged, Move
<1>1. CASE Refuse(r)
  BY <1>1, QStutterInv, SStutterInv DEF Refuse, qvars, svars
<1>2. CASE SkipBounce(r) \/ SkipDuplicate(r)
  <2>1. CASE SkipBounce(r)
    BY <2>1, QStutterInv, SStutterInv DEF SkipBounce, Skip, qvars, svars
  <2>2. CASE SkipDuplicate(r)
    BY <2>2, QStutterInv, SStutterInv DEF SkipDuplicate, Skip, qvars, svars
  <2> QED BY <1>2, <2>1, <2>2
<1>3. CASE Claim(r)
  BY <1>3, QStutterInv, SStutterInv DEF Claim, qvars, svars
<1>4. CASE StoreUnavailable(r)
  BY <1>4, QStutterInv, SStutterInv DEF StoreUnavailable, qvars, svars
<1>5. CASE LogRaw(r)
  BY <1>5, QStutterInv, SStutterInv DEF LogRaw, qvars, svars
<1>6. CASE Abort(r)
  BY <1>6, QStutterInv, SStutterInv DEF Abort, qvars, svars
<1>7. CASE Judge(r)
  BY <1>7, QStutterInv, SStutterInv DEF Judge, qvars, svars
<1>8. CASE \E i \in Items : Hold(r, i)
  <2>1. PICK i \in Items : Hold(r, i)
    BY <1>8
  <2>2. QInv' /\ SInv'
    BY <2>1, StoreCallInv, SStutterInv DEF Hold
  <2>3. GTypeOK' /\ CallsInOrder' /\ KeyHeld' /\ OneProcessing' /\ Logged'
    BY <2>1, <2>2 DEF Hold, StoreCall, Call, QInv, QTypeOK, svars
  <2>4. ItemHoldsMessage'
    BY <2>1, <2>2 DEF Hold, StoreCall, Call, Fresh, QInv, QTypeOK, svars
  <2>5. QED
    BY <2>2, <2>3, <2>4
<1>9. CASE Relay(r)
  <2>1. QInv' /\ SInv'
    BY <1>9, QStutterInv, SendCallInv DEF Relay
  <2>2. QED
    BY <1>9, <2>1 DEF Relay, SendCall, SInv, STypeOK, qvars
<1>10. CASE DryRun(r) \/ Held(r) \/ Relayed(r) \/ RelayFailed(r)
  BY <1>10, QStutterInv, SStutterInv
  DEF DryRun, Held, Relayed, RelayFailed, Dispose, qvars, svars
<1>11. CASE DeliverRaises(r)
  BY <1>11, QStutterInv, SStutterInv DEF DeliverRaises, qvars, svars
<1>12. CASE Record(r) \/ RecordFails(r)
  BY <1>12, QStutterInv, SStutterInv DEF Record, RecordFails, qvars, svars
<1>13. CASE Reply(r)
  BY <1>13, QStutterInv, SStutterInv DEF Reply, qvars, svars
<1>14. QED
  BY <1>1, <1>2, <1>3, <1>4, <1>5, <1>6, <1>7, <1>8, <1>9, <1>10, <1>11, <1>12, <1>13
  DEF RequestStep

LEMMA PostInv ==
  ASSUME GInv, NEW r \in Requests, NEW m \in Msgs, Post(r, m)
  PROVE  GInv'
  BY GatewayAssumption, QStutterInv, SStutterInv
  DEF GInv, GTypeOK, Actions, Outcomes, Processing, Underway, Interrupted, AdminUnderway,
      Undelivered, CallsInOrder, ItemHoldsMessage, KeyHeld, OneProcessing, Logged, Move,
      Post, qvars, svars, SInv, STypeOK

LEMMA AdminCallsInv ==
  ASSUME GInv, NEW a \in Admins, NEW i \in Items, NEW kind \in {"release", "reject", "bulk"},
         AdminCalls(a, i, kind)
  PROVE  GInv'
<1>1. QInv' /\ SInv'
  <2>1. PICK s \in Resolutions : ResolveCall(a, i, s)
    BY DEF AdminCalls, Resolutions
  <2>2. QED
    BY <2>1, ResolveCallInv, SStutterInv, GatewayAssumption DEF AdminCalls, GInv
<1>2. QED
  BY <1>1, GatewayAssumption
  DEF GInv, GTypeOK, Actions, Outcomes, Processing, Underway, Interrupted, AdminUnderway,
      Undelivered, CallsInOrder, ItemHoldsMessage, KeyHeld, OneProcessing, Logged,
      AdminCalls, AdminMove, ResolveCall, Call, svars, QInv, QTypeOK

LEMMA AdminStepInv ==
  ASSUME GInv, NEW a \in Admins, AdminStep(a)
  PROVE  GInv'
<1> USE GatewayAssumption
    DEF GInv, GTypeOK, Actions, Outcomes, Processing, Underway, Interrupted, AdminUnderway,
        Undelivered, CallsInOrder, ItemHoldsMessage, KeyHeld, OneProcessing, Logged, AdminMove
<1>1. CASE AdminResolved(a)
  BY <1>1, QStutterInv, SStutterInv DEF AdminResolved, qvars, svars
<1>2. CASE AdminRelays(a)
  <2>1. QInv' /\ SInv'
    BY <1>2, QStutterInv, SendCallInv DEF AdminRelays
  <2>2. QED
    BY <1>2, <2>1
    DEF AdminRelays, SendCall, SInv, STypeOK, qvars, QInv, CallHasItem
<1>3. CASE AdminReturns(a)
  BY <1>3, QStutterInv, SStutterInv DEF AdminReturns, qvars, svars
<1>4. CASE AdminFails(a)
  BY <1>4, QStutterInv, SStutterInv DEF AdminFails, qvars, svars
<1>5. QED
  BY <1>1, <1>2, <1>3, <1>4 DEF AdminStep

(* What a step of the store does, as far as the gateway can tell.          *)
LEMMA StoreStepFrame ==
  ASSUME QInv, NEW t \in Tasks, StoreStep(t)
  PROVE  /\ op[t].pc # "idle" /\ op[t].item \in Items
         /\ \E x \in Writing \cup Returned :
              /\ op' = [op EXCEPT ![t].pc = x]
              /\ x = "ok" => meta'[op[t].item] # "absent"
         /\ \A i \in Items : meta[i] # "absent" => meta'[i] # "absent"
         /\ \A i \in Items \ {op[t].item} : meta'[i] = meta[i]
<1> USE DEF QInv, QTypeOK, CallHasItem, Statuses, Resolutions, Writing, Waiting, Returned, Goto
<1>1. CASE StoreLocked(t)
  BY <1>1 DEF StoreLocked
<1>2. CASE EmlWritten(t)
  BY <1>2 DEF EmlWritten
<1>3. CASE MetaOpened(t)
  BY <1>3 DEF MetaOpened
<1>4. CASE ResolveUnknown(t) \/ ResolveUnreadable(t)
  BY <1>4 DEF ResolveUnknown, ResolveUnreadable
<1>5. CASE ResolveKnown(t)
  BY <1>5 DEF ResolveKnown
<1>6. CASE MetaWritten(t)
  BY <1>6 DEF MetaWritten
<1>7. CASE WriteFails(t)
  BY <1>7 DEF WriteFails
<1>8. QED
  BY <1>1, <1>2, <1>3, <1>4, <1>5, <1>6, <1>7 DEF StoreStep

(* What a step of the relay does, as far as the gateway can tell.          *)
LEMMA SendStepFrame ==
  ASSUME SInv, NEW t \in Senders, SendStep(t)
  PROVE  /\ send[t] \in {"attempt", "backoff"}
         /\ \E x \in {"attempt", "backoff"} \cup SendReturned :
              send' = [send EXCEPT ![t] = x]
         /\ copies'[t] >= copies[t]
         /\ \A u \in Senders \ {t} : copies'[u] = copies[u]
<1> USE DEF SInv, STypeOK, SendReturned
<1>1. CASE Accepted(t)
  BY <1>1 DEF Accepted
<1>2. CASE Rejected(t) \/ Raises(t)
  BY <1>2 DEF Rejected, Raises
<1>3. CASE BackoffEnds(t)
  BY <1>3 DEF BackoffEnds
<1>4. CASE \E taken \in {0, 1} : Breaks(t, taken)
  <2>1. PICK taken \in {0, 1} : Breaks(t, taken)
    BY <1>4
  <2>2. copies'[t] = copies[t] + taken /\ copies[t] \in Nat /\ taken \in Nat
    BY <2>1, RelayAssumption DEF Breaks
  <2>3. copies'[t] >= copies[t] /\ \A u \in Senders \ {t} : copies'[u] = copies[u]
    BY <2>1, <2>2 DEF Breaks
  <2>4. send[t] \in {"attempt", "backoff"}
        /\ \E x \in {"attempt", "backoff"} \cup SendReturned : send' = [send EXCEPT ![t] = x]
    BY <2>1 DEF Breaks
  <2>5. QED
    BY <2>3, <2>4
<1>5. QED
  BY <1>1, <1>2, <1>3, <1>4 DEF SendStep

LEMMA TaskStepInv ==
  ASSUME GInv, NEW t \in Tasks, TaskStep(t)
  PROVE  GInv'
<1> USE GatewayAssumption
    DEF GInv, GTypeOK, Processing, CallsInOrder, ItemHoldsMessage, KeyHeld, OneProcessing,
        Logged, gvars
<1>1. CASE StoreStep(t) /\ UNCHANGED <<svars, gvars>>
  <2>1. QInv' /\ SInv'
    BY <1>1, StoreStepInv, SStutterInv
  <2>2. PICK x \in Writing \cup Returned :
          /\ op' = [op EXCEPT ![t].pc = x]
          /\ x = "ok" => meta'[op[t].item] # "absent"
    BY <1>1, StoreStepFrame
  <2>3. \A u \in Tasks : /\ op'[u].item = op[u].item
                         /\ op'[u].pc = "idle" <=> op[u].pc = "idle"
                         /\ u # t => op'[u] = op[u]
    <3>1. op[t].pc # "idle" /\ x # "idle"
      BY <1>1, <2>2, StoreStepFrame DEF Writing, Returned
    <3>2. QED
      BY <2>2, <3>1 DEF QInv, QTypeOK
  <2>4. ItemHoldsMessage'
    <3>1. \A i \in Items : meta'[i] # "absent" => holds[i] \in Msgs
      BY <1>1, StoreStepFrame
    <3>2. \A u \in Tasks : op'[u].pc = "ok" => meta'[op'[u].item] # "absent"
      BY <1>1, <2>2, <2>3, StoreStepFrame DEF QInv, QTypeOK, CallHasItem
    <3>3. QED
      BY <1>1, <2>3, <3>1, <3>2
  <2>5. CallsInOrder'
    BY <1>1, <2>3 DEF svars
  <2>6. QED
    BY <1>1, <2>1, <2>4, <2>5 DEF svars
<1>2. CASE SendStep(t) /\ UNCHANGED <<qvars, gvars>>
  <2>1. QInv' /\ SInv'
    BY <1>2, QStutterInv, SendStepInv
  <2>2. CallsInOrder' /\ Logged'
    BY <1>2, SendStepFrame DEF SInv, STypeOK, qvars, Undelivered, AdminUnderway
  <2>3. QED
    BY <1>2, <2>1, <2>2 DEF qvars
<1>3. QED
  BY <1>1, <1>2 DEF TaskStep

LEMMA CrashInv ==
  ASSUME GInv, Crash
  PROVE  GInv'
<1>1. QInv' /\ SInv'
  BY ProcessDiesInv, SendersDieInv DEF GInv, Crash
<1>2. QED
  BY <1>1, GatewayAssumption
  DEF GInv, GTypeOK, Actions, Outcomes, Processing, Underway, Interrupted, AdminUnderway,
      Undelivered, CallsInOrder, ItemHoldsMessage, KeyHeld, OneProcessing, Logged, Crash,
      ProcessDies, SendersDie, Idle, SInv, STypeOK

LEMMA KeyExpiresInv ==
  ASSUME GInv, NEW m \in Msgs, KeyExpires(m)
  PROVE  GInv'
  BY GatewayAssumption, QStutterInv, SStutterInv
  DEF GInv, GTypeOK, Processing, Underway, CallsInOrder, ItemHoldsMessage, KeyHeld,
      OneProcessing, Logged, KeyExpires, qvars, svars

LEMMA GStutterInv ==
  ASSUME GInv, UNCHANGED vars
  PROVE  GInv'
  BY QStutterInv, SStutterInv
  DEF GInv, GTypeOK, CallsInOrder, ItemHoldsMessage, KeyHeld, OneProcessing, Logged,
      vars, gvars, qvars, svars

(* The inductive invariant of the gateway holds in every reachable state.  *)
THEOREM GInvariance == Spec => []GInv
<1>1. GInv /\ [Next]_vars => GInv'
  <2> SUFFICES ASSUME GInv, [Next]_vars PROVE GInv'
    OBVIOUS
  <2>1. CASE \E r \in Requests, m \in Msgs : Post(r, m)
    BY <2>1, PostInv
  <2>2. CASE \E r \in Requests : RequestStep(r)
    BY <2>2, RequestStepInv
  <2>3. CASE \E a \in Admins, i \in Items, kind \in {"release", "reject", "bulk"} :
               AdminCalls(a, i, kind)
    BY <2>3, AdminCallsInv
  <2>4. CASE \E a \in Admins : AdminStep(a)
    BY <2>4, AdminStepInv
  <2>5. CASE \E t \in Tasks : TaskStep(t)
    BY <2>5, TaskStepInv
  <2>6. CASE Crash
    BY <2>6, CrashInv
  <2>7. CASE \E m \in Msgs : KeyExpires(m)
    BY <2>7, KeyExpiresInv
  <2>8. CASE UNCHANGED vars
    BY <2>8, GStutterInv
  <2>9. QED
    BY <2>1, <2>2, <2>3, <2>4, <2>5, <2>6, <2>7, <2>8 DEF Next
<1>2. QED
  BY GInitInv, <1>1, PTL DEF Spec

(* Every reachable state of the gateway, its store and its relay is well   *)
(* typed; in particular no call of the relay makes more than MaxAttempts   *)
(* attempts or hands over more copies than that.                           *)
THEOREM TypeCorrect == Spec => []TypeOK
  BY GInvariance, PTL DEF GInv, TypeOK, QInv, SInv

(* The same bytes are never processed by two requests at once, in memory   *)
(* or in Redis, with keys that expire and a process that crashes.          *)
THEOREM OneProcessingHolds == Spec => []OneProcessing
  BY GInvariance, PTL DEF GInv

(* Nothing is held or relayed whose bytes are not in the raw mail log.     *)
THEOREM RawCopyFirstHolds == Spec => []RawCopyFirst
<1>1. GInv => RawCopyFirst
  BY GatewayAssumption DEF GInv, Logged, RawCopyFirst, SInv, STypeOK, AttemptsBoundCopies
<1>2. QED
  BY <1>1, GInvariance, PTL

-----------------------------------------------------------------------------
(* What no step of the gateway does: it takes back no record, forgets no   *)
(* held message, undoes no delivery.                                       *)
Settled == {"disposed", "replying", "answered"}

Lasting ==
  /\ audit \subseteq audit'
  /\ \A r \in Requests :
       /\ pc[r] # "unused" => msg'[r] = msg[r]
       /\ pc[r] \in Processing \cup Interrupted =>
            pc'[r] \in Processing \cup Interrupted \/ r \in audit'
       /\ pc[r] \notin Undelivered /\ send[r] = "none" => send'[r] = "none"
       /\ pc[r] \in Settled => out'[r] = out[r]
       /\ pc[r] \notin Undelivered => pc'[r] \notin Undelivered /\ act'[r] = act[r]
  /\ \A t \in Tasks :
       /\ copies'[t] >= copies[t]
       /\ send[t] \in SendReturned => send'[t] = send[t]
  /\ \A i \in Items : meta[i] # "absent" => meta'[i] # "absent" /\ holds'[i] = holds[i]

LEMMA RequestLasting ==
  ASSUME GInv, NEW r \in Requests, RequestStep(r)
  PROVE  Lasting
<1> USE GatewayAssumption
    DEF GInv, GTypeOK, Processing, Underway, Interrupted, Undelivered, Settled, Lasting, Move,
        SInv, STypeOK, qvars, svars
<1>1. CASE Refuse(r) \/ SkipBounce(r) \/ SkipDuplicate(r)
  BY <1>1 DEF Refuse, SkipBounce, SkipDuplicate, Skip
<1>2. CASE Claim(r) \/ StoreUnavailable(r) \/ LogRaw(r) \/ Abort(r) \/ Judge(r)
  BY <1>2 DEF Claim, StoreUnavailable, LogRaw, Abort, Judge
<1>3. CASE \E i \in Items : Hold(r, i)
  BY <1>3 DEF Hold, StoreCall, Fresh, Call
<1>4. CASE Relay(r)
  BY <1>4 DEF Relay, SendCall, SendReturned
<1>5. CASE DryRun(r) \/ Held(r) \/ Relayed(r) \/ RelayFailed(r) \/ DeliverRaises(r)
  BY <1>5 DEF DryRun, Held, Relayed, RelayFailed, Dispose, DeliverRaises
<1>6. CASE Record(r) \/ RecordFails(r) \/ Reply(r)
  BY <1>6 DEF Record, RecordFails, Reply
<1>7. QED
  BY <1>1, <1>2, <1>3, <1>4, <1>5, <1>6 DEF RequestStep

LEMMA AdminLasting ==
  ASSUME GInv, NEW a \in Admins,
         \/ \E i \in Items, kind \in {"release", "reject", "bulk"} : AdminCalls(a, i, kind)
         \/ AdminStep(a)
  PROVE  Lasting
  BY GatewayAssumption
  DEF GInv, GTypeOK, Processing, Undelivered, Lasting, SInv, STypeOK, SendReturned, qvars, svars,
      AdminCalls, AdminStep, AdminResolved, AdminRelays, AdminReturns, AdminFails, AdminMove,
      ResolveCall, Call, SendCall

LEMMA TaskLasting ==
  ASSUME GInv, NEW t \in Tasks, TaskStep(t)
  PROVE  Lasting
<1> USE GatewayAssumption DEF GInv, Lasting, Processing, Undelivered, gvars, svars, qvars
<1>1. CASE StoreStep(t) /\ UNCHANGED <<svars, gvars>>
  BY <1>1, StoreStepFrame DEF SInv, STypeOK
<1>2. CASE SendStep(t) /\ UNCHANGED <<qvars, gvars>>
  BY <1>2, SendStepFrame DEF SInv, STypeOK, SendReturned
<1>3. QED
  BY <1>1, <1>2 DEF TaskStep

LEMMA StepLasting ==
  ASSUME GInv, [Next]_vars
  PROVE  Lasting
<1>1. CASE \E r \in Requests, m \in Msgs : Post(r, m)
  BY <1>1, GatewayAssumption
  DEF Post, Move, GInv, GTypeOK, Processing, Undelivered, Interrupted, Settled, Lasting, SInv,
      STypeOK, qvars, svars
<1>2. CASE Crash
  BY <1>2, GatewayAssumption
  DEF Crash, ProcessDies, SendersDie, GInv, GTypeOK, Processing, Undelivered, Underway, Interrupted,
      Lasting, SInv, STypeOK, SendReturned
<1>3. CASE \/ \E m \in Msgs : KeyExpires(m)
           \/ UNCHANGED vars
  BY <1>3, GatewayAssumption
  DEF KeyExpires, GInv, Lasting, SInv, STypeOK, vars, gvars, qvars, svars
<1>4. QED
  BY <1>1, <1>2, <1>3, RequestLasting, AdminLasting, TaskLasting DEF Next

(* Only a request itself, or a crash, moves a request.                     *)
LEMMA OwnMove ==
  ASSUME GInv, [Next]_vars, NEW r \in Requests, pc'[r] # pc[r]
  PROVE  (\E m \in Msgs : Post(r, m)) \/ RequestStep(r) \/ Crash
<1> USE DEF GInv, GTypeOK
<1>1. ASSUME NEW q \in Requests, q # r, NEW m \in Msgs
      PROVE  ~Post(q, m)
  BY <1>1 DEF Post, Move
<1>2. ASSUME NEW q \in Requests, q # r
      PROVE  ~RequestStep(q)
  BY <1>2
  DEF RequestStep, Refuse, SkipBounce, SkipDuplicate, Skip, Claim, StoreUnavailable, LogRaw,
      Abort, Judge, Hold, Relay, DryRun, Held, Relayed, RelayFailed, Dispose,
      DeliverRaises, Record, RecordFails, Reply, Move
<1>3. ASSUME NEW a \in Admins
      PROVE  /\ ~AdminStep(a)
             /\ \A i \in Items, kind \in {"release", "reject", "bulk"} : ~AdminCalls(a, i, kind)
  BY DEF AdminStep, AdminCalls, AdminResolved, AdminRelays, AdminReturns, AdminFails
<1>4. ASSUME NEW t \in Tasks
      PROVE  ~TaskStep(t)
  BY DEF TaskStep, gvars
<1>5. ~UNCHANGED vars /\ \A m \in Msgs : ~KeyExpires(m)
  BY DEF KeyExpires, vars, gvars
<1>6. QED
  BY <1>1, <1>2, <1>3, <1>4, <1>5 DEF Next

(* A message is accounted for by an audit record, by a request that        *)
(* processes it, or by a request that was interrupted.                     *)
Accounted(m) ==
  \E r \in Requests :
    msg[r] = m /\ (r \in audit \/ pc[r] \in Processing \cup Interrupted)

AccountInv ==
  /\ \A m \in (keys \cup acked) \ Bounces : Accounted(m)
  /\ \A r \in Requests : pc[r] = "replying" /\ msg[r] \notin Bounces => Accounted(msg[r])

LEMMA AccountedLasts ==
  ASSUME GInv, GInv', [Next]_vars, NEW m \in Msgs, Accounted(m)
  PROVE  Accounted(m)'
<1>1. PICK r \in Requests : msg[r] = m /\ (r \in audit \/ pc[r] \in Processing \cup Interrupted)
  BY DEF Accounted
<1>2. Lasting
  BY StepLasting
<1>3. pc[r] # "unused"
  BY <1>1 DEF GInv, CallsInOrder, Undelivered, Processing, Interrupted
<1>4. QED
  BY <1>1, <1>2, <1>3 DEF Lasting, Accounted

LEMMA AccountStep ==
  ASSUME GInv, GInv', AccountInv, [Next]_vars
  PROVE  AccountInv'
<1>1. ASSUME NEW m \in Msgs, Accounted(m) PROVE Accounted(m)'
  BY <1>1, AccountedLasts
<1>2. ASSUME NEW m \in keys' \ Bounces, m \notin keys
      PROVE  Accounted(m)'
  <2>1. PICK r \in Requests : Claim(r) \/ StoreUnavailable(r)
    BY <1>2
    DEF Next, vars, gvars, Post, RequestStep, Refuse, SkipBounce, SkipDuplicate, Skip, LogRaw,
        Abort, Judge, Hold, Relay, DryRun, Held, Relayed, RelayFailed, Dispose,
        DeliverRaises, Record, RecordFails, Reply, AdminCalls, AdminStep, AdminResolved,
        AdminRelays, AdminReturns, AdminFails, TaskStep, Crash, KeyExpires
  <2>2. QED
    BY <1>2, <2>1
    DEF GInv, GTypeOK, Claim, StoreUnavailable, Move, Accounted, Processing, Interrupted
<1>3. ASSUME NEW r \in Requests, pc'[r] = "replying", pc[r] # "replying",
             msg'[r] \notin Bounces
      PROVE  Accounted(msg[r])'
  <2>1. SkipDuplicate(r) \/ Record(r)
    BY <1>3, OwnMove
    DEF GInv, GTypeOK, Post, Crash, Move, RequestStep, Refuse, SkipBounce, Skip, Claim,
        StoreUnavailable, LogRaw, Abort, Judge, Hold, Relay, DryRun, Held, Relayed,
        RelayFailed, Dispose, DeliverRaises, RecordFails, Reply
  <2>2. CASE SkipDuplicate(r)
    BY <1>1, <2>2 DEF SkipDuplicate, Skip, AccountInv, GInv, GTypeOK
  <2>3. CASE Record(r)
    BY <2>3 DEF Record, Accounted
  <2>4. QED
    BY <2>1, <2>2, <2>3
<1>4. ASSUME NEW m \in acked' \ Bounces, m \notin acked
      PROVE  Accounted(m)'
  <2>1. PICK r \in Requests : Reply(r)
    BY <1>4
    DEF Next, vars, gvars, Post, RequestStep, Refuse, SkipBounce, SkipDuplicate, Skip, Claim,
        StoreUnavailable, LogRaw, Abort, Judge, Hold, Relay, DryRun, Held, Relayed,
        RelayFailed, Dispose, DeliverRaises, Record, RecordFails, AdminCalls, AdminStep,
        AdminResolved, AdminRelays, AdminReturns, AdminFails, TaskStep, Crash, KeyExpires
  <2>2. m = msg[r] /\ pc[r] = "replying"
    BY <1>4, <2>1 DEF Reply, Move
  <2>3. QED
    BY <1>1, <1>4, <2>2 DEF AccountInv, GInv, GTypeOK
<1>5. Lasting
  BY StepLasting
<1>6. \A m \in (keys' \cup acked') \ Bounces : Accounted(m)'
  BY <1>1, <1>2, <1>4 DEF AccountInv, GInv, GTypeOK
<1>7. ASSUME NEW r \in Requests, pc'[r] = "replying", msg'[r] \notin Bounces
      PROVE  Accounted(msg[r])'
  <2>1. CASE pc[r] = "replying"
    <3>1. msg'[r] = msg[r] /\ msg[r] \in Msgs
      BY <1>5, <2>1 DEF Lasting, GInv, CallsInOrder
    <3>2. QED
      BY <1>1, <1>7, <2>1, <3>1 DEF AccountInv
  <2>2. QED
    BY <1>3, <1>7, <2>1
<1>8. QED
  BY <1>6, <1>7 DEF AccountInv

(* The provider gets its 200 only for a message that some request is       *)
(* processing, has recorded, or was interrupted on.                        *)
THEOREM AcknowledgedIsAccountedForHolds == Spec => []AcknowledgedIsAccountedFor
<1>1. Init => AccountInv
  BY DEF Init, AccountInv
<1>2. GInv /\ GInv' /\ AccountInv /\ [Next]_vars => AccountInv'
  BY AccountStep
<1>3. AccountInv => AcknowledgedIsAccountedFor
  BY DEF AccountInv, Accounted, AcknowledgedIsAccountedFor
<1>4. QED
  BY <1>1, <1>2, <1>3, GInvariance, PTL DEF Spec

-----------------------------------------------------------------------------
(* The message is in the quarantine directory under some id.               *)
Kept(m) == \E i \in Items : holds[i] = m /\ meta[i] # "absent"

(* The outcome a request reports is what happened.                         *)
True(r) ==
  /\ out[r] = "relayed" => (RelayOn => copies[r] > 0)
  /\ out[r] = "relay_failed" => send[r] = "failed"
  /\ out[r] = "quarantined" => send[r] = "none" /\ Kept(msg[r])

TruthInv ==
  \A r \in Requests :
    /\ pc[r] \in Settled => True(r)
    /\ /\ pc[r] \in {"replying", "answered"}
       /\ out[r] \in {"relayed", "relay_failed", "quarantined"}
       => r \in audit

LEMMA TruthStep ==
  ASSUME GInv, GInv', TruthInv, [Next]_vars
  PROVE  TruthInv'
<1> SUFFICES ASSUME NEW r \in Requests
             PROVE  /\ pc'[r] \in Settled => True(r)'
                    /\ /\ pc'[r] \in {"replying", "answered"}
                       /\ out'[r] \in {"relayed", "relay_failed", "quarantined"}
                       => r \in audit'
  BY DEF TruthInv, Settled
<1> USE GatewayAssumption DEF Settled
<1>1. Lasting
  BY StepLasting
<1>2. CASE pc[r] \in Settled
  <2>1. out'[r] = out[r] /\ msg'[r] = msg[r] /\ True(r)
    BY <1>1, <1>2 DEF Lasting, TruthInv
  <2>2. send[r] \in {"none", "failed"} => send'[r] = send[r]
    BY <1>1, <1>2 DEF Lasting, SendReturned, Undelivered
  <2>3. copies[r] > 0 => copies'[r] > 0
    BY <1>1 DEF Lasting, GInv, SInv, STypeOK
  <2>4. Kept(msg[r]) => Kept(msg[r])'
    BY <1>1, <2>1 DEF Lasting, Kept
  <2>5. True(r)'
    BY <2>1, <2>2, <2>3, <2>4 DEF True
  <2>6. ASSUME pc'[r] \in {"replying", "answered"},
               out'[r] \in {"relayed", "relay_failed", "quarantined"}
        PROVE  r \in audit'
    <3>1. CASE pc[r] = "disposed"
      <4>1. Record(r)
        BY <2>6, <3>1, OwnMove
        DEF GInv, GTypeOK, Post, Crash, Underway, Processing, Move, RequestStep, Refuse,
            SkipBounce, SkipDuplicate, Skip, Claim, StoreUnavailable, LogRaw, Abort, Judge,
            Hold, Relay, DryRun, Held, Relayed, RelayFailed, Dispose, DeliverRaises, RecordFails,
            Reply
      <4>2. QED
        BY <4>1 DEF Record
    <3>2. CASE pc[r] \in {"replying", "answered"}
      BY <1>1, <2>1, <2>6, <3>2 DEF TruthInv, Lasting
    <3>3. QED
      BY <1>2, <3>1, <3>2
  <2>7. QED
    BY <2>5, <2>6
<1>3. CASE pc[r] \notin Settled /\ pc'[r] \in Settled
  <2>1. \/ SkipBounce(r) \/ SkipDuplicate(r)
        \/ DryRun(r) \/ Held(r) \/ Relayed(r) \/ RelayFailed(r)
    BY <1>3, OwnMove
    DEF GInv, GTypeOK, Post, Crash, Underway, Processing, Move, RequestStep, Refuse, Claim,
        StoreUnavailable, LogRaw, Abort, Judge, Hold, Relay, DeliverRaises, Record,
        RecordFails, Reply
  <2>2. CASE SkipBounce(r) \/ SkipDuplicate(r)
    BY <2>2 DEF SkipBounce, SkipDuplicate, Skip, Move, True, GInv, GTypeOK
  <2>3. CASE DryRun(r) \/ RelayFailed(r)
    BY <2>3 DEF DryRun, RelayFailed, Dispose, True, GInv, GTypeOK, svars
  <2>4. CASE Relayed(r)
    BY <2>4 DEF Relayed, Dispose, True, GInv, GTypeOK, svars, SInv, AttemptsBoundCopies
  <2>5. CASE Held(r)
    <3>1. op[r].item \in Items /\ holds[op[r].item] = msg[r] /\ meta[op[r].item] # "absent"
      BY <2>5 DEF Held, GInv, ItemHoldsMessage, QInv, CallHasItem
    <3>2. send[r] = "none"
      BY <2>5 DEF Held, GInv, CallsInOrder
    <3>3. Kept(msg[r])'
      BY <2>5, <3>1 DEF Held, Dispose, Kept, qvars
    <3>4. QED
      BY <2>5, <3>2, <3>3 DEF Held, Dispose, True, GInv, GTypeOK, svars
  <2>6. QED
    BY <2>1, <2>2, <2>3, <2>4, <2>5
<1>4. QED
  BY <1>2, <1>3

(* The outcome that a 200 reports has happened and is in the audit log.    *)
THEOREM AnswersAreTrue == Spec => []AnswerTellsTheTruth
<1>1. Init => TruthInv
  BY DEF Init, TruthInv, Settled
<1>2. GInv /\ GInv' /\ TruthInv /\ [Next]_vars => TruthInv'
  BY TruthStep
<1>3. GInv /\ TruthInv => AnswerTellsTheTruth
  <2> SUFFICES ASSUME GInv, TruthInv, NEW r \in Requests, pc[r] = "answered"
               PROVE  /\ out[r] \in {"relayed", "relay_failed", "quarantined"} => r \in audit
                      /\ out[r] = "relayed" => (RelayOn => copies[r] > 0)
                      /\ out[r] = "relay_failed" => send[r] = "failed"
                      /\ out[r] = "quarantined" =>
                           /\ copies[r] = 0
                           /\ \E i \in Items :
                                holds[i] = msg[r] /\ meta[i] # "absent" /\ eml[i] = "whole"
    BY DEF AnswerTellsTheTruth
  <2>1. True(r) /\ (out[r] \in {"relayed", "relay_failed", "quarantined"} => r \in audit)
    BY DEF TruthInv, Settled
  <2>2. send[r] = "none" => copies[r] = 0
    BY GatewayAssumption DEF GInv, SInv, AttemptsBoundCopies
  <2>3. \A i \in Items : meta[i] # "absent" => eml[i] = "whole"
    BY DEF GInv, QInv, RecordHasContent
  <2>4. QED
    BY <2>1, <2>2, <2>3 DEF True, Kept
<1>4. QED
  BY <1>1, <1>2, <1>3, GInvariance, PTL DEF Spec

(* Without a relay host no task ever hands a copy to a destination.        *)
THEOREM DryRunSendsNothingHolds == Spec => []DryRunSendsNothing
<1> DEFINE Silent == ~RelayOn => \A t \in Tasks : send[t] = "none"
<1>1. Init => Silent
  BY GatewayAssumption DEF Init, SInit
<1>2. ASSUME GInv, Silent, [Next]_vars, ~RelayOn
      PROVE  \A t \in Tasks : send'[t] = "none"
  <2>1. CASE \E t \in Tasks : TaskStep(t)
    BY <1>2, <2>1, GatewayAssumption, SendStepFrame DEF TaskStep, GInv, svars
  <2>2. CASE Crash
    BY <1>2, <2>2, GatewayAssumption DEF Crash, SendersDie
  <2>3. QED
    BY <1>2, <2>1, <2>2
    DEF Next, vars, svars, Post, RequestStep, Refuse, SkipBounce, SkipDuplicate, Skip, Claim,
        StoreUnavailable, LogRaw, Abort, Judge, Hold, Relay, DryRun, Held, Relayed,
        RelayFailed, Dispose, DeliverRaises, Record, RecordFails, Reply, AdminCalls, AdminStep,
        AdminResolved, AdminRelays, AdminReturns, AdminFails, KeyExpires
<1>3. GInv /\ Silent => DryRunSendsNothing
  BY GatewayAssumption DEF GInv, SInv, AttemptsBoundCopies, DryRunSendsNothing
<1>4. GInv /\ Silent /\ [Next]_vars => Silent'
  BY <1>2
<1>5. QED
  BY <1>1, <1>3, <1>4, GInvariance, PTL DEF Spec

-----------------------------------------------------------------------------
(* The quarantine directory, used by the gateway's tasks.                  *)

LEMMA StepRefines ==
  ASSUME GInv, [Next]_vars
  PROVE  [C!CNext]_ItemCustody
<1> USE GatewayAssumption DEF GInv
<1>1. ASSUME UNCHANGED qvars PROVE [C!CNext]_ItemCustody
  <2>1. \A j \in Items : CustodyOf(j)' = CustodyOf(j)
    BY <1>1 DEF qvars, CustodyOf, InHand
  <2>2. QED
    BY <2>1, SameCustody
<1>2. CASE \E r \in Requests : RequestStep(r)
  <2>1. PICK r \in Requests : RequestStep(r)
    BY <1>2
  <2>2. CASE \E i \in Items : Hold(r, i)
    BY <2>2, CallRefines DEF Hold
  <2>3. CASE ~\E i \in Items : Hold(r, i)
    <3>1. UNCHANGED qvars
      BY <2>1, <2>3
      DEF RequestStep, Refuse, SkipBounce, SkipDuplicate, Skip, Claim, StoreUnavailable, LogRaw,
          Abort, Judge, Relay, DryRun, Held, Relayed, RelayFailed, Dispose, DeliverRaises,
          Record, RecordFails, Reply
    <3>2. QED
      BY <1>1, <3>1
  <2>4. QED
    BY <2>2, <2>3
<1>3. CASE \E a \in Admins, i \in Items, kind \in {"release", "reject", "bulk"} :
             AdminCalls(a, i, kind)
  <2>1. PICK a \in Admins, i \in Items, s \in Resolutions : ResolveCall(a, i, s)
    BY <1>3 DEF AdminCalls, Resolutions
  <2>2. QED
    BY <2>1, CallRefines
<1>4. CASE \E t \in Tasks : TaskStep(t)
  BY <1>1, <1>4, StoreStepRefines DEF TaskStep
<1>5. CASE Crash
  BY <1>5, ProcessDiesRefines DEF Crash
<1>6. CASE \/ \E r \in Requests, m \in Msgs : Post(r, m)
           \/ \E a \in Admins : AdminStep(a)
           \/ \E m \in Msgs : KeyExpires(m)
           \/ UNCHANGED vars
  BY <1>1, <1>6
  DEF Post, AdminStep, AdminResolved, AdminRelays, AdminReturns, AdminFails, KeyExpires, vars
<1>7. QED
  BY <1>2, <1>3, <1>4, <1>5, <1>6 DEF Next

(* However requests and administrators use it, the quarantine directory    *)
(* implements the abstract custody of an item.                             *)
THEOREM GatewayKeepsCustody == Spec => ImplementsCustody
<1>1. Init => C!CInit
  BY DEF Init, QInit, C!CInit, ItemCustody, CustodyOf, InHand
<1>2. QED
  BY <1>1, StepRefines, GInvariance, PTL DEF Spec, C!CSpec, ImplementsCustody

(* An administrator has decided about the item, or it is damaged: for good.*)
Decided(i) == CustodyOf(i) \in Resolutions \cup {"lost"}

LEMMA DecidedLasts ==
  ASSUME GInv, [Next]_vars, NEW i \in Items, Decided(i)
  PROVE  Decided(i)'
<1>1. [C!CNext]_ItemCustody
  BY StepRefines
<1>2. ItemCustody[i] = CustodyOf(i) /\ ItemCustody'[i] = CustodyOf(i)'
  BY DEF ItemCustody
<1>3. ItemCustody[i] \in Resolutions \cup {"lost"} => ItemCustody'[i] \in Resolutions \cup {"lost"}
  BY <1>1 DEF C!CNext, C!Take, C!Decide, C!Lose, C!Decided, Resolutions, ItemCustody
<1>4. QED
  BY <1>2, <1>3 DEF Decided

(* What an administrator's call has done when it relays.                   *)
AdminInv ==
  \A a \in Admins :
    /\ op[a].pc \in {"idle", "resolve", "rewrite"} \cup Returned
    /\ adm[a] \in {"released", "relaying"} => op[a].pc = "ok"
    /\ op[a].pc = "ok" => \E i \in Items : i = op[a].item /\ Decided(i)
    /\ send[a] # "none" => \E i \in Items : holds[i] = msg[a] /\ msg[a] \in Msgs /\ Decided(i)

LEMMA DecidedItemKnown ==
  ASSUME GInv, NEW i \in Items, Decided(i)
  PROVE  meta[i] # "absent"
  BY DEF Decided, CustodyOf, Resolutions

(* A step of the store on behalf of an administrator ends in a decision.   *)
LEMMA ResolveStep ==
  ASSUME GInv, NEW a \in Tasks, StoreStep(a), op[a].pc \in {"idle", "resolve", "rewrite"} \cup Returned
  PROVE  /\ op'[a].pc \in {"rewrite"} \cup Returned
         /\ op'[a].pc = "ok" => \E i \in Items : i = op'[a].item /\ Decided(i)'
<1> USE QuarantineAssumption
    DEF GInv, QInv, QTypeOK, Statuses, Resolutions, Waiting, Writing, Returned, Goto,
        LockDiscipline, CallHasItem, FilesMatchCalls, StatusMatchesCall, Minting
<1>1. CASE ResolveUnknown(a) \/ ResolveUnreadable(a) \/ ResolveKnown(a) \/ WriteFails(a)
  BY <1>1 DEF ResolveUnknown, ResolveUnreadable, ResolveKnown, WriteFails
<1>2. CASE MetaWritten(a)
  <2>1. PICK i \in Items : i = op[a].item
    BY <1>2 DEF MetaWritten
  <2>2. meta'[i] = op[a].status /\ op[a].status \in Resolutions
    BY <1>2, <2>1 DEF MetaWritten
  <2>3. CustodyOf(i)' = op[a].status
    BY <2>2 DEF CustodyOf
  <2>4. Decided(i)'
    BY <2>2, <2>3 DEF Decided
  <2>5. op'[a].pc = "ok" /\ op'[a].item = i
    BY <1>2, <2>1 DEF MetaWritten
  <2>6. QED
    BY <2>4, <2>5
<1>3. QED
  BY <1>1, <1>2 DEF StoreStep, StoreLocked, EmlWritten, MetaOpened

LEMMA AdminInvStep ==
  ASSUME GInv, GInv', AdminInv, [Next]_vars
  PROVE  AdminInv'
<1> SUFFICES ASSUME NEW a \in Admins
             PROVE  /\ op'[a].pc \in {"idle", "resolve", "rewrite"} \cup Returned
                    /\ adm'[a] \in {"released", "relaying"} => op'[a].pc = "ok"
                    /\ op'[a].pc = "ok" => \E i \in Items : i = op'[a].item /\ Decided(i)'
                    /\ send'[a] # "none" =>
                         \E i \in Items : holds'[i] = msg'[a] /\ msg'[a] \in Msgs /\ Decided(i)'
  BY DEF AdminInv, Returned
<1> USE GatewayAssumption
<1>1. /\ op[a].pc \in {"idle", "resolve", "rewrite"} \cup Returned
      /\ adm[a] \in {"released", "relaying"} => op[a].pc = "ok"
      /\ op[a].pc = "ok" => \E i \in Items : i = op[a].item /\ Decided(i)
      /\ send[a] # "none" => \E i \in Items : holds[i] = msg[a] /\ msg[a] \in Msgs /\ Decided(i)
  BY DEF AdminInv
<1>2. ASSUME NEW i \in Items, Decided(i)
      PROVE  Decided(i)' /\ holds'[i] = holds[i]
  BY <1>2, DecidedLasts, DecidedItemKnown, StepLasting DEF Lasting
<1>3. CASE UNCHANGED <<op[a], send[a], msg[a], adm[a]>>
  BY <1>1, <1>2, <1>3
<1>4. CASE \E i \in Items, kind \in {"release", "reject", "bulk"} : AdminCalls(a, i, kind)
  <2>1. send[a] = "none" /\ send'[a] = "none"
    BY <1>4 DEF AdminCalls, AdminMove, GInv, CallsInOrder, svars
  <2>2. op'[a].pc = "resolve" /\ adm'[a] \in {"release", "reject", "bulk"}
    BY <1>4 DEF AdminCalls, AdminMove, ResolveCall, Call, GInv, GTypeOK, QInv, QTypeOK
  <2>3. QED
    BY <2>1, <2>2
<1>5. CASE AdminStep(a) /\ ~AdminRelays(a)
  <2>1. UNCHANGED <<op, send, msg>>
    BY <1>5 DEF AdminStep, AdminResolved, AdminReturns, AdminFails, qvars, svars
  <2>2. adm'[a] \in {"released", "relaying"} => op[a].pc = "ok"
    BY <1>5 DEF AdminStep, AdminResolved, AdminReturns, AdminFails, AdminMove, GInv, GTypeOK
  <2>3. QED
    BY <1>1, <1>2, <2>1, <2>2
<1>6. CASE AdminRelays(a)
  <2>1. UNCHANGED <<op, msg>> /\ op[a].pc = "ok"
    BY <1>1, <1>6 DEF AdminRelays, AdminMove, qvars
  <2>2. PICK i \in Items : i = op[a].item /\ Decided(i)
    BY <1>1, <2>1
  <2>3. holds[i] = msg[a] /\ msg[a] \in Msgs
    BY <2>1, <2>2 DEF GInv, ItemHoldsMessage
  <2>4. QED
    BY <1>2, <2>1, <2>2, <2>3 DEF Returned
<1>7. CASE StoreStep(a) /\ UNCHANGED <<svars, gvars>>
  <2>1. op[a].pc # "ok"
    BY <1>7 DEF StoreStep, StoreLocked, EmlWritten, MetaOpened, ResolveUnknown, ResolveUnreadable,
               ResolveKnown, MetaWritten, WriteFails, Writing
  <2>2. adm'[a] \notin {"released", "relaying"} /\ UNCHANGED <<send, msg>>
    BY <1>1, <1>7, <2>1 DEF gvars, svars
  <2>3. QED
    BY <1>1, <1>2, <1>7, <2>2, ResolveStep
<1>8. CASE SendStep(a) /\ UNCHANGED <<qvars, gvars>>
  <2>1. send[a] # "none" /\ UNCHANGED <<op, adm, msg>>
    BY <1>8, SendStepFrame DEF GInv, qvars, gvars
  <2>2. QED
    BY <1>1, <1>2, <2>1
<1>9. CASE Crash
  <2>1. op'[a].pc = "idle" /\ adm'[a] \notin {"released", "relaying"} /\ msg' = msg
    BY <1>9 DEF Crash, ProcessDies, Idle, GInv, GTypeOK, AdminUnderway
  <2>2. send'[a] # "none" => send[a] # "none"
    BY <1>9 DEF Crash, SendersDie
  <2>3. QED
    BY <1>1, <1>2, <2>1, <2>2
<1>10. CASE \E r \in Requests : RequestStep(r)
  <2>1. UNCHANGED <<op[a], send[a], msg, adm>>
    BY <1>10
    DEF RequestStep, Refuse, SkipBounce, SkipDuplicate, Skip, Claim, StoreUnavailable, LogRaw,
        Abort, Judge, Hold, StoreCall, Call, Relay, SendCall, DryRun, Held, Relayed,
        RelayFailed, Dispose, DeliverRaises, Record, RecordFails, Reply, qvars, svars,
        GInv, QInv, QTypeOK, SInv, STypeOK
  <2>2. QED
    BY <1>3, <2>1
<1>11. CASE \/ \E r \in Requests, m \in Msgs : Post(r, m)
            \/ \E m \in Msgs : KeyExpires(m)
            \/ UNCHANGED vars
  BY <1>3, <1>11
  DEF Post, KeyExpires, vars, gvars, qvars, svars, GInv, GTypeOK
<1>12. CASE \E b \in Admins \ {a} :
              \/ \E i \in Items, kind \in {"release", "reject", "bulk"} : AdminCalls(b, i, kind)
              \/ AdminStep(b)
  BY <1>3, <1>12
  DEF AdminCalls, AdminStep, AdminResolved, AdminRelays, AdminReturns, AdminFails, AdminMove,
      ResolveCall, Call, SendCall, qvars, svars, GInv, GTypeOK, QInv, QTypeOK, SInv, STypeOK
<1>13. CASE \E t \in Tasks \ {a} : TaskStep(t)
  <2>1. UNCHANGED <<op[a], send[a], msg, adm>>
    BY <1>13, StoreStepFrame, SendStepFrame
    DEF TaskStep, gvars, svars, qvars, GInv, QInv, QTypeOK, SInv, STypeOK
  <2>2. QED
    BY <1>3, <2>1
<1>14. QED
  BY <1>4, <1>5, <1>6, <1>7, <1>8, <1>9, <1>10, <1>11, <1>12, <1>13 DEF Next, TaskStep

-----------------------------------------------------------------------------
(* Requests that have claimed a message and were not turned away before    *)
(* they judged it.                                                         *)
Reached(r) == pc[r] \in {"claimed", "logged"} \/ act[r] # "none"

ReachInv ==
  /\ \A r \in Requests :
       /\ pc[r] \in {"unused", "posted", "claimed", "logged"} => act[r] = "none"
       /\ pc[r] \in {"judged", "holding", "relaying", "disposed"} => act[r] # "none"
       /\ send[r] # "none" => act[r] # "none"
       /\ Reached(r) => msg[r] \in keys
  /\ \A r, s \in Requests : Reached(r) /\ Reached(s) /\ msg[r] = msg[s] => r = s

(* A held message was held by the one request that reached judgement on    *)
(* it, and that request sends nothing.                                     *)
Holder(r, m) ==
  act[r] # "none" /\ msg[r] = m /\ send[r] = "none" /\ pc[r] \notin Undelivered

HeldOnce ==
  /\ \A i \in Items : holds[i] \in Msgs => \E r \in Requests : Holder(r, holds[i])
  /\ \A i, j \in Items : holds[i] = holds[j] /\ holds[i] \in Msgs => i = j

LEMMA ReachStep ==
  ASSUME Redis, ~Expiry, GInv, ReachInv, [Next]_vars
  PROVE  ReachInv'
<1> USE GatewayAssumption DEF ReachInv, Reached, GInv, GTypeOK, Actions
<1>1. CASE \E r \in Requests : RequestStep(r)
  <2>1. PICK r \in Requests : RequestStep(r)
    BY <1>1
  <2> USE DEF Move
  <2>2. CASE Refuse(r) \/ SkipBounce(r) \/ SkipDuplicate(r)
    BY <2>2 DEF Refuse, SkipBounce, SkipDuplicate, Skip, svars
  <2>3. CASE Claim(r) \/ StoreUnavailable(r)
    BY <2>3 DEF Claim, StoreUnavailable, svars, CallsInOrder
  <2>4. CASE LogRaw(r) \/ Abort(r)
    BY <2>4 DEF LogRaw, Abort, svars
  <2>5. CASE Judge(r)
    BY <2>5 DEF Judge, svars
  <2>6. CASE \E i \in Items : Hold(r, i)
    BY <2>6 DEF Hold, svars
  <2>7. CASE Relay(r)
    BY <2>7 DEF Relay, SendCall, SInv, STypeOK
  <2>8. CASE DryRun(r) \/ Held(r) \/ Relayed(r) \/ RelayFailed(r) \/ DeliverRaises(r)
    BY <2>8 DEF DryRun, Held, Relayed, RelayFailed, Dispose, DeliverRaises, svars
  <2>9. CASE Record(r) \/ RecordFails(r) \/ Reply(r)
    BY <2>9 DEF Record, RecordFails, Reply, svars
  <2>10. QED
    BY <2>1, <2>2, <2>3, <2>4, <2>5, <2>6, <2>7, <2>8, <2>9 DEF RequestStep
<1>2. CASE \E r \in Requests, m \in Msgs : Post(r, m)
  BY <1>2 DEF Post, Move, svars
<1>3. CASE Crash
  BY <1>3 DEF Crash, SendersDie, Underway, Processing
<1>4. CASE \E t \in Tasks : TaskStep(t)
  <2>1. \A r \in Requests : send'[r] # "none" => send[r] # "none"
    BY <1>4, SendStepFrame DEF TaskStep, svars, SInv, STypeOK
  <2>2. UNCHANGED gvars
    BY <1>4 DEF TaskStep
  <2>3. QED
    BY <2>1, <2>2 DEF gvars
<1>5. CASE \E a \in Admins :
             \/ \E i \in Items, kind \in {"release", "reject", "bulk"} : AdminCalls(a, i, kind)
             \/ AdminStep(a)
  <2>1. \A r \in Requests : send'[r] = send[r] /\ msg'[r] = msg[r]
    BY <1>5 DEF AdminCalls, AdminStep, AdminResolved, AdminRelays, AdminReturns, AdminFails,
               SendCall, svars, SInv, STypeOK
  <2>2. UNCHANGED <<pc, act, keys>>
    BY <1>5 DEF AdminCalls, AdminStep, AdminResolved, AdminRelays, AdminReturns, AdminFails
  <2>3. QED
    BY <2>1, <2>2
<1>6. CASE UNCHANGED vars
  BY <1>6 DEF vars, gvars, svars
<1>7. QED
  BY <1>1, <1>2, <1>3, <1>4, <1>5, <1>6 DEF Next, KeyExpires

LEMMA HeldOnceStep ==
  ASSUME GInv, ReachInv, HeldOnce, [Next]_vars
  PROVE  HeldOnce'
<1>1. ASSUME NEW r \in Requests, NEW m, Holder(r, m)
      PROVE  Holder(r, m)'
  BY <1>1, StepLasting DEF Holder, Lasting, Undelivered
<1>2. CASE UNCHANGED holds
  BY <1>1, <1>2 DEF HeldOnce
<1>3. ASSUME NEW r \in Requests, NEW i \in Items, Hold(r, i)
      PROVE  HeldOnce'
  <2>1. holds' = [holds EXCEPT ![i] = msg[r]] /\ msg[r] \in Msgs
    BY <1>3 DEF Hold, Move, GInv, GTypeOK, CallsInOrder
  <2>2. Holder(r, msg[r])'
    BY <1>3 DEF Hold, Move, GInv, GTypeOK, CallsInOrder, Undelivered, Holder, svars, ReachInv
  <2>3. \A j \in Items : holds[j] # msg[r]
    <3>1. SUFFICES ASSUME NEW s \in Requests, Holder(s, msg[r]) PROVE FALSE
      BY <2>1 DEF HeldOnce
    <3>2. Reached(r) /\ pc[r] = "judged"
      BY <1>3 DEF Hold, Move, Reached, ReachInv
    <3>3. Reached(s) /\ msg[s] = msg[r] /\ pc[s] # "judged"
      BY <3>1 DEF Holder, Reached, Undelivered
    <3>4. QED
      BY <3>2, <3>3 DEF ReachInv
  <2>4. \A j \in Items \ {i} : holds'[j] = holds[j]
    BY <2>1 DEF GInv, GTypeOK
  <2>5. holds'[i] = msg[r]
    BY <2>1 DEF GInv, GTypeOK
  <2>6. msg'[r] = msg[r]
    BY <1>3 DEF Hold
  <2>7. QED
    BY <1>1, <2>2, <2>3, <2>4, <2>5, <2>6 DEF HeldOnce
<1>4. CASE ~\E r \in Requests, i \in Items : Hold(r, i)
  BY <1>2, <1>4
  DEF Next, vars, gvars, Post, RequestStep, Refuse, SkipBounce, SkipDuplicate, Skip, Claim,
      StoreUnavailable, LogRaw, Abort, Judge, Relay, DryRun, Held, Relayed, RelayFailed,
      Dispose, DeliverRaises, Record, RecordFails, Reply, AdminCalls, AdminStep, AdminResolved,
      AdminRelays, AdminReturns, AdminFails, TaskStep, Crash, KeyExpires
<1>5. QED
  BY <1>3, <1>4

(* With dedupe keys that outlive the process and the behaviour, a message  *)
(* that is pending in the quarantine has reached no mailbox.               *)
THEOREM PendingIsUndelivered ==
  ASSUME Redis, ~Expiry
  PROVE  Spec => []PendingUndelivered
<1>1. Init => AdminInv /\ ReachInv /\ HeldOnce
  BY GatewayAssumption
  DEF Init, QInit, SInit, Idle, AdminInv, ReachInv, Reached, HeldOnce
<1>2. GInv /\ GInv' /\ AdminInv /\ [Next]_vars => AdminInv'
  BY AdminInvStep
<1>3. GInv /\ ReachInv /\ [Next]_vars => ReachInv'
  BY ReachStep
<1>4. GInv /\ ReachInv /\ HeldOnce /\ [Next]_vars => HeldOnce'
  BY HeldOnceStep
<1>5. GInv /\ AdminInv /\ ReachInv /\ HeldOnce => PendingUndelivered
  <2> SUFFICES ASSUME GInv, AdminInv, ReachInv, HeldOnce,
                      NEW i \in Items, meta[i] = "pending",
                      NEW t \in Tasks, msg[t] = holds[i], copies[t] > 0
               PROVE  FALSE
    BY DEF PendingUndelivered, Delivered
  <2>1. send[t] # "none" /\ holds[i] \in Msgs
    BY GatewayAssumption
    DEF GInv, SInv, STypeOK, AttemptsBoundCopies, ItemHoldsMessage
  <2>2. CASE t \in Requests
    <3>1. PICK r \in Requests : Holder(r, holds[i])
      BY <2>1 DEF HeldOnce
    <3>2. Reached(r) /\ Reached(t) /\ msg[r] = msg[t] /\ send[r] = "none"
      BY <2>1, <2>2, <3>1 DEF Holder, Reached, ReachInv
    <3>3. QED
      BY <2>1, <2>2, <3>2 DEF ReachInv
  <2>3. CASE t \in Admins
    <3>1. PICK j \in Items : holds[j] = msg[t] /\ Decided(j)
      BY <2>1, <2>3 DEF AdminInv
    <3>2. j = i
      BY <2>1, <3>1 DEF HeldOnce
    <3>3. CustodyOf(i) = "pending"
      BY DEF CustodyOf
    <3>4. QED
      BY <3>1, <3>2, <3>3 DEF Decided, Resolutions
  <2>4. QED
    BY <2>2, <2>3, GatewayAssumption
<1>6. QED
  BY <1>1, <1>2, <1>3, <1>4, <1>5, GInvariance, PTL DEF Spec
=============================================================================
