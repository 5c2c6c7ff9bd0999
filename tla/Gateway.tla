------------------------------- MODULE Gateway -------------------------------
(***************************************************************************)
(* The path of a message through the gateway (webhook_receiver/app.py):    *)
(* the provider posts a message to a webhook and posts it again until it   *)
(* gets a 200; process_message claims the hash of the message in the       *)
(* key-value store, logs the raw bytes, judges the message, delivers it    *)
(* (delivery/pipeline.py: relay it or hold it in quarantine), writes the   *)
(* audit record and answers; administrators release and reject what is     *)
(* held.  Each webhook request and each administrator's call is a task;    *)
(* the tasks interleave wherever the code awaits.  The quarantine          *)
(* directory is the module QuarantineStore, a call of the SMTP relay the   *)
(* module SMTPRelay.                                                       *)
(*                                                                         *)
(* Judging (authentication, content and attachment analysis, decide()) is  *)
(* a free choice of one of the three actions.                              *)
(***************************************************************************)
EXTENDS QuarantineStore, SMTPRelay

CONSTANTS Requests,    \* webhook requests (bound: each is used once)
          Admins,      \* administrators' calls (bound: each is used once)
          Msgs,        \* messages, told apart by the SHA-256 of their bytes
          Bounces,     \* the messages is_bounce_or_ndr recognises
          NoMsg,
          RelayOn,     \* RELAY_HOST is set (FALSE: dry run)
          TagOnly,     \* ENABLE_TAG_ONLY_MODE
          Redis,       \* USE_REDIS: the keys outlive the process
          Expiry,      \* bound: may keys expire within the behaviour
          MaxCrashes   \* bound: crashes of the process

ASSUME GatewayAssumption ==
  /\ Tasks = Requests \cup Admins
  /\ Senders = Tasks
  /\ Requests \cap Admins = {}
  /\ Bounces \subseteq Msgs
  /\ NoMsg \notin Msgs
  /\ {RelayOn, TagOnly, Redis, Expiry} \subseteq BOOLEAN
  /\ MaxCrashes \in Nat

VARIABLES pc,        \* pc[r]: where request r stands
          act,       \* act[r]: the decision on r's message
          out,       \* out[r]: what r will answer, or has answered
          adm,       \* adm[a]: where administrator's call a stands
          msg,       \* msg[t]: the message task t is about
          holds,     \* holds[i]: the message kept in quarantine item i
          keys,      \* messages whose dedupe key is live
          rawlog,    \* messages in the raw mail log
          audit,     \* requests with an audit record
          acked,     \* messages the provider has a 200 for
          crashes

gvars == <<pc, act, out, adm, msg, holds, keys, rawlog, audit, acked, crashes>>
vars  == <<qvars, svars, gvars>>

Actions  == {"forward", "warn_and_strip", "quarantine"}
Outcomes == {"relayed", "quarantined", "relay_failed", "duplicate", "bounce"}

(* Requests between the claim of the hash and the audit record.            *)
Processing == {"claimed", "logged", "judged", "holding", "relaying", "disposed"}
Underway   == {"posted", "replying"} \cup Processing
(* "failed": answered with an error status; "dead": died with the process. *)
Interrupted == {"failed", "dead"}

AdminUnderway == {"release", "reject", "bulk", "released", "rejected", "relaying"}

GTypeOK ==
  /\ pc     \in [Requests -> {"unused", "answered"} \cup Underway \cup Interrupted]
  /\ act    \in [Requests -> Actions \cup {"none"}]
  /\ out    \in [Requests -> Outcomes \cup {"none"}]
  /\ adm    \in [Admins -> {"unused", "done", "failed"} \cup AdminUnderway]
  /\ msg    \in [Tasks -> Msgs \cup {NoMsg}]
  /\ holds  \in [Items -> Msgs \cup {NoMsg}]
  /\ keys   \subseteq Msgs
  /\ rawlog \subseteq Msgs
  /\ audit  \subseteq Requests
  /\ acked  \subseteq Msgs
  /\ crashes \in 0..MaxCrashes

TypeOK == QTypeOK /\ STypeOK /\ GTypeOK

Init ==
  /\ QInit /\ SInit
  /\ pc     = [r \in Requests |-> "unused"]
  /\ act    = [r \in Requests |-> "none"]
  /\ out    = [r \in Requests |-> "none"]
  /\ adm    = [a \in Admins |-> "unused"]
  /\ msg    = [t \in Tasks |-> NoMsg]
  /\ holds  = [i \in Items |-> NoMsg]
  /\ keys   = {}
  /\ rawlog = {}
  /\ audit  = {}
  /\ acked  = {}
  /\ crashes = 0

-----------------------------------------------------------------------------
(* A request moves from one point of process_message to the next.          *)
Move(r, from, to) == pc[r] = from /\ pc' = [pc EXCEPT ![r] = to]

(* The provider posts a message it has no 200 for: the first time, after   *)
(* an error, or because it timed out on a request still underway.          *)
Post(r, m) ==
  /\ m \notin acked
  /\ Move(r, "unused", "posted")
  /\ msg' = [msg EXCEPT ![r] = m]
  /\ UNCHANGED <<qvars, svars, act, out, adm, holds, keys, rawlog, audit, acked, crashes>>

(* The webhook handler refuses before process_message: secret, signature,  *)
(* source address, rate limit, size.                                       *)
Refuse(r) ==
  /\ Move(r, "posted", "failed")
  /\ UNCHANGED <<qvars, svars, act, out, adm, msg, holds, keys, rawlog, audit, acked, crashes>>

(* The two early returns of process_message.                               *)
Skip(r, o) ==
  /\ Move(r, "posted", "replying")
  /\ out' = [out EXCEPT ![r] = o]
  /\ UNCHANGED <<qvars, svars, act, adm, msg, holds, keys, rawlog, audit, acked, crashes>>

SkipBounce(r) == msg[r] \in Bounces /\ Skip(r, "bounce")

SkipDuplicate(r) == msg[r] \in keys \ Bounces /\ Skip(r, "duplicate")

(* A deliberate fault: the key is set without looking.                     *)
Claim_PlainSet(r) ==
  /\ msg[r] \notin Bounces
  /\ Move(r, "posted", "claimed")
  /\ keys' = keys \cup {msg[r]}
  /\ UNCHANGED <<qvars, svars, act, out, adm, msg, holds, rawlog, audit, acked, crashes>>

(* set_if_not_exists stores the key and returns True.                      *)
Claim(r) ==
  /\ msg[r] \notin keys \cup Bounces
  /\ Move(r, "posted", "claimed")
  /\ keys' = keys \cup {msg[r]}
  /\ UNCHANGED <<qvars, svars, act, out, adm, msg, holds, rawlog, audit, acked, crashes>>

(* Redis fails the request: nothing catches the exception.  The key may    *)
(* have been stored before the reply was lost.                             *)
StoreUnavailable(r) ==
  /\ Redis
  /\ msg[r] \notin Bounces
  /\ Move(r, "posted", "failed")
  /\ keys' \in {keys, keys \cup {msg[r]}}
  /\ UNCHANGED <<qvars, svars, act, out, adm, msg, holds, rawlog, audit, acked, crashes>>

LogRaw(r) ==
  /\ Move(r, "claimed", "logged")
  /\ rawlog' = rawlog \cup {msg[r]}
  /\ UNCHANGED <<qvars, svars, act, out, adm, msg, holds, keys, audit, acked, crashes>>

Judge(r) ==
  /\ Move(r, "logged", "judged")
  /\ \E x \in Actions : act' = [act EXCEPT ![r] = x]
  /\ UNCHANGED <<qvars, svars, out, adm, msg, holds, keys, rawlog, audit, acked, crashes>>

(* An exception that nothing catches: writing the raw log, an analyser (a  *)
(* provider's malformed URL, Redis failing the cache), decide(), or        *)
(* apply_tag_only on bytes that do not parse.  The key stays claimed.      *)
Abort(r) ==
  /\ \E from \in {"claimed", "logged", "judged"} : Move(r, from, "failed")
  /\ UNCHANGED <<qvars, svars, act, out, adm, msg, holds, keys, rawlog, audit, acked, crashes>>

-----------------------------------------------------------------------------
(* deliver().                                                              *)

(* Quarantine, or warn_and_strip whose transformation raised.              *)
Hold(r, i) ==
  /\ ~TagOnly
  /\ act[r] \in {"quarantine", "warn_and_strip"}
  /\ Move(r, "judged", "holding")
  /\ StoreCall(r, i)
  /\ holds' = [holds EXCEPT ![i] = msg[r]]
  /\ UNCHANGED <<svars, act, out, adm, msg, keys, rawlog, audit, acked, crashes>>

(* Forward, warn_and_strip, or anything in tag-only mode.                  *)
Relay(r) ==
  /\ RelayOn
  /\ TagOnly \/ act[r] # "quarantine"
  /\ Move(r, "judged", "relaying")
  /\ SendCall(r)
  /\ UNCHANGED <<qvars, act, out, adm, msg, holds, keys, rawlog, audit, acked, crashes>>

Dispose(r, o) ==
  /\ pc' = [pc EXCEPT ![r] = "disposed"]
  /\ out' = [out EXCEPT ![r] = o]
  /\ UNCHANGED <<qvars, svars, act, adm, msg, holds, keys, rawlog, audit, acked, crashes>>

(* Without a relay the outcome says relayed and nothing is sent.           *)
DryRun(r) ==
  /\ ~RelayOn
  /\ TagOnly \/ act[r] # "quarantine"
  /\ pc[r] = "judged"
  /\ Dispose(r, "relayed")

(* A deliberate fault: a RelayError is swallowed.                          *)
RelayFailed_Swallowed(r) == pc[r] = "relaying" /\ send[r] = "failed" /\ Dispose(r, "relayed")

Held(r)        == pc[r] = "holding"  /\ op[r].pc = "ok"      /\ Dispose(r, "quarantined")
Relayed(r)     == pc[r] = "relaying" /\ send[r] = "sent"     /\ Dispose(r, "relayed")
RelayFailed(r) == pc[r] = "relaying" /\ send[r] = "failed"   /\ Dispose(r, "relay_failed")

(* A deliberate fault: only errors of the store are passed on.             *)
DeliverRaises_StoreOnly(r) ==
  /\ pc[r] = "holding" /\ op[r].pc = "error"
  /\ pc' = [pc EXCEPT ![r] = "failed"]
  /\ UNCHANGED <<qvars, svars, act, out, adm, msg, holds, keys, rawlog, audit, acked, crashes>>

(* An exception of the quarantine store, of the notifier that is told of a *)
(* held message, or of the relay, that deliver() does not catch.           *)
DeliverRaises(r) ==
  /\ \/ pc[r] = "holding" /\ op[r].pc \in {"ok", "error"}
     \/ pc[r] = "relaying" /\ send[r] = "raised"
  /\ pc' = [pc EXCEPT ![r] = "failed"]
  /\ UNCHANGED <<qvars, svars, act, out, adm, msg, holds, keys, rawlog, audit, acked, crashes>>

-----------------------------------------------------------------------------
Record(r) ==
  /\ Move(r, "disposed", "replying")
  /\ audit' = audit \cup {r}
  /\ UNCHANGED <<qvars, svars, act, out, adm, msg, holds, keys, rawlog, acked, crashes>>

(* A deliberate fault: a failed append to the audit log is swallowed.      *)
RecordFails_Swallowed(r) ==
  /\ Move(r, "disposed", "replying")
  /\ UNCHANGED <<qvars, svars, act, out, adm, msg, holds, keys, rawlog, audit, acked, crashes>>

RecordFails(r) ==
  /\ Move(r, "disposed", "failed")
  /\ UNCHANGED <<qvars, svars, act, out, adm, msg, holds, keys, rawlog, audit, acked, crashes>>

(* The 200 reaches the provider.                                           *)
Reply(r) ==
  /\ Move(r, "replying", "answered")
  /\ acked' = acked \cup {msg[r]}
  /\ UNCHANGED <<qvars, svars, act, out, adm, msg, holds, keys, rawlog, audit, crashes>>

-----------------------------------------------------------------------------
(* Administrators' calls.                                                  *)

AdminMove(a, from, to) == adm[a] = from /\ adm' = [adm EXCEPT ![a] = to]

(* POST .../release, .../reject and the dashboard's bulk-action, on an id  *)
(* that some listing, perhaps an old one, has shown.                       *)
AdminCalls(a, i, kind) ==
  /\ meta[i] # "absent"
  /\ AdminMove(a, "unused", kind)
  /\ ResolveCall(a, i, IF kind = "reject" THEN "rejected" ELSE "released")
  /\ msg' = [msg EXCEPT ![a] = holds[i]]
  /\ UNCHANGED <<svars, pc, act, out, holds, keys, rawlog, audit, acked, crashes>>

(* The handler goes on after _resolve; bulk-action has nothing left to do. *)
AdminResolved(a) ==
  /\ op[a].pc = "ok"
  /\ \/ AdminMove(a, "release", "released")
     \/ AdminMove(a, "reject", "rejected")
     \/ AdminMove(a, "bulk", "done")
  /\ UNCHANGED <<qvars, svars, pc, act, out, msg, holds, keys, rawlog, audit, acked, crashes>>

(* A deliberate fault: the message is relayed before the status is written.*)
AdminRelays_BeforeStatus(a) ==
  /\ RelayOn
  /\ AdminMove(a, "release", "relaying")
  /\ eml[op[a].item] = "whole"
  /\ SendCall(a)
  /\ UNCHANGED <<qvars, pc, act, out, msg, holds, keys, rawlog, audit, acked, crashes>>

(* Feedback and the audit record of the call; for a release the raw        *)
(* message is read back and relayed.                                       *)
AdminRelays(a) ==
  /\ RelayOn
  /\ AdminMove(a, "released", "relaying")
  /\ eml[op[a].item] = "whole"
  /\ SendCall(a)
  /\ UNCHANGED <<qvars, pc, act, out, msg, holds, keys, rawlog, audit, acked, crashes>>

AdminReturns(a) ==
  /\ \/ AdminMove(a, "rejected", "done")
     \/ ~RelayOn /\ AdminMove(a, "released", "done")
     \/ send[a] = "sent" /\ AdminMove(a, "relaying", "done")
  /\ UNCHANGED <<qvars, svars, pc, act, out, msg, holds, keys, rawlog, audit, acked, crashes>>

(* 404, 500 or 502: the record is missing or torn, the audit record cannot *)
(* be written, the relay gives up.  Nothing is undone.                     *)
AdminFails(a) ==
  /\ \/ op[a].pc \in {"missing", "error"} /\ adm[a] \in {"release", "reject", "bulk"}
     \/ adm[a] \in {"released", "rejected"}
     \/ adm[a] = "relaying" /\ send[a] \in {"failed", "raised"}
  /\ adm' = [adm EXCEPT ![a] = "failed"]
  /\ UNCHANGED <<qvars, svars, pc, act, out, msg, holds, keys, rawlog, audit, acked, crashes>>

-----------------------------------------------------------------------------
(* The process dies and is started again.                                  *)
Crash ==
  /\ crashes < MaxCrashes
  /\ crashes' = crashes + 1
  /\ ProcessDies
  /\ SendersDie
  /\ pc' = [r \in Requests |-> IF pc[r] \in Underway THEN "dead" ELSE pc[r]]
  /\ adm' = [a \in Admins |-> IF adm[a] \in AdminUnderway THEN "failed" ELSE adm[a]]
  /\ keys' = IF Redis THEN keys ELSE {}
  /\ UNCHANGED <<act, out, msg, holds, rawlog, audit, acked>>

(* A dedupe key lives for a day; no request runs that long.                *)
KeyExpires(m) ==
  /\ Expiry
  /\ m \in keys
  /\ \A r \in Requests : pc[r] \in Processing => msg[r] # m
  /\ keys' = keys \ {m}
  /\ UNCHANGED <<qvars, svars, pc, act, out, adm, msg, holds, rawlog, audit, acked, crashes>>

RequestStep(r) ==
  \/ Refuse(r) \/ SkipBounce(r) \/ SkipDuplicate(r) \/ Claim(r) \/ StoreUnavailable(r)
  \/ LogRaw(r) \/ Judge(r) \/ Abort(r)
  \/ \E i \in Items : Hold(r, i)
  \/ Relay(r) \/ DryRun(r) \/ Held(r) \/ Relayed(r) \/ RelayFailed(r) \/ DeliverRaises(r)
  \/ Record(r) \/ RecordFails(r) \/ Reply(r)

AdminStep(a) == AdminResolved(a) \/ AdminRelays(a) \/ AdminReturns(a) \/ AdminFails(a)

TaskStep(t) ==
  \/ StoreStep(t) /\ UNCHANGED <<svars, gvars>>
  \/ SendStep(t) /\ UNCHANGED <<qvars, gvars>>

Next ==
  \/ \E r \in Requests, m \in Msgs : Post(r, m)
  \/ \E r \in Requests : RequestStep(r)
  \/ \E a \in Admins, i \in Items, kind \in {"release", "reject", "bulk"} : AdminCalls(a, i, kind)
  \/ \E a \in Admins : AdminStep(a)
  \/ \E t \in Tasks : TaskStep(t)
  \/ Crash
  \/ \E m \in Msgs : KeyExpires(m)

Spec == Init /\ [][Next]_vars

(* The event loop runs every task that can go on, a disk and an SMTP peer  *)
(* answer or time out, and the lock of the store is first in, first out.   *)
(* Nothing obliges a provider or an administrator to call, the process to  *)
(* crash or a key to expire.                                               *)
Fairness ==
  /\ \A r \in Requests : WF_vars(RequestStep(r))
  /\ \A a \in Admins : WF_vars(AdminStep(a))
  /\ \A t \in Tasks : SF_vars(TaskStep(t))

FairSpec == Spec /\ Fairness

-----------------------------------------------------------------------------
(* Properties.                                                             *)

Delivered(m) == \E t \in Tasks : msg[t] = m /\ copies[t] > 0

(* No two requests process the same bytes at once, however the provider's  *)
(* retries overlap with a request still underway: set_if_not_exists is     *)
(* atomic and the key outlives the request.                                *)
OneProcessing ==
  \A r, s \in Requests :
    pc[r] \in Processing /\ pc[s] \in Processing /\ msg[r] = msg[s] => r = s

(* A message that the list of pending items shows has reached no mailbox:  *)
(* neither the request that held it nor another one relayed it, and no     *)
(* administrator's release sent it before its status was written.  Needs   *)
(* keys that are kept: USE_REDIS and no retry after the key's day.         *)
PendingUndelivered ==
  \A i \in Items : meta[i] = "pending" => ~Delivered(holds[i])

(* Bytes are in the raw mail log before anything else is done with them.   *)
RawCopyFirst ==
  /\ \A i \in Items : holds[i] \in rawlog \cup {NoMsg}
  /\ \A t \in Tasks : copies[t] > 0 => msg[t] \in rawlog

(* A 200 that reports an outcome reports something that happened and that  *)
(* the audit log records: a copy was taken by the destination, or the      *)
(* message and its metadata are in the quarantine directory.               *)
AnswerTellsTheTruth ==
  \A r \in Requests : pc[r] = "answered" =>
    CASE out[r] = "relayed"      -> r \in audit /\ (RelayOn => copies[r] > 0)
      [] out[r] = "relay_failed" -> r \in audit /\ send[r] = "failed"
      [] out[r] = "quarantined"  ->
           /\ r \in audit /\ copies[r] = 0
           /\ \E i \in Items : holds[i] = msg[r] /\ meta[i] # "absent" /\ eml[i] = "whole"
      [] OTHER                   -> TRUE

(* The provider stops posting a message only when the message has an audit *)
(* record, is being processed, or had a request that ended in an error or  *)
(* a crash.  The last case is the hole: a retry is answered "duplicate".   *)
AcknowledgedIsAccountedFor ==
  \A m \in acked \ Bounces : \E r \in Requests :
    msg[r] = m /\ (r \in audit \/ pc[r] \in Processing \cup Interrupted)

(* In a dry run nothing reaches a mailbox, not even by a release.          *)
DryRunSendsNothing == ~RelayOn => \A t \in Tasks : copies[t] = 0

(* Every request is answered, or dies with the process.                    *)
RequestsEnd == \A r \in Requests : pc[r] = "posted" ~> pc[r] \notin Underway

(* todo.md asks to kill Redis mid-request and the relay mid-send and to    *)
(* verify that no message is ever silently lost.  Lost: the provider has   *)
(* its 200, nothing is underway, and the message is neither delivered, nor *)
(* held, nor recorded in the audit log.                                    *)
NoMailSilentlyLost ==
  \A m \in acked \ Bounces :
    (\A r \in Requests : pc[r] \notin Underway) =>
      \/ Delivered(m)
      \/ \E i \in Items : holds[i] = m /\ meta[i] \in Statuses
      \/ \E r \in audit : msg[r] = m

(* docs/modules/delivery.md says that a release decrypts and relays the    *)
(* original message.  A bulk release that is reported as processed would   *)
(* then bring the message to its mailbox.                                  *)
BulkReleaseArrives ==
  \A a \in Admins : adm[a] = "bulk" /\ op[a].pc = "ok" ~> Delivered(msg[a])
=============================================================================
