------------------------------- MODULE Removal -------------------------------
(***************************************************************************)
(* Taking delivered mail back: delivery/auto_zap.py (the engine),          *)
(* user_reports.py (a user's report starts removals and counts against the *)
(* sender), mailbox_actions.py (the choice of provider) and the two        *)
(* clients m365_client.py and google_client.py.                            *)
(*                                                                         *)
(* A call scans a snapshot of the records and, for each that matches, asks *)
(* the recipients' providers one after another.  It awaits each answer, so *)
(* calls interleave; and an answer can be lost although the provider did   *)
(* what it was asked.  A registration of a known message replaces its      *)
(* record while calls may still hold the old one.                          *)
(***************************************************************************)
EXTENDS Naturals, Sequences, SequencesExt, Functions

CONSTANTS Messages,    \* message ids
          Boxes,       \* Boxes[m]: the providers of m's recipients, in order
          Urls,        \* what removals look for: URLs or hashes
          Holders,     \* Holders[u]: the messages that contain u
          Calls,       \* calls (bound: each is made once)
          Bodies,      \* the URLs of a report's body, in order
          MaxDeliveries \* bound: registrations

(* "simulated": a provider whose client is not configured, which is how    *)
(* the application makes the service; "other": delete_message raises.      *)
Providers == {"m365", "google", "simulated", "other"}

ASSUME RemovalAssumption ==
  /\ Boxes \in [Messages -> Seq(Providers)]
  /\ Holders \in [Urls -> SUBSET Messages]
  /\ Bodies \subseteq Seq(Urls)
  /\ MaxDeliveries \in Nat \ {0}

VARIABLES order,     \* keys of _records, in order of first registration
          delivery,  \* delivery[m]: which registration of m is _records[m]; 0: none
          zapped,    \* records with zapped = True
          inMailbox, \* the copies that recipients still see (external)
          token,     \* M365GraphClient._access_token: "none", "good", "expired"
          calls      \* calls[c]: where call c stands

rvars == <<order, delivery, zapped, inMailbox, token, calls>>

Records == Messages \X (1..MaxDeliveries)
Copies(r) == {<<r, i>> : i \in DOMAIN Boxes[r[1]]}
Current(m) == <<m, delivery[m]>>
Snapshot == [i \in DOMAIN order |-> Current(order[i])]

(* looks: URLs still to be looked for; wanted: the messages that contain   *)
(* the one looked for now; todo: the rest of the snapshot; i: the          *)
(* recipient asked; ok: overall_success; seen, asked, returned: what the   *)
(* call had to do and has done, for the properties.                        *)
NotMade == [at |-> "notMade", looks |-> << >>, wanted |-> {}, todo |-> << >>, i |-> 0, ok |-> TRUE,
            seen |-> {}, asked |-> {}, returned |-> {}]

RTypeOK ==
  /\ order \in Seq(Messages)
  /\ delivery \in [Messages -> 0..MaxDeliveries]
  /\ zapped \subseteq Records
  /\ \A x \in inMailbox : x \in Copies(x[1])
  /\ token \in {"none", "good", "expired"}
  /\ \A c \in Calls :
       /\ calls[c].at \in {"notMade", "scan", "ask", "answered", "end"}
       /\ calls[c].returned \subseteq Records
       /\ calls[c].at \in {"ask", "answered"} =>
            calls[c].i \in DOMAIN Boxes[Head(calls[c].todo)[1]]

RInit ==
  /\ order = << >>
  /\ delivery = [m \in Messages |-> 0]
  /\ zapped = {}
  /\ inMailbox = {}
  /\ token = "none"
  /\ calls = [c \in Calls |-> NotMade]

-----------------------------------------------------------------------------
(* register_delivery(): a new record, in the place of an old one if any.   *)
Register(m) ==
  /\ SumFunction(delivery) < MaxDeliveries
  /\ delivery' = [delivery EXCEPT ![m] = @ + 1]
  /\ order' = IF delivery[m] = 0 THEN Append(order, m) ELSE order
  /\ inMailbox' = inMailbox \cup Copies(<<m, delivery[m] + 1>>)
  /\ UNCHANGED <<zapped, token, calls>>

Wanted(todo, wanted) == {r \in ToSet(todo) : r[1] \in wanted}

Begins(c, looks, wanted, todo) ==
  /\ calls[c].at = "notMade"
  /\ calls' = [calls EXCEPT ![c].at = "scan", ![c].looks = looks, ![c].wanted = wanted,
                            ![c].todo = todo, ![c].seen = Wanted(todo, wanted)]

(* trigger_zap_by_url(), trigger_zap_by_hash().                            *)
ZapByContent(c) ==
  /\ \E u \in Urls : Begins(c, << >>, Holders[u], Snapshot)
  /\ UNCHANGED <<order, delivery, zapped, inMailbox, token>>

(* trigger_zap_by_message_id().                                            *)
ZapById(c) ==
  /\ \E m \in Messages :
       Begins(c, << >>, {m}, IF delivery[m] = 0 THEN << >> ELSE <<Current(m)>>)
  /\ UNCHANGED <<order, delivery, zapped, inMailbox, token>>

(* process_report(): the URLs of the body are looked for, one after        *)
(* another.  What the report costs the sender is Reject of DecisionEngine. *)
Report(c) ==
  /\ \E looks \in Bodies : Begins(c, looks, {}, << >>)
  /\ UNCHANGED <<order, delivery, zapped, inMailbox, token>>

-----------------------------------------------------------------------------
(* The loops.                                                              *)

Record(c) == Head(calls[c].todo)
Provider(c) == Boxes[Record(c)[1]][calls[c].i]
Copy(c) == <<Record(c), calls[c].i>>

(* The next record of the snapshot: marked already or not one that is      *)
(* wanted, or without recipients, which is a success, or to be removed.    *)
ToRemove(c) ==
  /\ calls[c].at = "scan"
  /\ calls[c].todo # << >>
  /\ Record(c) \notin zapped
  /\ Record(c)[1] \in calls[c].wanted

PassOver(c) ==
  /\ calls[c].at = "scan"
  /\ calls[c].todo # << >>
  /\ ~ToRemove(c)
  /\ calls' = [calls EXCEPT ![c].todo = Tail(@)]
  /\ UNCHANGED <<order, delivery, zapped, inMailbox, token>>

NobodyToAsk(c) ==
  /\ ToRemove(c)
  /\ Boxes[Record(c)[1]] = << >>
  /\ calls' = [calls EXCEPT ![c].todo = Tail(@), ![c].returned = @ \cup {Record(c)}]
  /\ zapped' = zapped \cup {Record(c)}
  /\ UNCHANGED <<order, delivery, inMailbox, token>>

Start(c) ==
  /\ ToRemove(c)
  /\ Boxes[Record(c)[1]] # << >>
  /\ calls' = [calls EXCEPT ![c].at = "ask", ![c].i = 1, ![c].ok = TRUE]
  /\ UNCHANGED <<order, delivery, zapped, inMailbox, token>>

(* A report goes on with its next URL and a new snapshot.                  *)
NextUrl(c) ==
  /\ calls[c].at = "scan"
  /\ calls[c].todo = << >>
  /\ IF Len(calls[c].looks) > 0
     THEN LET wanted == Holders[Head(calls[c].looks)]
          IN calls' = [calls EXCEPT ![c].looks = Tail(@), ![c].wanted = wanted,
                                    ![c].todo = Snapshot,
                                    ![c].seen = @ \cup Wanted(Snapshot, wanted)]
     ELSE calls' = [calls EXCEPT ![c].at = "end"]
  /\ UNCHANGED <<order, delivery, zapped, inMailbox, token>>

Asked(c, ok) ==
  calls' = [calls EXCEPT ![c].at = "answered", ![c].ok = @ /\ ok,
                         ![c].asked = @ \cup {Copy(c)}]

(* A provider without a client: the removal is simulated.                  *)
Simulated(c) ==
  /\ calls[c].at = "ask"
  /\ Provider(c) = "simulated"
  /\ Asked(c, TRUE)
  /\ UNCHANGED <<order, delivery, zapped, inMailbox, token>>

(* get_access_token() of the M365 client; the token is kept for good.      *)
GetToken(c) ==
  /\ calls[c].at = "ask"
  /\ Provider(c) = "m365"
  /\ token = "none"
  /\ token' = "good"
  /\ UNCHANGED <<order, delivery, zapped, inMailbox, calls>>

Reachable(c) ==
  /\ calls[c].at = "ask"
  /\ \/ Provider(c) = "google"
     \/ Provider(c) = "m365" /\ token = "good"

(* The provider removes the copy; its answer may still be lost.  Microsoft *)
(* answers 404 for a message that is gone, Google trashes it again.        *)
Removed(c) ==
  /\ Reachable(c)
  /\ Copy(c) \in inMailbox \/ Provider(c) = "google"
  /\ inMailbox' = inMailbox \ {Copy(c)}
  /\ \E ok \in BOOLEAN : Asked(c, ok)
  /\ UNCHANGED <<order, delivery, zapped, token>>

(* A deliberate fault: an error status counts as done.                     *)
NotRemoved_StatusIgnored(c) ==
  /\ calls[c].at = "ask"
  /\ Asked(c, TRUE)
  /\ UNCHANGED <<order, delivery, zapped, inMailbox, token>>

(* A deliberate fault: an exception ends the record, not the recipient.    *)
NotRemoved_EndsRecord(c) ==
  /\ calls[c].at = "ask"
  /\ Provider(c) # "simulated"
  /\ calls' = [calls EXCEPT ![c].at = "scan", ![c].todo = Tail(@), ![c].i = 0]
  /\ UNCHANGED <<order, delivery, zapped, inMailbox, token>>

(* An error status, or an exception: unsupported provider, no token, no    *)
(* connection.                                                             *)
NotRemoved(c) ==
  /\ calls[c].at = "ask"
  /\ Provider(c) # "simulated"
  /\ Asked(c, FALSE)
  /\ UNCHANGED <<order, delivery, zapped, inMailbox, token>>

(* The next recipient.                                                     *)
Goes(c) ==
  /\ calls[c].at = "answered"
  /\ calls[c].i < Len(Boxes[Record(c)[1]])
  /\ calls' = [calls EXCEPT ![c].at = "ask", ![c].i = @ + 1]
  /\ UNCHANGED <<order, delivery, zapped, inMailbox, token>>

(* _execute_zap() returns: its success overwrites the mark of another call.*)
Marks(c) ==
  /\ calls[c].at = "answered"
  /\ calls[c].i = Len(Boxes[Record(c)[1]])
  /\ zapped' = IF calls[c].ok THEN zapped \cup {Record(c)} ELSE zapped \ {Record(c)}
  /\ calls' = [calls EXCEPT ![c].at = "scan", ![c].todo = Tail(@), ![c].i = 0, ![c].ok = TRUE,
                            ![c].returned = IF calls[c].ok THEN @ \cup {Record(c)} ELSE @]
  /\ UNCHANGED <<order, delivery, inMailbox, token>>

(* The provider stops accepting the token (external).                      *)
TokenExpires ==
  /\ token = "good"
  /\ token' = "expired"
  /\ UNCHANGED <<order, delivery, zapped, inMailbox, calls>>

RemovalStep(c) ==
  \/ PassOver(c) \/ NobodyToAsk(c) \/ Start(c) \/ NextUrl(c)
  \/ GetToken(c) \/ Simulated(c) \/ Removed(c) \/ NotRemoved(c)
  \/ Goes(c) \/ Marks(c)

RNext ==
  \/ \E m \in Messages : Register(m)
  \/ \E c \in Calls : ZapByContent(c) \/ ZapById(c) \/ Report(c) \/ RemovalStep(c)
  \/ TokenExpires

RSpec == RInit /\ [][RNext]_rvars

-----------------------------------------------------------------------------
(* Properties.                                                             *)

(* A record is marked as removed, and a call names it as removed, only     *)
(* when no recipient whose provider has a client still sees the message,   *)
(* whatever failed, was answered late or ran beside it.  A mark set too    *)
(* early hides the message from every later removal.                       *)
RemovedMeansGone ==
  \A r \in zapped \cup UNION {calls[c].returned : c \in Calls} :
    \A x \in Copies(r) \cap inMailbox : Boxes[r[1]][x[2]] = "simulated"

(* When a call has ended, every copy of every record it found was asked    *)
(* for, or the record is gone already: one recipient's failure keeps       *)
(* nobody else's copy in place.                                            *)
NobodySkipped ==
  \A c \in Calls : calls[c].at = "end" =>
    \A r \in calls[c].seen :
      \A x \in Copies(r) \cap inMailbox :
        x \in calls[c].asked \/ Boxes[r[1]][x[2]] = "simulated"
=============================================================================
