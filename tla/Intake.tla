------------------------------- MODULE Intake -------------------------------
(***************************************************************************)
(* How a mail provider's post becomes a message of the gateway: the six    *)
(* webhook handlers of webhook_receiver/app.py, their checks and parsers,  *)
(* up to the claim of the message's hash in process_message.  What follows *)
(* the claim is the module Gateway, the limiter is RateLimiter.            *)
(***************************************************************************)
EXTENDS Naturals, Sequences, SequencesExt

CONSTANTS Mails,      \* the mail the providers have received
          Part,       \* what is in each: headers, text and html, "" if absent
          Posts,      \* the posts that may arrive
          SigningKey, \* mailgun_signing_key is set
          Tasks,      \* posts handled at once
          MaxPosts    \* bound on the posts

Forms == {"sendgrid", "mailgun"}
Providers == Forms \cup {"ses", "postmark", "m365", "google"}

(* mails: what the post is about, nothing if it only notifies.  A body may *)
(* be JSON without an object in it: empty (an empty list, null), or odd.   *)
(* proof: Mailgun's signature and its age; for SES no more than where the  *)
(* certificate is, ok also if the post names none.                         *)
PostRecord ==
  [ by : Providers, secret : BOOLEAN, source : BOOLEAN, big : BOOLEAN,
    token : BOOLEAN,                            \* Graph sets up a subscription
    body  : {"good", "odd", "empty", "unreadable"},
    kind  : {"Notification", "SubscriptionConfirmation", "other"},
    proof : {"ok", "bad"},
    mails : Seq(Mails),
    raw : BOOLEAN,                              \* the MIME source is in the post,
    fields : BOOLEAN ]                          \* headers, text and html are

ASSUME IntakeAssumption ==
  /\ \A m \in Mails : Part[m] \in [headers : STRING, text : STRING, html : STRING, bounce : BOOLEAN]
  /\ \A p \in Posts : p \in PostRecord
  /\ SigningKey \in BOOLEAN /\ MaxPosts \in Nat

VARIABLES task,     \* the handlers: the post in hand and what they await
          keys,     \* the hashes claimed, as what was hashed
          handled,  \* the posts whose hash was claimed
          posted    \* posts so far

intakevars == <<task, keys, handled, posted>>

Free == [at |-> "free"]

IntakeTypeOK ==
  /\ \A t \in Tasks : task[t] = Free
       \/ (task[t].post \in Posts /\ task[t].at \in {"limit", "body", "claim", "answered"})
  /\ handled \subseteq Posts /\ posted \in 0..MaxPosts

IntakeInit == task = [t \in Tasks |-> Free] /\ keys = {} /\ handled = {} /\ posted = 0

-----------------------------------------------------------------------------
(* The parsers.                                                            *)

(* A post about no mail has no envelope sender, which is what a bounce is  *)
(* known by; Gmail's names the owner of the mailbox in its place.          *)
Blank(p) == [headers |-> "", text |-> "", html |-> "", bounce |-> p.by # "google"]

(* Graph may send several notifications; the first is read.                *)
Read(p) == IF p.mails = << >> THEN Blank(p) ELSE Part[Head(p.mails)]

Or(a, b) == IF a # "" THEN a ELSE b

(* What the parsers take from the fields of a post, which they look for    *)
(* nowhere else.  Graph's body is either HTML or text; what SES sends is   *)
(* never read.                                                             *)
Field(p, value) == IF p.fields THEN value ELSE ""
TextOf(p) ==
  IF p.by = "ses" \/ (p.by = "m365" /\ Read(p).html # "") THEN "" ELSE Field(p, Read(p).text)
HtmlOf(p) == IF p.by = "ses" THEN "" ELSE Field(p, Read(p).html)
HeadersOf(p) == Field(p, Read(p).headers)

(* A deliberate fault: a message without text is put together as empty.    *)
Rebuilt_TextOnly(p) == [headers |-> HeadersOf(p), body |-> TextOf(p)]

(* The message put together when the post has no MIME source.              *)
Rebuilt(p) ==
  [headers |-> HeadersOf(p),
   body    |-> IF p.by \in {"m365", "google"} THEN Or(TextOf(p), HtmlOf(p)) ELSE TextOf(p)]

(* raw_message, and the hash of it.                                        *)
RawMessage(p) ==
  IF p.raw /\ p.mails # << >> THEN [mime |-> Head(p.mails)] ELSE Rebuilt(p)

(* The text that analyze_content sees and the text that is relayed.        *)
Scanned(p) == {TextOf(p), HtmlOf(p)} \ {""}
Relayed(p) ==
  (IF "mime" \in DOMAIN RawMessage(p) THEN {Read(p).text, Read(p).html} ELSE {Rebuilt(p).body})
  \ {""}

(* The address SPF and the blocklists are asked about.                     *)
ClientOf(p) == IF p.by \in Forms \cup {"postmark"} THEN "from Received" ELSE "of the provider"

-----------------------------------------------------------------------------
(* The handlers.                                                           *)

Answers(t, status) == task' = [task EXCEPT ![t].at = "answered", ![t].status = status]
Awaits(t, what) == task' = [task EXCEPT ![t].at = what]
Taken(t, what) == task[t] # Free /\ task[t].at = what

(* verify_secret (SendGrid's path only) and verify_source_ip.              *)
Refused(p) ==
  CASE p.by = "sendgrid" /\ ~p.secret -> {404} [] ~p.source -> {403} [] OTHER -> {}

Arrive(t, p) ==
  /\ posted < MaxPosts /\ posted' = posted + 1
  /\ task[t] = Free \/ task[t].at = "answered"
  /\ task' = [task EXCEPT ![t] =
       IF Refused(p) = {} THEN [post |-> p, at |-> "limit", status |-> 0]
       ELSE [post |-> p, at |-> "answered", status |-> CHOOSE c \in Refused(p) : TRUE]]
  /\ UNCHANGED <<keys, handled>>

(* The limiter answers.  SendGrid's handler then looks at the length       *)
(* announced, Graph's answers the token of a subscription.                 *)
LimiterRefuses(t) == Taken(t, "limit") /\ Answers(t, 429) /\ UNCHANGED <<keys, handled, posted>>

LimiterAdmits(t) ==
  /\ Taken(t, "limit")
  /\ LET p == task[t].post IN
       CASE p.by = "sendgrid" /\ p.big -> Answers(t, 413)
         [] p.by = "m365" /\ p.token -> Answers(t, 200)
         [] OTHER -> Awaits(t, "body")
  /\ UNCHANGED <<keys, handled, posted>>

(* What a handler finds wrong with a body: Mailgun's signature and its     *)
(* age, if there is a key; an SNS message that is empty, of another type   *)
(* or certified elsewhere; and JSON that is no object, which raises.       *)
Fault(p) ==
  CASE p.body = "unreadable" -> 400
    [] p.by = "mailgun" /\ SigningKey /\ p.proof = "bad" -> 401
    [] p.by = "ses" /\ p.body = "empty" -> 400
    [] p.by \notin Forms /\ p.body \in {"odd", "empty"} -> 500
    [] p.by = "ses" /\ p.kind = "other" -> 400
    [] p.by = "ses" /\ p.proof = "bad" -> 401
    [] OTHER -> 0

BodyArrives(t) ==
  /\ Taken(t, "body")
  /\ LET p == task[t].post IN
       CASE Fault(p) # 0 -> Answers(t, Fault(p))
         [] Read(p).bounce -> Answers(t, 200)
         [] OTHER -> Awaits(t, "claim")
  /\ UNCHANGED <<keys, handled, posted>>

(* set_if_not_exists: the first with these bytes is processed.             *)
Claims(t) ==
  /\ Taken(t, "claim") /\ RawMessage(task[t].post) \notin keys
  /\ keys' = keys \cup {RawMessage(task[t].post)}
  /\ handled' = handled \cup {task[t].post}
  /\ Answers(t, 200)
  /\ UNCHANGED posted

FindsDuplicate(t) ==
  /\ Taken(t, "claim") /\ RawMessage(task[t].post) \in keys
  /\ Answers(t, 200)
  /\ UNCHANGED <<keys, handled, posted>>

HashExpires == (\E k \in keys : keys' = keys \ {k}) /\ UNCHANGED <<task, handled, posted>>

IntakeNext ==
  \/ HashExpires
  \/ \E t \in Tasks :
       \/ LimiterRefuses(t) \/ LimiterAdmits(t) \/ BodyArrives(t) \/ Claims(t) \/ FindsDuplicate(t)
       \/ \E p \in Posts : Arrive(t, p)

IntakeSpec == IntakeInit /\ [][IntakeNext]_intakevars

-----------------------------------------------------------------------------
(* The posts whose fields hold all the text of the message that is         *)
(* relayed: none that brings the MIME source alone, no mail of SES, and    *)
(* Graph's only if the message is put together from them.                  *)
Complete(p) == p.fields /\ (p.by \notin {"ses", "m365"} \/ ~p.raw)

(* Where the fields are complete, what goes on to the recipients has been  *)
(* scanned, whichever of several posts of the mail came first.             *)
SentIsScanned == \A p \in handled : Complete(p) => Relayed(p) \subseteq Scanned(p)

(* Whether its text was in a field of its own or not, a message that       *)
(* carries a body does not lose it on the way.                             *)
BodyArrivesWhole ==
  \A p \in handled :
    p.by \in {"m365", "google"} /\ Scanned(p) # {} => Relayed(p) # {}

(* A 200, other than to a bounce or a subscription, means that the message *)
(* the post makes has been claimed, by this post or another one with the   *)
(* same bytes: never another mail's, if it brought its source.             *)
TwoHundredMeansTaken ==
  \A t \in Tasks :
    Taken(t, "answered") /\ task[t].status = 200 =>
      LET p == task[t].post IN
      \/ p.by = "m365" /\ p.token
      \/ Read(p).bounce
      \/ \E q \in handled :
           /\ RawMessage(q) = RawMessage(p)
           /\ p.raw /\ p.mails # << >> => q.mails # << >> /\ Head(q.mails) = Head(p.mails)

TakenAsSent == SentIsScanned /\ BodyArrivesWhole /\ TwoHundredMeansTaken
=============================================================================
