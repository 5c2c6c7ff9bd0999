---------------------------- MODULE SMTPReceiver ----------------------------
(***************************************************************************)
(* delivery/smtp_receiver.py: one SMTP session.  data_received() handles   *)
(* the lines of a chunk one after another; the end of a message creates a  *)
(* task, which reads the envelope of the session when it first runs,       *)
(* awaits the processor, answers, and clears the envelope.  Lines that     *)
(* arrive before it ends act on the same envelope.                         *)
(*                                                                         *)
(* The client is external: it sends each mail as MAIL, RCPT, DATA, lines   *)
(* and the final dot, and takes every reply as the answer to the oldest    *)
(* command it has not had an answer to.  The receiver does not offer       *)
(* PIPELINING; a client may still not wait for answers.                    *)
(***************************************************************************)
EXTENDS Naturals, Sequences, FiniteSets, SequencesExt

CONSTANTS Mails,     \* what the client has to send, each with an envelope of its own
          Length,    \* Length[t]: lines of t's data
          SizeLimit,   \* max_message_size, in lines
          MaxMails,  \* bound: mails sent in one session
          NoMail

ASSUME SMTPReceiverAssumption ==
  /\ NoMail \notin Mails
  /\ Length \in [Mails -> Nat \ {0}]
  /\ SizeLimit \in Nat /\ MaxMails \in Nat

VARIABLES state,     \* "COMMAND" or "DATA"
          mailFrom,  \* mail_from: the mail whose sender it is, or NoMail
          rcptTo,    \* rcpt_to: the mails whose recipients it lists
          buffer,    \* data_buffer
          size,      \* data_bytes_count
          tasks,     \* tasks of _process_message_async, in order of creation
          open,      \* the transport is not closing
          inbound,   \* lines on their way to the receiver
          replies,   \* replies on their way to the client, each with its code
          eager,     \* the client does not wait for answers
          sending,   \* the mail the client sends, and the lines it still has to send
          unanswered,\* commands of the client without an answer, oldest first
          left,      \* mails not begun
          told,      \* told[t]: what the client believes of t
          processed, \* bookkeeping: what the processor was given, and its verdict
          oversized  \* bookkeeping: a message was too large

server == <<state, mailFrom, rcptTo, buffer, size, tasks>>
client == <<eager, sending, unanswered, left, told>>
svars == <<server, open, inbound, replies, client, processed, oversized>>

Line(cmd, t) == [cmd |-> cmd, mail |-> t]
Script(t) == <<Line("MAIL", t), Line("RCPT", t), Line("DATA", t)>>
             \o [i \in 1..Length[t] |-> Line("text", t)] \o <<Line("dot", t)>>

STypeOK ==
  /\ state \in {"COMMAND", "DATA"}
  /\ mailFrom \in Mails \cup {NoMail}
  /\ rcptTo \subseteq Mails
  /\ buffer \in Seq(Mails) /\ Len(buffer) <= SizeLimit
  /\ \A i \in DOMAIN tasks : tasks[i].at \in {"created", "processing"} /\ tasks[i].data \subseteq Mails
  /\ {open, eager, oversized} \subseteq BOOLEAN
  /\ left \subseteq Mails
  /\ told \in [Mails -> {"nothing", "accepted", "refused"}]

SInitial ==
  /\ state = "COMMAND"
  /\ mailFrom = NoMail /\ rcptTo = {} /\ buffer = << >> /\ size = 0
  /\ tasks = << >>
  /\ open = TRUE
  /\ inbound = << >> /\ replies = << >>
  /\ eager \in BOOLEAN
  /\ sending = << >>
  /\ unanswered = << >>
  /\ left = Mails
  /\ told = [t \in Mails |-> "nothing"]
  /\ processed = {}
  /\ oversized = FALSE

-----------------------------------------------------------------------------
(* The client.                                                             *)

BeginMail(t) ==
  /\ open /\ sending = << >> /\ t \in left
  /\ Cardinality(Mails \ left) < MaxMails
  /\ eager \/ unanswered = << >>
  /\ left' = left \ {t}
  /\ sending' = Script(t)
  /\ UNCHANGED <<server, open, inbound, replies, eager, unanswered, told, processed, oversized>>

SendLine ==
  /\ open /\ sending # << >>
  /\ eager \/ unanswered = << >>
  /\ inbound' = Append(inbound, Head(sending))
  /\ sending' = Tail(sending)
  /\ unanswered' = IF Head(sending).cmd = "text" THEN unanswered
                   ELSE Append(unanswered, Head(sending))
  /\ UNCHANGED <<server, open, replies, eager, left, told, processed, oversized>>

(* A command that is refused makes the client give the mail up and reset.  *)
ReadReply ==
  /\ replies # << >> /\ unanswered # << >>
  /\ LET asked == Head(unanswered)
         code == Head(replies)
         good == IF asked.cmd = "DATA" THEN code = 354 ELSE code = 250
     IN IF asked.cmd = "RSET" THEN UNCHANGED <<told, sending>>
        ELSE IF asked.cmd = "dot"
             THEN /\ told' = [told EXCEPT ![asked.mail] = IF good THEN "accepted" ELSE "refused"]
                  /\ UNCHANGED sending
             ELSE IF good \/ eager THEN UNCHANGED <<told, sending>>
                  ELSE /\ told' = [told EXCEPT ![asked.mail] = "refused"]
                       /\ sending' = <<Line("RSET", asked.mail)>>
  /\ replies' = Tail(replies)
  /\ unanswered' = Tail(unanswered)
  /\ UNCHANGED <<server, open, inbound, eager, left, processed, oversized>>

(* QUIT, or the client hangs up: the lines already received are still      *)
(* handled, replies are not written any more, tasks go on.                 *)
HangUp ==
  /\ open
  /\ open' = FALSE
  /\ UNCHANGED <<server, inbound, replies, client, processed, oversized>>

-----------------------------------------------------------------------------
(* data_received(): one line.                                              *)

Receives(cmd) == inbound # << >> /\ Head(inbound).cmd = cmd /\ inbound' = Tail(inbound)
It == Head(inbound).mail
Answer(code) == replies' = IF open THEN Append(replies, code) ELSE replies

(* handle_command_line().                                                  *)
CommandLine ==
  /\ state = "COMMAND"
  /\ \/ /\ Receives("MAIL")
        /\ mailFrom' = It /\ rcptTo' = {}
        /\ Answer(250)
        /\ UNCHANGED <<state, buffer, size>>
     \/ /\ Receives("RCPT") /\ mailFrom = NoMail
        /\ Answer(503)
        /\ UNCHANGED <<state, mailFrom, rcptTo, buffer, size>>
     \/ /\ Receives("RCPT") /\ mailFrom # NoMail
        /\ rcptTo' = rcptTo \cup {It}
        /\ Answer(250)
        /\ UNCHANGED <<state, mailFrom, buffer, size>>
     \/ /\ Receives("DATA") /\ rcptTo = {}
        /\ Answer(503)
        /\ UNCHANGED <<state, mailFrom, rcptTo, buffer, size>>
     \/ /\ Receives("DATA") /\ rcptTo # {}
        /\ state' = "DATA" /\ buffer' = << >> /\ size' = 0
        /\ Answer(354)
        /\ UNCHANGED <<mailFrom, rcptTo>>
     \/ /\ Receives("RSET")
        /\ mailFrom' = NoMail /\ rcptTo' = {} /\ buffer' = << >>
        /\ Answer(250)
        /\ UNCHANGED <<state, size>>
     \/ /\ Receives("text") \/ Receives("dot")
        /\ Answer(500)
        /\ UNCHANGED <<state, mailFrom, rcptTo, buffer, size>>
  /\ UNCHANGED <<tasks, open, client, processed, oversized>>

(* A deliberate fault: the message is acknowledged before it is processed. *)
EndOfData_AnswersAtOnce ==
  /\ state = "DATA"
  /\ Receives("dot")
  /\ state' = "COMMAND"
  /\ Answer(250)
  /\ UNCHANGED <<mailFrom, rcptTo, buffer, size, tasks, open, client, processed, oversized>>

(* handle_data_line(): the final dot, or a line; one too many ends DATA in *)
(* the middle of the message.                                              *)
EndOfData ==
  /\ state = "DATA"
  /\ Receives("dot")
  /\ state' = "COMMAND"
  /\ tasks' = Append(tasks, [at |-> "created", data |-> ToSet(buffer),
                             from |-> NoMail, to |-> {}])
  /\ UNCHANGED <<mailFrom, rcptTo, buffer, size, open, replies, client, processed, oversized>>

DataLine ==
  /\ state = "DATA"
  /\ inbound # << >> /\ Head(inbound).cmd # "dot" /\ inbound' = Tail(inbound)
  /\ size' = size + 1
  /\ IF size + 1 > SizeLimit
     THEN /\ state' = "COMMAND" /\ buffer' = << >>
          /\ Answer(552)
          /\ oversized' = TRUE
     ELSE /\ buffer' = Append(buffer, It)
          /\ UNCHANGED <<state, replies, oversized>>
  /\ UNCHANGED <<mailFrom, rcptTo, tasks, open, client, processed>>

-----------------------------------------------------------------------------
(* _process_message_async().                                               *)

TaskStarts(i) ==
  /\ i \in DOMAIN tasks /\ tasks[i].at = "created"
  /\ \A j \in 1..(i - 1) : tasks[j].at # "created"
  /\ tasks' = [tasks EXCEPT ![i].at = "processing", ![i].from = mailFrom, ![i].to = rcptTo]
  /\ UNCHANGED <<state, mailFrom, rcptTo, buffer, size, open, inbound, replies, client,
                 processed, oversized>>

TaskEnds(i, verdict) ==
  /\ i \in DOMAIN tasks /\ tasks[i].at = "processing"
  /\ processed' = processed \cup
       {[data |-> tasks[i].data, from |-> tasks[i].from, to |-> tasks[i].to, verdict |-> verdict]}
  /\ Answer(CASE verdict = "passed" -> 250 [] verdict = "held" -> 550 [] verdict = "raised" -> 451)
  /\ mailFrom' = NoMail /\ rcptTo' = {} /\ buffer' = << >>
  /\ tasks' = RemoveAt(tasks, i)
  /\ UNCHANGED <<state, size, open, inbound, client, oversized>>

ClientStep == (\E t \in Mails : BeginMail(t)) \/ SendLine \/ ReadReply \/ HangUp

TaskStep ==
  \E i \in DOMAIN tasks :
    TaskStarts(i) \/ \E verdict \in {"passed", "held", "raised"} : TaskEnds(i, verdict)

SNext == ClientStep \/ CommandLine \/ EndOfData \/ DataLine \/ TaskStep

SSpec == SInitial /\ [][SNext]_svars

-----------------------------------------------------------------------------
(* Properties.                                                             *)

(* What a client that waits for its answers is told is what happened: an   *)
(* accepted mail was processed with its own envelope and let through, a    *)
(* refused one was not let through.  It holds until a message exceeds the  *)
(* limit: from then on the receiver answers the rest of the message line   *)
(* by line and the client takes answers for those of other commands.       *)
AnswerTold ==
  eager \/ oversized \/
    \A t \in Mails :
      LET passed == \E p \in processed : p.data = {t} /\ p.verdict = "passed"
      IN /\ told[t] = "accepted" => [data |-> {t}, from |-> t, to |-> {t}, verdict |-> "passed"]
                                      \in processed
         /\ told[t] = "refused" => ~passed

(* A client that does not wait may have a message processed with another   *)
(* one's envelope, with none, or with lines missing, as the end of a task  *)
(* clears the session it reads.  Still no message has lines of two mails,  *)
(* nor the sender of one and recipients of another, oversized or not.      *)
NothingMixed ==
  eager => \A p \in processed :
             p.to \subseteq {p.from} /\ \A a, b \in p.data : a = b

(* Both: for clients that wait and for those that do not.                  *)
AnswersAreOwn == AnswerTold /\ NothingMixed
=============================================================================
