----------------------------- MODULE MessageQueue -----------------------------
(***************************************************************************)
(* scalability/message_queue.py: the queue between receiving mail and      *)
(* analysing it, with its workers, retries and dead letters.  Workers and  *)
(* producers are coroutines of one process and interleave where they       *)
(* await: on a full queue, on an empty one, and inside the handler of a    *)
(* task.  A worker whose task fails puts it back itself, and waits for     *)
(* room like any producer.  The one record of a task in hand is _pending.  *)
(***************************************************************************)
EXTENDS Naturals, Sequences

CONSTANTS Jobs,        \* the MessageTasks (bound: each is enqueued once)
          Workers,     \* worker coroutines (bound: as many at a time, of all starts)
          NoJob,       \* a worker with empty hands
          MaxSize,     \* maxsize of the asyncio.Queue
          MaxRetries,  \* max_retries
          Interrupted  \* bound: may the pool be stopped, a handler cancelled

ASSUME QueueAssumption ==
  /\ NoJob \notin Jobs
  /\ MaxSize \in Nat \ {0} /\ MaxRetries \in Nat \ {0}
  /\ Interrupted \in BOOLEAN

VARIABLES stage,    \* stage[k]: new, offered (enqueue waits for room), accepted
          queue,    \* _queue
          pending,  \* _pending
          dlq,      \* _dlq
          retries,  \* retries[k]
          at,       \* at[w]: where worker w stands
          job,      \* job[w]: the task in w's hands
          listed,   \* _workers: those of the last start(), none after stop()
          done      \* tasks whose handler returned (bookkeeping)

vars == <<stage, queue, pending, dlq, retries, at, job, listed, done>>

(* _running: start() and stop() change it together with _workers.          *)
Running == listed # {}

Queued == {queue[i] : i \in DOMAIN queue}
Room   == Len(queue) < MaxSize

TypeOK ==
  /\ stage   \in [Jobs -> {"new", "offered", "accepted"}]
  /\ queue   \in Seq(Jobs)
  /\ pending \subseteq Jobs
  /\ dlq     \subseteq Jobs
  /\ retries \in [Jobs -> 0..MaxRetries]
  /\ at      \in [Workers -> {"gone", "waiting", "handling", "requeue"}]
  /\ job     \in [Workers -> Jobs \cup {NoJob}]
  /\ listed  \subseteq Workers
  /\ done    \subseteq Jobs

Init ==
  /\ stage   = [k \in Jobs |-> "new"]
  /\ queue   = << >>
  /\ pending = {}
  /\ dlq     = {}
  /\ retries = [k \in Jobs |-> 0]
  /\ at      = [w \in Workers |-> "gone"]
  /\ job     = [w \in Workers |-> NoJob]
  /\ listed  = {}
  /\ done    = {}

-----------------------------------------------------------------------------
(* enqueue().                                                              *)

Offer(k) ==
  /\ stage[k] = "new"
  /\ stage' = [stage EXCEPT ![k] = "offered"]
  /\ UNCHANGED <<queue, pending, dlq, retries, at, job, listed, done>>

(* put() has room; nothing is awaited before _pending is set.              *)
Accept(k) ==
  /\ stage[k] = "offered"
  /\ Room
  /\ stage' = [stage EXCEPT ![k] = "accepted"]
  /\ queue' = Append(queue, k)
  /\ pending' = pending \cup {k}
  /\ UNCHANGED <<dlq, retries, at, job, listed, done>>

-----------------------------------------------------------------------------
(* _worker_loop().                                                         *)

(* The loop goes round while the pool runs.                                *)
Ends(w) ==
  /\ at' = [at EXCEPT ![w] = IF Running THEN "waiting" ELSE "gone"]
  /\ job' = [job EXCEPT ![w] = NoJob]
  /\ UNCHANGED listed

(* A deliberate fault: the task is looked at and left in the queue.        *)
Take_Peeks(w) ==
  /\ at[w] = "waiting"
  /\ queue # << >>
  /\ at' = [at EXCEPT ![w] = "handling"]
  /\ job' = [job EXCEPT ![w] = Head(queue)]
  /\ UNCHANGED <<stage, queue, pending, dlq, retries, listed, done>>

Take(w) ==
  /\ at[w] = "waiting"
  /\ queue # << >>
  /\ at' = [at EXCEPT ![w] = "handling"]
  /\ job' = [job EXCEPT ![w] = Head(queue)]
  /\ queue' = Tail(queue)
  /\ UNCHANGED <<stage, pending, dlq, retries, listed, done>>

(* The handler returns: ack().                                             *)
Succeeds(w) ==
  /\ at[w] = "handling"
  /\ Ends(w)
  /\ pending' = pending \ {job[w]}
  /\ done' = done \cup {job[w]}
  /\ UNCHANGED <<stage, queue, dlq, retries>>

(* The handler raises: nack() counts the failure.                          *)
Fails(w) ==
  /\ at[w] = "handling"
  /\ retries' = [retries EXCEPT ![job[w]] = @ + 1]

(* Deliberate faults: the failure is not counted; a dead letter is left in *)
(* _pending.                                                               *)
PutsBack_NotCounted(w) ==
  /\ at[w] = "handling"
  /\ Room
  /\ queue' = Append(queue, job[w])
  /\ Ends(w)
  /\ UNCHANGED <<stage, pending, dlq, retries, done>>

Buries_StaysPending(w) ==
  /\ Fails(w)
  /\ retries[job[w]] + 1 >= MaxRetries
  /\ dlq' = dlq \cup {job[w]}
  /\ Ends(w)
  /\ UNCHANGED <<stage, queue, pending, done>>

(* The last failure: the dead letter queue.                                *)
Buries(w) ==
  /\ Fails(w)
  /\ retries[job[w]] + 1 >= MaxRetries
  /\ pending' = pending \ {job[w]}
  /\ dlq' = dlq \cup {job[w]}
  /\ Ends(w)
  /\ UNCHANGED <<stage, queue, done>>

(* A deliberate fault: the task goes back as a new one.                    *)
PutsBack_Afresh(w) ==
  /\ at[w] = "handling"
  /\ retries[job[w]] + 1 < MaxRetries
  /\ Room
  /\ retries' = [retries EXCEPT ![job[w]] = 0]
  /\ queue' = Append(queue, job[w])
  /\ Ends(w)
  /\ UNCHANGED <<stage, pending, dlq, done>>

(* An earlier one: back into the queue, at once if there is room.          *)
PutsBack(w) ==
  /\ Fails(w)
  /\ retries[job[w]] + 1 < MaxRetries
  /\ Room
  /\ queue' = Append(queue, job[w])
  /\ Ends(w)
  /\ UNCHANGED <<stage, pending, dlq, done>>

WaitsForRoom(w) ==
  /\ Fails(w)
  /\ retries[job[w]] + 1 < MaxRetries
  /\ ~Room
  /\ at' = [at EXCEPT ![w] = "requeue"]
  /\ UNCHANGED <<stage, queue, pending, dlq, job, listed, done>>

FindsRoom(w) ==
  /\ at[w] = "requeue"
  /\ Room
  /\ queue' = Append(queue, job[w])
  /\ Ends(w)
  /\ UNCHANGED <<stage, pending, dlq, retries, done>>

(* The handler raises CancelledError: the worker leaves its loop for good. *)
Cancelled(w) ==
  /\ Interrupted
  /\ at[w] = "handling"
  /\ at' = [at EXCEPT ![w] = "gone"]
  /\ job' = [job EXCEPT ![w] = NoJob]
  /\ UNCHANGED <<stage, queue, pending, dlq, retries, listed, done>>

(* Nothing came within the 50 ms of wait_for, and the pool has stopped.    *)
Leaves(w) ==
  /\ at[w] = "waiting" /\ ~Running
  /\ at' = [at EXCEPT ![w] = "gone"]
  /\ UNCHANGED <<stage, queue, pending, dlq, retries, job, listed, done>>

-----------------------------------------------------------------------------
(* start() creates workers and forgets those of an earlier start() that is *)
(* still underway; stop() cancels the ones it knows wherever they await,   *)
(* with what is in their hands.  The others end their task first.          *)

Start ==
  /\ \E new \in SUBSET {w \in Workers : at[w] = "gone"} :
       /\ new # {}
       /\ at' = [w \in Workers |-> IF w \in new THEN "waiting" ELSE at[w]]
       /\ listed' = new
  /\ UNCHANGED <<stage, queue, pending, dlq, retries, job, done>>

Stop ==
  /\ Interrupted
  /\ Running
  /\ at' = [w \in Workers |-> IF w \in listed THEN "gone" ELSE at[w]]
  /\ job' = [w \in Workers |-> IF w \in listed THEN NoJob ELSE job[w]]
  /\ listed' = {}
  /\ UNCHANGED <<stage, queue, pending, dlq, retries, done>>

(* The handler of w's task comes to an end.                                *)
Handled(w) ==
  Succeeds(w) \/ Buries(w) \/ PutsBack(w) \/ WaitsForRoom(w) \/ Cancelled(w)

Next ==
  \/ \E k \in Jobs : Offer(k) \/ Accept(k)
  \/ \E w \in Workers : Take(w) \/ Handled(w) \/ FindsRoom(w) \/ Leaves(w)
  \/ Start \/ Stop

Spec == Init /\ [][Next]_vars

(* Handlers end; a worker or producer that could go on again and again     *)
(* does, for asyncio.Queue wakes its waiters first in, first out.  Nothing *)
(* obliges anyone to send mail or to stop the pool.                        *)
Fairness ==
  /\ \A w \in Workers : WF_vars(Handled(w)) /\ SF_vars(Take(w)) /\ SF_vars(FindsRoom(w))
  /\ \A k \in Jobs : SF_vars(Accept(k))

FairSpec == Spec /\ Fairness

-----------------------------------------------------------------------------
(* Properties.                                                             *)

(* A task is in one place: once in the queue, in one worker's hands, dead, *)
(* or done.  No stop, restart or retry makes two workers handle it at once *)
(* or brings it back after it has ended.                                   *)
OnePlace ==
  /\ \A i, j \in DOMAIN queue : queue[i] = queue[j] => i = j
  /\ \A w, v \in Workers : job[w] # NoJob /\ job[w] = job[v] => w = v
  /\ \A w \in Workers : job[w] \notin Queued \cup dlq \cup done
  /\ Queued \cap (dlq \cup done) = {}
  /\ dlq \cap done = {}

(* _pending lists exactly the accepted tasks that have not ended: it is    *)
(* where a task can still be found whose worker was cancelled.             *)
PendingIsTheTrace ==
  pending = {k \in Jobs : stage[k] = "accepted"} \ (dlq \cup done)

(* A task is given up after MaxRetries failures, not before and not after. *)
DeadLettersExhausted ==
  /\ \A k \in dlq : retries[k] = MaxRetries
  /\ \A k \in pending : retries[k] < MaxRetries

(* No worker is active: each is gone, or waits to put its task back.        *)
Wedged == \A w \in Workers : at[w] = "gone" \/ (at[w] = "requeue" /\ ~Room)

(* A task whose worker was cancelled: _pending is all that knows of it.    *)
Lost(k) == k \in pending \ Queued /\ \A w \in Workers : job[w] # k

Fate(k) ==
  IF stage[k] # "accepted" THEN "new"
  ELSE IF k \in done THEN "done"
  ELSE IF k \in dlq THEN "dead"
  ELSE IF Lost(k) THEN "lost"
  ELSE "open"

Fates == [k \in Jobs |-> Fate(k)]

Ledger == INSTANCE TaskLedger WITH
            Entries <- Jobs, Limit <- MaxRetries, fate <- Fates, failures <- retries

(* The queue implements TaskLedger.  A task waits, is handled, fails and   *)
(* waits for room as often as it will, and is open all along; each failure *)
(* is counted once; a task left behind by a cancelled worker is never      *)
(* handled again, not even when the pool is started anew.                  *)
ImplementsLedger == Ledger!LSpec

(* docs/modules/scalability.md: a failing task is retried and then moved   *)
(* to the dead letter queue without dropping the mail.  An accepted task   *)
(* is done or dead in the end, unless its worker was cancelled with it, or *)
(* no worker is ever active again: the pool is stopped, or all of its      *)
(* workers wait for room that only they could make.                        *)
TasksEnd ==
  \A k \in Jobs :
    stage[k] = "accepted" ~> (k \in dlq \cup done \/ Lost(k) \/ []Wedged)
=============================================================================
