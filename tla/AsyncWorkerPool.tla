--------------------------- MODULE AsyncWorkerPool ---------------------------
(***************************************************************************)
(* scalability/queue.py: the older queue.  A worker retries the item in    *)
(* its hands itself, with a growing delay, until it succeeds or has failed *)
(* max_retries + 1 times; no other record of the item exists meanwhile.    *)
(* stop() cancels the workers where they await: on an empty queue, in the  *)
(* handler, in the delay.                                                  *)
(***************************************************************************)
EXTENDS Naturals, Sequences

CONSTANTS Items,      \* (bound: each is enqueued once)
          Hands,      \* worker coroutines that may exist at once
          NoItem,
          Capacity,   \* max_size
          Retries,    \* max_retries of every item
          MaxStarts   \* bound on start()

ASSUME PoolAssumption ==
  /\ NoItem \notin Items
  /\ Capacity \in Nat \ {0} /\ Retries \in Nat /\ MaxStarts \in Nat

VARIABLES waitingItems, \* the asyncio.Queue
          given,        \* items whose enqueue() has returned
          handles,       \* handles[h]: the item worker h handles, or NoItem
          loop,         \* loop[h]: "none", "get", "handler", "sleep"
          tries,        \* retry_count
          dead,         \* dlq
          finished,     \* items marked done
          starts,
          dropped       \* bookkeeping: items in the hands of a cancelled worker

pvars == <<waitingItems, given, handles, loop, tries, dead, finished, starts, dropped>>

Waiting == {waitingItems[i] : i \in DOMAIN waitingItems}

PTypeOK ==
  /\ waitingItems \in Seq(Items) /\ Len(waitingItems) <= Capacity
  /\ given \subseteq Items
  /\ handles \in [Hands -> Items \cup {NoItem}]
  /\ loop \in [Hands -> {"none", "get", "handler", "sleep"}]
  /\ tries \in [Items -> 0..(Retries + 1)]
  /\ {dead, finished, dropped} \subseteq SUBSET Items
  /\ starts \in 0..MaxStarts

PInit ==
  /\ waitingItems = << >> /\ given = {}
  /\ handles = [h \in Hands |-> NoItem]
  /\ loop = [h \in Hands |-> "none"]
  /\ tries = [x \in Items |-> 0]
  /\ dead = {} /\ finished = {}
  /\ starts = 0
  /\ dropped = {}

(* enqueue() waits while the queue is full.                                *)
Enqueue(x) ==
  /\ x \notin given
  /\ Len(waitingItems) < Capacity
  /\ given' = given \cup {x}
  /\ waitingItems' = Append(waitingItems, x)
  /\ UNCHANGED <<handles, loop, tries, dead, finished, starts, dropped>>

(* start(), again or for the first time, makes more workers.               *)
StartWorkers ==
  /\ starts < MaxStarts
  /\ starts' = starts + 1
  /\ \E new \in SUBSET {h \in Hands : loop[h] = "none"} :
       /\ new # {}
       /\ loop' = [h \in Hands |-> IF h \in new THEN "get" ELSE loop[h]]
  /\ UNCHANGED <<waitingItems, given, handles, tries, dead, finished, dropped>>

Dequeue(h) ==
  /\ loop[h] = "get"
  /\ waitingItems # << >>
  /\ handles' = [handles EXCEPT ![h] = Head(waitingItems)]
  /\ waitingItems' = Tail(waitingItems)
  /\ loop' = [loop EXCEPT ![h] = "handler"]
  /\ UNCHANGED <<given, tries, dead, finished, starts, dropped>>

Returns(h) == handles' = [handles EXCEPT ![h] = NoItem] /\ loop' = [loop EXCEPT ![h] = "get"]

MarkDone(h) ==
  /\ loop[h] = "handler"
  /\ finished' = finished \cup {handles[h]}
  /\ Returns(h)
  /\ UNCHANGED <<waitingItems, given, tries, dead, starts, dropped>>

(* A deliberate fault: the first failure is not counted as a try.          *)
MoveToDlq_Early(h) ==
  /\ loop[h] = "handler"
  /\ tries[handles[h]] + 1 >= Retries
  /\ tries' = [tries EXCEPT ![handles[h]] = @ + 1]
  /\ dead' = dead \cup {handles[h]}
  /\ Returns(h)
  /\ UNCHANGED <<waitingItems, given, finished, starts, dropped>>

(* The handler raises: the last time ...                                   *)
MoveToDlq(h) ==
  /\ loop[h] = "handler"
  /\ tries[handles[h]] + 1 > Retries
  /\ tries' = [tries EXCEPT ![handles[h]] = @ + 1]
  /\ dead' = dead \cup {handles[h]}
  /\ Returns(h)
  /\ UNCHANGED <<waitingItems, given, finished, starts, dropped>>

(* ... or not.                                                             *)
Sleeps(h) ==
  /\ loop[h] = "handler"
  /\ tries[handles[h]] + 1 <= Retries
  /\ tries' = [tries EXCEPT ![handles[h]] = @ + 1]
  /\ loop' = [loop EXCEPT ![h] = "sleep"]
  /\ UNCHANGED <<waitingItems, given, handles, dead, finished, starts, dropped>>

Wakes(h) ==
  /\ loop[h] = "sleep"
  /\ loop' = [loop EXCEPT ![h] = "handler"]
  /\ UNCHANGED <<waitingItems, given, handles, tries, dead, finished, starts, dropped>>

(* The handler raises CancelledError: the worker ends with its item.       *)
Killed(h) ==
  /\ loop[h] = "handler"
  /\ dropped' = dropped \cup {handles[h]}
  /\ handles' = [handles EXCEPT ![h] = NoItem]
  /\ loop' = [loop EXCEPT ![h] = "none"]
  /\ UNCHANGED <<waitingItems, given, tries, dead, finished, starts>>

StopWorkers ==
  /\ \E h \in Hands : loop[h] # "none"
  /\ dropped' = dropped \cup ({handles[h] : h \in Hands} \ {NoItem})
  /\ handles' = [h \in Hands |-> NoItem]
  /\ loop' = [h \in Hands |-> "none"]
  /\ UNCHANGED <<waitingItems, given, tries, dead, finished, starts>>

PNext ==
  \/ \E x \in Items : Enqueue(x)
  \/ \E h \in Hands : Dequeue(h) \/ MarkDone(h) \/ MoveToDlq(h) \/ Sleeps(h) \/ Wakes(h)
                       \/ Killed(h)
  \/ StartWorkers \/ StopWorkers

PSpec == PInit /\ [][PNext]_pvars

-----------------------------------------------------------------------------
(* Every enqueued item is in exactly one place: queued once, in one        *)
(* worker's hands, done, a dead letter after max_retries + 1 failures, or  *)
(* gone with a cancelled worker: by stop(), or by a handler that raised    *)
(* CancelledError, which are the only losses.                              *)
ItemsAccountedFor ==
  /\ \A i, j \in DOMAIN waitingItems : waitingItems[i] = waitingItems[j] => i = j
  /\ \A g, h \in Hands : handles[g] # NoItem /\ handles[g] = handles[h] => g = h
  /\ LET held == {handles[h] : h \in Hands} \ {NoItem}
         places == <<Waiting, held, finished, dead, dropped>>
     IN /\ given = UNION {places[i] : i \in 1..5}
        /\ \A i, j \in 1..5 : i # j => places[i] \cap places[j] = {}
  /\ \A x \in dead : tries[x] = Retries + 1
  /\ \A x \in given \ dead : tries[x] <= Retries

ItemFate(x) ==
  IF x \notin given THEN "new"
  ELSE IF x \in finished THEN "done"
  ELSE IF x \in dead THEN "dead"
  ELSE IF x \in dropped THEN "lost"
  ELSE "open"

ItemFates == [x \in Items |-> ItemFate(x)]

ItemLedger == INSTANCE TaskLedger WITH
                Entries <- Items, Limit <- Retries + 1, fate <- ItemFates, failures <- tries

(* The older queue implements TaskLedger too, with one failure more: each  *)
(* failure is counted once, through every delay, and neither another       *)
(* worker nor another start brings back an item that has ended.            *)
PoolImplementsLedger == ItemLedger!LSpec
=============================================================================
