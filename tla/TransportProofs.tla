-------------------------- MODULE TransportProofs ---------------------------
(***************************************************************************)
(* Proofs about what hands mail on inside the process: the two queues,     *)
(* MessageQueue and AsyncWorkerPool, for any number of tasks, workers and  *)
(* tries and any size of the queue, and SMTPReceiver, for every set of     *)
(* mails of any length and every limit.                                    *)
(***************************************************************************)
EXTENDS MessageQueue, AsyncWorkerPool, SMTPReceiver, TLAPS

-----------------------------------------------------------------------------
(* MessageQueue and AsyncWorkerPool.                                       *)

(* What is in hand or in the queue is accepted and has not ended; a worker *)
(* has a task in hand exactly while it handles it or waits to put it back. *)
HandsMatch ==
  \A w \in Workers : (job[w] = NoJob) <=> (at[w] \in {"gone", "waiting"})

Places ==
  /\ Queued \subseteq pending
  /\ \A w \in Workers : job[w] \in pending \cup {NoJob}
  /\ \A k \in dlq \cup done : stage[k] = "accepted"
  /\ \A k \in Jobs : stage[k] # "accepted" => retries[k] = 0

(* OnePlace in two parts: what it says of the queue alone, and the rest.   *)
Elements(q) == {q[i] : i \in DOMAIN q}
Distinct(q) == \A i, j \in DOMAIN q : q[i] = q[j] => i = j

Apart ==
  /\ \A w, v \in Workers : job[w] # NoJob /\ job[w] = job[v] => w = v
  /\ \A w \in Workers : job[w] \notin Queued \cup dlq \cup done
  /\ Queued \cap (dlq \cup done) = {}
  /\ dlq \cap done = {}

LEMMA OnePlaceParts ==
  /\ OnePlace <=> Distinct(queue) /\ Apart
  /\ Queued = Elements(queue) /\ Queued' = Elements(queue')
  BY DEF OnePlace, Distinct, Apart, Queued, Elements

MInv ==
  /\ TypeOK /\ HandsMatch /\ Places
  /\ Distinct(queue) /\ Apart /\ PendingIsTheTrace /\ DeadLettersExhausted

(* Members of the queue after a task is appended, and after one is taken.  *)
LEMMA AppendMembers ==
  ASSUME NEW S, NEW q \in Seq(S), NEW k \in S,
         Distinct(q), k \notin Elements(q)
  PROVE  /\ Append(q, k) \in Seq(S)
         /\ Elements(Append(q, k)) = Elements(q) \cup {k}
         /\ Distinct(Append(q, k))
<1> DEFINE r == Append(q, k)
<1> USE DEF Elements, Distinct
<1>1. r \in Seq(S) /\ Len(r) = Len(q) + 1 /\ Len(q) \in Nat
  OBVIOUS
<1>2. DOMAIN q = 1..Len(q) /\ DOMAIN r = 1..(Len(q) + 1)
  BY <1>1
<1>3. \A i \in 1..Len(q) : r[i] = q[i]
  BY <1>1
<1>4. r[Len(q) + 1] = k
  OBVIOUS
<1>5. {r[i] : i \in DOMAIN r} = {q[i] : i \in DOMAIN q} \cup {k}
  BY <1>1, <1>2, <1>3, <1>4
<1>6. \A i, j \in DOMAIN r : r[i] = r[j] => i = j
  BY <1>1, <1>2, <1>3, <1>4
<1>7. QED
  BY <1>1, <1>5, <1>6

LEMMA TailMembers ==
  ASSUME NEW S, NEW q \in Seq(S), q # << >>,
         Distinct(q),
         NEW r, r = Tail(q)
  PROVE  /\ Head(q) \in S /\ Head(q) \in Elements(q)
         /\ r \in Seq(S) /\ Elements(r) = Elements(q) \ {Head(q)} /\ Distinct(r)
<1> USE DEF Elements, Distinct
<1>1. Len(q) \in Nat /\ Len(q) # 0
  OBVIOUS
<1>2. r \in Seq(S) /\ Len(r) = Len(q) - 1
  OBVIOUS
<1>3. DOMAIN q = 1..Len(q) /\ DOMAIN r = 1..(Len(q) - 1)
  BY <1>1, <1>2
<1>4. \A i \in 1..(Len(q) - 1) : r[i] = q[i + 1]
  BY <1>1
<1>5. Head(q) = q[1] /\ 1 \in DOMAIN q
  BY <1>1, <1>3
<1>6. \A i, j \in DOMAIN r : r[i] = r[j] => i = j
  BY <1>1, <1>3, <1>4
<1>7. ASSUME NEW x \in {r[i] : i \in DOMAIN r}
      PROVE  x \in {q[i] : i \in DOMAIN q} \ {Head(q)}
  <2>1. PICK i \in 1..(Len(q) - 1) : x = q[i + 1]
    BY <1>3, <1>4
  <2>2. i + 1 \in DOMAIN q /\ i + 1 # 1
    BY <1>1, <1>3
  <2>3. QED
    BY <2>1, <2>2, <1>5
<1>8. ASSUME NEW x \in {q[i] : i \in DOMAIN q} \ {Head(q)}
      PROVE  x \in {r[i] : i \in DOMAIN r}
  <2>1. PICK i \in 1..Len(q) : x = q[i]
    BY <1>3
  <2>2. i - 1 \in 1..(Len(q) - 1)
    BY <2>1, <1>1, <1>5
  <2>3. r[i - 1] = x
    BY <2>1, <2>2, <1>4
  <2>4. QED
    BY <2>2, <2>3, <1>3
<1>9. {r[i] : i \in DOMAIN r} = {q[i] : i \in DOMAIN q} \ {Head(q)}
  BY <1>7, <1>8
<1>10. Head(q) \in S /\ Head(q) \in {q[i] : i \in DOMAIN q}
  BY <1>3, <1>5
<1>11. QED
  BY <1>2, <1>6, <1>9, <1>10

(* enqueue() adds a task that is nowhere yet.                              *)
LEMMA AcceptInv ==
  ASSUME MInv, NEW k \in Jobs, Accept(k)
  PROVE  MInv'
<1> USE QueueAssumption DEF MInv, TypeOK
<1>1. k \notin pending \cup dlq \cup done /\ retries[k] = 0
  BY DEF Accept, PendingIsTheTrace, Places
<1>2. k \notin Queued /\ \A w \in Workers : job[w] # k
  BY <1>1 DEF Places
<1>3. /\ queue' \in Seq(Jobs)
      /\ Queued' = Queued \cup {k}
      /\ Distinct(queue')
  <2>1. k \notin Elements(queue) /\ queue' = Append(queue, k)
    BY <1>2, OnePlaceParts DEF Accept
  <2>2. /\ queue' \in Seq(Jobs)
        /\ Elements(queue') = Elements(queue) \cup {k}
        /\ Distinct(queue')
    <3>1. queue \in Seq(Jobs) /\ Distinct(queue) /\ k \in Jobs
      OBVIOUS
    <3> HIDE DEF MInv, TypeOK
    <3> QED BY <2>1, <3>1, AppendMembers
  <2>3. QED
    BY <2>2, OnePlaceParts
<1>4. TypeOK' /\ HandsMatch'
  BY <1>3 DEF Accept, HandsMatch
<1>5. Places'
  BY <1>1, <1>3 DEF Accept, Places
<1>6. Apart'
  BY <1>1, <1>2, <1>3 DEF Accept, Apart
<1>7. PendingIsTheTrace'
  BY <1>1 DEF Accept, PendingIsTheTrace
<1>8. DeadLettersExhausted'
  BY <1>1 DEF Accept, DeadLettersExhausted
<1>9. QED
  BY <1>3, <1>4, <1>5, <1>6, <1>7, <1>8

LEMMA TakeInv ==
  ASSUME MInv, NEW w \in Workers, Take(w)
  PROVE  MInv'
<1> USE QueueAssumption DEF MInv, TypeOK
<1>1. /\ queue' \in Seq(Jobs)
      /\ Head(queue) \in Jobs /\ Head(queue) \in Queued
      /\ Queued' = Queued \ {Head(queue)}
      /\ Distinct(queue')
  <2>1. queue' = Tail(queue) /\ queue # << >>
    BY DEF Take
  <2>2. QED
    BY <2>1, TailMembers, OnePlaceParts
<1>2. Head(queue) \in pending /\ \A v \in Workers : job[v] # Head(queue)
  BY <1>1 DEF Places, Apart
<1>3. TypeOK' /\ HandsMatch'
  BY <1>1 DEF Take, HandsMatch
<1>4. Places'
  BY <1>1, <1>2 DEF Take, Places
<1>5. Apart'
  BY <1>1, <1>2 DEF Take, Apart
<1>6. PendingIsTheTrace' /\ DeadLettersExhausted'
  BY DEF Take, PendingIsTheTrace, DeadLettersExhausted
<1>7. QED
  BY <1>1, <1>3, <1>4, <1>5, <1>6

(* A worker whose task is out of its hands goes round, or leaves.          *)
LEMMA EndsHands ==
  ASSUME NEW w \in Workers, Ends(w)
  PROVE  /\ \E x \in {"waiting", "gone"} : at' = [at EXCEPT ![w] = x]
         /\ job' = [job EXCEPT ![w] = NoJob] /\ listed' = listed
<1>1. CASE Running
  BY <1>1 DEF Ends
<1>2. CASE ~Running
  BY <1>2 DEF Ends
<1> QED BY <1>1, <1>2

(* The task in hand ends: it leaves pending and is a dead letter or done.  *)
LEMMA EndsInv ==
  ASSUME MInv, NEW w \in Workers, Succeeds(w) \/ Buries(w)
  PROVE  MInv'
<1> USE QueueAssumption DEF MInv, TypeOK
<1>1. at[w] = "handling" /\ job[w] \in Jobs /\ job[w] \in pending
  BY DEF Succeeds, Buries, Fails, HandsMatch, Places
<1>2. /\ job[w] \notin Queued \cup dlq \cup done
      /\ stage[job[w]] = "accepted"
      /\ retries[job[w]] < MaxRetries
      /\ \A v \in Workers : v # w => job[v] # job[w]
  BY <1>1 DEF Apart, PendingIsTheTrace, DeadLettersExhausted
<1>3. /\ pending' = pending \ {job[w]}
      /\ queue' = queue /\ Queued' = Queued /\ stage' = stage
      /\ \E x \in {"waiting", "gone"} : at' = [at EXCEPT ![w] = x]
      /\ job' = [job EXCEPT ![w] = NoJob] /\ listed' = listed
      /\ \/ dlq' = dlq /\ done' = done \cup {job[w]} /\ retries' = retries
         \/ /\ dlq' = dlq \cup {job[w]} /\ done' = done
            /\ retries' = [retries EXCEPT ![job[w]] = MaxRetries]
  <2>1. CASE Succeeds(w)
    BY <2>1, EndsHands DEF Succeeds, Queued
  <2>2. CASE Buries(w)
    <3>1. retries[job[w]] + 1 = MaxRetries
      BY <2>2, <1>1, <1>2 DEF Buries
    <3>2. retries' = [retries EXCEPT ![job[w]] = MaxRetries]
      BY <2>2, <3>1 DEF Buries, Fails
    <3>3. QED
      BY <2>2, <3>2, EndsHands DEF Buries, Queued
  <2>3. QED
    BY <2>1, <2>2
<1>4. TypeOK' /\ HandsMatch'
  <2>1. PICK x \in {"waiting", "gone"} : at' = [at EXCEPT ![w] = x]
    BY <1>3
  <2>2. HandsMatch'
    BY <2>1, <1>3 DEF HandsMatch
  <2>3. TypeOK'
    BY <2>1, <1>1, <1>3
  <2> QED BY <2>2, <2>3
<1>5. Places'
  BY <1>1, <1>2, <1>3 DEF Places
<1>6. Apart'
  <2>1. \A v \in Workers : job'[v] = IF v = w THEN NoJob ELSE job[v]
    BY <1>3
  <2>2. \A v \in Workers : job'[v] # job[w]
    BY <2>1, <1>1, <1>2
  <2>3. \A v, u \in Workers : job'[v] # NoJob /\ job'[v] = job'[u] => v = u
    BY <2>1 DEF Apart
  <2>4. dlq' \cup done' = (dlq \cup done) \cup {job[w]}
    BY <1>3
  <2>5. \A v \in Workers : job'[v] \notin Queued' \cup dlq' \cup done'
    <3>1. \A v \in Workers : job'[v] \notin Queued \cup dlq \cup done
      <4>1. NoJob \notin Queued \cup dlq \cup done
        BY <1>1 DEF Places
      <4>2. \A v \in Workers : job[v] \notin Queued \cup dlq \cup done
        BY <1>1, <4>1 DEF Apart
      <4> QED BY <2>1, <4>1, <4>2
    <3>2. QED
      BY <3>1, <2>2, <2>4, <1>3
  <2>6. Queued' \cap (dlq' \cup done') = {} /\ dlq' \cap done' = {}
    BY <1>2, <1>3, <2>4 DEF Apart
  <2>7. QED
    BY <2>3, <2>5, <2>6 DEF Apart
<1>7. PendingIsTheTrace'
  BY <1>1, <1>2, <1>3 DEF PendingIsTheTrace
<1>8. DeadLettersExhausted'
  BY <1>1, <1>2, <1>3 DEF DeadLettersExhausted
<1>9. QED
  BY <1>3, <1>4, <1>5, <1>6, <1>7, <1>8

(* A failed task goes back, and its worker's hands are empty.              *)
LEMMA BackInv ==
  ASSUME MInv, NEW w \in Workers, PutsBack(w) \/ FindsRoom(w)
  PROVE  MInv'
<1> USE QueueAssumption DEF MInv, TypeOK
<1>1. job[w] \in Jobs /\ job[w] \in pending
  BY DEF PutsBack, FindsRoom, Fails, HandsMatch, Places
<1>2. /\ job[w] \notin Queued \cup dlq \cup done
      /\ stage[job[w]] = "accepted"
      /\ \A v \in Workers : v # w => job[v] # job[w]
  BY <1>1 DEF Apart, PendingIsTheTrace
<1>3. /\ queue' = Append(queue, job[w])
      /\ \E x \in {"waiting", "gone"} : at' = [at EXCEPT ![w] = x]
      /\ job' = [job EXCEPT ![w] = NoJob] /\ listed' = listed
      /\ UNCHANGED <<stage, pending, dlq, done>>
      /\ \/ retries' = retries
         \/ /\ retries' = [retries EXCEPT ![job[w]] = @ + 1]
            /\ retries[job[w]] + 1 < MaxRetries
  BY EndsHands DEF PutsBack, FindsRoom, Fails
<1>4. /\ queue' \in Seq(Jobs)
      /\ Queued' = Queued \cup {job[w]}
      /\ Distinct(queue')
  <2>1. job[w] \notin Elements(queue)
    BY <1>2, OnePlaceParts
  <2>2. /\ queue' \in Seq(Jobs)
        /\ Elements(queue') = Elements(queue) \cup {job[w]}
        /\ Distinct(queue')
    <3>1. queue \in Seq(Jobs) /\ Distinct(queue) /\ job[w] \in Jobs /\ queue' = Append(queue, job[w])
      BY <1>1, <1>3
    <3> HIDE DEF MInv, TypeOK
    <3> QED BY <2>1, <3>1, AppendMembers
  <2>3. QED
    BY <2>2, OnePlaceParts
<1>5. /\ retries' \in [Jobs -> 0..MaxRetries]
      /\ \A k \in Jobs : k # job[w] => retries'[k] = retries[k]
      /\ retries[job[w]] < MaxRetries => retries'[job[w]] < MaxRetries
  <2>1. CASE retries' = retries
    BY <2>1
  <2>2. CASE /\ retries' = [retries EXCEPT ![job[w]] = @ + 1]
             /\ retries[job[w]] + 1 < MaxRetries
    BY <2>2, <1>1
  <2>3. QED
    BY <2>1, <2>2, <1>3
<1>6. TypeOK' /\ HandsMatch'
  <2>1. PICK x \in {"waiting", "gone"} : at' = [at EXCEPT ![w] = x]
    BY <1>3
  <2>2. HandsMatch'
    BY <2>1, <1>3 DEF HandsMatch
  <2>3. TypeOK'
    BY <2>1, <1>1, <1>3, <1>4, <1>5
  <2> QED BY <2>2, <2>3
<1>7. Places'
  BY <1>1, <1>2, <1>3, <1>4, <1>5 DEF Places
<1>8. Apart'
  <2>1. \A v \in Workers : job'[v] = IF v = w THEN NoJob ELSE job[v]
    BY <1>3
  <2>2. \A v, u \in Workers : job'[v] # NoJob /\ job'[v] = job'[u] => v = u
    BY <2>1 DEF Apart
  <2>3. \A v \in Workers : job'[v] \notin Queued' \cup dlq' \cup done'
    <3>1. \A v \in Workers : job'[v] # job[w]
      BY <2>1, <1>1, <1>2
    <3>2. \A v \in Workers : job'[v] \notin Queued \cup dlq \cup done
      BY <2>1 DEF Apart, Places, PendingIsTheTrace
    <3>3. QED
      BY <3>1, <3>2, <1>3, <1>4
  <2>4. QED
    BY <2>2, <2>3, <1>2, <1>3, <1>4 DEF Apart
<1>9. PendingIsTheTrace'
  BY <1>3 DEF PendingIsTheTrace
<1>10. DeadLettersExhausted'
  BY <1>1, <1>2, <1>3, <1>5 DEF DeadLettersExhausted
<1>11. QED
  BY <1>4, <1>6, <1>7, <1>8, <1>9, <1>10

LEMMA WaitsInv ==
  ASSUME MInv, NEW w \in Workers, WaitsForRoom(w)
  PROVE  MInv'
<1> USE QueueAssumption DEF MInv, TypeOK
<1>1. at[w] = "handling" /\ job[w] \in Jobs /\ job[w] \in pending
  BY DEF WaitsForRoom, Fails, HandsMatch, Places
<1>2. job[w] \notin dlq /\ stage[job[w]] = "accepted"
  BY <1>1 DEF Apart, PendingIsTheTrace
<1>3. /\ retries' = [retries EXCEPT ![job[w]] = @ + 1]
      /\ retries[job[w]] + 1 < MaxRetries
      /\ at' = [at EXCEPT ![w] = "requeue"]
      /\ UNCHANGED <<stage, queue, pending, dlq, job, listed, done>> /\ Queued' = Queued
  BY DEF WaitsForRoom, Fails, Queued
<1>4. /\ retries' \in [Jobs -> 0..MaxRetries]
      /\ \A k \in Jobs : k # job[w] => retries'[k] = retries[k]
      /\ retries'[job[w]] < MaxRetries
  BY <1>1, <1>3
<1>5. TypeOK' /\ HandsMatch'
  BY <1>1, <1>3, <1>4 DEF HandsMatch
<1>6. Places' /\ Apart' /\ PendingIsTheTrace'
  BY <1>1, <1>2, <1>3, <1>4 DEF Places, Apart, PendingIsTheTrace
<1>7. DeadLettersExhausted'
  BY <1>1, <1>2, <1>3, <1>4 DEF DeadLettersExhausted
<1>8. QED
  BY <1>3, <1>5, <1>6, <1>7

(* Workers come and go; what they held is left to pending alone.           *)
LEMMA WorkersInv ==
  ASSUME MInv, (\E w \in Workers : Cancelled(w) \/ Leaves(w)) \/ Start \/ Stop
  PROVE  MInv'
<1> USE QueueAssumption DEF MInv, TypeOK
<1>1. /\ UNCHANGED <<stage, queue, pending, dlq, retries, done>>
      /\ Queued' = Queued
      /\ at' \in [Workers -> {"gone", "waiting", "handling", "requeue"}]
      /\ job' \in [Workers -> Jobs \cup {NoJob}]
      /\ \A v \in Workers : job'[v] \in {job[v], NoJob}
      /\ listed' \subseteq Workers
  <2>1. CASE \E w \in Workers : Cancelled(w)
    BY <2>1 DEF Cancelled, Queued
  <2>4. CASE \E w \in Workers : Leaves(w)
    BY <2>4 DEF Leaves, Queued
  <2>2. CASE Start \/ Stop
    BY <2>2 DEF Start, Stop, Queued
  <2>3. QED
    BY <2>1, <2>2, <2>4
<1>2. HandsMatch'
  BY DEF Cancelled, Leaves, Start, Stop, HandsMatch
<1>3. Places' /\ PendingIsTheTrace' /\ DeadLettersExhausted'
  BY <1>1 DEF Places, PendingIsTheTrace, DeadLettersExhausted
<1>4. Apart'
  <2>1. \A v \in Workers : job'[v] \notin Queued \cup dlq \cup done
    <3>1. NoJob \notin Queued \cup dlq \cup done
      BY DEF Places
    <3>2. \A v \in Workers : job[v] \notin Queued \cup dlq \cup done
      BY DEF Apart
    <3> HIDE DEF MInv, TypeOK
    <3> QED BY <1>1, <3>1, <3>2
  <2>2. \A v, u \in Workers : job'[v] # NoJob /\ job'[v] = job'[u] => v = u
    BY <1>1 DEF Apart
  <2>3. QED
    BY <2>1, <2>2, <1>1 DEF Apart
<1>5. QED
  BY <1>1, <1>2, <1>3, <1>4

LEMMA QueueInvariance == Spec => []MInv
<1>1. Init => MInv
  BY QueueAssumption
  DEF Init, MInv, TypeOK, HandsMatch, Places, Distinct, Apart, PendingIsTheTrace,
      DeadLettersExhausted, Queued
<1>2. MInv /\ [Next]_vars => MInv'
  <2> SUFFICES ASSUME MInv, [Next]_vars PROVE MInv'
    OBVIOUS
  <2>1. ASSUME NEW k \in Jobs, Offer(k) PROVE MInv'
    BY <2>1, QueueAssumption
    DEF Offer, MInv, TypeOK, HandsMatch, Places, Apart, PendingIsTheTrace,
        DeadLettersExhausted, Queued
  <2>2. ASSUME NEW k \in Jobs, Accept(k) PROVE MInv'
    BY <2>2, AcceptInv
  <2>3. ASSUME NEW w \in Workers, Take(w) \/ Handled(w) \/ FindsRoom(w) \/ Leaves(w)
        PROVE  MInv'
    BY <2>3, TakeInv, EndsInv, BackInv, WaitsInv, WorkersInv DEF Handled
  <2>4. CASE Start \/ Stop
    BY <2>4, WorkersInv
  <2>5. CASE UNCHANGED vars
    BY <2>5
    DEF vars, MInv, TypeOK, HandsMatch, Places, Apart, PendingIsTheTrace,
        DeadLettersExhausted, Queued
  <2>6. QED
    BY <2>1, <2>2, <2>3, <2>4, <2>5 DEF Next
<1>3. QED
  BY <1>1, <1>2, PTL DEF Spec

(* No stop, restart, cancellation or retry puts a task in two places, or   *)
(* brings back one that has ended.                                         *)
THEOREM OnePlaceHolds == Spec => []OnePlace
  BY QueueInvariance, OnePlaceParts, PTL DEF MInv

(* _pending is always exactly the accepted tasks that have not ended.      *)
THEOREM PendingIsTheTraceHolds == Spec => []PendingIsTheTrace
  BY QueueInvariance, PTL DEF MInv

(* A task is given up after exactly max_retries failures.                  *)
THEOREM DeadLettersExhaustedHolds == Spec => []DeadLettersExhausted
  BY QueueInvariance, PTL DEF MInv

-----------------------------------------------------------------------------
(* MessageQueue implements TaskLedger.                                     *)

(* An open task is in the queue or in a worker's hands.                    *)
Alive(k) == k \in Queued \/ \E w \in Workers : job[w] = k

FateByPlace ==
  \A k \in Jobs :
    /\ Fate(k) = "new"  <=> stage[k] # "accepted"
    /\ Fate(k) = "done" <=> k \in done
    /\ Fate(k) = "dead" <=> k \in dlq
    /\ Fate(k) = "open" <=> Alive(k)
    /\ Fate(k) \in {"new", "done", "dead", "open", "lost"}

LEMMA FatePlaces == (MInv => FateByPlace) /\ (MInv' => FateByPlace')
<1>1. ASSUME MInv
      PROVE  FateByPlace
  <2>1. \A k \in Jobs : /\ k \in pending <=> stage[k] = "accepted" /\ k \notin dlq \cup done
                        /\ k \notin dlq \/ k \notin done
                        /\ k \in dlq \cup done => stage[k] = "accepted"
                        /\ Alive(k) => k \in pending
    BY <1>1, QueueAssumption DEF MInv, Places, Apart, PendingIsTheTrace, Alive
  <2> QED BY <2>1 DEF FateByPlace, Fate, Lost, Alive
<1>2. ASSUME MInv'
      PROVE  FateByPlace'
  <2>1. \A k \in Jobs :
           /\ k \in pending' <=> stage'[k] = "accepted" /\ k \notin dlq' \cup done'
           /\ k \notin dlq' \/ k \notin done'
           /\ k \in dlq' \cup done' => stage'[k] = "accepted"
           /\ Alive(k)' => k \in pending'
    BY <1>2, QueueAssumption DEF MInv, Places, Apart, PendingIsTheTrace, Alive
  <2> QED BY <2>1 DEF FateByPlace, Fate, Lost, Alive
<1> QED BY <1>1, <1>2

LedgerStep == [Ledger!LNext]_<<Fates, retries>>

(* A step that moves no task from one fate to another and counts nothing.  *)
LEMMA NoFateMoves ==
  ASSUME \A k \in Jobs : Fate(k)' = Fate(k), retries' = retries
  PROVE  LedgerStep
<1>1. Fates' = Fates
  BY DEF Fates
<1> QED BY <1>1 DEF LedgerStep

LEMMA OneFateMoves ==
  ASSUME NEW k \in Jobs, \A j \in Jobs : j # k => Fate(j)' = Fate(j)
  PROVE  Fates' = [Fates EXCEPT ![k] = Fate(k)']
  BY DEF Fates

LEMMA AcceptRefines ==
  ASSUME MInv, MInv', NEW k \in Jobs, Accept(k)
  PROVE  LedgerStep
<1>1. Queued' = Queued \cup {k}
  <2>1. k \notin Elements(queue) /\ queue' = Append(queue, k)
    BY OnePlaceParts DEF MInv, Accept, Places, PendingIsTheTrace
  <2>2. queue \in Seq(Jobs) /\ Distinct(queue)
    BY DEF MInv, TypeOK
  <2> QED BY <2>1, <2>2, AppendMembers, OnePlaceParts
<1>2. Fate(k) = "new" /\ Fate(k)' = "open"
  BY <1>1, FatePlaces DEF Accept, FateByPlace, Alive
<1>3. ASSUME NEW j \in Jobs, j # k
      PROVE  Fate(j)' = Fate(j)
  <2>1. stage'[j] = stage[j] /\ done' = done /\ dlq' = dlq /\ Alive(j)' = Alive(j)
    BY <1>1, <1>3 DEF Accept, Alive, MInv, TypeOK
  <2> QED BY <2>1, FatePlaces DEF FateByPlace
<1>4. Ledger!Admit(k)
  BY <1>2, <1>3, OneFateMoves DEF Ledger!Admit, Fates, Accept
<1> QED BY <1>4 DEF LedgerStep, Ledger!LNext

(* The task in w's hands is open.                                          *)
LEMMA HeldIsOpen ==
  ASSUME MInv, NEW w \in Workers, at[w] \in {"handling", "requeue"}
  PROVE  job[w] \in Jobs /\ Fate(job[w]) = "open" /\ Fates[job[w]] = "open"
<1>1. job[w] \in Jobs
  BY DEF MInv, TypeOK, HandsMatch
<1> QED BY <1>1, FatePlaces DEF FateByPlace, Alive, Fates

LEMMA TakeRefines ==
  ASSUME MInv, MInv', NEW w \in Workers, Take(w)
  PROVE  LedgerStep
<1>1. Head(queue) \in Queued /\ Queued' = Queued \ {Head(queue)}
  <2>1. queue' = Tail(queue) /\ queue # << >> /\ queue \in Seq(Jobs) /\ Distinct(queue)
    BY DEF Take, MInv, TypeOK
  <2> QED BY <2>1, TailMembers, OnePlaceParts
<1>2. job[w] = NoJob /\ job' = [job EXCEPT ![w] = Head(queue)]
  BY DEF Take, MInv, HandsMatch
<1>3. ASSUME NEW j \in Jobs
      PROVE  Fate(j)' = Fate(j)
  <2>1. Alive(j)' <=> Alive(j)
    BY <1>1, <1>2, QueueAssumption DEF Alive, MInv, TypeOK
  <2> QED BY <2>1, FatePlaces DEF FateByPlace, Take
<1> QED BY <1>3, NoFateMoves DEF Take

(* The task in hand ends.                                                  *)
LEMMA EndsRefines ==
  ASSUME MInv, MInv', NEW w \in Workers, Succeeds(w) \/ Buries(w)
  PROVE  LedgerStep
<1>1. at[w] = "handling" /\ Ends(w) /\ stage' = stage /\ queue' = queue /\ Queued' = Queued
  BY DEF Succeeds, Buries, Fails, Queued
<1>2. PICK k \in Jobs : k = job[w] /\ Fate(k) = "open" /\ Fates[k] = "open"
  BY <1>1, HeldIsOpen
<1>3. ASSUME NEW j \in Jobs, j # k
      PROVE  Fate(j)' = Fate(j)
  <2>1. Alive(j)' <=> Alive(j)
    BY <1>1, <1>2, <1>3, QueueAssumption DEF Alive, Ends, MInv, TypeOK
  <2>2. (j \in done' <=> j \in done) /\ (j \in dlq' <=> j \in dlq) /\ stage'[j] = stage[j]
    BY <1>1, <1>2, <1>3 DEF Succeeds, Buries
  <2> QED BY <2>1, <2>2, FatePlaces DEF FateByPlace
<1>4. Fates' = [Fates EXCEPT ![k] = Fate(k)']
  BY <1>2, <1>3, OneFateMoves
<1>5. CASE Succeeds(w)
  <2>1. Fate(k)' = "done"
    BY <1>2, <1>5, FatePlaces DEF FateByPlace, Succeeds
  <2>2. Ledger!Fulfil(k)
    BY <1>2, <1>4, <1>5, <2>1 DEF Ledger!Fulfil, Ledger!Becomes, Succeeds
  <2> QED BY <1>2, <2>2 DEF LedgerStep, Ledger!LNext
<1>6. CASE Buries(w)
  <2>1. Fate(k)' = "dead"
    BY <1>2, <1>6, FatePlaces DEF FateByPlace, Buries
  <2>2. retries[k] + 1 = MaxRetries
    <3>1. k \in pending
      BY <1>2, QueueAssumption DEF MInv, Places
    <3> QED BY <1>2, <1>6, <3>1, QueueAssumption DEF Buries, MInv, TypeOK, DeadLettersExhausted
  <2>3. Ledger!GiveUp(k)
    BY <1>2, <1>4, <1>6, <2>1, <2>2 DEF Ledger!GiveUp, Ledger!Becomes, Buries, Fails
  <2> QED BY <1>2, <2>3 DEF LedgerStep, Ledger!LNext
<1> QED BY <1>5, <1>6

(* It goes back, at once or when there is room, and is open all along.     *)
LEMMA BackRefines ==
  ASSUME MInv, MInv', NEW w \in Workers, PutsBack(w) \/ FindsRoom(w) \/ WaitsForRoom(w)
  PROVE  LedgerStep
<1> DEFINE k == job[w]
<1>1. k \in Jobs /\ Fate(k) = "open" /\ Fates[k] = "open"
  BY HeldIsOpen DEF PutsBack, FindsRoom, WaitsForRoom, Fails
<1>2. Queued' = IF WaitsForRoom(w) THEN Queued ELSE Queued \cup {k}
  <2>1. CASE WaitsForRoom(w)
    BY <2>1 DEF WaitsForRoom, Queued
  <2>2. CASE ~WaitsForRoom(w)
    <3>1. queue' = Append(queue, k) /\ queue \in Seq(Jobs) /\ Distinct(queue)
      BY <2>2 DEF PutsBack, FindsRoom, MInv, TypeOK
    <3>2. k \notin Elements(queue)
      BY OnePlaceParts DEF MInv, Apart
    <3> QED BY <1>1, <2>2, <3>1, <3>2, AppendMembers, OnePlaceParts
  <2> QED BY <2>1, <2>2
<1>3. job' = IF WaitsForRoom(w) THEN job ELSE [job EXCEPT ![w] = NoJob]
  <2>1. CASE WaitsForRoom(w)
    BY <2>1 DEF WaitsForRoom
  <2>2. CASE ~WaitsForRoom(w)
    BY <2>2 DEF PutsBack, FindsRoom, Ends
  <2> QED BY <2>1, <2>2
<1>4. UNCHANGED <<stage, done, dlq>>
  BY DEF PutsBack, FindsRoom, WaitsForRoom
<1>5. ASSUME NEW j \in Jobs
      PROVE  Fate(j)' = Fate(j)
  <2>1. Alive(j)' <=> Alive(j)
    BY <1>1, <1>2, <1>3, QueueAssumption DEF Alive, MInv, TypeOK
  <2> QED BY <2>1, <1>4, FatePlaces DEF FateByPlace
<1>6. CASE FindsRoom(w)
  BY <1>5, <1>6, NoFateMoves DEF FindsRoom
<1>7. CASE PutsBack(w) \/ WaitsForRoom(w)
  <2>1. Fates' = Fates
    BY <1>5 DEF Fates
  <2>2. Ledger!Fail(k)
    BY <1>1, <1>7, <2>1 DEF Ledger!Fail, PutsBack, WaitsForRoom, Fails
  <2> QED BY <1>1, <2>2 DEF LedgerStep, Ledger!LNext
<1> QED BY <1>6, <1>7

(* What the cancelled workers held is lost.                                *)
LEMMA WorkersRefine ==
  ASSUME MInv, MInv', (\E w \in Workers : Cancelled(w) \/ Leaves(w)) \/ Start \/ Stop
  PROVE  LedgerStep
<1>1. UNCHANGED <<stage, queue, pending, dlq, retries, done>> /\ Queued' = Queued
  BY DEF Cancelled, Leaves, Start, Stop, Queued
<1>2. \A v \in Workers : job'[v] \in {job[v], NoJob}
  <2>1. job \in [Workers -> Jobs \cup {NoJob}]
    BY DEF MInv, TypeOK
  <2>2. CASE \E w \in Workers : Cancelled(w) \/ Leaves(w)
    BY <2>1, <2>2 DEF Cancelled, Leaves
  <2>3. CASE Start \/ Stop
    BY <2>1, <2>3 DEF Start, Stop
  <2> QED BY <2>2, <2>3
<1> DEFINE gone == {k \in Jobs : Fate(k) = "open" /\ Fate(k)' # "open"}
<1>3. ASSUME NEW k \in Jobs
      PROVE  Fate(k)' = IF k \in gone THEN "lost" ELSE Fate(k)
  <2>1. Alive(k)' => Alive(k)
    BY <1>1, <1>2, QueueAssumption DEF Alive
  <2> QED BY <1>1, <2>1, FatePlaces DEF FateByPlace
<1>4. gone \in SUBSET Jobs /\ \A k \in gone : Fates[k] = "open"
  BY DEF Fates
<1>5. Fates' = [k \in Jobs |-> IF k \in gone THEN "lost" ELSE Fates[k]]
  <2> HIDE DEF gone
  <2> QED BY <1>3 DEF Fates
<1>6. Ledger!Forget(gone)
  <2> HIDE DEF gone
  <2> QED BY <1>1, <1>4, <1>5 DEF Ledger!Forget
<1> QED
  <2> HIDE DEF gone
  <2> QED BY <1>4, <1>6 DEF LedgerStep, Ledger!LNext

(* The queue, its workers, the retries, cancellations, stops and starts    *)
(* implement the ledger: every failure is counted once, the last one gives *)
(* the task up, and nothing that ended or was lost is handled again.       *)
THEOREM QueueRefinesLedger == Spec => ImplementsLedger
<1>1. Init => Ledger!LInit
  BY DEF Init, Ledger!LInit, Fates, Fate
<1>2. MInv /\ MInv' /\ [Next]_vars => LedgerStep
  <2> SUFFICES ASSUME MInv, MInv', [Next]_vars PROVE LedgerStep
    OBVIOUS
  <2>1. ASSUME NEW k \in Jobs, Offer(k) PROVE LedgerStep
    <3>1. /\ UNCHANGED <<queue, pending, dlq, retries, job, done>>
          /\ \A j \in Jobs : stage'[j] = "accepted" <=> stage[j] = "accepted"
      BY <2>1 DEF Offer, MInv, TypeOK
    <3>2. \A j \in Jobs : Fate(j)' = Fate(j)
      BY <3>1 DEF Fate, Lost, Queued
    <3> QED BY <3>1, <3>2, NoFateMoves
  <2>2. ASSUME NEW k \in Jobs, Accept(k) PROVE LedgerStep
    BY <2>2, AcceptRefines
  <2>3. ASSUME NEW w \in Workers, Take(w) \/ Handled(w) \/ FindsRoom(w) \/ Leaves(w)
        PROVE  LedgerStep
    BY <2>3, TakeRefines, EndsRefines, BackRefines, WorkersRefine DEF Handled
  <2>4. CASE Start \/ Stop
    BY <2>4, WorkersRefine
  <2>5. CASE UNCHANGED vars
    <3>1. \A j \in Jobs : Fate(j)' = Fate(j)
      BY <2>5 DEF vars, Fate, Lost, Queued
    <3> QED BY <2>5, <3>1, NoFateMoves DEF vars
  <2> QED BY <2>1, <2>2, <2>3, <2>4, <2>5 DEF Next
<1> QED
  BY <1>1, <1>2, QueueInvariance, PTL DEF Spec, ImplementsLedger, Ledger!LSpec, LedgerStep

-----------------------------------------------------------------------------
(* AsyncWorkerPool.                                                        *)

(* A worker has an item in hand exactly while it is in the handler or      *)
(* waits to call it again.                                                 *)
HandsMatchLoops == \A h \in Hands : handles[h] # NoItem <=> loop[h] \in {"handler", "sleep"}

Held == {handles[h] : h \in Hands} \ {NoItem}

(* ItemsAccountedFor, with the five places written out.                    *)
HeldOnce == \A g, h \in Hands : handles[g] # NoItem /\ handles[g] = handles[h] => g = h
AllGiven == given = Waiting \cup Held \cup finished \cup dead \cup dropped
NowhereTwice ==
  /\ Waiting \cap Held = {} /\ Waiting \cap finished = {} /\ Waiting \cap dead = {}
  /\ Waiting \cap dropped = {} /\ Held \cap finished = {} /\ Held \cap dead = {}
  /\ Held \cap dropped = {} /\ finished \cap dead = {} /\ finished \cap dropped = {}
  /\ dead \cap dropped = {}
TriesCounted ==
  /\ \A x \in dead : tries[x] = Retries + 1
  /\ \A x \in given \ dead : tries[x] <= Retries
  /\ \A x \in Items \ given : tries[x] = 0

PoolInv ==
  /\ PTypeOK /\ HandsMatchLoops
  /\ Distinct(waitingItems) /\ HeldOnce /\ AllGiven /\ NowhereTwice /\ TriesCounted

LEMMA PoolPlaces ==
  /\ Distinct(waitingItems) /\ HeldOnce /\ AllGiven /\ NowhereTwice /\ TriesCounted
     => ItemsAccountedFor
  /\ Waiting = Elements(waitingItems) /\ Waiting' = Elements(waitingItems')
<1> DEFINE places == <<Waiting, Held, finished, dead, dropped>>
<1>1. Waiting = Elements(waitingItems) /\ Waiting' = Elements(waitingItems')
  BY DEF Waiting, Elements
<1>2. UNION {places[i] : i \in 1..5} = Waiting \cup Held \cup finished \cup dead \cup dropped
  <2>1. {places[i] : i \in 1..5} = {Waiting, Held, finished, dead, dropped}
    <3>1. 1..5 = {1, 2, 3, 4, 5}
      OBVIOUS
    <3>2. {places[i] : i \in {1, 2, 3, 4, 5}} = {places[1], places[2], places[3], places[4], places[5]}
      OBVIOUS
    <3> QED BY <3>1, <3>2
  <2> HIDE DEF places
  <2> QED BY <2>1
<1>3. NowhereTwice => \A i, j \in 1..5 : i # j => places[i] \cap places[j] = {}
  <2> SUFFICES ASSUME NowhereTwice, NEW i \in {1, 2, 3, 4, 5}, NEW j \in {1, 2, 3, 4, 5}, i # j
               PROVE  places[i] \cap places[j] = {}
    OBVIOUS
  <2> QED BY DEF NowhereTwice
<1> QED
  BY <1>1, <1>2, <1>3 DEF ItemsAccountedFor, Distinct, HeldOnce, AllGiven, TriesCounted, Held

(* enqueue(), start(), and a worker that takes the oldest item.            *)
LEMMA EnqueuePoolInv ==
  ASSUME PoolInv, NEW x \in Items, Enqueue(x)
  PROVE  PoolInv'
<1> USE PoolAssumption DEF PoolInv, PTypeOK
<1>1. x \notin Waiting /\ x \notin given
  BY DEF Enqueue, AllGiven
<1>2. /\ waitingItems' \in Seq(Items) /\ Len(waitingItems') <= Capacity
      /\ Waiting' = Waiting \cup {x} /\ Distinct(waitingItems')
  <2>1. x \notin Elements(waitingItems) /\ waitingItems' = Append(waitingItems, x)
    BY <1>1, PoolPlaces DEF Enqueue
  <2>2. /\ waitingItems' \in Seq(Items)
        /\ Elements(waitingItems') = Elements(waitingItems) \cup {x}
        /\ Distinct(waitingItems')
    <3>1. waitingItems \in Seq(Items) /\ Distinct(waitingItems)
      OBVIOUS
    <3> HIDE DEF PoolInv, PTypeOK
    <3> QED BY <2>1, <3>1, AppendMembers
  <2>3. Len(waitingItems') <= Capacity
    BY <2>1 DEF Enqueue
  <2> QED BY <2>2, <2>3, PoolPlaces
<1>3. Held' = Held
  BY DEF Enqueue, Held
<1> QED
  BY <1>1, <1>2, <1>3
  DEF Enqueue, HandsMatchLoops, HeldOnce, AllGiven, NowhereTwice, TriesCounted

LEMMA StartPoolInv ==
  ASSUME PoolInv, StartWorkers
  PROVE  PoolInv'
<1>1. Waiting' = Waiting /\ Held' = Held
  BY DEF StartWorkers, Waiting, Held
<1> QED
  BY <1>1, PoolAssumption
  DEF PoolInv, PTypeOK, StartWorkers, HandsMatchLoops, Distinct, HeldOnce, AllGiven,
      NowhereTwice, TriesCounted

LEMMA DequeuePoolInv ==
  ASSUME PoolInv, NEW h \in Hands, Dequeue(h)
  PROVE  PoolInv'
<1> USE PoolAssumption DEF PoolInv, PTypeOK
<1>1. /\ Head(waitingItems) \in Items /\ Head(waitingItems) \in Waiting
      /\ waitingItems' \in Seq(Items)
      /\ Waiting' = Waiting \ {Head(waitingItems)} /\ Distinct(waitingItems')
  <2>1. waitingItems # << >> /\ waitingItems' = Tail(waitingItems)
    BY DEF Dequeue
  <2>2. waitingItems \in Seq(Items) /\ Distinct(waitingItems)
    OBVIOUS
  <2>3. /\ Head(waitingItems) \in Items /\ Head(waitingItems) \in Elements(waitingItems)
        /\ waitingItems' \in Seq(Items)
        /\ Elements(waitingItems') = Elements(waitingItems) \ {Head(waitingItems)}
        /\ Distinct(waitingItems')
    <3> HIDE DEF PoolInv, PTypeOK
    <3> QED BY <2>1, <2>2, TailMembers
  <2> QED BY <2>3, PoolPlaces
<1>2. Len(waitingItems') <= Capacity
  BY DEF Dequeue
<1>3. handles[h] = NoItem /\ handles' = [handles EXCEPT ![h] = Head(waitingItems)]
  BY DEF Dequeue, HandsMatchLoops
<1>4. Held' = Held \cup {Head(waitingItems)}
  BY <1>1, <1>3 DEF Held
<1>5. HeldOnce'
  BY <1>1, <1>3 DEF HeldOnce, NowhereTwice, Held
<1> QED
  BY <1>1, <1>2, <1>3, <1>4, <1>5
  DEF Dequeue, HandsMatchLoops, AllGiven, NowhereTwice, TriesCounted

(* A worker puts its item down.                                            *)
LEMMA PutDown ==
  ASSUME PoolInv, NEW h \in Hands, loop[h] = "handler"
  PROVE  /\ handles[h] \in Items /\ handles[h] \in Held /\ handles[h] \in given
         /\ handles[h] \notin Waiting \cup finished \cup dead \cup dropped
         /\ Returns(h) => Held' = Held \ {handles[h]} /\ HeldOnce' /\ HandsMatchLoops'
                          /\ handles' \in [Hands -> Items \cup {NoItem}]
                          /\ loop' \in [Hands -> {"none", "get", "handler", "sleep"}]
<1> USE PoolAssumption DEF PoolInv, PTypeOK
<1>1. handles[h] \in Items /\ handles[h] \in Held /\ handles[h] \in given
  BY DEF HandsMatchLoops, Held, AllGiven
<1>2. handles[h] \notin Waiting \cup finished \cup dead \cup dropped
  BY <1>1 DEF NowhereTwice
<1>3. ASSUME Returns(h)
      PROVE  Held' = Held \ {handles[h]}
  BY <1>1, <1>3 DEF Returns, Held, HeldOnce
<1>4. ASSUME Returns(h)
      PROVE  /\ HeldOnce' /\ HandsMatchLoops'
             /\ handles' \in [Hands -> Items \cup {NoItem}]
             /\ loop' \in [Hands -> {"none", "get", "handler", "sleep"}]
  BY <1>4 DEF Returns, HeldOnce, HandsMatchLoops
<1> QED BY <1>1, <1>2, <1>3, <1>4

LEMMA EndPoolInv ==
  ASSUME PoolInv, NEW h \in Hands, MarkDone(h) \/ MoveToDlq(h)
  PROVE  PoolInv'
<1>1. loop[h] = "handler" /\ Returns(h) /\ waitingItems' = waitingItems /\ Waiting' = Waiting
  BY DEF MarkDone, MoveToDlq, Waiting
<1>2. /\ handles[h] \in Items /\ handles[h] \in Held /\ handles[h] \in given
      /\ handles[h] \notin Waiting \cup finished \cup dead \cup dropped
      /\ Held' = Held \ {handles[h]} /\ HeldOnce' /\ HandsMatchLoops'
      /\ handles' \in [Hands -> Items \cup {NoItem}]
      /\ loop' \in [Hands -> {"none", "get", "handler", "sleep"}]
  BY <1>1, PutDown
<1>3. CASE MarkDone(h)
  BY <1>1, <1>2, <1>3, PoolAssumption
  DEF MarkDone, PoolInv, PTypeOK, Distinct, AllGiven, NowhereTwice, TriesCounted
<1>4. CASE MoveToDlq(h)
  <2>1. tries[handles[h]] + 1 = Retries + 1
    BY <1>2, <1>4, PoolAssumption DEF MoveToDlq, PoolInv, PTypeOK, TriesCounted
  <2> QED
    BY <1>1, <1>2, <1>4, <2>1, PoolAssumption
    DEF MoveToDlq, PoolInv, PTypeOK, Distinct, AllGiven, NowhereTwice, TriesCounted
<1> QED BY <1>3, <1>4

LEMMA SleepPoolInv ==
  ASSUME PoolInv, NEW h \in Hands, Sleeps(h) \/ Wakes(h)
  PROVE  PoolInv'
<1>1. Waiting' = Waiting /\ Held' = Held
  BY DEF Sleeps, Wakes, Waiting, Held
<1>2. CASE Sleeps(h)
  <2>1. handles[h] \in Items /\ handles[h] \in given /\ handles[h] \notin dead
    BY <1>2, PutDown DEF Sleeps
  <2> QED
    BY <1>1, <1>2, <2>1, PoolAssumption
    DEF Sleeps, PoolInv, PTypeOK, HandsMatchLoops, Distinct, HeldOnce, AllGiven, NowhereTwice,
        TriesCounted
<1>3. CASE Wakes(h)
  BY <1>1, <1>3, PoolAssumption
  DEF Wakes, PoolInv, PTypeOK, HandsMatchLoops, Distinct, HeldOnce, AllGiven, NowhereTwice,
      TriesCounted
<1> QED BY <1>2, <1>3

(* What is in the hands of a cancelled worker is gone: of one, or of all.  *)
LEMMA LostInHand ==
  ASSUME PoolInv, StopWorkers \/ \E h \in Hands : Killed(h)
  PROVE  \E lost \in SUBSET Held :
           /\ Held' = Held \ lost /\ dropped' = dropped \cup lost
           /\ HeldOnce' /\ HandsMatchLoops'
           /\ handles' \in [Hands -> Items \cup {NoItem}]
           /\ loop' \in [Hands -> {"none", "get", "handler", "sleep"}]
<1> USE PoolAssumption DEF PoolInv, PTypeOK
<1>1. CASE StopWorkers
  <2>1. Held' = Held \ Held /\ dropped' = dropped \cup Held
    BY <1>1 DEF StopWorkers, Held
  <2>2. /\ HeldOnce' /\ HandsMatchLoops'
        /\ handles' \in [Hands -> Items \cup {NoItem}]
        /\ loop' \in [Hands -> {"none", "get", "handler", "sleep"}]
    BY <1>1 DEF StopWorkers, HeldOnce, HandsMatchLoops
  <2> QED BY <2>1, <2>2
<1>2. ASSUME NEW h \in Hands, Killed(h)
      PROVE  \E lost \in SUBSET Held :
               /\ Held' = Held \ lost /\ dropped' = dropped \cup lost
               /\ HeldOnce' /\ HandsMatchLoops'
               /\ handles' \in [Hands -> Items \cup {NoItem}]
               /\ loop' \in [Hands -> {"none", "get", "handler", "sleep"}]
  <2>1. {handles[h]} \in SUBSET Held
    BY <1>2, PutDown DEF Killed
  <2>2. Held' = Held \ {handles[h]} /\ dropped' = dropped \cup {handles[h]}
    BY <1>2, <2>1 DEF Killed, Held, HeldOnce
  <2>3. /\ HeldOnce' /\ HandsMatchLoops'
        /\ handles' \in [Hands -> Items \cup {NoItem}]
        /\ loop' \in [Hands -> {"none", "get", "handler", "sleep"}]
    BY <1>2 DEF Killed, HeldOnce, HandsMatchLoops
  <2> QED BY <2>1, <2>2, <2>3
<1> QED BY <1>1, <1>2

LEMMA StopPoolInv ==
  ASSUME PoolInv, StopWorkers \/ \E h \in Hands : Killed(h)
  PROVE  PoolInv'
<1>1. PICK lost \in SUBSET Held :
        /\ Held' = Held \ lost /\ dropped' = dropped \cup lost
        /\ HeldOnce' /\ HandsMatchLoops'
        /\ handles' \in [Hands -> Items \cup {NoItem}]
        /\ loop' \in [Hands -> {"none", "get", "handler", "sleep"}]
  BY LostInHand
<1>2. UNCHANGED <<waitingItems, given, tries, dead, finished, starts>> /\ Waiting' = Waiting
  BY DEF StopWorkers, Killed, Waiting
<1>3. Held \subseteq Items
  BY DEF Held, PoolInv, PTypeOK
<1> QED
  BY <1>1, <1>2, <1>3, PoolAssumption
  DEF PoolInv, PTypeOK, Distinct, AllGiven, NowhereTwice, TriesCounted

LEMMA PoolInvariance == PSpec => []PoolInv
<1>1. PInit => PoolInv
  <2> SUFFICES ASSUME PInit
               PROVE  PoolInv
    OBVIOUS
  <2>1. Waiting = {} /\ Held = {} /\ waitingItems \in Seq(Items)
    BY DEF PInit, Waiting, Held
  <2> QED
    BY <2>1, PoolAssumption
    DEF PInit, PoolInv, PTypeOK, HandsMatchLoops, Distinct, HeldOnce, AllGiven, NowhereTwice,
        TriesCounted
<1>2. PoolInv /\ [PNext]_pvars => PoolInv'
  <2> SUFFICES ASSUME PoolInv, [PNext]_pvars
               PROVE  PoolInv'
    OBVIOUS
  <2>1. CASE UNCHANGED pvars
    <3>1. Waiting' = Waiting /\ Held' = Held
      BY <2>1 DEF pvars, Waiting, Held
    <3> QED
      BY <2>1, <3>1 DEF pvars, PoolInv, PTypeOK, HandsMatchLoops, Distinct, HeldOnce, AllGiven,
                        NowhereTwice, TriesCounted
  <2> QED
    BY <2>1, EnqueuePoolInv, StartPoolInv, DequeuePoolInv, EndPoolInv, SleepPoolInv, StopPoolInv
    DEF PNext
<1> QED BY <1>1, <1>2, PTL DEF PSpec

(* scalability/queue.py: AsyncWorkerPool.  For any number of items and     *)
(* workers, any capacity and max_retries: an enqueued item is queued once, *)
(* in one worker's hands, done, a dead letter after max_retries + 1        *)
(* failures, or went with a cancelled worker.                              *)
THEOREM PoolKeepsItems == PSpec => []ItemsAccountedFor
<1>1. PoolInv => ItemsAccountedFor
  BY PoolPlaces DEF PoolInv
<1> QED BY <1>1, PoolInvariance, PTL

-----------------------------------------------------------------------------
(* AsyncWorkerPool implements TaskLedger.                                  *)

LEMMA ItemFatePlaces ==
  ASSUME PoolInv, NEW x \in Items
  PROVE  /\ ItemFates[x] = ItemFate(x)
         /\ ItemFate(x) = "open" <=> x \in Waiting \cup Held
         /\ x \in Held => x \notin finished \cup dead \cup dropped /\ x \in given
  BY DEF PoolInv, ItemFates, ItemFate, AllGiven, NowhereTwice

PoolLedgerStep == [ItemLedger!LNext]_<<ItemFates, tries>>

LEMMA SameItemFates ==
  ASSUME UNCHANGED <<given, finished, dead, dropped>>
  PROVE  ItemFates' = ItemFates /\ \A x \in Items : ItemFate(x)' = ItemFate(x)
  BY DEF ItemFates, ItemFate

LEMMA OneItemFate ==
  ASSUME NEW x \in Items, \A y \in Items : y # x => ItemFate(y)' = ItemFate(y)
  PROVE  ItemFates' = [ItemFates EXCEPT ![x] = ItemFate(x)']
  BY DEF ItemFates

LEMMA PoolStepRefines ==
  ASSUME PoolInv, NEW h \in Hands, MarkDone(h) \/ MoveToDlq(h) \/ Sleeps(h)
  PROVE  PoolLedgerStep
<1>1. PICK x \in Items : x = handles[h] /\ x \in Held
  BY PutDown DEF MarkDone, MoveToDlq, Sleeps
<1>2. ItemFates[x] = "open" /\ x \in given /\ x \notin finished \cup dead \cup dropped
  BY <1>1, ItemFatePlaces
<1>3. tries[x] \in 0..Retries
  BY <1>1, <1>2, PoolAssumption DEF PoolInv, PTypeOK, TriesCounted
<1>4. CASE MarkDone(h)
  <2>1. ItemFate(x)' = "done" /\ \A y \in Items : y # x => ItemFate(y)' = ItemFate(y)
    BY <1>1, <1>2, <1>4 DEF MarkDone, ItemFate
  <2>2. ItemLedger!Fulfil(x)
    BY <1>1, <1>2, <1>4, <2>1, OneItemFate DEF ItemLedger!Fulfil, ItemLedger!Becomes, MarkDone
  <2> QED BY <1>1, <2>2 DEF PoolLedgerStep, ItemLedger!LNext
<1>5. CASE MoveToDlq(h)
  <2>1. ItemFate(x)' = "dead" /\ \A y \in Items : y # x => ItemFate(y)' = ItemFate(y)
    BY <1>1, <1>2, <1>5 DEF MoveToDlq, ItemFate
  <2>2. tries[x] + 1 = Retries + 1
    BY <1>1, <1>3, <1>5, PoolAssumption DEF MoveToDlq
  <2>3. ItemLedger!GiveUp(x)
    BY <1>1, <1>2, <1>5, <2>1, <2>2, OneItemFate
    DEF ItemLedger!GiveUp, ItemLedger!Becomes, MoveToDlq
  <2> QED BY <1>1, <2>3 DEF PoolLedgerStep, ItemLedger!LNext
<1>6. CASE Sleeps(h)
  <2>1. ItemFates' = ItemFates
    BY <1>6, SameItemFates DEF Sleeps
  <2>2. tries[x] + 1 < Retries + 1
    BY <1>1, <1>3, <1>6, PoolAssumption DEF Sleeps
  <2>3. ItemLedger!Fail(x)
    BY <1>1, <1>2, <1>6, <2>1, <2>2 DEF ItemLedger!Fail, Sleeps
  <2> QED BY <1>1, <2>3 DEF PoolLedgerStep, ItemLedger!LNext
<1> QED BY <1>4, <1>5, <1>6

LEMMA StopPoolRefines ==
  ASSUME PoolInv, StopWorkers \/ \E h \in Hands : Killed(h)
  PROVE  PoolLedgerStep
<1>1. PICK lost \in SUBSET Held :
        dropped' = dropped \cup lost /\ UNCHANGED <<given, finished, dead, tries>>
  <2>1. UNCHANGED <<given, finished, dead, tries>>
    BY DEF StopWorkers, Killed
  <2> QED BY <2>1, LostInHand
<1> DEFINE gone == {x \in Items : x \in lost}
<1>2. \A x \in gone : ItemFates[x] = "open"
  BY ItemFatePlaces
<1>3. ASSUME NEW x \in Items
      PROVE  ItemFate(x)' = IF x \in gone THEN "lost" ELSE ItemFate(x)
  BY <1>1, ItemFatePlaces DEF ItemFate
<1>4. ItemFates' = [x \in Items |-> IF x \in gone THEN "lost" ELSE ItemFates[x]]
  <2> HIDE DEF gone
  <2> QED BY <1>3 DEF ItemFates
<1>5. gone \in SUBSET Items /\ ItemLedger!Forget(gone)
  <2>1. gone \in SUBSET Items
    OBVIOUS
  <2> HIDE DEF gone
  <2> QED BY <1>1, <1>2, <1>4, <2>1 DEF ItemLedger!Forget
<1> QED
  <2> HIDE DEF gone
  <2> QED BY <1>5 DEF PoolLedgerStep, ItemLedger!LNext

(* The older queue implements the same ledger, with max_retries + 1        *)
(* failures: through delays, further starts and stops each failure is      *)
(* counted once, and an item that ended or was dropped stays so.           *)
THEOREM PoolRefinesLedger == PSpec => PoolImplementsLedger
<1>1. PInit => ItemLedger!LInit
  BY DEF PInit, ItemLedger!LInit, ItemFates, ItemFate
<1>2. PoolInv /\ [PNext]_pvars => PoolLedgerStep
  <2> SUFFICES ASSUME PoolInv, [PNext]_pvars PROVE PoolLedgerStep
    OBVIOUS
  <2>1. ASSUME NEW x \in Items, Enqueue(x) PROVE PoolLedgerStep
    <3>1. /\ ItemFate(x) = "new" /\ \A y \in Items : y # x => ItemFate(y)' = ItemFate(y)
          /\ ItemFate(x)' = "open" /\ ItemFates[x] = "new" /\ tries' = tries
      BY <2>1 DEF Enqueue, ItemFate, ItemFates, PoolInv, AllGiven
    <3>2. ItemLedger!Admit(x)
      BY <3>1, OneItemFate DEF ItemLedger!Admit
    <3> QED BY <3>2 DEF PoolLedgerStep, ItemLedger!LNext
  <2>2. ASSUME NEW h \in Hands, Dequeue(h) \/ Wakes(h) PROVE PoolLedgerStep
    BY <2>2, SameItemFates DEF Dequeue, Wakes, PoolLedgerStep
  <2>3. ASSUME NEW h \in Hands, MarkDone(h) \/ MoveToDlq(h) \/ Sleeps(h) PROVE PoolLedgerStep
    BY <2>3, PoolStepRefines
  <2>4. CASE StartWorkers
    BY <2>4, SameItemFates DEF StartWorkers, PoolLedgerStep
  <2>5. CASE StopWorkers \/ \E h \in Hands : Killed(h)
    BY <2>5, StopPoolRefines
  <2>6. CASE UNCHANGED pvars
    BY <2>6, SameItemFates DEF pvars, PoolLedgerStep
  <2> QED BY <2>1, <2>2, <2>3, <2>4, <2>5, <2>6 DEF PNext
<1> QED
  BY <1>1, <1>2, PoolInvariance, PTL
  DEF PSpec, PoolImplementsLedger, ItemLedger!LSpec, PoolLedgerStep

-----------------------------------------------------------------------------
(* SMTPReceiver.                                                           *)

Lines == [cmd : {"MAIL", "RCPT", "DATA", "text", "dot", "RSET"}, mail : Mails]
Last4(t) == Length[t] + 4
Part(t, d, j) == SubSeq(Script(t), d + 1, j)

(* The command of line i of the mail t.                                    *)
CmdOf(t, i) ==
  IF i = 1 THEN "MAIL" ELSE IF i = 2 THEN "RCPT" ELSE IF i = 3 THEN "DATA"
  ELSE IF i = Last4(t) THEN "dot" ELSE "text"
IsText(t, i) == 3 < i /\ i < Last4(t)

LEMMA LastLine ==
  ASSUME NEW t \in Mails
  PROVE  /\ Last4(t) \in Nat /\ Last4(t) >= 5
         /\ \A i \in 1..Last4(t) : CmdOf(t, i) = "text" <=> IsText(t, i)
<1>1. Last4(t) \in Nat /\ Last4(t) >= 5
  BY SMTPReceiverAssumption DEF Last4
<1> QED BY <1>1 DEF CmdOf, IsText

LEMMA LineFields ==
  ASSUME NEW c, NEW t
  PROVE  Line(c, t).cmd = c /\ Line(c, t).mail = t
BY DEF Line

LEMMA SeqParts ==
  ASSUME NEW S, NEW s \in Seq(S), NEW j \in 0..Len(s), NEW d \in 0..j
  PROVE  /\ SubSeq(s, d + 1, j) \in Seq(S) /\ Len(SubSeq(s, d + 1, j)) = j - d
         /\ \A i \in 1..(j - d) : SubSeq(s, d + 1, j)[i] = s[d + i]
         /\ SubSeq(s, 1, Len(s)) = s
OBVIOUS

LEMMA Concatenated ==
  ASSUME NEW S, NEW s \in Seq(S), NEW t \in Seq(S)
  PROVE  /\ s \o t \in Seq(S) /\ Len(s \o t) = Len(s) + Len(t)
         /\ \A i \in 1..Len(s) : (s \o t)[i] = s[i]
         /\ \A i \in 1..Len(t) : (s \o t)[Len(s) + i] = t[i]
OBVIOUS

LEMMA ScriptLines ==
  ASSUME NEW t \in Mails
  PROVE  /\ Script(t) \in Seq(Lines) /\ Len(Script(t)) = Last4(t)
         /\ \A i \in 1..Last4(t) : Script(t)[i] = Line(CmdOf(t, i), t)
<1> DEFINE n == Length[t]
           three == <<Line("MAIL", t), Line("RCPT", t), Line("DATA", t)>>
           body == [i \in 1..n |-> Line("text", t)]
           dot == <<Line("dot", t)>>
           begin == three \o body
           whole == begin \o dot
<1>1. n \in Nat /\ n >= 1 /\ Last4(t) = n + 4
  BY SMTPReceiverAssumption DEF Last4
<1>2. \A c \in {"MAIL", "RCPT", "DATA", "text", "dot", "RSET"} : Line(c, t) \in Lines
  BY DEF Line, Lines
<1>3. three \in Seq(Lines) /\ Len(three) = 3 /\ three[1] = Line("MAIL", t)
      /\ three[2] = Line("RCPT", t) /\ three[3] = Line("DATA", t)
  BY <1>2
<1>4. body \in Seq(Lines) /\ Len(body) = n /\ \A i \in 1..n : body[i] = Line("text", t)
  BY <1>1, <1>2
<1>5. dot \in Seq(Lines) /\ Len(dot) = 1 /\ dot[1] = Line("dot", t)
  BY <1>2
<1>6. Script(t) = whole
  BY DEF Script
<1> HIDE DEF three, body, dot, n
<1>7. /\ begin \in Seq(Lines) /\ Len(begin) = 3 + n
      /\ \A i \in 1..3 : begin[i] = three[i]
      /\ \A i \in 1..n : begin[3 + i] = body[i]
  <2>1. ASSUME NEW a \in Seq(Lines), NEW b \in Seq(Lines)
        PROVE  /\ a \o b \in Seq(Lines) /\ Len(a \o b) = Len(a) + Len(b)
               /\ \A i \in 1..Len(a) : (a \o b)[i] = a[i]
               /\ \A i \in 1..Len(b) : (a \o b)[Len(a) + i] = b[i]
    BY Concatenated
  <2> HIDE DEF begin
  <2>2. /\ begin \in Seq(Lines) /\ Len(begin) = Len(three) + Len(body)
        /\ \A i \in 1..Len(three) : begin[i] = three[i]
        /\ \A i \in 1..Len(body) : begin[Len(three) + i] = body[i]
    BY <1>3, <1>4, <2>1, Zenon DEF begin
  <2> QED BY <1>3, <1>4, <2>2
<1> HIDE DEF begin
<1>8. /\ whole \in Seq(Lines) /\ Len(whole) = (3 + n) + 1
      /\ \A i \in 1..(3 + n) : whole[i] = begin[i]
      /\ \A i \in 1..1 : whole[(3 + n) + i] = dot[i]
  <2>1. ASSUME NEW a \in Seq(Lines), NEW b \in Seq(Lines)
        PROVE  /\ a \o b \in Seq(Lines) /\ Len(a \o b) = Len(a) + Len(b)
               /\ \A i \in 1..Len(a) : (a \o b)[i] = a[i]
               /\ \A i \in 1..Len(b) : (a \o b)[Len(a) + i] = b[i]
    BY Concatenated
  <2> HIDE DEF whole
  <2>2. /\ whole \in Seq(Lines) /\ Len(whole) = Len(begin) + Len(dot)
        /\ \A i \in 1..Len(begin) : whole[i] = begin[i]
        /\ \A i \in 1..Len(dot) : whole[Len(begin) + i] = dot[i]
    BY <1>5, <1>7, <2>1, Zenon DEF whole
  <2> QED BY <1>1, <1>5, <1>7, <2>2
<1> HIDE DEF whole
<1>9. ASSUME NEW i \in 1..Last4(t)
      PROVE  whole[i] = Line(CmdOf(t, i), t)
  <2>1. CASE i \in {1, 2, 3}
    BY <1>1, <1>3, <1>7, <1>8, <2>1 DEF CmdOf
  <2>2. CASE 3 < i /\ i < Last4(t)
    <3>1. i - 3 \in 1..n /\ i \in 1..(3 + n) /\ 3 + (i - 3) = i
      BY <1>1, <2>2
    <3>2. whole[i] = begin[i] /\ begin[3 + (i - 3)] = body[i - 3]
      BY <1>7, <1>8, <3>1
    <3>3. CmdOf(t, i) = "text"
      BY <1>1, <2>2 DEF CmdOf
    <3> QED BY <1>4, <3>1, <3>2, <3>3
  <2>3. CASE i = Last4(t)
    <3>1. whole[(3 + n) + 1] = dot[1] /\ i = (3 + n) + 1
      BY <1>1, <1>8, <2>3
    <3>2. CmdOf(t, i) = "dot"
      BY <1>1, <2>3 DEF CmdOf
    <3> QED BY <1>5, <3>1, <3>2
  <2> QED BY <1>1, <2>1, <2>2, <2>3
<1>10. Len(whole) = Last4(t)
  BY <1>1, <1>8
<1> QED BY <1>6, <1>8, <1>9, <1>10

LEMMA PartFacts ==
  ASSUME NEW t \in Mails, NEW j \in 0..Last4(t), NEW d \in 0..j
  PROVE  /\ Part(t, d, j) \in Seq(Lines) /\ Len(Part(t, d, j)) = j - d
         /\ d = j => Part(t, d, j) = << >>
         /\ d < j => /\ Part(t, d, j) # << >>
                     /\ Head(Part(t, d, j)) = Line(CmdOf(t, d + 1), t)
                     /\ Tail(Part(t, d, j)) = Part(t, d + 1, j)
         /\ j < Last4(t) => Append(Part(t, d, j), Line(CmdOf(t, j + 1), t)) = Part(t, d, j + 1)
         /\ Part(t, 0, Last4(t)) = Script(t)
<1> DEFINE s == Script(t)
           p == Part(t, d, j)
<1>1. s \in Seq(Lines) /\ Len(s) = Last4(t) /\ Last4(t) \in Nat
      /\ \A i \in 1..Last4(t) : s[i] = Line(CmdOf(t, i), t)
  BY ScriptLines, LastLine
<1> HIDE DEF s
<1>2. p = SubSeq(s, d + 1, j)
  BY DEF Part, s
<1>3. p \in Seq(Lines) /\ Len(p) = j - d /\ \A i \in 1..(j - d) : p[i] = s[d + i]
  BY <1>1, <1>2, SeqParts
<1>4. d = j => p = << >>
  BY <1>3
<1>5. ASSUME d < j
      PROVE  p # << >> /\ Head(p) = Line(CmdOf(t, d + 1), t) /\ Tail(p) = Part(t, d + 1, j)
  <2> DEFINE e == d + 1
             q == Part(t, e, j)
  <2>1. e \in 0..j /\ e = d + 1 /\ e \in Nat
    BY <1>5
  <2> HIDE DEF e
  <2>2. q = SubSeq(s, e + 1, j)
    BY DEF Part, s
  <2> HIDE DEF q, p
  <2>3. q \in Seq(Lines) /\ Len(q) = j - e /\ \A i \in 1..(j - e) : q[i] = s[e + i]
    <3>1. j \in 0..Len(s)
      BY <1>1
    <3>2. /\ SubSeq(s, e + 1, j) \in Seq(Lines) /\ Len(SubSeq(s, e + 1, j)) = j - e
          /\ \A i \in 1..(j - e) : SubSeq(s, e + 1, j)[i] = s[e + i]
      BY <1>1, <2>1, <3>1, SeqParts
    <3> QED BY <2>2, <3>2
  <2>4. p # << >> /\ Head(p) = s[d + 1] /\ d + 1 \in 1..Last4(t)
    BY <1>1, <1>3, <1>5
  <2>5. Tail(p) \in Seq(Lines) /\ Len(Tail(p)) = j - e
        /\ \A i \in 1..(j - e) : Tail(p)[i] = p[i + 1]
    BY <1>3, <1>5, <2>1
  <2>6. \A i \in 1..(j - e) : Tail(p)[i] = q[i]
    <3> SUFFICES ASSUME NEW i \in 1..(j - e) PROVE Tail(p)[i] = q[i]
      OBVIOUS
    <3>1. i + 1 \in 1..(j - d) /\ d + (i + 1) = e + i
      BY <2>1
    <3> QED BY <1>3, <2>3, <2>5, <3>1
  <2>7. Tail(p) = q
    BY <2>1, <2>3, <2>5, <2>6
  <2>8. Head(p) = Line(CmdOf(t, d + 1), t)
    BY <1>1, <2>4
  <2> QED BY <2>1, <2>4, <2>7, <2>8 DEF q, p
<1>6. ASSUME j < Last4(t)
      PROVE  Append(p, Line(CmdOf(t, j + 1), t)) = Part(t, d, j + 1)
  <2> DEFINE k == j + 1
             q == Part(t, d, k)
  <2>1. k \in 0..Len(s) /\ d \in 0..k /\ k = j + 1 /\ k \in 1..Last4(t)
    BY <1>1, <1>6
  <2> HIDE DEF k
  <2>2. q = SubSeq(s, d + 1, k)
    BY DEF Part, s
  <2> HIDE DEF q, p
  <2>3. q \in Seq(Lines) /\ Len(q) = k - d /\ \A i \in 1..(k - d) : q[i] = s[d + i]
    BY <1>1, <2>1, <2>2, SeqParts
  <2>4. s[k] \in Lines /\ s[k] = Line(CmdOf(t, k), t)
    BY <1>1, <2>1
  <2> DEFINE a == Append(p, s[k])
  <2>5. a \in Seq(Lines) /\ Len(a) = k - d /\ a[k - d] = s[k]
        /\ \A i \in 1..(j - d) : a[i] = p[i]
    BY <1>3, <2>1, <2>4
  <2> HIDE DEF a
  <2>6. ASSUME NEW i \in 1..(k - d) PROVE a[i] = q[i]
    <3>1. i \in 1..(j - d) \/ (i = k - d /\ d + i = k)
      BY <2>1
    <3> QED BY <1>3, <2>3, <2>5, <3>1
  <2>7. a = q
    BY <2>1, <2>3, <2>5, <2>6
  <2> QED BY <2>1, <2>4, <2>7 DEF a, q, k
<1>7. Part(t, 0, Last4(t)) = s
  <2>1. Part(t, 0, Last4(t)) = SubSeq(s, 1, Len(s))
    BY <1>1 DEF Part, s
  <2> QED BY <1>1, <2>1, SeqParts
<1> QED BY <1>3, <1>4, <1>5, <1>6, <1>7 DEF s

-----------------------------------------------------------------------------
Given(t, v) == [data |-> {t}, from |-> t, to |-> {t}, verdict |-> v]
CodeOf(v) == CASE v = "passed" -> 250 [] v = "held" -> 550 [] v = "raised" -> 451
Verdicts == {"passed", "held", "raised"}
Created(t) == [at |-> "created", data |-> {t}, from |-> NoMail, to |-> {}]
Processing(t) == [at |-> "processing", data |-> {t}, from |-> t, to |-> {t}]

Unprocessed(t) == \A p \in processed : p.data # {t}

(* Between two mails.                                                      *)
Between ==
  /\ sending = << >> /\ unanswered = << >> /\ inbound = << >> /\ replies = << >> /\ tasks = << >>
  /\ state = "COMMAND"

(* What the receiver has made of d lines of the mail t.                    *)
MadeOf(t, d) ==
  /\ state = IF 3 <= d /\ d < Last4(t) THEN "DATA" ELSE "COMMAND"
  /\ 1 <= d /\ d < Last4(t) => mailFrom = t /\ rcptTo = IF d = 1 THEN {} ELSE {t}
  /\ 3 <= d /\ d < Last4(t) => buffer \in Seq({t}) /\ (3 < d => buffer # << >>)

Good(j) == IF j = 3 THEN 354 ELSE 250

(* An answer is on its way, or will never come.                            *)
Answered(code) == replies = <<code>> \/ (~open /\ replies = << >>)

(* The client waits for an answer, after j lines.                          *)
Waits(t, j) == unanswered = IF j = 0 \/ IsText(t, j) THEN << >> ELSE <<Line(CmdOf(t, j), t)>>

(* All the lines sent are handled: the answer to the last one.             *)
UpToDate(t, j) ==
  \/ unanswered = << >> /\ replies = << >>
  \/ j \in 1..3 /\ Waits(t, j) /\ Answered(Good(j))

(* The whole mail is handled.                                              *)
InWork(t) ==
  \/ replies = << >> /\ Unprocessed(t) /\ mailFrom = t /\ rcptTo = {t} /\ tasks = <<Created(t)>>
  \/ replies = << >> /\ Unprocessed(t) /\ tasks = <<Processing(t)>>
Worked(t) ==
  /\ tasks = << >>
  /\ \E v \in Verdicts :
       /\ Answered(CodeOf(v)) /\ Given(t, v) \in processed
       /\ \A p \in processed : p.data = {t} => p = Given(t, v)

(* The client has sent j lines of the mail t, the receiver handled d.      *)
Sent(t, j, d) ==
  /\ sending = Part(t, j, Last4(t)) /\ inbound = Part(t, d, j)
  /\ d >= j - 1 \/ d >= 3
  /\ MadeOf(t, d)
  /\ t \notin left /\ told[t] = "nothing"
  /\ d < Last4(t) => tasks = << >> /\ Unprocessed(t)
  /\ d < j => replies = << >> /\ Waits(t, j)
  /\ d = j /\ j < Last4(t) => UpToDate(t, j)
  /\ d = Last4(t) => Waits(t, j) /\ (InWork(t) \/ Worked(t))

Told ==
  /\ told \in [Mails -> {"nothing", "accepted", "refused"}]
  /\ \A t \in Mails :
       /\ told[t] = "accepted" => Given(t, "passed") \in processed
       /\ told[t] = "refused" => \A p \in processed : p.data = {t} => p.verdict # "passed"
       /\ t \in left => Unprocessed(t) /\ told[t] = "nothing"

Session == Between \/ \E t \in Mails : \E j \in 0..Last4(t) : \E d \in 0..j : Sent(t, j, d)

ReceiverInv == eager \/ oversized \/ (Told /\ Session)

-----------------------------------------------------------------------------
(* Which line the receiver sees next.                                      *)
LEMMA NextLine ==
  ASSUME NEW t \in Mails, NEW j \in 0..Last4(t), NEW d \in 0..j, Sent(t, j, d), inbound # << >>
  PROVE  /\ d < j /\ Head(inbound) = Line(CmdOf(t, d + 1), t) /\ Tail(inbound) = Part(t, d + 1, j)
         /\ d + 1 \in 0..j /\ d < Last4(t) /\ tasks = << >> /\ replies = << >> /\ Unprocessed(t)
         /\ Waits(t, j)
<1>1. inbound = Part(t, d, j)
  BY DEF Sent
<1>2. d < j
  <2>1. d # j
    BY <1>1, PartFacts
  <2> QED BY <2>1
<1>3. Head(inbound) = Line(CmdOf(t, d + 1), t) /\ Tail(inbound) = Part(t, d + 1, j)
  BY <1>1, <1>2, PartFacts
<1>4. d + 1 \in 0..j /\ d < Last4(t)
  BY <1>2, LastLine
<1> QED BY <1>2, <1>3, <1>4 DEF Sent

(* The client's next line.                                                 *)
LEMMA NextSent ==
  ASSUME NEW t \in Mails, NEW j \in 0..Last4(t), NEW d \in 0..j, Sent(t, j, d)
  PROVE  /\ sending # << >> <=> j < Last4(t)
         /\ j < Last4(t) => /\ Head(sending) = Line(CmdOf(t, j + 1), t)
                            /\ Tail(sending) = Part(t, j + 1, Last4(t))
                            /\ Append(inbound, Head(sending)) = Part(t, d, j + 1)
<1>1. sending = Part(t, j, Last4(t)) /\ inbound = Part(t, d, j) /\ Last4(t) \in 0..Last4(t)
  BY LastLine DEF Sent
<1>2. j < Last4(t) \/ j = Last4(t)
  BY LastLine
<1>3. j = Last4(t) => sending = << >>
  BY <1>1, PartFacts
<1>4. j < Last4(t) => /\ sending # << >> /\ Head(sending) = Line(CmdOf(t, j + 1), t)
                      /\ Tail(sending) = Part(t, j + 1, Last4(t))
  BY <1>1, PartFacts
<1>5. j < Last4(t) => Append(inbound, Line(CmdOf(t, j + 1), t)) = Part(t, d, j + 1)
  BY <1>1, PartFacts
<1> QED BY <1>2, <1>3, <1>4, <1>5, LastLine

LEMMA SomeMail ==
  ASSUME Session, ~Between
  PROVE  \E t \in Mails : \E j \in 0..Last4(t) : \E d \in 0..j : Sent(t, j, d)
BY DEF Session

(* Nothing that Sent speaks of has changed, except that the client may     *)
(* have hung up.                                                           *)
LEMMA SentStays ==
  ASSUME NEW t \in Mails, NEW j \in 0..Last4(t), NEW d \in 0..j, Sent(t, j, d),
         UNCHANGED <<server, inbound, replies, client, processed>>, (open' = open \/ ~open')
  PROVE  Sent(t, j, d)'
<1>1. /\ UNCHANGED <<state, mailFrom, rcptTo, buffer, tasks>>
      /\ UNCHANGED <<inbound, replies, sending, unanswered, left, told, processed>>
  BY DEF server, client
<1>2. MadeOf(t, d)'
  BY <1>1 DEF Sent, MadeOf
<1>3. \A n : Answered(n) => Answered(n)'
  BY <1>1 DEF Answered
<1>4. (Unprocessed(t) <=> Unprocessed(t)') /\ (Waits(t, j) <=> Waits(t, j)')
  BY <1>1 DEF Unprocessed, Waits
<1>5. UpToDate(t, j) => UpToDate(t, j)'
  BY <1>1, <1>3, <1>4 DEF UpToDate
<1>6. InWork(t) => InWork(t)'
  BY <1>1, <1>4 DEF InWork
<1>7. Worked(t) => Worked(t)'
  BY <1>1, <1>3 DEF Worked
<1> QED BY <1>1, <1>2, <1>4, <1>5, <1>6, <1>7 DEF Sent

LEMMA ToldStays ==
  ASSUME Told, UNCHANGED <<left, told, processed>>
  PROVE  Told'
BY DEF Told, Unprocessed

LEMMA NothingHappens ==
  ASSUME ReceiverInv, UNCHANGED <<server, inbound, replies, client, processed, oversized>>,
         (open' = open \/ ~open')
  PROVE  ReceiverInv'
<1>1. Told => Told'
  BY ToldStays DEF client
<1>2. Between => Between'
  BY DEF Between, server, client
<1>3. Session => Session'
  BY <1>2, SentStays DEF Session
<1> QED BY <1>1, <1>3 DEF ReceiverInv, client

LEMMA BeginKeeps ==
  ASSUME ReceiverInv, NEW t \in Mails, BeginMail(t)
  PROVE  ReceiverInv'
<1>1. /\ sending = << >> /\ (unanswered = << >> \/ eager)
      /\ t \in left /\ left' = left \ {t} /\ sending' = Script(t)
      /\ UNCHANGED <<state, mailFrom, rcptTo, buffer, tasks, open, inbound, replies, eager>>
      /\ UNCHANGED <<unanswered, told, processed, oversized>>
  BY DEF BeginMail, server
<1> SUFFICES ASSUME ~eager, ~oversized PROVE Told' /\ Session'
  BY <1>1 DEF ReceiverInv
<1>2. Between
  <2> SUFFICES ASSUME NEW u \in Mails, NEW j \in 0..Last4(u), NEW d \in 0..j, Sent(u, j, d)
               PROVE  FALSE
    BY SomeMail DEF ReceiverInv
  <2>1. j = Last4(u) /\ j # 0 /\ ~IsText(u, j)
    BY <1>1, LastLine, NextSent DEF IsText
  <2>2. d < j \/ d = Last4(u)
    BY <2>1
  <2>3. Waits(u, j)
    BY <2>2 DEF Sent
  <2> QED BY <1>1, <2>1, <2>3 DEF Waits
<1>3. Told'
  BY <1>1 DEF Told, ReceiverInv, Unprocessed
<1>4. Last4(t) \in Nat /\ Last4(t) >= 5 /\ 0 \in 0..Last4(t) /\ 0 \in 0..0
  BY LastLine
<1>5. Part(t, 0, Last4(t)) = Script(t) /\ Part(t, 0, 0) = << >>
  BY <1>4, PartFacts
<1>6. told'[t] = "nothing" /\ Unprocessed(t)'
  BY <1>1 DEF ReceiverInv, Told, Unprocessed
<1>7. MadeOf(t, 0)'
  BY <1>1, <1>2 DEF Between, MadeOf
<1>8. Sent(t, 0, 0)'
  BY <1>1, <1>2, <1>4, <1>5, <1>6, <1>7 DEF Between, Sent, UpToDate
<1> QED BY <1>3, <1>4, <1>8 DEF Session

LEMMA SendKeeps ==
  ASSUME ReceiverInv, SendLine
  PROVE  ReceiverInv'
<1>1. /\ sending # << >> /\ inbound' = Append(inbound, Head(sending))
      /\ sending' = Tail(sending)
      /\ UNCHANGED <<state, mailFrom, rcptTo, buffer, tasks, open, replies, eager, left>>
      /\ UNCHANGED <<told, processed, oversized>>
      /\ (unanswered = << >> \/ eager)
      /\ unanswered' = IF Head(sending).cmd = "text" THEN unanswered
                       ELSE Append(unanswered, Head(sending))
  BY DEF SendLine, server
<1> SUFFICES ASSUME ~eager, ~oversized PROVE Told' /\ Session'
  BY <1>1 DEF ReceiverInv
<1>2. Told'
  BY <1>1, ToldStays DEF ReceiverInv
<1>3. PICK t \in Mails : \E j \in 0..Last4(t) : \E d \in 0..j : Sent(t, j, d)
  BY <1>1, SomeMail DEF ReceiverInv, Between
<1>4. PICK j \in 0..Last4(t) : \E d \in 0..j : Sent(t, j, d)
  BY <1>3
<1>5. PICK d \in 0..j : Sent(t, j, d)
  BY <1>4
<1>6. Last4(t) \in Nat /\ Last4(t) >= 5
  BY LastLine
<1>7. /\ j < Last4(t) /\ Head(sending) = Line(CmdOf(t, j + 1), t)
      /\ sending' = Part(t, j + 1, Last4(t)) /\ inbound' = Part(t, d, j + 1)
  BY <1>1, <1>5, NextSent
<1>8. j + 1 \in 0..Last4(t) /\ d \in 0..(j + 1) /\ d < j + 1 /\ j + 1 \in 1..Last4(t) /\ j + 1 # 0
  BY <1>6, <1>7
<1>9. d = j \/ IsText(t, j)
  <2> SUFFICES ASSUME d < j PROVE IsText(t, j)
    OBVIOUS
  <2>1. Waits(t, j) /\ j # 0
    BY <1>5 DEF Sent
  <2> QED BY <1>1, <2>1 DEF Waits
<1>10. replies = << >> /\ tasks = << >> /\ Unprocessed(t) /\ d < Last4(t)
  <2>1. d < Last4(t)
    BY <1>6, <1>7
  <2>2. d = j => replies = << >>
    <3> SUFFICES ASSUME d = j, replies # << >> PROVE FALSE
      OBVIOUS
    <3>1. unanswered = << >>
      BY <1>1
    <3>2. UpToDate(t, j)
      BY <1>5, <1>7 DEF Sent
    <3>3. j \in 1..3 /\ Waits(t, j)
      BY <3>2 DEF UpToDate
    <3>4. ~IsText(t, j) /\ j # 0
      BY <3>3 DEF IsText
    <3> QED BY <3>1, <3>3, <3>4 DEF Waits
  <2>3. d < j => replies = << >>
    BY <1>5 DEF Sent
  <2>4. d = j \/ d < j
    OBVIOUS
  <2> QED BY <1>5, <2>1, <2>2, <2>3, <2>4 DEF Sent
<1>11. Waits(t, j + 1)'
  <2>1. Head(sending).cmd = CmdOf(t, j + 1)
    BY <1>7, LineFields
  <2>2. Head(sending).cmd = "text" <=> IsText(t, j + 1)
    BY <1>8, <2>1, LastLine
  <2>3. unanswered = << >> /\ \A x : Append(<< >>, x) = <<x>>
    BY <1>1
  <2>4. CASE IsText(t, j + 1)
    BY <1>1, <2>2, <2>3, <2>4 DEF Waits
  <2>5. CASE ~IsText(t, j + 1)
    <3>1. unanswered' = Append(unanswered, Head(sending))
      BY <1>1, <2>2, <2>5
    <3>2. unanswered' = <<Line(CmdOf(t, j + 1), t)>>
      BY <1>7, <2>3, <3>1
    <3> QED BY <1>8, <2>5, <3>2 DEF Waits
  <2> QED BY <2>4, <2>5
<1>12. d >= (j + 1) - 1 \/ d >= 3
  <2>1. d >= j - 1 \/ d >= 3
    BY <1>5 DEF Sent
  <2> QED BY <1>9, <2>1 DEF IsText
<1>13. MadeOf(t, d)'
  BY <1>1, <1>5 DEF Sent, MadeOf
<1>14. Unprocessed(t)' /\ t \notin left' /\ told'[t] = "nothing"
  BY <1>1, <1>5, <1>10 DEF Sent, Unprocessed
<1>15. Sent(t, j + 1, d)'
  BY <1>1, <1>7, <1>8, <1>10, <1>11, <1>12, <1>13, <1>14 DEF Sent
<1> QED BY <1>2, <1>8, <1>15 DEF Session

LEMMA HangUpKeeps ==
  ASSUME ReceiverInv, HangUp
  PROVE  ReceiverInv'
BY NothingHappens DEF HangUp

LEMMA ReadKeeps ==
  ASSUME ReceiverInv, ReadReply
  PROVE  ReceiverInv'
<1>1. /\ replies # << >> /\ unanswered # << >> /\ replies' = Tail(replies)
      /\ unanswered' = Tail(unanswered)
      /\ UNCHANGED <<state, mailFrom, rcptTo, buffer, tasks, open, inbound, eager, left>>
      /\ UNCHANGED <<processed, oversized>>
  BY DEF ReadReply, server
<1> SUFFICES ASSUME ~eager, ~oversized PROVE Told' /\ Session'
  BY <1>1 DEF ReceiverInv
<1>3. PICK t \in Mails : \E j \in 0..Last4(t) : \E d \in 0..j : Sent(t, j, d)
  BY <1>1, SomeMail DEF ReceiverInv, Between
<1>4. PICK j \in 0..Last4(t) : \E d \in 0..j : Sent(t, j, d)
  BY <1>3
<1>5. PICK d \in 0..j : Sent(t, j, d)
  BY <1>4
<1>6. Last4(t) \in Nat /\ Last4(t) >= 5
  BY LastLine
<1>7. d = j
  BY <1>1, <1>5 DEF Sent
<1>8. CASE j < Last4(t)
  <2>1. j \in 1..3 /\ Waits(t, j) /\ Answered(Good(j))
    BY <1>1, <1>5, <1>7, <1>8 DEF Sent, UpToDate
  <2>2. unanswered = <<Line(CmdOf(t, j), t)>> /\ replies = <<Good(j)>>
    BY <1>1, <2>1 DEF Waits, IsText, Answered
  <2>3. unanswered' = << >> /\ replies' = << >>
    BY <1>1, <2>2
  <2>4. Head(unanswered) = Line(CmdOf(t, j), t) /\ Head(replies) = Good(j)
    BY <2>2
  <2>5. CmdOf(t, j) \in {"MAIL", "RCPT", "DATA"} /\ (CmdOf(t, j) = "DATA" <=> j = 3)
    BY <2>1 DEF CmdOf
  <2>6. UNCHANGED <<told, sending>>
    <3>1. Head(unanswered).cmd = CmdOf(t, j)
      BY <2>4, LineFields
    <3>2. Head(unanswered).cmd # "RSET" /\ Head(unanswered).cmd # "dot"
      BY <2>5, <3>1
    <3>3. IF Head(unanswered).cmd = "DATA" THEN Head(replies) = 354 ELSE Head(replies) = 250
      BY <2>4, <2>5, <3>1 DEF Good
    <3> QED BY <3>2, <3>3 DEF ReadReply
  <2>7. Told'
    BY <1>1, <2>6, ToldStays DEF ReceiverInv
  <2>8. MadeOf(t, d)' /\ (Unprocessed(t) => Unprocessed(t)') /\ UpToDate(t, j)'
    BY <1>1, <1>5, <2>3 DEF Sent, MadeOf, Unprocessed, UpToDate
  <2>9. d # Last4(t) /\ ~(d < j)
    BY <1>6, <1>7, <1>8
  <2>10. Sent(t, j, d)'
    BY <1>1, <1>5, <2>6, <2>8, <2>9 DEF Sent
  <2> QED BY <2>7, <2>10 DEF Session
<1>9. CASE j = Last4(t)
  <2>1. j # 0 /\ ~IsText(t, j) /\ CmdOf(t, j) = "dot" /\ j \in 0..Last4(t)
    BY <1>6, <1>9 DEF IsText, CmdOf
  <2>2. unanswered = <<Line("dot", t)>> /\ Worked(t)
    <3>1. Waits(t, j) /\ (InWork(t) \/ Worked(t))
      BY <1>5, <1>7, <1>9 DEF Sent
    <3> QED BY <1>1, <2>1, <3>1 DEF Waits, InWork
  <2>3. tasks = << >> /\ state = "COMMAND" /\ sending = << >> /\ inbound = << >>
    <3>1. sending = << >>
      BY <1>5, <1>9, NextSent
    <3>2. inbound = << >>
      BY <1>5, <1>7, PartFacts DEF Sent
    <3>3. state = "COMMAND"
      BY <1>5, <1>6, <1>7, <1>9 DEF Sent, MadeOf
    <3> QED BY <2>2, <3>1, <3>2, <3>3 DEF Worked
  <2>4. PICK v \in Verdicts : /\ replies = <<CodeOf(v)>> /\ Given(t, v) \in processed
                              /\ \A p \in processed : p.data = {t} => p = Given(t, v)
    BY <1>1, <2>2 DEF Worked, Answered
  <2>5. unanswered' = << >> /\ replies' = << >> /\ Head(unanswered) = Line("dot", t)
        /\ Head(replies) = CodeOf(v)
    BY <1>1, <2>2, <2>4
  <2>6. told' = [told EXCEPT ![t] = IF CodeOf(v) = 250 THEN "accepted" ELSE "refused"]
        /\ sending' = sending
    <3>1. Head(unanswered).cmd = "dot" /\ Head(unanswered).mail = t
      BY <2>5, LineFields
    <3> QED BY <2>5, <3>1 DEF ReadReply
  <2>7. CodeOf(v) = 250 <=> v = "passed"
    BY DEF CodeOf, Verdicts
  <2>8. Between'
    BY <1>1, <2>3, <2>5, <2>6 DEF Between
  <2>9. t \notin left
    BY <1>5 DEF Sent
  <2>10. Told'
    <3>1. told \in [Mails -> {"nothing", "accepted", "refused"}]
      BY DEF ReceiverInv, Told
    <3>2. told' \in [Mails -> {"nothing", "accepted", "refused"}]
      BY <2>6, <3>1
    <3>3. ASSUME NEW u \in Mails
          PROVE  /\ told'[u] = "accepted" => Given(u, "passed") \in processed
                 /\ told'[u] = "refused" => \A p \in processed : p.data = {u} => p.verdict # "passed"
                 /\ u \in left => Unprocessed(u) /\ told'[u] = "nothing"
      <4>1. CASE u # t
        <5>1. told'[u] = told[u]
          BY <2>6, <3>1, <4>1
        <5> QED BY <5>1 DEF ReceiverInv, Told
      <4>2. CASE u = t
        <5>1. told'[u] = IF CodeOf(v) = 250 THEN "accepted" ELSE "refused"
          BY <2>6, <3>1, <4>2
        <5>2. Given(t, v).verdict = v
          BY DEF Given
        <5> QED BY <2>4, <2>7, <2>9, <4>2, <5>1, <5>2
      <4> QED BY <4>1, <4>2
    <3> QED BY <1>1, <3>2, <3>3 DEF Told, Unprocessed
  <2> QED BY <2>8, <2>10 DEF Session
<1> QED BY <1>6, <1>8, <1>9

-----------------------------------------------------------------------------
(* The receiver has handled one line more.                                 *)
LEMMA LineHandled ==
  ASSUME NEW t \in Mails, NEW j \in 0..Last4(t), NEW d \in 0..j, Sent(t, j, d), inbound # << >>,
         inbound' = Tail(inbound), UNCHANGED <<open, client, processed, oversized>>,
         MadeOf(t, d + 1)',
         \/ /\ d \in 0..2 /\ tasks' = << >> /\ Answer(Good(d + 1))
         \/ /\ 3 <= d /\ d + 1 < Last4(t) /\ tasks' = << >> /\ replies' = replies
         \/ /\ d + 1 = Last4(t) /\ replies' = replies /\ mailFrom' = t /\ rcptTo' = {t}
            /\ tasks' = <<Created(t)>>
  PROVE  d + 1 \in 0..j /\ Sent(t, j, d + 1)'
<1>1. /\ d < j /\ Tail(inbound) = Part(t, d + 1, j) /\ d + 1 \in 0..j /\ replies = << >>
      /\ Unprocessed(t) /\ Waits(t, j)
  BY NextLine
<1>2. Last4(t) \in Nat /\ Last4(t) >= 5
  BY LastLine
<1>3. sending' = Part(t, j, Last4(t)) /\ inbound' = Part(t, d + 1, j)
  BY <1>1 DEF Sent, client
<1>4. d + 1 >= j - 1 \/ d + 1 >= 3
  <2>1. d >= j - 1 \/ d >= 3
    BY DEF Sent
  <2> QED BY <2>1
<1>5. t \notin left' /\ told'[t] = "nothing" /\ Unprocessed(t)' /\ Waits(t, j)'
  BY <1>1 DEF Sent, client, Unprocessed, Waits
<1>6. CASE d \in 0..2 /\ tasks' = << >> /\ Answer(Good(d + 1))
  <2>1. d >= j - 1 \/ d >= 3
    BY DEF Sent
  <2>2. j = d + 1 /\ j \in 1..3 /\ j < Last4(t)
    BY <1>1, <1>2, <1>6, <2>1
  <2>3. replies' = IF open THEN <<Good(j)>> ELSE << >>
    BY <1>1, <1>6, <2>2 DEF Answer
  <2>4. UpToDate(t, j)'
    BY <1>5, <2>2, <2>3 DEF UpToDate, Answered
  <2> QED BY <1>1, <1>2, <1>3, <1>4, <1>5, <1>6, <2>2, <2>4 DEF Sent
<1>7. CASE 3 <= d /\ d + 1 < Last4(t) /\ tasks' = << >> /\ replies' = replies
  <2>1. replies' = << >>
    BY <1>1, <1>7
  <2>2. ASSUME d + 1 = j PROVE UpToDate(t, j)'
    <3>1. IsText(t, j)
      BY <1>7, <2>2 DEF IsText
    <3> QED BY <1>5, <2>1, <3>1 DEF UpToDate, Waits
  <2> QED BY <1>1, <1>2, <1>3, <1>4, <1>5, <1>7, <2>1, <2>2 DEF Sent
<1>8. CASE /\ d + 1 = Last4(t) /\ replies' = replies /\ mailFrom' = t /\ rcptTo' = {t}
           /\ tasks' = <<Created(t)>>
  <2>1. j = Last4(t) /\ replies' = << >>
    BY <1>1, <1>2, <1>8
  <2>2. InWork(t)'
    BY <1>5, <1>8, <2>1 DEF InWork
  <2> QED BY <1>1, <1>2, <1>3, <1>4, <1>5, <1>8, <2>1, <2>2 DEF Sent
<1> QED BY <1>1, <1>6, <1>7, <1>8

(* The state tells how far the receiver is.                                *)
LEMMA WhereItIs ==
  ASSUME NEW t \in Mails, NEW j \in 0..Last4(t), NEW d \in 0..j, Sent(t, j, d), inbound # << >>
  PROVE  /\ state = "COMMAND" => d \in 0..2
         /\ state = "DATA" => 3 <= d /\ d < Last4(t)
         /\ 1 <= d => mailFrom = t /\ rcptTo = IF d = 1 THEN {} ELSE {t}
         /\ 3 <= d => buffer \in Seq({t}) /\ (3 < d => buffer # << >>)
<1>1. d < Last4(t) /\ Last4(t) \in Nat
  BY NextLine, LastLine
<1>2. MadeOf(t, d)
  BY DEF Sent
<1> QED BY <1>1, <1>2 DEF MadeOf

LEMMA CommandKeeps ==
  ASSUME ReceiverInv, CommandLine
  PROVE  ReceiverInv'
<1>1. UNCHANGED <<tasks, open, client, processed, oversized>> /\ inbound # << >> /\ inbound' = Tail(inbound)
      /\ state = "COMMAND"
  BY DEF CommandLine, Receives
<1> SUFFICES ASSUME ~eager, ~oversized PROVE Told' /\ Session'
  BY <1>1 DEF ReceiverInv, client
<1>2. Told'
  BY <1>1, ToldStays DEF ReceiverInv, client
<1>3. PICK t \in Mails : \E j \in 0..Last4(t) : \E d \in 0..j : Sent(t, j, d)
  BY <1>1, SomeMail DEF ReceiverInv, Between
<1>4. PICK j \in 0..Last4(t) : \E d \in 0..j : Sent(t, j, d)
  BY <1>3
<1>5. PICK d \in 0..j : Sent(t, j, d)
  BY <1>4
<1>6. /\ Head(inbound) = Line(CmdOf(t, d + 1), t) /\ tasks = << >> /\ d \in 0..2
      /\ 1 <= d => mailFrom = t /\ rcptTo = IF d = 1 THEN {} ELSE {t}
  BY <1>1, <1>5, NextLine, WhereItIs
<1>7. Last4(t) \in Nat /\ Last4(t) >= 5
  BY LastLine
<1>8. Head(inbound).cmd = CmdOf(t, d + 1) /\ It = t
  BY <1>6, LineFields DEF It
<1>9. t # NoMail
  BY SMTPReceiverAssumption
<1>10. MadeOf(t, d + 1)' /\ Answer(Good(d + 1))
  <2>1. CASE d = 0
    <3>1. Head(inbound).cmd = "MAIL"
      BY <1>8, <2>1 DEF CmdOf
    <3>2. mailFrom' = t /\ rcptTo' = {} /\ Answer(250) /\ state' = "COMMAND"
      BY <1>1, <1>8, <3>1 DEF CommandLine, Receives
    <3> QED BY <1>7, <2>1, <3>2 DEF MadeOf, Good
  <2>2. CASE d = 1
    <3>1. Head(inbound).cmd = "RCPT" /\ mailFrom = t /\ rcptTo = {}
      BY <1>6, <1>8, <2>2 DEF CmdOf
    <3>2. mailFrom' = t /\ rcptTo' = {t} /\ Answer(250) /\ state' = "COMMAND"
      BY <1>1, <1>8, <1>9, <3>1 DEF CommandLine, Receives
    <3> QED BY <1>7, <2>2, <3>2 DEF MadeOf, Good
  <2>3. CASE d = 2
    <3>1. Head(inbound).cmd = "DATA" /\ mailFrom = t /\ rcptTo = {t}
      BY <1>6, <1>8, <2>3 DEF CmdOf
    <3>2. mailFrom' = t /\ rcptTo' = {t} /\ Answer(354) /\ state' = "DATA" /\ buffer' = << >>
      BY <3>1 DEF CommandLine, Receives
    <3>3. << >> \in Seq({t})
      OBVIOUS
    <3> QED BY <1>7, <2>3, <3>2, <3>3 DEF MadeOf, Good
  <2> QED BY <1>6, <2>1, <2>2, <2>3
<1>11. d + 1 \in 0..j /\ Sent(t, j, d + 1)'
  BY <1>1, <1>5, <1>6, <1>10, LineHandled
<1> QED BY <1>2, <1>11 DEF Session

LEMMA EndKeeps ==
  ASSUME ReceiverInv, EndOfData
  PROVE  ReceiverInv'
<1>1. /\ state = "DATA" /\ inbound # << >> /\ inbound' = Tail(inbound) /\ Head(inbound).cmd = "dot"
      /\ state' = "COMMAND"
      /\ tasks' = Append(tasks, [at |-> "created", data |-> ToSet(buffer), from |-> NoMail, to |-> {}])
      /\ UNCHANGED <<mailFrom, rcptTo, buffer, open, replies, client, processed, oversized>>
  BY DEF EndOfData, Receives
<1> SUFFICES ASSUME ~eager, ~oversized PROVE Told' /\ Session'
  BY <1>1 DEF ReceiverInv, client
<1>2. Told'
  BY <1>1, ToldStays DEF ReceiverInv, client
<1>3. PICK t \in Mails : \E j \in 0..Last4(t) : \E d \in 0..j : Sent(t, j, d)
  BY <1>1, SomeMail DEF ReceiverInv, Between
<1>4. PICK j \in 0..Last4(t) : \E d \in 0..j : Sent(t, j, d)
  BY <1>3
<1>5. PICK d \in 0..j : Sent(t, j, d)
  BY <1>4
<1>6. /\ Head(inbound) = Line(CmdOf(t, d + 1), t) /\ tasks = << >> /\ 3 <= d /\ d < Last4(t)
      /\ mailFrom = t /\ rcptTo = {t} /\ buffer \in Seq({t}) /\ (3 < d => buffer # << >>)
  <2>1. 3 <= d /\ d < Last4(t)
    BY <1>1, <1>5, WhereItIs
  <2>2. d # 1
    BY <2>1
  <2>3. /\ 1 <= d => mailFrom = t /\ rcptTo = IF d = 1 THEN {} ELSE {t}
        /\ 3 <= d => buffer \in Seq({t}) /\ (3 < d => buffer # << >>)
    BY <1>1, <1>5, WhereItIs
  <2>4. mailFrom = t /\ rcptTo = {t}
    BY <2>1, <2>2, <2>3
  <2> QED BY <1>1, <1>5, <2>1, <2>3, <2>4, NextLine
<1>7. Last4(t) \in Nat /\ Last4(t) >= 5
  BY LastLine
<1>8. d + 1 = Last4(t)
  <2>1. CmdOf(t, d + 1) = "dot"
    BY <1>1, <1>6, LineFields
  <2> QED BY <1>6, <2>1 DEF CmdOf
<1>9. ToSet(buffer) = {t}
  <2>1. buffer # << >>
    BY <1>6, <1>7, <1>8
  <2>2. 1 \in DOMAIN buffer /\ \A i \in DOMAIN buffer : buffer[i] = t
    BY <1>6, <2>1
  <2> QED BY <2>2 DEF ToSet
<1>10. tasks' = <<Created(t)>>
  BY <1>1, <1>6, <1>9 DEF Created
<1>11. MadeOf(t, d + 1)'
  BY <1>1, <1>7, <1>8 DEF MadeOf
<1>12. mailFrom' = t /\ rcptTo' = {t} /\ replies' = replies
  BY <1>1, <1>6
<1>13. d + 1 \in 0..j /\ Sent(t, j, d + 1)'
  BY <1>1, <1>5, <1>8, <1>10, <1>11, <1>12, LineHandled
<1> QED BY <1>2, <1>13 DEF Session

LEMMA DataKeeps ==
  ASSUME ReceiverInv, DataLine
  PROVE  ReceiverInv'
<1>1. /\ state = "DATA" /\ inbound # << >> /\ Head(inbound).cmd # "dot" /\ inbound' = Tail(inbound)
      /\ UNCHANGED <<mailFrom, rcptTo, tasks, open, client, processed>>
      /\ \/ oversized'
         \/ buffer' = Append(buffer, It) /\ UNCHANGED <<state, replies, oversized>>
  BY DEF DataLine
<1> SUFFICES ASSUME ~eager, ~oversized' PROVE Told' /\ Session'
  BY <1>1 DEF ReceiverInv, client
<1>2. ~oversized /\ buffer' = Append(buffer, It) /\ UNCHANGED <<state, replies, oversized>>
  BY <1>1
<1>3. Told'
  BY <1>1, <1>2, ToldStays DEF ReceiverInv, client
<1>4. PICK t \in Mails : \E j \in 0..Last4(t) : \E d \in 0..j : Sent(t, j, d)
  BY <1>1, <1>2, SomeMail DEF ReceiverInv, Between
<1>5. PICK j \in 0..Last4(t) : \E d \in 0..j : Sent(t, j, d)
  BY <1>4
<1>6. PICK d \in 0..j : Sent(t, j, d)
  BY <1>5
<1>7. /\ Head(inbound) = Line(CmdOf(t, d + 1), t) /\ tasks = << >> /\ 3 <= d /\ d < Last4(t)
      /\ mailFrom = t /\ rcptTo = {t} /\ buffer \in Seq({t})
  <2>1. 3 <= d /\ d < Last4(t)
    BY <1>1, <1>6, WhereItIs
  <2>2. d # 1
    BY <2>1
  <2>3. Head(inbound) = Line(CmdOf(t, d + 1), t) /\ tasks = << >>
    BY <1>1, <1>6, NextLine, Zenon
  <2>4. 1 <= d
    BY <2>1
  <2>5. mailFrom = t /\ rcptTo = {t} /\ buffer \in Seq({t})
    BY <1>1, <1>6, <2>1, <2>2, <2>4, WhereItIs, Zenon
  <2> QED BY <2>1, <2>3, <2>5
<1>8. Last4(t) \in Nat /\ Last4(t) >= 5
  BY LastLine
<1>9. Head(inbound).cmd = CmdOf(t, d + 1) /\ It = t
  BY <1>7, LineFields DEF It
<1>10. d + 1 < Last4(t)
  <2>1. d + 1 # Last4(t)
    BY <1>1, <1>7, <1>9 DEF CmdOf
  <2> QED BY <1>7, <1>8, <2>1
<1>11. buffer' \in Seq({t}) /\ buffer' # << >>
  BY <1>2, <1>7, <1>9
<1>12. MadeOf(t, d + 1)'
  BY <1>1, <1>2, <1>7, <1>8, <1>10, <1>11 DEF MadeOf
<1>13. tasks' = << >>
  BY <1>1, <1>7
<1>14. d + 1 \in 0..j /\ Sent(t, j, d + 1)'
  BY <1>1, <1>2, <1>6, <1>7, <1>10, <1>12, <1>13, LineHandled
<1> QED BY <1>3, <1>14 DEF Session

(* A task is there only when the whole mail was sent and handled.          *)
LEMMA TaskOfMail ==
  ASSUME Session, tasks # << >>
  PROVE  \E t \in Mails : Sent(t, Last4(t), Last4(t)) /\ InWork(t)
<1>1. PICK t \in Mails : \E j \in 0..Last4(t) : \E d \in 0..j : Sent(t, j, d)
  BY SomeMail DEF Between
<1>2. PICK j \in 0..Last4(t) : \E d \in 0..j : Sent(t, j, d)
  BY <1>1
<1>3. PICK d \in 0..j : Sent(t, j, d)
  BY <1>2
<1>4. ~(d < Last4(t))
  BY <1>3 DEF Sent
<1>5. d = Last4(t) /\ j = Last4(t)
  BY <1>4, LastLine
<1> QED BY <1>3, <1>5 DEF Sent, Worked

(* What a task is once it has read the envelope.                           *)
LEMMA TaskBegun ==
  ASSUME NEW D, NEW F, NEW R, NEW m, NEW s
  PROVE  [[at |-> "created", data |-> D, from |-> F, to |-> R]
             EXCEPT !.at = "processing", !.from = m, !.to = s]
           = [at |-> "processing", data |-> D, from |-> m, to |-> s]
<1>1. [[at |-> "created", data |-> D, from |-> F, to |-> R]
          EXCEPT !.at = "processing", !.from = m, !.to = s]
        \in [at : {"processing"}, data : {D}, from : {m}, to : {s}]
  OBVIOUS
<1>2. \A r \in [at : {"processing"}, data : {D}, from : {m}, to : {s}] :
        r = [at |-> "processing", data |-> D, from |-> m, to |-> s]
  OBVIOUS
<1> QED BY <1>1, <1>2, Zenon

LEMMA StartKeeps ==
  ASSUME ReceiverInv, NEW i \in DOMAIN tasks, TaskStarts(i)
  PROVE  ReceiverInv'
<1>1. /\ tasks[i].at = "created"
      /\ tasks' = [tasks EXCEPT ![i].at = "processing", ![i].from = mailFrom, ![i].to = rcptTo]
      /\ UNCHANGED <<state, mailFrom, rcptTo, buffer, open, inbound, replies, client, processed, oversized>>
  BY DEF TaskStarts
<1> SUFFICES ASSUME ~eager, ~oversized PROVE Told' /\ Session'
  BY <1>1 DEF ReceiverInv, client
<1>2. Told'
  BY <1>1, ToldStays DEF ReceiverInv, client
<1>3. tasks # << >>
  OBVIOUS
<1>4. PICK t \in Mails : Sent(t, Last4(t), Last4(t)) /\ InWork(t)
  BY <1>3, TaskOfMail DEF ReceiverInv
<1>5. tasks = <<Created(t)>> /\ i = 1 /\ replies = << >> /\ Unprocessed(t) /\ mailFrom = t /\ rcptTo = {t}
  <2>1. tasks # <<Processing(t)>>
    <3> SUFFICES ASSUME tasks = <<Processing(t)>> PROVE FALSE
      OBVIOUS
    <3>1. tasks[i] = Processing(t)
      OBVIOUS
    <3> QED BY <1>1, <3>1 DEF Processing
  <2> QED BY <1>4, <2>1 DEF InWork
<1>6. tasks' = <<Processing(t)>>
  <2> DEFINE new == [tasks[1] EXCEPT !.at = "processing", !.from = mailFrom, !.to = rcptTo]
  <2>1. tasks' = [tasks EXCEPT ![1] = new]
    BY <1>1, <1>5
  <2>2. tasks[1] = [at |-> "created", data |-> {t}, from |-> NoMail, to |-> {}]
    BY <1>5 DEF Created
  <2>3. new = [[at |-> "created", data |-> {t}, from |-> NoMail, to |-> {}]
                  EXCEPT !.at = "processing", !.from = t, !.to = {t}]
    BY <1>5, <2>2
  <2> HIDE DEF new
  <2>4. new = [at |-> "processing", data |-> {t}, from |-> t, to |-> {t}]
    BY <2>3, TaskBegun, Zenon
  <2>5. new = Processing(t)
    BY <2>4, Zenon DEF Processing
  <2> QED BY <1>5, <2>1, <2>5
<1>7. Last4(t) \in Nat /\ Last4(t) >= 5 /\ Last4(t) \in 0..Last4(t)
  BY LastLine
<1>8. InWork(t)' /\ MadeOf(t, Last4(t))' /\ (Waits(t, Last4(t)) => Waits(t, Last4(t))')
  BY <1>1, <1>4, <1>5, <1>6, <1>7 DEF InWork, Unprocessed, Sent, MadeOf, Waits, client
<1>9. Sent(t, Last4(t), Last4(t))'
  BY <1>1, <1>4, <1>7, <1>8 DEF Sent, client
<1> QED BY <1>2, <1>7, <1>9 DEF Session

LEMMA EndsKeeps ==
  ASSUME ReceiverInv, NEW i \in DOMAIN tasks, NEW v \in Verdicts, TaskEnds(i, v)
  PROVE  ReceiverInv'
<1>1. /\ tasks[i].at = "processing"
      /\ processed' = processed \cup
           {[data |-> tasks[i].data, from |-> tasks[i].from, to |-> tasks[i].to, verdict |-> v]}
      /\ Answer(CodeOf(v)) /\ tasks' = RemoveAt(tasks, i)
      /\ UNCHANGED <<state, open, inbound, client, oversized>>
  BY DEF TaskEnds, CodeOf
<1> SUFFICES ASSUME ~eager, ~oversized PROVE Told' /\ Session'
  BY <1>1 DEF ReceiverInv, client
<1>2. tasks # << >>
  OBVIOUS
<1>3. PICK t \in Mails : Sent(t, Last4(t), Last4(t)) /\ InWork(t)
  BY <1>2, TaskOfMail DEF ReceiverInv
<1>4. tasks = <<Processing(t)>> /\ i = 1 /\ replies = << >> /\ Unprocessed(t)
  <2>1. tasks # <<Created(t)>>
    <3> SUFFICES ASSUME tasks = <<Created(t)>> PROVE FALSE
      OBVIOUS
    <3>1. tasks[i] = Created(t)
      OBVIOUS
    <3> QED BY <1>1, <3>1 DEF Created
  <2> QED BY <1>3, <2>1 DEF InWork
<1>5. tasks' = << >>
  BY <1>1, <1>4 DEF RemoveAt
<1>6. processed' = processed \cup {Given(t, v)}
  <2>1. tasks[i] = [at |-> "processing", data |-> {t}, from |-> t, to |-> {t}]
    BY <1>4 DEF Processing
  <2> QED BY <1>1, <2>1 DEF Given
<1>7. Given(t, v).data = {t}
  BY DEF Given
<1>8. t \notin left /\ told[t] = "nothing"
  BY <1>3 DEF Sent
<1>9. UNCHANGED <<sending, unanswered, left, told>>
  BY <1>1 DEF client
<1>10. Told'
  <2>1. ASSUME NEW u \in Mails
        PROVE  /\ told[u] = "accepted" => Given(u, "passed") \in processed'
               /\ told[u] = "refused" => \A p \in processed' : p.data = {u} => p.verdict # "passed"
               /\ u \in left => (\A p \in processed' : p.data # {u}) /\ told[u] = "nothing"
    <3>1. CASE u = t
      BY <1>8, <3>1
    <3>2. CASE u # t
      <4>1. {u} # {t}
        BY <3>2
      <4> QED BY <1>6, <1>7, <4>1 DEF ReceiverInv, Told, Unprocessed
    <3> QED BY <3>1, <3>2
  <2> QED BY <1>9, <2>1 DEF ReceiverInv, Told, Unprocessed
<1>11. Answered(CodeOf(v))'
  <2>1. replies' = IF open THEN <<CodeOf(v)>> ELSE << >>
    BY <1>1, <1>4 DEF Answer
  <2> QED BY <1>1, <2>1 DEF Answered
<1>12. \A p \in processed' : p.data = {t} => p = Given(t, v)
  BY <1>4, <1>6 DEF Unprocessed
<1>13. Given(t, v) \in processed'
  BY <1>6
<1>14. Worked(t)'
  BY <1>5, <1>11, <1>12, <1>13 DEF Worked
<1>15. Last4(t) \in Nat /\ Last4(t) >= 5 /\ Last4(t) \in 0..Last4(t)
  BY LastLine
<1>16. MadeOf(t, Last4(t))' /\ (Waits(t, Last4(t)) => Waits(t, Last4(t))')
  BY <1>1, <1>3, <1>9, <1>15 DEF Sent, MadeOf, Waits
<1>17. Sent(t, Last4(t), Last4(t))'
  BY <1>1, <1>3, <1>9, <1>14, <1>15, <1>16 DEF Sent
<1> QED BY <1>10, <1>15, <1>17 DEF Session

LEMMA ReceiverInit == SInitial => ReceiverInv
BY DEF SInitial, ReceiverInv, Told, Session, Between, Unprocessed

LEMMA ReceiverKeeps == ReceiverInv /\ [SNext]_svars => ReceiverInv'
<1> SUFFICES ASSUME ReceiverInv, [SNext]_svars PROVE ReceiverInv'
  OBVIOUS
<1>1. CASE UNCHANGED svars
  BY <1>1, NothingHappens DEF svars
<1>2. CASE TaskStep
  BY <1>2, StartKeeps, EndsKeeps DEF TaskStep, Verdicts
<1>3. CASE ClientStep
  BY <1>3, BeginKeeps, SendKeeps, ReadKeeps, HangUpKeeps DEF ClientStep
<1> QED BY <1>1, <1>2, <1>3, CommandKeeps, EndKeeps, DataKeeps DEF SNext

-----------------------------------------------------------------------------
(* A client that does not wait.  What it has sent and still has to send of *)
(* the mail it is at is one stream, in which mail follows mail.            *)

Tasks == [at : {"created", "processing"}, data : SUBSET Mails,
          from : Mails \cup {NoMail}, to : SUBSET Mails]
Whole(e) == e.to \subseteq {e.from} /\ \A a, b \in e.data : a = b
WholeTasks == {e \in Tasks : Whole(e)}

Chained(s) ==
  /\ s \in Seq(Lines)
  /\ s # << >> => s[Len(s)].cmd = "dot"
  /\ \A i \in 2..Len(s) :
       IF s[i].cmd = "MAIL" THEN s[i - 1].cmd = "dot" ELSE s[i].mail = s[i - 1].mail

(* In the middle of a mail the session knows no sender but that mail's,    *)
(* and DATA ends before the next mail.                                     *)
Under(s) ==
  /\ state = "DATA" => s # << >> /\ s[1].cmd # "MAIL"
  /\ s # << >> /\ s[1].cmd # "MAIL" =>
       /\ mailFrom \in {NoMail, s[1].mail}
       /\ state = "DATA" => \A i \in DOMAIN buffer : buffer[i] = s[1].mail

Unmixed ==
  /\ inbound \in Seq(Lines) /\ sending \in Seq(Lines)
  /\ Chained(inbound \o sending) /\ Under(inbound \o sending)
  /\ mailFrom \in Mails \cup {NoMail} /\ rcptTo \subseteq Mails
  /\ rcptTo \subseteq {mailFrom}
  /\ buffer \in Seq(Mails)
  /\ tasks \in Seq(WholeTasks)
  /\ \A p \in processed : Whole(p)

PipelineInv == eager => Unmixed

LEMMA StreamParts ==
  ASSUME NEW S, NEW a \in Seq(S), NEW b \in Seq(S)
  PROVE  /\ a \o << >> = a
         /\ b # << >> => Append(a, Head(b)) \o Tail(b) = a \o b
         /\ a # << >> => a \o b # << >> /\ (a \o b)[1] = Head(a) /\ Tail(a) \o b = Tail(a \o b)
<1>1. a \o << >> = a
  OBVIOUS
<1>2. ASSUME b # << >>
      PROVE  Append(a, Head(b)) \o Tail(b) = a \o b
  <2> DEFINE u == Append(a, Head(b))
             v == Tail(b)
  <2>1. /\ u \in Seq(S) /\ Len(u) = Len(a) + 1 /\ u[Len(a) + 1] = b[1]
        /\ \A i \in 1..Len(a) : u[i] = a[i]
        /\ v \in Seq(S) /\ Len(v) = Len(b) - 1 /\ Len(b) >= 1
        /\ \A i \in 1..Len(v) : v[i] = b[i + 1]
    BY <1>2
  <2> HIDE DEF u, v
  <2>2. /\ Len(a) \in Nat /\ Len(b) \in Nat
        /\ u \o v \in Seq(S) /\ Len(u \o v) = (Len(a) + 1) + (Len(b) - 1)
        /\ a \o b \in Seq(S) /\ Len(a \o b) = Len(a) + Len(b)
        /\ \A i \in 1..Len(u) : (u \o v)[i] = u[i]
        /\ \A i \in 1..Len(v) : (u \o v)[Len(u) + i] = v[i]
        /\ \A i \in 1..Len(a) : (a \o b)[i] = a[i]
        /\ \A i \in 1..Len(b) : (a \o b)[Len(a) + i] = b[i]
    <3>1. ASSUME NEW p \in Seq(S), NEW q \in Seq(S)
          PROVE  /\ p \o q \in Seq(S) /\ Len(p \o q) = Len(p) + Len(q) /\ Len(p) \in Nat
                 /\ \A i \in 1..Len(p) : (p \o q)[i] = p[i]
                 /\ \A i \in 1..Len(q) : (p \o q)[Len(p) + i] = q[i]
      BY Concatenated
    <3>2. u \in Seq(S) /\ v \in Seq(S) /\ a \in Seq(S) /\ b \in Seq(S)
      BY <2>1
    <3>3. Len(u) = Len(a) + 1 /\ Len(v) = Len(b) - 1
      BY <2>1
    <3>4. Len(u \o v) = Len(u) + Len(v) /\ u \o v \in Seq(S)
          /\ (\A i \in 1..Len(u) : (u \o v)[i] = u[i])
          /\ (\A i \in 1..Len(v) : (u \o v)[Len(u) + i] = v[i])
      BY <3>1, <3>2, Zenon
    <3>5. Len(a \o b) = Len(a) + Len(b) /\ a \o b \in Seq(S) /\ Len(a) \in Nat /\ Len(b) \in Nat
          /\ (\A i \in 1..Len(a) : (a \o b)[i] = a[i])
          /\ (\A i \in 1..Len(b) : (a \o b)[Len(a) + i] = b[i])
      BY <3>1, <3>2, Zenon
    <3> QED BY <3>3, <3>4, <3>5
  <2>3. ASSUME NEW i \in 1..(Len(a) + Len(b))
        PROVE  (u \o v)[i] = (a \o b)[i]
    <3>1. CASE i <= Len(a)
      BY <2>1, <2>2, <3>1
    <3>2. CASE i = Len(a) + 1
      <4>1. i \in 1..Len(u) /\ 1 \in 1..Len(b) /\ i = Len(a) + 1
        BY <2>1, <2>2, <3>2
      <4> QED BY <2>1, <2>2, <4>1
    <3>3. CASE i > Len(a) + 1
      <4>1. /\ i - Len(a) \in 1..Len(b) /\ i = Len(a) + (i - Len(a))
            /\ i - Len(u) \in 1..Len(v) /\ i = Len(u) + (i - Len(u))
            /\ (i - Len(u)) + 1 = i - Len(a)
        BY <2>1, <2>2, <3>3
      <4>2. (u \o v)[i] = v[i - Len(u)] /\ (a \o b)[i] = b[i - Len(a)]
        BY <2>2, <4>1
      <4> QED BY <2>1, <4>1, <4>2
    <3> QED BY <2>2, <3>1, <3>2, <3>3
  <2>4. u \o v = a \o b
    <3>1. Len(u \o v) = Len(a \o b)
      BY <2>1, <2>2
    <3> DEFINE x == u \o v
               y == a \o b
    <3>2. x \in Seq(S) /\ y \in Seq(S) /\ Len(x) = Len(y) /\ \A i \in 1..Len(x) : x[i] = y[i]
      BY <2>1, <2>2, <2>3, <3>1
    <3> HIDE DEF x, y
    <3>3. x = y
      BY <3>2
    <3> QED BY <3>3 DEF x, y
  <2> QED BY <2>4 DEF u, v
<1>3. ASSUME a # << >>
      PROVE  a \o b # << >> /\ (a \o b)[1] = Head(a) /\ Tail(a) \o b = Tail(a \o b)
  <2>1. /\ a \o b \in Seq(S) /\ Len(a \o b) = Len(a) + Len(b) /\ Len(a) >= 1 /\ (a \o b)[1] = Head(a)
    BY <1>3
  <2>2. a \o b # << >>
    BY <2>1
  <2>3. /\ Tail(a) \o b \in Seq(S) /\ Len(Tail(a) \o b) = (Len(a) - 1) + Len(b)
        /\ Tail(a \o b) \in Seq(S) /\ Len(Tail(a \o b)) = (Len(a) - 1) + Len(b)
    BY <1>3, <2>1, <2>2
  <2>4. ASSUME NEW i \in 1..((Len(a) - 1) + Len(b))
        PROVE  (Tail(a) \o b)[i] = Tail(a \o b)[i]
    BY <1>3, <2>1, <2>2
  <2> QED BY <2>1, <2>2, <2>3, <2>4
<1> QED BY <1>1, <1>2, <1>3

LEMMA ChainTail ==
  ASSUME NEW s, Chained(s), s # << >>
  PROVE  /\ Chained(Tail(s)) /\ s[1] \in Lines
         /\ s[1].cmd # "dot" => Tail(s) # << >> /\ Tail(s)[1].cmd # "MAIL"
         /\ Tail(s) # << >> /\ Tail(s)[1].cmd # "MAIL" => Tail(s)[1].mail = s[1].mail
<1>1. s \in Seq(Lines) /\ Len(s) >= 1 /\ Tail(s) \in Seq(Lines) /\ Len(Tail(s)) = Len(s) - 1
      /\ s[1] \in Lines
      /\ \A i \in 1..(Len(s) - 1) : Tail(s)[i] = s[i + 1]
  BY DEF Chained
<1>2. Tail(s) # << >> => Len(s) >= 2 /\ Tail(s)[1] = s[2] /\ Tail(s)[Len(Tail(s))] = s[Len(s)]
  BY <1>1
<1>3. Chained(Tail(s))
  <2>1. ASSUME NEW i \in 2..Len(Tail(s))
        PROVE  IF Tail(s)[i].cmd = "MAIL" THEN Tail(s)[i - 1].cmd = "dot"
               ELSE Tail(s)[i].mail = Tail(s)[i - 1].mail
    <3>1. i + 1 \in 2..Len(s) /\ Tail(s)[i] = s[i + 1] /\ Tail(s)[i - 1] = s[i] /\ (i + 1) - 1 = i
      BY <1>1
    <3>2. IF s[i + 1].cmd = "MAIL" THEN s[(i + 1) - 1].cmd = "dot"
          ELSE s[i + 1].mail = s[(i + 1) - 1].mail
      BY <3>1, Zenon DEF Chained
    <3> QED BY <3>1, <3>2
  <2>2. Tail(s) # << >> => Tail(s)[Len(Tail(s))].cmd = "dot"
    BY <1>2 DEF Chained
  <2> QED BY <1>1, <2>1, <2>2 DEF Chained
<1>4. s[1].cmd # "dot" => Tail(s) # << >>
  <2>1. Len(s) = 1 => s[1].cmd = "dot"
    BY DEF Chained
  <2>2. ASSUME Tail(s) = << >>
        PROVE  Len(s) = 1
    <3> DEFINE n == Len(s)
               m == Len(Tail(s))
    <3>1. m = 0
      BY <2>2
    <3>2. n \in Nat /\ m = n - 1
      BY <1>1
    <3> HIDE DEF n, m
    <3>3. n = 1
      BY <3>1, <3>2
    <3> QED BY <3>3 DEF n
  <2> QED BY <2>1, <2>2
<1>5. Tail(s) # << >> =>
        IF s[2].cmd = "MAIL" THEN s[1].cmd = "dot" ELSE s[2].mail = s[1].mail
  BY <1>2, <1>1 DEF Chained
<1> QED BY <1>1, <1>2, <1>3, <1>4, <1>5

LEMMA ChainBegin ==
  ASSUME NEW s, Chained(s), NEW t \in Mails
  PROVE  /\ Chained(s \o Script(t))
         /\ s = << >> => (s \o Script(t))[1].cmd = "MAIL"
         /\ s # << >> => (s \o Script(t))[1] = s[1]
         /\ s \o Script(t) # << >>
<1> DEFINE u == Script(t)
           w == s \o u
           n == Len(s)
           m == Last4(t)
<1>1. /\ u \in Seq(Lines) /\ Len(u) = m /\ m \in Nat /\ m >= 5
      /\ \A i \in 1..m : u[i] = Line(CmdOf(t, i), t)
  BY ScriptLines, LastLine
<1> HIDE DEF u, m
<1>0. s \in Seq(Lines) /\ Len(s) \in Nat
  BY DEF Chained
<1>2. /\ s \in Seq(Lines) /\ n \in Nat /\ w \in Seq(Lines) /\ Len(w) = n + m
      /\ \A i \in 1..n : w[i] = s[i]
      /\ \A i \in 1..m : w[n + i] = u[i]
  <2>1. ASSUME NEW a \in Seq(Lines), NEW b \in Seq(Lines)
        PROVE  /\ a \o b \in Seq(Lines) /\ Len(a \o b) = Len(a) + Len(b)
               /\ \A i \in 1..Len(a) : (a \o b)[i] = a[i]
               /\ \A i \in 1..Len(b) : (a \o b)[Len(a) + i] = b[i]
    BY Concatenated
  <2>2. /\ s \o u \in Seq(Lines) /\ Len(s \o u) = Len(s) + Len(u)
        /\ \A i \in 1..Len(s) : (s \o u)[i] = s[i]
        /\ \A i \in 1..Len(u) : (s \o u)[Len(s) + i] = u[i]
    BY <1>0, <1>1, <2>1, Zenon
  <2> QED BY <1>0, <1>1, <2>2
<1>3. \A i \in 1..m : w[n + i].cmd = CmdOf(t, i) /\ w[n + i].mail = t
  BY <1>1, <1>2, LineFields
<1> HIDE DEF w
<1>4. w[n + m].cmd = "dot" /\ w[n + 1].cmd = "MAIL"
  BY <1>1, <1>3 DEF CmdOf, m
<1>5. \A i \in 2..m : CmdOf(t, i) # "MAIL"
  BY <1>1 DEF CmdOf
<1>6. ASSUME NEW i \in 2..(n + m)
      PROVE  IF w[i].cmd = "MAIL" THEN w[i - 1].cmd = "dot" ELSE w[i].mail = w[i - 1].mail
  <2>1. CASE i <= n
    <3>1. i \in 2..n /\ i \in 1..n /\ i - 1 \in 1..n
      BY <1>1, <1>2, <2>1
    <3>2. i \in 2..Len(s) /\ w[i] = s[i] /\ w[i - 1] = s[i - 1]
      BY <1>2, <3>1
    <3> QED BY <3>2 DEF Chained
  <2>2. CASE i = n + 1
    <3>1. n >= 1 /\ w[i - 1] = s[n] /\ s # << >>
      BY <1>1, <1>2, <2>2
    <3> QED BY <1>4, <2>2, <3>1 DEF Chained
  <2>3. CASE i > n + 1
    <3>1. i - n \in 2..m /\ i = n + (i - n) /\ (i - 1) - n \in 1..m /\ i - 1 = n + ((i - 1) - n)
      BY <1>1, <1>2, <2>3
    <3> QED BY <1>3, <1>5, <3>1
  <2> QED BY <1>1, <1>2, <2>1, <2>2, <2>3
<1>7. Chained(w)
  BY <1>1, <1>2, <1>4, <1>6 DEF Chained
<1>8. (s = << >> => n = 0) /\ (s # << >> => n >= 1) /\ w # << >>
  BY <1>1, <1>2
<1> QED BY <1>1, <1>2, <1>4, <1>7, <1>8 DEF w, u

(* The receiver takes a line.                                              *)
LEMMA LineTaken ==
  ASSUME Unmixed, inbound # << >>, inbound' = Tail(inbound), sending' = sending
  PROVE  \E s : /\ s = inbound \o sending /\ s # << >> /\ s[1] = Head(inbound) /\ s[1] \in Lines
                /\ Under(s) /\ Chained(Tail(s)) /\ inbound' \o sending' = Tail(s)
                /\ inbound' \in Seq(Lines)
                /\ s[1].cmd # "dot" => Tail(s) # << >> /\ Tail(s)[1].cmd # "MAIL"
                /\ Tail(s) # << >> /\ Tail(s)[1].cmd # "MAIL" => Tail(s)[1].mail = s[1].mail
<1> DEFINE s == inbound \o sending
<1>1. inbound \in Seq(Lines) /\ sending \in Seq(Lines) /\ Chained(s) /\ Under(s)
  BY DEF Unmixed
<1>2. s # << >> /\ s[1] = Head(inbound) /\ inbound' \o sending' = Tail(s)
  BY <1>1, StreamParts
<1>3. inbound' \in Seq(Lines)
  BY <1>1
<1> HIDE DEF s
<1>4. /\ Chained(Tail(s)) /\ s[1] \in Lines
      /\ s[1].cmd # "dot" => Tail(s) # << >> /\ Tail(s)[1].cmd # "MAIL"
      /\ Tail(s) # << >> /\ Tail(s)[1].cmd # "MAIL" => Tail(s)[1].mail = s[1].mail
  BY <1>1, <1>2, ChainTail
<1> QED BY <1>1, <1>2, <1>3, <1>4 DEF s

LEMMA CommandUnmixed ==
  ASSUME Unmixed, CommandLine
  PROVE  Unmixed'
<1>1. /\ state = "COMMAND" /\ inbound # << >> /\ inbound' = Tail(inbound)
      /\ sending' = sending /\ tasks' = tasks /\ processed' = processed
  BY DEF CommandLine, Receives, client
<1>2. PICK s : /\ s = inbound \o sending /\ s # << >> /\ s[1] = Head(inbound) /\ s[1] \in Lines
               /\ Under(s) /\ Chained(Tail(s)) /\ inbound' \o sending' = Tail(s)
               /\ inbound' \in Seq(Lines)
               /\ s[1].cmd # "dot" => Tail(s) # << >> /\ Tail(s)[1].cmd # "MAIL"
               /\ Tail(s) # << >> /\ Tail(s)[1].cmd # "MAIL" => Tail(s)[1].mail = s[1].mail
  BY <1>1, LineTaken
<1>3. It = s[1].mail /\ It \in Mails /\ \A c : Receives(c) => s[1].cmd = c
  BY <1>2 DEF It, Receives, Lines
<1>4. /\ mailFrom' \in Mails \cup {NoMail} /\ rcptTo' \subseteq Mails
      /\ rcptTo' \subseteq {mailFrom'} /\ buffer' \in Seq(Mails)
  <2>1. /\ mailFrom \in Mails \cup {NoMail} /\ rcptTo \subseteq Mails
        /\ rcptTo \subseteq {mailFrom} /\ buffer \in Seq(Mails)
    BY DEF Unmixed
  <2>2. buffer' \in Seq(Mails)
    <3>1. buffer' = buffer \/ buffer' = << >>
      BY DEF CommandLine
    <3>2. << >> \in Seq(Mails)
      OBVIOUS
    <3> QED BY <2>1, <3>1, <3>2, Zenon
  <2>3. \/ mailFrom' = It /\ rcptTo' = {}
        \/ mailFrom' = NoMail /\ rcptTo' = {}
        \/ mailFrom' = mailFrom /\ rcptTo' = rcptTo
        \/ s[1].cmd = "RCPT" /\ mailFrom # NoMail /\ mailFrom' = mailFrom /\ rcptTo' = rcptTo \cup {It}
    BY <1>3 DEF CommandLine
  <2>4. s[1].cmd = "RCPT" /\ mailFrom # NoMail => mailFrom = It
    BY <1>2, <1>3 DEF Under
  <2> QED BY <1>3, <2>1, <2>2, <2>3, <2>4
<1>5. Under(Tail(s))'
  <2>1. state' = "DATA" => s[1].cmd = "DATA" /\ buffer' = << >>
    BY <1>1, <1>3 DEF CommandLine
  <2>2. s[1].cmd = "MAIL" => mailFrom' \in {NoMail, s[1].mail}
    BY <1>3 DEF CommandLine
  <2>3. s[1].cmd # "MAIL" => mailFrom' \in {NoMail, s[1].mail}
    BY <1>2, <1>3 DEF CommandLine, Under
  <2>4. /\ state' = "DATA" => Tail(s) # << >> /\ Tail(s)[1].cmd # "MAIL"
        /\ state' = "DATA" => \A i \in DOMAIN buffer' : buffer'[i] = Tail(s)[1].mail
    BY <1>2, <2>1
  <2>5. (inbound' \o sending') = Tail(s)
    BY <1>2
  <2> QED BY <1>2, <2>2, <2>3, <2>4 DEF Under
<1> QED BY <1>1, <1>2, <1>4, <1>5 DEF Unmixed

LEMMA DataUnmixed ==
  ASSUME Unmixed, DataLine \/ EndOfData
  PROVE  Unmixed'
<1>1. /\ state = "DATA" /\ inbound # << >> /\ inbound' = Tail(inbound)
      /\ sending' = sending /\ mailFrom' = mailFrom /\ rcptTo' = rcptTo /\ processed' = processed
  BY DEF DataLine, EndOfData, Receives, client
<1>2. PICK s : /\ s = inbound \o sending /\ s # << >> /\ s[1] = Head(inbound) /\ s[1] \in Lines
               /\ Under(s) /\ Chained(Tail(s)) /\ inbound' \o sending' = Tail(s)
               /\ inbound' \in Seq(Lines)
               /\ s[1].cmd # "dot" => Tail(s) # << >> /\ Tail(s)[1].cmd # "MAIL"
               /\ Tail(s) # << >> /\ Tail(s)[1].cmd # "MAIL" => Tail(s)[1].mail = s[1].mail
  BY <1>1, LineTaken
<1>3. /\ It = s[1].mail /\ It \in Mails /\ buffer \in Seq(Mails)
      /\ mailFrom \in {NoMail, It} /\ \A j \in DOMAIN buffer : buffer[j] = It
  BY <1>1, <1>2 DEF It, Under, Lines, Unmixed
<1>4. CASE DataLine
  <2>1. s[1].cmd # "dot" /\ tasks' = tasks
    BY <1>2, <1>4 DEF DataLine
  <2>2. buffer' \in Seq(Mails) /\ \A j \in DOMAIN buffer' : buffer'[j] = It
    <3>1. buffer' = << >> \/ buffer' = Append(buffer, It)
      BY <1>4 DEF DataLine
    <3> DEFINE a == Append(buffer, It)
    <3>2. a \in Seq(Mails) /\ DOMAIN a = 1..(Len(buffer) + 1) /\ Len(buffer) \in Nat
          /\ a[Len(buffer) + 1] = It /\ \A j \in 1..Len(buffer) : a[j] = buffer[j]
      BY <1>3
    <3>3. \A j \in DOMAIN a : a[j] = It
      <4> HIDE DEF a
      <4>1. DOMAIN buffer = 1..Len(buffer)
        BY <1>3
      <4> QED BY <1>3, <3>2, <4>1
    <3>4. << >> \in Seq(Mails) /\ DOMAIN << >> = {}
      OBVIOUS
    <3> HIDE DEF a
    <3>5. CASE buffer' = << >>
      BY <3>4, <3>5
    <3>6. CASE buffer' = a
      BY <3>2, <3>3, <3>6, Zenon
    <3> QED BY <3>1, <3>5, <3>6 DEF a
  <2>3. Under(Tail(s))'
    BY <1>1, <1>2, <1>3, <2>1, <2>2 DEF Under
  <2> QED BY <1>1, <1>2, <2>1, <2>2, <2>3 DEF Unmixed
<1>5. CASE EndOfData
  <2>1. state' = "COMMAND" /\ buffer' = buffer
    BY <1>5 DEF EndOfData
  <2>2. Under(Tail(s))'
    BY <1>1, <1>2, <1>3, <2>1 DEF Under
  <2>3. tasks' \in Seq(WholeTasks)
    <3> DEFINE e == [at |-> "created", data |-> ToSet(buffer), from |-> NoMail, to |-> {}]
    <3>1. ToSet(buffer) \subseteq {It} /\ ToSet(buffer) \subseteq Mails
      BY <1>3 DEF ToSet
    <3>2. e \in WholeTasks
      BY <3>1 DEF WholeTasks, Tasks, Whole
    <3>3. tasks' = Append(tasks, e) /\ tasks \in Seq(WholeTasks)
      BY <1>5 DEF EndOfData, Unmixed
    <3> HIDE DEF e
    <3> QED BY <3>2, <3>3
  <2> QED BY <1>1, <1>2, <1>3, <2>1, <2>2, <2>3 DEF Unmixed
<1> QED BY <1>4, <1>5

(* A task reads the session, or ends and clears it.                        *)
LEMMA TaskUnmixed ==
  ASSUME Unmixed, TaskStep
  PROVE  Unmixed'
<1>1. PICK i \in DOMAIN tasks :
        TaskStarts(i) \/ \E verdict \in {"passed", "held", "raised"} : TaskEnds(i, verdict)
  BY DEF TaskStep
<1>2. UNCHANGED <<inbound, sending, state>>
  BY <1>1 DEF TaskStarts, TaskEnds, client
<1>3. tasks \in Seq(WholeTasks) /\ tasks[i] \in WholeTasks /\ i \in 1..Len(tasks)
  BY DEF Unmixed
<1>4. CASE TaskStarts(i)
  <2> DEFINE e == [tasks[i] EXCEPT !.at = "processing", !.from = mailFrom, !.to = rcptTo]
  <2>1. e \in WholeTasks
    BY <1>3 DEF WholeTasks, Tasks, Whole, Unmixed
  <2>2. tasks' = [tasks EXCEPT ![i] = e]
    BY <1>3, <1>4 DEF TaskStarts, WholeTasks, Tasks
  <2>3. tasks' \in Seq(WholeTasks)
    <3> HIDE DEF e
    <3> QED BY <1>3, <2>1, <2>2
  <2>4. UNCHANGED <<mailFrom, rcptTo, buffer, processed>>
    BY <1>4 DEF TaskStarts
  <2> QED BY <1>2, <2>3, <2>4 DEF Unmixed, Under
<1>5. ASSUME NEW verdict \in {"passed", "held", "raised"}, TaskEnds(i, verdict)
      PROVE  Unmixed'
  <2>1. mailFrom' = NoMail /\ rcptTo' = {} /\ buffer' = << >>
    BY <1>5 DEF TaskEnds
  <2>2. tasks' \in Seq(WholeTasks)
    <3>1. tasks' = SubSeq(tasks, 1, i - 1) \o SubSeq(tasks, i + 1, Len(tasks))
      BY <1>5 DEF TaskEnds, RemoveAt
    <3>2. SubSeq(tasks, 1, i - 1) \in Seq(WholeTasks) /\ SubSeq(tasks, i + 1, Len(tasks)) \in Seq(WholeTasks)
      BY <1>3
    <3> QED BY <3>1, <3>2
  <2>3. \A p \in processed' : Whole(p)
    BY <1>3, <1>5 DEF TaskEnds, WholeTasks, Whole, Unmixed
  <2> QED BY <1>2, <2>1, <2>2, <2>3 DEF Unmixed, Under
<1> QED BY <1>1, <1>4, <1>5

LEMMA ClientUnmixed ==
  ASSUME Unmixed, eager, ClientStep
  PROVE  Unmixed'
<1>1. ASSUME NEW t \in Mails, BeginMail(t)
      PROVE  Unmixed'
  <2>1. /\ UNCHANGED <<state, mailFrom, rcptTo, buffer, tasks, inbound, processed>>
        /\ sending = << >> /\ sending' = Script(t)
    BY <1>1 DEF BeginMail, server
  <2>2. inbound \o sending = inbound /\ sending' \in Seq(Lines)
    BY <2>1, ScriptLines, StreamParts DEF Unmixed
  <2>3. Chained(inbound) /\ Under(inbound)
    BY <2>2 DEF Unmixed
  <2>4. /\ Chained(inbound \o Script(t)) /\ inbound \o Script(t) # << >>
        /\ inbound = << >> => (inbound \o Script(t))[1].cmd = "MAIL"
        /\ inbound # << >> => (inbound \o Script(t))[1] = inbound[1]
    BY <2>3, ChainBegin
  <2>5. Under(inbound \o Script(t))'
    BY <2>1, <2>3, <2>4 DEF Under
  <2> QED BY <2>1, <2>2, <2>4, <2>5 DEF Unmixed, Under
<1>2. CASE SendLine
  <2>1. /\ UNCHANGED <<state, mailFrom, rcptTo, buffer, tasks, processed>>
        /\ sending # << >> /\ inbound' = Append(inbound, Head(sending)) /\ sending' = Tail(sending)
    BY <1>2 DEF SendLine, server
  <2>2. inbound' \o sending' = inbound \o sending
    BY <2>1, StreamParts DEF Unmixed
  <2>3. inbound' \in Seq(Lines) /\ sending' \in Seq(Lines)
    BY <2>1 DEF Unmixed
  <2> QED BY <2>1, <2>2, <2>3 DEF Unmixed, Under
<1>3. CASE ReadReply \/ HangUp
  <2>1. UNCHANGED <<state, mailFrom, rcptTo, buffer, tasks, inbound, sending, processed>>
    BY <1>3 DEF ReadReply, HangUp, server, client
  <2> QED BY <2>1 DEF Unmixed, Under
<1> QED BY <1>1, <1>2, <1>3 DEF ClientStep

LEMMA PipelineKeeps == SInitial /\ [][SNext]_svars => []PipelineInv
<1>1. SInitial => PipelineInv
  <2> SUFFICES ASSUME SInitial PROVE Unmixed
    BY DEF PipelineInv
  <2>1. inbound = << >> /\ sending = << >> /\ inbound \o sending = << >>
    BY DEF SInitial
  <2>2. Chained(<< >>) /\ Under(<< >>)
    BY DEF Chained, Under, SInitial
  <2> QED BY <2>1, <2>2 DEF Unmixed, SInitial
<1>2. PipelineInv /\ [SNext]_svars => PipelineInv'
  <2> SUFFICES ASSUME PipelineInv, [SNext]_svars, eager' PROVE Unmixed'
    BY DEF PipelineInv
  <2>1. eager' = eager
    BY DEF SNext, ClientStep, TaskStep, BeginMail, SendLine, ReadReply, HangUp, CommandLine,
           EndOfData, DataLine, TaskStarts, TaskEnds, client, svars
  <2>2. eager /\ Unmixed
    BY <2>1 DEF PipelineInv
  <2>3. CASE UNCHANGED svars
    BY <2>2, <2>3 DEF svars, server, client, Unmixed, Under
  <2> QED BY <2>2, <2>3, ClientUnmixed, CommandUnmixed, DataUnmixed, TaskUnmixed DEF SNext
<1> QED BY <1>1, <1>2, PTL

(* delivery/smtp_receiver.py: data_received(), handle_command_line(),      *)
(* handle_data_line() and _process_message_async().  For every set of      *)
(* mails, lengths and limit: a client that waits for its answers is told   *)
(* of each mail what the processor said of it, under its own envelope,     *)
(* until a message is too large; and of what a client sends that does not  *)
(* wait, no message is processed that mixes two mails.                     *)
THEOREM AnswersBelong == SSpec => []AnswersAreOwn
<1>1. ReceiverInv => AnswerTold
  <2> SUFFICES ASSUME Told PROVE AnswerTold
    BY DEF ReceiverInv, AnswerTold
  <2> QED BY DEF Told, AnswerTold, Given
<1>2. PipelineInv => NothingMixed
  BY DEF PipelineInv, Unmixed, NothingMixed, Whole
<1>3. AnswerTold /\ NothingMixed => AnswersAreOwn
  BY DEF AnswersAreOwn
<1> QED BY <1>1, <1>2, <1>3, ReceiverInit, ReceiverKeeps, PipelineKeeps, PTL DEF SSpec
=============================================================================
