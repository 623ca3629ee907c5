--------------------------- MODULE DeliveryProofs ---------------------------
(***************************************************************************)
(* Proofs about Delivery, for any sets of producers, batches and workers,  *)
(* any number of calls, faults and late arrivals.  What a platform that    *)
(* hands a job to two workers at once may break is under ~Overlap.         *)
(***************************************************************************)
EXTENDS Delivery, TLAPS

LEMMA InitTyped == Init => TypeInv
<1> USE DeliveryAssumption
<1> SUFFICES ASSUME Init PROVE TypeInv
  OBVIOUS
<1>1. events \in Seq(RunEvent) /\ jobs \in Seq(IngestJob)
  BY DEF Init
<1>2. request \in [Producers -> Request] /\ \A p \in Producers : request[p].job \in 0..Len(jobs)
  BY DEF Init, Request, DeliveryAssumption
<1>3. worker \in [Workers -> Worker] /\ \A w \in Workers : worker[w].job \in 0..Len(jobs)
  BY DEF Init, Worker, Waiting, DeliveryAssumption
<1>4. late \in [Batches -> Nat] /\ told \subseteq DOMAIN jobs
  BY DEF Init
<1>5. /\ \A p \in Producers : request[p].pc = "idle"
      /\ \A w \in Workers : worker[w].pc = "idle"
  BY DEF Init, Waiting
<1> QED
  BY <1>1, <1>2, <1>3, <1>4, <1>5 DEF TypeInv, TypeOK

(* Changing one call in flight keeps the types.                            *)
LEMMA RequestTyped ==
  ASSUME TypeInv, NEW p \in Producers, NEW r \in Request, r.job \in 0..Len(jobs),
         r.pc # "idle" => r.batch \in Batches, r.pc = "polling" => r.job # 0,
         Becomes(p, r)
  PROVE  /\ request' \in [Producers -> Request]
         /\ \A q \in Producers : request'[q].job \in 0..Len(jobs)
         /\ \A q \in Producers : request'[q].pc # "idle" => request'[q].batch \in Batches
         /\ \A q \in Producers : request'[q].pc = "polling" => request'[q].job \in DOMAIN jobs
<1>1. request \in [Producers -> Request] /\ request' = [request EXCEPT ![p] = r]
  BY DEF TypeInv, TypeOK, Becomes
<1>2. jobs \in Seq(IngestJob)
  BY DEF TypeInv, TypeOK
<1>3. r.pc = "polling" => r.job \in DOMAIN jobs
  BY <1>2
<1>4. request' \in [Producers -> Request]
  BY <1>1
<1>5. ASSUME NEW q \in Producers
      PROVE  request'[q] = IF q = p THEN r ELSE request[q]
  BY <1>1
<1>6. /\ \A q \in Producers : request[q].job \in 0..Len(jobs)
      /\ \A q \in Producers : request[q].pc # "idle" => request[q].batch \in Batches
      /\ \A q \in Producers : request[q].pc = "polling" => request[q].job \in DOMAIN jobs
  BY DEF TypeInv, TypeOK
<1> QED
  BY <1>3, <1>4, <1>5, <1>6

(* So does changing what one worker is at.                                 *)
LEMMA WorkerTyped ==
  ASSUME TypeInv, NEW w \in Workers, NEW r \in Worker, r.job \in 0..Len(jobs),
         r.pc # "idle" => r.job # 0,
         Works(w, r)
  PROVE  /\ worker' \in [Workers -> Worker]
         /\ \A v \in Workers : worker'[v].job \in 0..Len(jobs)
         /\ \A v \in Workers : worker'[v].pc # "idle" => worker'[v].job \in DOMAIN jobs
<1>1. worker \in [Workers -> Worker] /\ worker' = [worker EXCEPT ![w] = r]
  BY DEF TypeInv, TypeOK, Works
<1>2. jobs \in Seq(IngestJob)
  BY DEF TypeInv, TypeOK
<1>3. r.pc # "idle" => r.job \in DOMAIN jobs
  BY <1>2
<1>4. worker' \in [Workers -> Worker]
  BY <1>1
<1>5. ASSUME NEW v \in Workers
      PROVE  worker'[v] = IF v = w THEN r ELSE worker[v]
  BY <1>1
<1>6. /\ \A v \in Workers : worker[v].job \in 0..Len(jobs)
      /\ \A v \in Workers : worker[v].pc # "idle" => worker[v].job \in DOMAIN jobs
  BY DEF TypeInv, TypeOK
<1> QED
  BY <1>3, <1>4, <1>5, <1>6

(* Jobs are only added, and keep their batch and key; a job that is        *)
(* completed stays so, because only one in processing is put back.         *)
JobsKept ==
  /\ jobs' \in Seq(IngestJob)
  /\ Len(jobs) <= Len(jobs')
  /\ \A j \in DOMAIN jobs :
       /\ j \in DOMAIN jobs'
       /\ jobs'[j].batch = jobs[j].batch /\ jobs'[j].key = jobs[j].key

LEMMA AcceptedTyped ==
  ASSUME TypeInv, NEW b \in Batches, NEW key \in BOOLEAN, jobs' = Accepted(b, key)
  PROVE  /\ JobsKept
         /\ Known(b, key) = {} =>
              jobs' = Append(jobs, [batch |-> b, key |-> key, status |-> "queued"])
         /\ Known(b, key) # {} => jobs' = jobs
<1>1. jobs \in Seq(IngestJob)
  BY DEF TypeInv, TypeOK
<1>2. [batch |-> b, key |-> key, status |-> "queued"] \in IngestJob
  BY DEF IngestJob
<1>3. CASE Known(b, key) # {}
  BY <1>1, <1>3 DEF Accepted, JobsKept
<1>4. CASE Known(b, key) = {}
  <2>1. jobs' = Append(jobs, [batch |-> b, key |-> key, status |-> "queued"])
    BY <1>4 DEF Accepted
  <2> QED
    BY <1>1, <1>2, <1>4, <2>1 DEF JobsKept
<1> QED
  BY <1>3, <1>4

LEMMA StatusTyped ==
  ASSUME TypeInv, NEW j \in DOMAIN jobs,
         NEW status \in {"queued", "processing"} \cup Terminal,
         jobs' = [jobs EXCEPT ![j].status = status]
  PROVE  /\ JobsKept
         /\ DOMAIN jobs' = DOMAIN jobs /\ Len(jobs') = Len(jobs)
         /\ jobs'[j].status = status
         /\ \A i \in DOMAIN jobs : i # j => jobs'[i] = jobs[i]
<1>1. jobs \in Seq(IngestJob)
  BY DEF TypeInv, TypeOK
<1>2. \A i \in DOMAIN jobs : jobs[i] \in IngestJob
  BY <1>1
<1>3. \A i \in DOMAIN jobs :
        jobs'[i] = IF i = j THEN [jobs[j] EXCEPT !.status = status] ELSE jobs[i]
  BY <1>1
<1>4. [jobs[j] EXCEPT !.status = status] \in IngestJob
  BY <1>2 DEF IngestJob
<1>5. /\ [jobs[j] EXCEPT !.status = status].status = status
      /\ [jobs[j] EXCEPT !.status = status].batch = jobs[j].batch
      /\ [jobs[j] EXCEPT !.status = status].key = jobs[j].key
  BY <1>2 DEF IngestJob
<1>6. DOMAIN jobs' = DOMAIN jobs /\ Len(jobs') = Len(jobs) /\ jobs' \in Seq(IngestJob)
  BY <1>1, <1>2, <1>4
<1>7. ASSUME NEW i \in DOMAIN jobs
      PROVE  jobs'[i].batch = jobs[i].batch /\ jobs'[i].key = jobs[i].key
  <2>1. CASE i = j
    BY <1>3, <1>5, <2>1
  <2>2. CASE i # j
    BY <1>3, <2>2
  <2> QED
    BY <2>1, <2>2
<1>8. Len(jobs) <= Len(jobs')
  BY <1>1, <1>6
<1>9. JobsKept
  BY <1>6, <1>7, <1>8 DEF JobsKept
<1>10. jobs'[j].status = status /\ \A i \in DOMAIN jobs : i # j => jobs'[i] = jobs[i]
  BY <1>3, <1>5
<1> QED
  BY <1>6, <1>9, <1>10

LEMMA OnwardTyped ==
  ASSUME NEW w \in Workers, worker[w] \in Worker
  PROVE  /\ Onward(w) \in Worker /\ Onward(w).job = worker[w].job
         /\ \/ /\ Onward(w).pc = "lookup" /\ worker[w].place < Size
               /\ Onward(w).place = worker[w].place + 1
            \/ Onward(w).pc = "done" /\ worker[w].place = Size
<1>1. CASE worker[w].place < Size
  <2>1. Onward(w) = [worker[w] EXCEPT !.pc = "lookup", !.place = worker[w].place + 1]
    BY <1>1 DEF Onward
  <2>2. worker[w].place + 1 \in 1..Size
    BY <1>1, DeliveryAssumption DEF Worker, DeliveryAssumption
  <2> QED
    BY <1>1, <2>1, <2>2 DEF Worker
<1>2. CASE ~(worker[w].place < Size)
  <2>1. Onward(w) = [worker[w] EXCEPT !.pc = "done"]
    BY <1>2 DEF Onward
  <2>2. worker[w].place = Size
    BY <1>2, DeliveryAssumption DEF Worker, DeliveryAssumption
  <2> QED
    BY <2>1, <2>2 DEF Worker
<1> QED
  BY <1>1, <1>2

Taken(j) == [Waiting EXCEPT !.pc = "lookup", !.job = j]

LEMMA TakenTyped ==
  ASSUME NEW j \in Nat
  PROVE  Taken(j) \in Worker /\ Taken(j).pc = "lookup" /\ Taken(j).job = j /\ Taken(j).place = 1
<1>1. 1 \in 1..Size
  BY DeliveryAssumption DEF DeliveryAssumption
<1>2. Taken(j) \in Worker
  BY <1>1 DEF Taken, Waiting, Worker
<1>3. Taken(j).pc = "lookup" /\ Taken(j).job = j /\ Taken(j).place = 1
  BY DEF Taken, Waiting
<1> QED
  BY <1>2, <1>3

LEMMA TypeStep ==
  ASSUME TypeInv, [Next]_vars
  PROVE  TypeInv' /\ JobsKept
<1> USE DeliveryAssumption
<1>1. /\ events \in Seq(RunEvent) /\ jobs \in Seq(IngestJob)
      /\ request \in [Producers -> Request] /\ worker \in [Workers -> Worker]
      /\ late \in [Batches -> Nat] /\ told \subseteq DOMAIN jobs
  BY DEF TypeInv, TypeOK
<1>2. /\ \A p \in Producers : request[p].job \in 0..Len(jobs)
      /\ \A p \in Producers : request[p].pc # "idle" => request[p].batch \in Batches
      /\ \A p \in Producers : request[p].pc = "polling" => request[p].job \in DOMAIN jobs
      /\ \A w \in Workers : worker[w].job \in 0..Len(jobs)
      /\ \A w \in Workers : worker[w].pc # "idle" => worker[w].job \in DOMAIN jobs
  BY DEF TypeInv, TypeOK
<1> DEFINE RequestsOK ==
             /\ request' \in [Producers -> Request]
             /\ \A q \in Producers : request'[q].job \in 0..Len(jobs')
             /\ \A q \in Producers : request'[q].pc # "idle" => request'[q].batch \in Batches
             /\ \A q \in Producers : request'[q].pc = "polling" => request'[q].job \in DOMAIN jobs'
           WorkersOK ==
             /\ worker' \in [Workers -> Worker]
             /\ \A v \in Workers : worker'[v].job \in 0..Len(jobs')
             /\ \A v \in Workers : worker'[v].pc # "idle" => worker'[v].job \in DOMAIN jobs'
           RestOK == late' \in [Batches -> Nat] /\ told' \subseteq DOMAIN jobs' /\ JobsKept
           EventsOK == events' \in Seq(RunEvent)
<1>3. SUFFICES RequestsOK /\ WorkersOK /\ RestOK /\ EventsOK
  BY DEF TypeInv, TypeOK, JobsKept
<1>4. jobs' = jobs => JobsKept
  BY <1>1 DEF JobsKept
<1>5. JobsKept => 0..Len(jobs) \subseteq 0..Len(jobs') /\ DOMAIN jobs \subseteq DOMAIN jobs'
  BY <1>1 DEF JobsKept
<1>6. JobsKept /\ request' = request => RequestsOK
  BY <1>1, <1>2, <1>5
<1>7. JobsKept /\ worker' = worker => WorkersOK
  BY <1>1, <1>2, <1>5
<1>8. JobsKept /\ told' = told /\ late' = late => RestOK
  BY <1>1, <1>5
<1>9. events' = events => EventsOK
  BY <1>1
<1>10. ASSUME NEW p \in Producers, request[p].pc = "sent", Abandoned(p)
       PROVE  late' \in [Batches -> Nat]
  BY <1>1, <1>2, <1>10 DEF Abandoned
<1>11. ASSUME NEW p \in Producers
       PROVE  request[p] \in Request /\ Idle \in Request
  BY <1>1 DEF Request, Idle, DeliveryAssumption
<1>12. ASSUME NEW w \in Workers
       PROVE  worker[w] \in Worker /\ Waiting \in Worker
  BY <1>1 DEF Worker, Waiting, DeliveryAssumption
<1>13. 0 \in 0..Len(jobs)
  BY <1>1
<1>14. ASSUME NEW p \in Producers, NEW r \in Request, r.job \in 0..Len(jobs),
              r.pc # "idle" => r.batch \in Batches, r.pc = "polling" => r.job # 0,
              Becomes(p, r), jobs' = jobs
       PROVE  RequestsOK
  BY <1>14, RequestTyped
<1>15. ASSUME NEW p \in Producers, Becomes(p, Idle), jobs' = jobs
       PROVE  RequestsOK
  <2>1. Idle \in Request /\ Idle.job = 0 /\ Idle.pc = "idle"
    BY <1>11 DEF Idle
  <2> QED
    BY <2>1, <1>13, <1>14, <1>15
<1>16. ASSUME NEW w \in Workers, NEW r \in Worker, r.job \in 0..Len(jobs),
              r.pc # "idle" => r.job # 0, Works(w, r), Len(jobs') = Len(jobs),
              DOMAIN jobs' = DOMAIN jobs
       PROVE  WorkersOK
  BY <1>16, WorkerTyped
<1> HIDE DEF RequestsOK, WorkersOK, RestOK, EventsOK
<1>17. ASSUME NEW p \in Producers, enqueueEvents(p)
       PROVE  RequestsOK /\ WorkersOK /\ RestOK /\ EventsOK
  <2>1. PICK b \in Batches : Becomes(p, [Idle EXCEPT !.pc = "sent", !.batch = b])
    BY <1>17 DEF enqueueEvents
  <2>2. [Idle EXCEPT !.pc = "sent", !.batch = b] \in Request
        /\ [Idle EXCEPT !.pc = "sent", !.batch = b].job = 0
        /\ [Idle EXCEPT !.pc = "sent", !.batch = b].pc = "sent"
        /\ [Idle EXCEPT !.pc = "sent", !.batch = b].batch \in Batches
    BY <1>11 DEF Request, Idle
  <2>3. UNCHANGED <<events, late, jobs, worker, told>>
    BY <1>17 DEF enqueueEvents
  <2>4. RequestsOK
    BY <1>13, <1>14, <2>1, <2>2, <2>3
  <2> QED
    BY <1>4, <1>7, <1>8, <1>9, <2>3, <2>4
<1>18. ASSUME NEW p \in Producers, requestOk(p)
       PROVE  RequestsOK /\ WorkersOK /\ RestOK /\ EventsOK
  <2>1. /\ Becomes(p, [request[p] EXCEPT !.pc = "polling"])
        /\ request[p].pc = "sent" /\ request[p].job # 0
    BY <1>18 DEF requestOk
  <2>2. [request[p] EXCEPT !.pc = "polling"] \in Request
        /\ [request[p] EXCEPT !.pc = "polling"].job = request[p].job
        /\ [request[p] EXCEPT !.pc = "polling"].batch = request[p].batch
    BY <1>11 DEF Request
  <2>3. UNCHANGED <<events, late, jobs, worker, told>>
    BY <1>18 DEF requestOk
  <2>4. RequestsOK
    BY <1>2, <1>14, <2>1, <2>2, <2>3
  <2> QED
    BY <1>4, <1>7, <1>8, <1>9, <2>3, <2>4
<1>19. ASSUME NEW p \in Producers, requestFailed(p)
       PROVE  RequestsOK /\ WorkersOK /\ RestOK /\ EventsOK
  <2>1. UNCHANGED <<events, jobs, worker, told>> /\ Abandoned(p) /\ request[p].pc = "sent"
    BY <1>19 DEF requestFailed
  <2>2. PICK status \in Statuses :
          Becomes(p, IF isRetryable(status, request[p].attempt)
                       THEN [request[p] EXCEPT !.pc = "backoff",
                               !.attempt = request[p].attempt + 1, !.job = 0]
                       ELSE Idle)
    BY <1>19 DEF requestFailed
  <2>3. RequestsOK
    <3>1. CASE isRetryable(status, request[p].attempt)
      <4> DEFINE r == [request[p] EXCEPT !.pc = "backoff",
                         !.attempt = request[p].attempt + 1, !.job = 0]
      <4>1. Becomes(p, r)
        BY <2>2, <3>1
      <4>2. request[p].attempt + 1 \in 0..(MaxAttempts - 1)
        BY <1>11, <3>1 DEF Request, isRetryable, DeliveryAssumption
      <4>3. r \in Request /\ r.job = 0 /\ r.pc = "backoff" /\ r.batch = request[p].batch
        BY <1>11, <4>2 DEF Request
      <4> HIDE DEF r
      <4> QED
        BY <1>2, <1>13, <1>14, <2>1, <4>1, <4>3
    <3>2. CASE ~isRetryable(status, request[p].attempt)
      BY <1>15, <2>1, <2>2, <3>2
    <3> QED
      BY <3>1, <3>2
  <2>4. RestOK
    BY <1>1, <1>4, <1>10, <2>1 DEF RestOK
  <2> QED
    BY <1>4, <1>7, <1>9, <2>1, <2>3, <2>4
<1>20. ASSUME NEW p \in Producers, requestTimeout(p)
       PROVE  RequestsOK /\ WorkersOK /\ RestOK /\ EventsOK
  <2>1. UNCHANGED <<events, jobs, worker, told>> /\ Abandoned(p) /\ Becomes(p, Idle)
        /\ request[p].pc = "sent"
    BY <1>20 DEF requestTimeout
  <2>2. RestOK
    BY <1>1, <1>4, <1>10, <2>1 DEF RestOK
  <2> QED
    BY <1>4, <1>7, <1>9, <1>15, <2>1, <2>2
<1>21. ASSUME NEW p \in Producers, requestAgain(p)
       PROVE  RequestsOK /\ WorkersOK /\ RestOK /\ EventsOK
  <2>1. Becomes(p, [request[p] EXCEPT !.pc = "sent"]) /\ request[p].pc = "backoff"
    BY <1>21 DEF requestAgain
  <2>2. [request[p] EXCEPT !.pc = "sent"] \in Request
        /\ [request[p] EXCEPT !.pc = "sent"].pc = "sent"
        /\ [request[p] EXCEPT !.pc = "sent"].job = request[p].job
        /\ [request[p] EXCEPT !.pc = "sent"].batch = request[p].batch
    BY <1>11 DEF Request
  <2>3. UNCHANGED <<events, late, jobs, worker, told>>
    BY <1>21 DEF requestAgain
  <2>4. RequestsOK
    BY <1>2, <1>14, <2>1, <2>2, <2>3
  <2> QED
    BY <1>4, <1>7, <1>8, <1>9, <2>3, <2>4
<1>22. ASSUME NEW p \in Producers, waitForIngest(p)
       PROVE  RequestsOK /\ WorkersOK /\ RestOK /\ EventsOK
  <2>1. UNCHANGED <<events, late, jobs, worker>> /\ request[p].pc = "polling"
    BY <1>22 DEF waitForIngest
  <2>2. told' \subseteq DOMAIN jobs
    BY <1>1, <1>2, <1>22, <2>1 DEF waitForIngest
  <2>3. RequestsOK
    <3>1. CASE jobs[request[p].job].status \in Terminal \/ LastPoll(p)
      <4>1. Becomes(p, Idle)
        BY <1>22, <3>1 DEF waitForIngest
      <4> QED
        BY <1>15, <2>1, <4>1
    <3>2. CASE ~(jobs[request[p].job].status \in Terminal \/ LastPoll(p))
      <4> DEFINE r == [request[p] EXCEPT !.poll = request[p].poll + 1]
      <4>1. Becomes(p, r)
        BY <1>22, <3>2 DEF waitForIngest
      <4>2. request[p].poll + 1 \in 0..MaxPollAttempts
        BY <1>11, <3>2 DEF Request, LastPoll, DeliveryAssumption
      <4>3. /\ r \in Request /\ r.job = request[p].job
            /\ r.pc = request[p].pc /\ r.batch = request[p].batch
        BY <1>11, <4>2 DEF Request
      <4> HIDE DEF r
      <4>4. request[p].job \in 0..Len(jobs) /\ request[p].job # 0 /\ request[p].batch \in Batches
        BY <1>1, <1>2, <2>1
      <4> QED
        BY <1>14, <2>1, <4>1, <4>3, <4>4
    <3> QED
      BY <3>1, <3>2
  <2>4. RestOK
    BY <1>1, <1>4, <2>1, <2>2 DEF RestOK
  <2> QED
    BY <1>4, <1>7, <1>9, <2>1, <2>3, <2>4
<1>23. ASSUME NEW p \in Producers, pollFailed(p)
       PROVE  RequestsOK /\ WorkersOK /\ RestOK /\ EventsOK
  <2>1. UNCHANGED <<events, late, jobs, worker, told>> /\ Becomes(p, Idle)
    BY <1>23 DEF pollFailed
  <2> QED
    BY <1>4, <1>7, <1>8, <1>9, <1>15, <2>1
<1>24. ASSUME NEW p \in Producers, Arrive(p)
       PROVE  RequestsOK /\ WorkersOK /\ RestOK /\ EventsOK
  <2> DEFINE b == request[p].batch
             key == IdempotencyKey(b, request[p].attempt)
  <2>1. /\ UNCHANGED <<events, late, worker, told>> /\ request[p].pc = "sent"
        /\ jobs' = Accepted(b, key)
    BY <1>24 DEF Arrive
  <2>2. b \in Batches /\ key \in BOOLEAN
    BY <1>2, <2>1 DEF IdempotencyKey
  <2>3. PICK j \in IF Known(b, key) # {} THEN Known(b, key) ELSE {Len(jobs) + 1} :
          Becomes(p, [request[p] EXCEPT !.job = j])
    BY <1>24 DEF Arrive
  <2> HIDE DEF b, key
  <2>4. /\ JobsKept
        /\ Known(b, key) = {} =>
             jobs' = Append(jobs, [batch |-> b, key |-> key, status |-> "queued"])
        /\ Known(b, key) # {} => jobs' = jobs
    BY <2>1, <2>2, AcceptedTyped
  <2>5. j \in DOMAIN jobs' /\ j \in Nat
    <3>1. CASE Known(b, key) # {}
      BY <1>1, <2>3, <2>4, <3>1 DEF Known
    <3>2. CASE Known(b, key) = {}
      BY <1>1, <2>3, <2>4, <3>2
    <3> QED
      BY <3>1, <3>2
  <2>6. [request[p] EXCEPT !.job = j] \in Request
        /\ [request[p] EXCEPT !.job = j].job = j
        /\ [request[p] EXCEPT !.job = j].batch \in Batches
    BY <1>11, <2>2, <2>5 DEF Request, b
  <2>7. RequestsOK
    <3> DEFINE r == [request[p] EXCEPT !.job = j]
    <3>1. request' = [request EXCEPT ![p] = r]
      BY <2>3 DEF Becomes
    <3>2. r \in Request /\ r.job = j /\ r.batch \in Batches
      BY <2>6
    <3> HIDE DEF r
    <3>3. ASSUME NEW q \in Producers
          PROVE  request'[q] = IF q = p THEN r ELSE request[q]
      BY <1>1, <3>1
    <3>4. request' \in [Producers -> Request]
      BY <1>1, <3>1, <3>2
    <3>5. jobs' \in Seq(IngestJob) /\ j \in 0..Len(jobs')
      BY <2>4, <2>5 DEF JobsKept
    <3> QED
      BY <1>2, <1>5, <2>4, <2>5, <3>2, <3>3, <3>4, <3>5 DEF RequestsOK
  <2> QED
    BY <1>7, <1>8, <1>9, <2>1, <2>4, <2>7
<1>25. ASSUME NEW b \in Batches, ArriveLate(b)
       PROVE  RequestsOK /\ WorkersOK /\ RestOK /\ EventsOK
  <2>1. /\ UNCHANGED <<events, request, worker, told>>
        /\ late[b] > 0 /\ late' = [late EXCEPT ![b] = late[b] - 1]
        /\ jobs' = Accepted(b, IdempotencyKey(b, 0))
    BY <1>25 DEF ArriveLate
  <2>2. IdempotencyKey(b, 0) \in BOOLEAN
    BY DEF IdempotencyKey
  <2>3. JobsKept
    BY <2>1, <2>2, AcceptedTyped
  <2>4. late' \in [Batches -> Nat]
    BY <1>1, <2>1
  <2>5. RestOK
    BY <1>1, <1>5, <2>1, <2>3, <2>4 DEF RestOK
  <2> QED
    BY <1>6, <1>7, <1>9, <2>1, <2>3, <2>5
<1>26. ASSUME NEW w \in Workers, Take(w)
       PROVE  RequestsOK /\ WorkersOK /\ RestOK /\ EventsOK
  <2>1. UNCHANGED <<events, late, request, told>>
    BY <1>26 DEF Take, client
  <2>2. PICK j \in DOMAIN jobs :
          /\ jobs' = [jobs EXCEPT ![j].status = "processing"]
          /\ Works(w, Taken(j))
    BY <1>26 DEF Take, Taken
  <2>3. JobsKept /\ DOMAIN jobs' = DOMAIN jobs /\ Len(jobs') = Len(jobs)
    BY <2>2, StatusTyped
  <2>4. j \in Nat /\ j \in 0..Len(jobs) /\ j # 0
    BY <1>1
  <2>5. /\ Taken(j) \in Worker
        /\ Taken(j).job = j
    BY <2>4, TakenTyped
  <2>6. WorkersOK
    BY <1>16, <2>2, <2>3, <2>4, <2>5
  <2> QED
    BY <1>6, <1>8, <1>9, <2>1, <2>3, <2>6
<1>27. ASSUME NEW w \in Workers, Works(w, Waiting), Len(jobs') = Len(jobs),
              DOMAIN jobs' = DOMAIN jobs
       PROVE  WorkersOK
  <2>1. Waiting.job \in 0..Len(jobs) /\ Waiting.pc = "idle"
    BY <1>13 DEF Waiting
  <2> QED
    BY <1>12, <1>16, <1>27, <2>1
<1>28. ASSUME NEW w \in Workers, Complete(w)
       PROVE  RequestsOK /\ WorkersOK /\ RestOK /\ EventsOK
  <2>1. UNCHANGED <<events, late, request, told>> /\ Works(w, Waiting)
    BY <1>28 DEF Complete, client
  <2>2. worker[w].job \in DOMAIN jobs
    BY <1>2, <1>28 DEF Complete
  <2>3. JobsKept /\ DOMAIN jobs' = DOMAIN jobs /\ Len(jobs') = Len(jobs)
    BY <1>28, <2>2, StatusTyped DEF Complete, Terminal
  <2> QED
    BY <1>6, <1>8, <1>9, <1>27, <2>1, <2>3
<1>29. ASSUME NEW w \in Workers, Fail(w)
       PROVE  RequestsOK /\ WorkersOK /\ RestOK /\ EventsOK
  <2>1. UNCHANGED <<events, late, request, told>> /\ Works(w, Waiting)
    BY <1>29 DEF Fail, client
  <2>2. worker[w].job \in DOMAIN jobs
    BY <1>2, <1>29 DEF Fail
  <2>3. PICK status \in {"queued", "failed", "dead_letter"} :
          jobs' = IF jobs[worker[w].job].status = "processing"
                    THEN [jobs EXCEPT ![worker[w].job].status = status] ELSE jobs
    BY <1>29 DEF Fail
  <2>4. JobsKept /\ DOMAIN jobs' = DOMAIN jobs /\ Len(jobs') = Len(jobs)
    <3>1. CASE jobs[worker[w].job].status = "processing"
      BY <2>2, <2>3, <3>1, StatusTyped DEF Terminal
    <3>2. CASE jobs[worker[w].job].status # "processing"
      BY <1>4, <2>3, <3>2
    <3> QED
      BY <3>1, <3>2
  <2> QED
    BY <1>6, <1>8, <1>9, <1>27, <2>1, <2>4
<1>30. ASSUME NEW w \in Workers, worker[w].pc # "idle", Works(w, Onward(w)), jobs' = jobs
       PROVE  WorkersOK
  <2>1. Onward(w) \in Worker /\ Onward(w).job = worker[w].job
    BY <1>12, <1>30, OnwardTyped
  <2>2. worker[w].job \in 0..Len(jobs) /\ worker[w].job # 0
    BY <1>1, <1>2, <1>30
  <2> QED
    BY <1>16, <1>30, <2>1, <2>2
<1>31. ASSUME NEW w \in Workers, lookupEvent(w)
       PROVE  RequestsOK /\ WorkersOK /\ RestOK /\ EventsOK
  <2>1. UNCHANGED <<events, late, jobs, request, told>> /\ worker[w].pc # "idle"
    BY <1>31 DEF lookupEvent, client
  <2>2. CASE Works(w, Onward(w))
    BY <1>4, <1>6, <1>8, <1>9, <1>30, <2>1, <2>2
  <2>3. CASE Works(w, [worker[w] EXCEPT !.pc = "count"])
    <3>1. [worker[w] EXCEPT !.pc = "count"] \in Worker
          /\ [worker[w] EXCEPT !.pc = "count"].job = worker[w].job
      BY <1>12 DEF Worker
    <3>2. worker[w].job \in 0..Len(jobs) /\ worker[w].job # 0
      BY <1>1, <1>2, <2>1
    <3>3. WorkersOK
      BY <1>16, <2>1, <2>3, <3>1, <3>2
    <3> QED
      BY <1>4, <1>6, <1>8, <1>9, <2>1, <3>3
  <2> QED
    BY <1>31, <2>2, <2>3 DEF lookupEvent
<1>32. ASSUME NEW w \in Workers, countEvents(w)
       PROVE  RequestsOK /\ WorkersOK /\ RestOK /\ EventsOK
  <2>1. UNCHANGED <<events, late, jobs, request, told>> /\ worker[w].pc # "idle"
        /\ Works(w, [worker[w] EXCEPT !.pc = "append", !.count = Len(events)])
    BY <1>32 DEF countEvents, client
  <2>0. Len(events) \in Nat
    BY <1>1
  <2>2. [worker[w] EXCEPT !.pc = "append", !.count = Len(events)] \in Worker
        /\ [worker[w] EXCEPT !.pc = "append", !.count = Len(events)].job = worker[w].job
    BY <1>12, <1>32, <2>0 DEF Worker
  <2>3. worker[w].job \in 0..Len(jobs) /\ worker[w].job # 0
    BY <1>1, <1>2, <2>1
  <2>4. WorkersOK
    BY <1>16, <2>1, <2>2, <2>3
  <2> QED
    BY <1>4, <1>6, <1>8, <1>9, <2>1, <2>4
<1>33. ASSUME NEW w \in Workers, appendEvent(w)
       PROVE  RequestsOK /\ WorkersOK /\ RestOK /\ EventsOK
  <2> DEFINE event == [job |-> worker[w].job, place |-> worker[w].place,
                       sequence |-> worker[w].count + 1]
             stored == Stored(worker[w].job, worker[w].place)
  <2>1. /\ UNCHANGED <<late, jobs, request, told>> /\ worker[w].pc # "idle" /\ Works(w, Onward(w))
        /\ events' = IF stored = {} THEN Append(events, event)
                     ELSE [k \in DOMAIN events |-> IF k \in stored THEN event ELSE events[k]]
    BY <1>33 DEF appendEvent, client
  <2>2. event \in RunEvent
    BY <1>1, <1>2, <1>12, <2>1 DEF RunEvent, Worker
  <2> HIDE DEF event, stored
  <2>3. EventsOK
    BY <1>1, <2>1, <2>2 DEF EventsOK
  <2> QED
    BY <1>4, <1>6, <1>8, <1>30, <2>1, <2>3
<1>34. ASSUME UNCHANGED vars
       PROVE  RequestsOK /\ WorkersOK /\ RestOK /\ EventsOK
  BY <1>4, <1>6, <1>7, <1>8, <1>9, <1>34 DEF vars
<1> QED
  BY <1>17, <1>18, <1>19, <1>20, <1>21, <1>22, <1>23, <1>24, <1>25, <1>26, <1>28, <1>29,
     <1>31, <1>32, <1>33, <1>34 DEF Next, Rest

(* Every repository, request and job holds what the code can put in it.    *)
THEOREM TypeCorrect == Spec => []TypeOK
<1>1. TypeInv /\ [Next]_vars => TypeInv'
  BY TypeStep
<1>2. TypeInv => TypeOK
  BY DEF TypeInv
<1> QED
  BY InitTyped, <1>1, <1>2, PTL DEF Spec

-----------------------------------------------------------------------------
(* What a step does to the jobs: a worker sets the status of one, or one   *)
(* is accepted.                                                            *)
LEMMA JobsStep ==
  ASSUME TypeInv, [Next]_vars
  PROVE  \/ jobs' = jobs
         \/ \E w \in Workers : Take(w) \/ Complete(w) \/ Fail(w)
         \/ \E b \in Batches : jobs' = Accepted(b, b \in Keyed)
<1> USE DEF IdempotencyKey
<1>1. jobs \in Seq(IngestJob)
  BY DEF TypeInv, TypeOK
<1>2. ASSUME NEW p \in Producers, Arrive(p)
      PROVE  \E b \in Batches : jobs' = Accepted(b, b \in Keyed)
  <2>1. request[p].batch \in Batches
    BY <1>2 DEF Arrive, TypeInv
  <2>2. jobs' = Accepted(request[p].batch, request[p].batch \in Keyed)
    BY <1>2 DEF Arrive
  <2> QED
    BY <2>1, <2>2
<1>3. ASSUME NEW b \in Batches, ArriveLate(b)
      PROVE  jobs' = Accepted(b, b \in Keyed)
  BY <1>3 DEF ArriveLate
<1>4. ASSUME NEW p \in Producers,
             \/ enqueueEvents(p) \/ requestOk(p) \/ requestFailed(p) \/ requestTimeout(p)
             \/ requestAgain(p) \/ waitForIngest(p) \/ pollFailed(p)
      PROVE  jobs' = jobs
  BY <1>4 DEF enqueueEvents, requestOk, requestFailed, requestTimeout, requestAgain,
              waitForIngest, pollFailed
<1>5. ASSUME NEW w \in Workers, lookupEvent(w) \/ countEvents(w) \/ appendEvent(w)
      PROVE  jobs' = jobs
  BY <1>5 DEF lookupEvent, countEvents, appendEvent
<1>6. UNCHANGED vars => jobs' = jobs
  BY DEF vars
<1> QED
  BY <1>2, <1>3, <1>4, <1>5, <1>6 DEF Next, Rest

LEMMA EventsStep ==
  ASSUME [Next]_vars
  PROVE  events' = events \/ \E w \in Workers : appendEvent(w)
<1>1. ASSUME NEW p \in Producers,
             \/ enqueueEvents(p) \/ requestOk(p) \/ requestFailed(p) \/ requestTimeout(p)
             \/ requestAgain(p) \/ waitForIngest(p) \/ pollFailed(p) \/ Arrive(p)
      PROVE  events' = events
  BY <1>1 DEF enqueueEvents, requestOk, requestFailed, requestTimeout, requestAgain,
              waitForIngest, pollFailed, Arrive
<1>2. ASSUME NEW b \in Batches, ArriveLate(b)
      PROVE  events' = events
  BY <1>2 DEF ArriveLate
<1>3. ASSUME NEW w \in Workers,
             Take(w) \/ Complete(w) \/ Fail(w) \/ lookupEvent(w) \/ countEvents(w)
      PROVE  events' = events
  BY <1>3 DEF Take, Complete, Fail, lookupEvent, countEvents
<1>4. UNCHANGED vars => events' = events
  BY DEF vars
<1> QED
  BY <1>1, <1>2, <1>3, <1>4 DEF Next, Rest

(* An append adds one event behind the others, or replaces those under its *)
(* id.                                                                     *)
LEMMA AppendStep ==
  ASSUME TypeInv, NEW w \in Workers, appendEvent(w)
  PROVE  /\ worker[w].job \in DOMAIN jobs /\ worker[w].place \in 1..Size
         /\ ~IsStored(worker[w].job, worker[w].place) =>
              /\ Len(events') = Len(events) + 1
              /\ \A k \in DOMAIN events : events'[k] = events[k]
              /\ events'[Len(events) + 1] = [job |-> worker[w].job, place |-> worker[w].place,
                                             sequence |-> worker[w].count + 1]
         /\ IsStored(worker[w].job, worker[w].place) =>
              /\ DOMAIN events' = DOMAIN events
              /\ \A k \in DOMAIN events :
                   events'[k].job = events[k].job /\ events'[k].place = events[k].place
<1>1. events \in Seq(RunEvent) /\ worker[w] \in Worker
  BY DEF TypeInv, TypeOK
<1>2. worker[w].job \in DOMAIN jobs /\ worker[w].place \in 1..Size
  BY <1>1 DEF TypeInv, appendEvent, Worker
<1> DEFINE event == [job |-> worker[w].job, place |-> worker[w].place,
                     sequence |-> worker[w].count + 1]
           stored == Stored(worker[w].job, worker[w].place)
<1>3. events' = IF stored = {} THEN Append(events, event)
                ELSE [k \in DOMAIN events |-> IF k \in stored THEN event ELSE events[k]]
  BY DEF appendEvent
<1>4. IsStored(worker[w].job, worker[w].place) <=> stored # {}
  BY DEF IsStored, Stored
<1>5. event.job = worker[w].job /\ event.place = worker[w].place
  OBVIOUS
<1>6. \A k \in stored : events[k].job = worker[w].job /\ events[k].place = worker[w].place
  BY DEF Stored
<1> HIDE DEF event, stored
<1>7. CASE stored = {}
  <2>1. events' = Append(events, event)
    BY <1>3, <1>7
  <2>2. /\ Len(events') = Len(events) + 1
        /\ \A k \in DOMAIN events : events'[k] = events[k]
        /\ events'[Len(events) + 1] = event
    BY <1>1, <2>1
  <2> QED
    BY <1>2, <1>4, <1>7, <2>2 DEF event
<1>8. CASE stored # {}
  <2>1. events' = [k \in DOMAIN events |-> IF k \in stored THEN event ELSE events[k]]
    BY <1>3, <1>8
  <2> QED
    BY <1>2, <1>4, <1>5, <1>6, <1>8, <2>1
<1> QED
  BY <1>7, <1>8

(* What is stored after a step.                                            *)
StoredNext(j, place) == \E k \in DOMAIN events' : events'[k].job = j /\ events'[k].place = place

(* What is stored stays so, replaced or not.                               *)
LEMMA StoredKept ==
  ASSUME TypeInv, [Next]_vars, NEW j, NEW place, IsStored(j, place)
  PROVE  StoredNext(j, place)
<1>1. PICK k \in DOMAIN events : events[k].job = j /\ events[k].place = place
  BY DEF IsStored
<1>2. CASE events' = events
  BY <1>1, <1>2 DEF StoredNext
<1>3. ASSUME NEW w \in Workers, appendEvent(w)
      PROVE  k \in DOMAIN events' /\ events'[k].job = j /\ events'[k].place = place
  <2>1. events \in Seq(RunEvent) /\ events' \in Seq(RunEvent)
    BY TypeStep DEF TypeInv, TypeOK
  <2>2. CASE IsStored(worker[w].job, worker[w].place)
    BY <1>1, <1>3, <2>2, AppendStep
  <2>3. CASE ~IsStored(worker[w].job, worker[w].place)
    <3>1. Len(events') = Len(events) + 1 /\ events'[k] = events[k]
      BY <1>1, <1>3, <2>3, AppendStep
    <3> QED
      BY <1>1, <2>1, <3>1
  <2> QED
    BY <2>2, <2>3
<1> QED
  BY <1>2, <1>3, EventsStep DEF StoredNext

-----------------------------------------------------------------------------
LEMMA OnceStep == TypeInv /\ OnceInv /\ [Next]_vars => OnceInv'
<1> SUFFICES ASSUME TypeInv, OnceInv, [Next]_vars PROVE OnceInv'
  OBVIOUS
<1>1. TypeInv' /\ JobsKept
  BY TypeStep
<1>2. /\ jobs \in Seq(IngestJob) /\ jobs' \in Seq(IngestJob)
      /\ events \in Seq(RunEvent) /\ events' \in Seq(RunEvent)
  BY <1>1 DEF TypeInv, TypeOK
<1> DEFINE KeysOK == \A j \in DOMAIN jobs' : jobs'[j].key <=> jobs'[j].batch \in Keyed
           OneJob == \A i, j \in DOMAIN jobs' :
                       jobs'[i].key /\ jobs'[j].key /\ jobs'[i].batch = jobs'[j].batch => i = j
           JobsOfEvents == \A k \in DOMAIN events' : events'[k].job \in DOMAIN jobs'
           OneEvent == \A k, l \in DOMAIN events' :
                         events'[k].job = events'[l].job /\ events'[k].place = events'[l].place
                           => k = l
<1>3. KeysOK /\ OneJob
  <2>1. CASE DOMAIN jobs' = DOMAIN jobs
    BY <1>1, <2>1 DEF JobsKept, OnceInv
  <2>2. ASSUME NEW b \in Batches, jobs' = Accepted(b, b \in Keyed), DOMAIN jobs' # DOMAIN jobs
        PROVE  KeysOK /\ OneJob
    <3> DEFINE job == [batch |-> b, key |-> b \in Keyed, status |-> "queued"]
    <3>1. Known(b, b \in Keyed) = {} /\ jobs' = Append(jobs, job)
      BY <2>2 DEF Accepted
    <3>2. job.batch = b /\ job.key = (b \in Keyed)
      OBVIOUS
    <3>3. /\ DOMAIN jobs' = DOMAIN jobs \cup {Len(jobs) + 1}
          /\ jobs'[Len(jobs) + 1] = job
          /\ Len(jobs) + 1 \notin DOMAIN jobs
      BY <1>2, <3>1
    <3>4. \A j \in DOMAIN jobs : b \in Keyed /\ jobs[j].key => jobs[j].batch # b
      BY <3>1 DEF Known
    <3> HIDE DEF job
    <3>5. KeysOK
      BY <1>1, <3>2, <3>3 DEF JobsKept, OnceInv
    <3>6. OneJob
      BY <1>1, <3>2, <3>3, <3>4 DEF JobsKept, OnceInv
    <3> QED
      BY <3>5, <3>6
  <2>3. ASSUME NEW w \in Workers, Take(w) \/ Complete(w) \/ Fail(w)
        PROVE  DOMAIN jobs' = DOMAIN jobs
    BY <1>2, <2>3 DEF Take, Complete, Fail
  <2> QED
    BY <2>1, <2>2, <2>3, JobsStep
<1>4. JobsOfEvents /\ OneEvent
  <2>1. CASE events' = events
    BY <1>1, <2>1 DEF JobsKept, OnceInv
  <2>2. ASSUME NEW w \in Workers, appendEvent(w)
        PROVE  JobsOfEvents /\ OneEvent
    <3>1. CASE IsStored(worker[w].job, worker[w].place)
      BY <1>1, <2>2, <3>1, AppendStep DEF JobsKept, OnceInv
    <3>2. CASE ~IsStored(worker[w].job, worker[w].place)
      <4> DEFINE event == [job |-> worker[w].job, place |-> worker[w].place,
                           sequence |-> worker[w].count + 1]
      <4>1. /\ Len(events') = Len(events) + 1
            /\ \A k \in DOMAIN events : events'[k] = events[k]
            /\ events'[Len(events) + 1] = event
            /\ worker[w].job \in DOMAIN jobs
        BY <2>2, <3>2, AppendStep
      <4>2. event.job = worker[w].job /\ event.place = worker[w].place
        OBVIOUS
      <4> HIDE DEF event
      <4>3. DOMAIN events' = DOMAIN events \cup {Len(events) + 1}
        BY <1>2, <4>1
      <4>4. \A k \in DOMAIN events : events[k].job # event.job \/ events[k].place # event.place
        BY <3>2, <4>2 DEF IsStored
      <4>5. JobsOfEvents
        BY <1>1, <4>1, <4>2, <4>3 DEF JobsKept, OnceInv
      <4>6. OneEvent
        BY <4>1, <4>3, <4>4 DEF OnceInv
      <4> QED
        BY <4>5, <4>6
    <3> QED
      BY <3>1, <3>2
  <2> QED
    BY <2>1, <2>2, EventsStep
<1> QED
  BY <1>3, <1>4 DEF OnceInv

(* No event of a keyed batch is stored twice, although requests repeat     *)
(* their batch and workers repeat their job, two at once included.         *)
THEOREM KeyedBatchesAreStoredOnce == Spec => []StoredOnce
<1>1. Init => OnceInv
  BY DEF Init, OnceInv
<1>2. TypeInv /\ [Next]_vars => TypeInv'
  BY TypeStep
<1>3. TypeInv /\ OnceInv => StoredOnce
  <2> SUFFICES ASSUME TypeInv, OnceInv, NEW k \in DOMAIN events, NEW l \in DOMAIN events,
                      jobs[events[k].job].batch = jobs[events[l].job].batch,
                      jobs[events[k].job].batch \in Keyed, events[k].place = events[l].place
               PROVE  k = l
    BY DEF StoredOnce
  <2>1. events[k].job \in DOMAIN jobs /\ events[l].job \in DOMAIN jobs
    BY DEF OnceInv
  <2>2. jobs[events[k].job].key /\ jobs[events[l].job].key
    BY <2>1 DEF OnceInv
  <2>3. events[k].job = events[l].job
    BY <2>1, <2>2 DEF OnceInv
  <2> QED
    BY <2>3 DEF OnceInv
<1> QED
  BY InitTyped, OnceStep, <1>1, <1>2, <1>3, PTL DEF Spec

-----------------------------------------------------------------------------
(* What a step does to a worker, and what is stored then.                  *)
LEMMA WorkerStep ==
  ASSUME TypeInv, [Next]_vars, NEW v \in Workers
  PROVE  \/ worker'[v] = worker[v]
         \/ worker'[v].pc = "idle"
         \/ /\ worker[v].pc = "idle" /\ worker'[v].pc = "lookup" /\ worker'[v].place = 1
            /\ Take(v)
         \/ /\ worker[v].pc = "lookup" /\ worker'[v].pc = "count"
            /\ worker'[v].job = worker[v].job /\ worker'[v].place = worker[v].place
            /\ ~IsStored(worker[v].job, worker[v].place) /\ events' = events
         \/ /\ worker[v].pc = "count" /\ worker'[v].pc = "append"
            /\ worker'[v].job = worker[v].job /\ worker'[v].place = worker[v].place
            /\ worker'[v].count = Len(events) /\ events' = events
         \/ /\ worker[v].pc \in {"lookup", "append"} /\ worker'[v] = Onward(v)
            /\ StoredNext(worker[v].job, worker[v].place)
<1>1. worker \in [Workers -> Worker] /\ events \in Seq(RunEvent)
  BY DEF TypeInv, TypeOK
<1>2. \A w \in Workers : \A r : Works(w, r) =>
        (v = w /\ worker'[v] = r) \/ worker'[v] = worker[v]
  BY <1>1 DEF Works
<1>3. CASE worker' = worker
  BY <1>3
<1>4. ASSUME NEW w \in Workers, Take(w)
      PROVE  \/ worker'[v] = worker[v]
             \/ /\ worker[v].pc = "idle" /\ worker'[v].pc = "lookup" /\ worker'[v].place = 1
                /\ Take(v)
  <2>1. PICK j \in DOMAIN jobs : Works(w, Taken(j))
    BY <1>4 DEF Take, Taken
  <2>2. Taken(j).pc = "lookup" /\ Taken(j).place = 1
    BY DEF Taken, Waiting
  <2> QED
    BY <1>2, <1>4, <2>1, <2>2 DEF Take
<1>5. ASSUME NEW w \in Workers, Complete(w) \/ Fail(w)
      PROVE  worker'[v] = worker[v] \/ worker'[v].pc = "idle"
  BY <1>2, <1>5 DEF Complete, Fail, Waiting
<1>6. ASSUME NEW w \in Workers, lookupEvent(w), worker'[v] # worker[v]
      PROVE  \/ /\ worker[v].pc = "lookup" /\ worker'[v].pc = "count"
                /\ worker'[v].job = worker[v].job /\ worker'[v].place = worker[v].place
                /\ ~IsStored(worker[v].job, worker[v].place) /\ events' = events
             \/ /\ worker[v].pc \in {"lookup", "append"} /\ worker'[v] = Onward(v)
                /\ StoredNext(worker[v].job, worker[v].place)
  <2>1. /\ worker[w].pc = "lookup" /\ events' = events
        /\ Works(w, IF Stored(worker[w].job, worker[w].place) # {} THEN Onward(w)
                    ELSE [worker[w] EXCEPT !.pc = "count"])
    BY <1>6 DEF lookupEvent
  <2>2. v = w
    BY <1>2, <1>6, <2>1
  <2>3. CASE IsStored(worker[v].job, worker[v].place)
    <3>1. Works(v, Onward(v))
      BY <2>1, <2>2, <2>3 DEF IsStored, Stored
    <3>2. StoredNext(worker[v].job, worker[v].place)
      BY <2>1, <2>3 DEF IsStored, StoredNext
    <3> QED
      BY <1>2, <1>6, <2>1, <2>2, <3>1, <3>2
  <2>4. CASE ~IsStored(worker[v].job, worker[v].place)
    <3>1. Works(v, [worker[v] EXCEPT !.pc = "count"])
      BY <2>1, <2>2, <2>4 DEF IsStored, Stored
    <3>2. worker'[v] = [worker[v] EXCEPT !.pc = "count"]
      BY <1>2, <1>6, <3>1
    <3> QED
      BY <1>1, <2>1, <2>2, <2>4, <3>2 DEF Worker
  <2> QED
    BY <2>3, <2>4
<1>7. ASSUME NEW w \in Workers, countEvents(w)
      PROVE  \/ worker'[v] = worker[v]
             \/ /\ worker[v].pc = "count" /\ worker'[v].pc = "append"
                /\ worker'[v].job = worker[v].job /\ worker'[v].place = worker[v].place
                /\ worker'[v].count = Len(events) /\ events' = events
  BY <1>1, <1>2, <1>7 DEF countEvents, Worker
<1>8. ASSUME NEW w \in Workers, appendEvent(w)
      PROVE  \/ worker'[v] = worker[v]
             \/ /\ worker[v].pc \in {"lookup", "append"} /\ worker'[v] = Onward(v)
                /\ StoredNext(worker[v].job, worker[v].place)
  <2>1. worker[w].pc = "append" /\ Works(w, Onward(w))
    BY <1>8 DEF appendEvent
  <2>2. StoredNext(worker[w].job, worker[w].place)
    <3>1. CASE IsStored(worker[w].job, worker[w].place)
      BY <3>1, StoredKept
    <3>2. CASE ~IsStored(worker[w].job, worker[w].place)
      <4> DEFINE event == [job |-> worker[w].job, place |-> worker[w].place,
                           sequence |-> worker[w].count + 1]
      <4>1. Len(events') = Len(events) + 1 /\ events'[Len(events) + 1] = event
        BY <1>8, <3>2, AppendStep
      <4>2. event.job = worker[w].job /\ event.place = worker[w].place
        OBVIOUS
      <4> HIDE DEF event
      <4>3. events' \in Seq(RunEvent)
        BY TypeStep DEF TypeInv, TypeOK
      <4>4. Len(events) + 1 \in DOMAIN events'
        BY <1>1, <4>1, <4>3
      <4> QED
        BY <4>1, <4>2, <4>4 DEF StoredNext
    <3> QED
      BY <3>1, <3>2
  <2> QED
    BY <1>2, <2>1, <2>2
<1>9. ASSUME NEW p \in Producers,
             \/ enqueueEvents(p) \/ requestOk(p) \/ requestFailed(p) \/ requestTimeout(p)
             \/ requestAgain(p) \/ waitForIngest(p) \/ pollFailed(p) \/ Arrive(p)
      PROVE  worker' = worker
  BY <1>9 DEF enqueueEvents, requestOk, requestFailed, requestTimeout, requestAgain,
              waitForIngest, pollFailed, Arrive
<1>10. ASSUME NEW b \in Batches, ArriveLate(b)
       PROVE  worker' = worker
  BY <1>10 DEF ArriveLate
<1>11. UNCHANGED vars => worker' = worker
  BY DEF vars
<1> QED
  BY <1>3, <1>4, <1>5, <1>6, <1>7, <1>8, <1>9, <1>10, <1>11 DEF Next, Rest

(* A job becomes completed when a worker is done with it.                  *)
LEMMA CompletedStep ==
  ASSUME TypeInv, [Next]_vars, NEW j \in DOMAIN jobs', jobs'[j].status = "completed"
  PROVE  \/ j \in DOMAIN jobs /\ jobs[j].status = "completed"
         \/ \E w \in Workers : worker[w].pc = "done" /\ worker[w].job = j
<1>1. jobs \in Seq(IngestJob)
  BY DEF TypeInv, TypeOK
<1>2. CASE jobs' = jobs
  BY <1>2
<1>3. ASSUME NEW b \in Batches, jobs' = Accepted(b, b \in Keyed)
      PROVE  j \in DOMAIN jobs /\ jobs[j].status = "completed"
  BY <1>1, <1>3 DEF Accepted
<1>4. ASSUME NEW i \in DOMAIN jobs, NEW status, jobs' = [jobs EXCEPT ![i].status = status],
             status # "completed"
      PROVE  j \in DOMAIN jobs /\ jobs[j].status = "completed"
  <2>1. \A k \in DOMAIN jobs : k # i => jobs'[k] = jobs[k]
    BY <1>1, <1>4
  <2>2. DOMAIN jobs' = DOMAIN jobs
    BY <1>1, <1>4
  <2>3. jobs[i] \in IngestJob
    BY <1>1
  <2>4. jobs'[i].status = status
    BY <1>1, <1>4, <2>3 DEF IngestJob
  <2> QED
    BY <1>4, <2>1, <2>2, <2>4
<1>5. ASSUME NEW w \in Workers, Take(w)
      PROVE  j \in DOMAIN jobs /\ jobs[j].status = "completed"
  BY <1>4, <1>5 DEF Take
<1>6. ASSUME NEW w \in Workers, Fail(w)
      PROVE  j \in DOMAIN jobs /\ jobs[j].status = "completed"
  <2>1. worker[w].job \in DOMAIN jobs
    BY <1>6 DEF Fail, TypeInv
  <2>2. PICK status \in {"queued", "failed", "dead_letter"} :
          jobs' = IF jobs[worker[w].job].status = "processing"
                    THEN [jobs EXCEPT ![worker[w].job].status = status] ELSE jobs
    BY <1>6 DEF Fail
  <2> QED
    BY <1>4, <2>1, <2>2
<1>7. ASSUME NEW w \in Workers, Complete(w), j # worker[w].job
      PROVE  j \in DOMAIN jobs /\ jobs[j].status = "completed"
  BY <1>1, <1>7 DEF Complete
<1>8. ASSUME NEW w \in Workers, Complete(w)
      PROVE  worker[w].pc = "done"
  BY <1>8 DEF Complete
<1> QED
  BY <1>2, <1>3, <1>5, <1>6, <1>7, <1>8, JobsStep

LEMMA StoredStep == TypeInv /\ StoredInv /\ [Next]_vars => StoredInv'
<1> SUFFICES ASSUME TypeInv, StoredInv, [Next]_vars PROVE StoredInv'
  OBVIOUS
<1>1. TypeInv'
  BY TypeStep
<1>2. \A v \in Workers : worker[v] \in Worker /\ worker'[v] \in Worker
  BY <1>1 DEF TypeInv, TypeOK
<1>3. ASSUME NEW v \in Workers, worker'[v].pc # "idle", NEW place \in 1..Size,
             place < worker'[v].place \/ worker'[v].pc = "done"
      PROVE  StoredNext(worker'[v].job, place)
  <2>1. \A q \in 1..Size :
          worker[v].pc # "idle" /\ (q < worker[v].place \/ worker[v].pc = "done") =>
            StoredNext(worker[v].job, q)
    BY StoredKept DEF StoredInv
  <2>2. ~(worker'[v].pc = "lookup" /\ worker'[v].place = 1)
    BY <1>3
  <2>3. CASE \/ worker'[v] = worker[v]
             \/ /\ worker'[v].pc \in {"count", "append"} /\ worker[v].pc # "idle"
                /\ worker'[v].job = worker[v].job /\ worker'[v].place = worker[v].place
    BY <1>3, <2>1, <2>3
  <2>4. CASE /\ worker[v].pc \in {"lookup", "append"} /\ worker'[v] = Onward(v)
             /\ StoredNext(worker[v].job, worker[v].place)
    <3>1. place <= worker[v].place /\ worker'[v].job = worker[v].job
      <4>1. CASE Onward(v).pc = "lookup" /\ Onward(v).place = worker[v].place + 1
        BY <1>2, <1>3, <2>4, <4>1, OnwardTyped DEF Worker
      <4>2. CASE worker[v].place = Size
        BY <1>2, <2>4, <4>2, OnwardTyped, DeliveryAssumption DEF DeliveryAssumption
      <4> QED
        BY <1>2, <4>1, <4>2, OnwardTyped
    <3>2. CASE place = worker[v].place
      BY <2>4, <3>1, <3>2
    <3>3. CASE place < worker[v].place
      BY <2>1, <2>4, <3>1, <3>3
    <3> QED
      BY <1>2, <3>1, <3>2, <3>3 DEF Worker
  <2> QED
    BY <1>3, <2>2, <2>3, <2>4, WorkerStep
<1>4. ASSUME NEW j \in DOMAIN jobs', jobs'[j].status = "completed", NEW place \in 1..Size
      PROVE  StoredNext(j, place)
  <2>1. IsStored(j, place)
    BY <1>4, CompletedStep DEF StoredInv
  <2> QED
    BY <2>1, StoredKept
<1> QED
  BY <1>3, <1>4 DEF StoredInv, IsStored, StoredNext

(* A producer that was told its batch is ingested has it in the stream,    *)
(* whole, whatever failed in between, two workers at one job included.     *)
THEOREM ToldBatchesAreStored == Spec => []ToldIsStored
<1> DEFINE ToldInv == \A j \in told : \A place \in 1..Size : IsStored(j, place)
<1>1. Init => StoredInv /\ ToldInv
  BY DEF Init, StoredInv, Waiting
<1>2. TypeInv /\ [Next]_vars => TypeInv'
  BY TypeStep
<1>3. ASSUME TypeInv, StoredInv, ToldInv, [Next]_vars
      PROVE  ToldInv'
  <2>1. \A j \in told : \A place \in 1..Size : StoredNext(j, place)
    BY <1>3, StoredKept
  <2>2. CASE told' = told
    BY <2>1, <2>2 DEF IsStored, StoredNext
  <2>3. ASSUME NEW p \in Producers, waitForIngest(p)
        PROVE  ToldInv'
    <3>1. request[p].job \in DOMAIN jobs /\ events' = events
      BY <1>3, <2>3 DEF waitForIngest, TypeInv
    <3>2. CASE jobs[request[p].job].status = "completed"
      <4>1. told' \subseteq told \cup {request[p].job}
        BY <2>3 DEF waitForIngest
      <4>2. \A place \in 1..Size : StoredNext(request[p].job, place)
        BY <1>3, <3>1, <3>2, StoredKept DEF StoredInv
      <4> QED
        BY <2>1, <4>1, <4>2 DEF IsStored, StoredNext
    <3>3. CASE jobs[request[p].job].status # "completed"
      BY <2>2, <2>3, <3>3 DEF waitForIngest
    <3> QED
      BY <3>2, <3>3
  <2>4. (\E p \in Producers : waitForIngest(p)) \/ told' = told
    BY <1>3 DEF Next, Rest, vars, client, enqueueEvents, requestOk, requestFailed,
                requestTimeout, requestAgain, pollFailed, Arrive, ArriveLate, Take, Complete,
                Fail, lookupEvent, countEvents, appendEvent
  <2> QED
    BY <2>2, <2>3, <2>4
<1>4. ToldInv => ToldIsStored
  BY DEF ToldIsStored, Stored, IsStored
<1> HIDE DEF ToldInv
<1> QED
  BY InitTyped, StoredStep, <1>1, <1>2, <1>3, <1>4, PTL DEF Spec

-----------------------------------------------------------------------------
(* A platform that hands no job to two workers.                            *)
LEMMA OwnStep ==
  ASSUME ~Overlap, TypeInv, StoredInv, OwnInv, [Next]_vars
  PROVE  OwnInv'
<1>1. TypeInv' /\ JobsKept
  BY TypeStep
<1>2. /\ worker \in [Workers -> Worker] /\ jobs \in Seq(IngestJob)
      /\ events \in Seq(RunEvent) /\ events' \in Seq(RunEvent)
      /\ \A v \in Workers : worker[v] \in Worker /\ worker'[v] \in Worker
      /\ \A w \in Workers : worker[w].pc # "idle" => worker[w].job \in DOMAIN jobs
  BY <1>1 DEF TypeInv, TypeOK
<1>3. ASSUME NEW v \in Workers, worker'[v].pc # "idle"
      PROVE  Take(v) \/ (worker[v].pc # "idle" /\ worker'[v].job = worker[v].job)
  BY <1>2, <1>3, WorkerStep, OnwardTyped
<1>4. ASSUME NEW w \in Workers, Take(w)
      PROVE  /\ worker[w].pc = "idle"
             /\ worker'[w].job \in DOMAIN jobs
             /\ jobs[worker'[w].job].status = "queued"
             /\ jobs'[worker'[w].job].status = "processing"
             /\ \A v \in Workers : v # w => worker'[v] = worker[v]
             /\ \A i \in DOMAIN jobs : i # worker'[w].job => jobs'[i] = jobs[i]
  <2>1. PICK j \in DOMAIN jobs :
          /\ jobs[j].status = "queued"
          /\ jobs' = [jobs EXCEPT ![j].status = "processing"]
          /\ Works(w, Taken(j))
    BY <1>4 DEF Take, Taken
  <2>2. worker'[w].job = j /\ \A v \in Workers : v # w => worker'[v] = worker[v]
    <3>1. Taken(j).job = j
      BY DEF Taken, Waiting
    <3> QED
      BY <1>2, <2>1, <3>1 DEF Works
  <2>3. jobs'[j].status = "processing" /\ \A i \in DOMAIN jobs : i # j => jobs'[i] = jobs[i]
    BY <2>1, StatusTyped
  <2>4. worker[w].pc = "idle"
    BY <1>4 DEF Take
  <2> QED
    BY <2>1, <2>2, <2>3, <2>4
<1>5. ASSUME NEW v \in Workers, worker'[v].pc # "idle"
      PROVE  jobs'[worker'[v].job].status = "processing"
  <2>1. CASE Take(v)
    BY <1>4, <2>1
  <2>2. CASE worker[v].pc # "idle" /\ worker'[v].job = worker[v].job
    <3>1. worker[v].job \in DOMAIN jobs /\ jobs[worker[v].job].status = "processing"
      BY <1>2, <2>2 DEF OwnInv
    <3>2. CASE jobs' = jobs
      BY <2>2, <3>1, <3>2
    <3>3. ASSUME NEW b \in Batches, jobs' = Accepted(b, b \in Keyed)
          PROVE  jobs'[worker[v].job] = jobs[worker[v].job]
      BY <1>2, <3>1, <3>3 DEF Accepted
    <3>4. ASSUME NEW w \in Workers, Take(w)
          PROVE  jobs'[worker[v].job] = jobs[worker[v].job]
      BY <1>4, <3>1, <3>4
    <3>5. ASSUME NEW w \in Workers, Complete(w) \/ Fail(w)
          PROVE  jobs'[worker[v].job] = jobs[worker[v].job]
      <4>1. worker[w].pc # "idle" /\ Works(w, Waiting)
        BY <3>5 DEF Complete, Fail
      <4>2. v # w
        BY <1>2, <1>5, <4>1 DEF Works, Waiting
      <4>3. worker[v].job # worker[w].job
        BY <2>2, <4>1, <4>2 DEF OwnInv
      <4> QED
        BY <1>2, <3>1, <3>5, <4>3 DEF Complete, Fail
    <3> QED
      BY <2>2, <3>1, <3>2, <3>3, <3>4, <3>5, JobsStep
  <2> QED
    BY <1>3, <1>5, <2>1, <2>2
<1>6. ASSUME NEW v \in Workers, NEW w \in Workers, worker'[v].pc # "idle", worker'[w].pc # "idle",
             worker'[v].job = worker'[w].job
      PROVE  v = w
  <2>1. CASE worker[v].pc # "idle" /\ worker[w].pc # "idle"
    BY <1>3, <1>4, <1>6, <2>1 DEF OwnInv
  <2>2. ASSUME NEW t \in Workers, NEW u \in Workers, t # u, Take(t), worker'[u].pc # "idle",
               worker'[t].job = worker'[u].job
        PROVE  FALSE
    <3>1. worker'[u] = worker[u]
      BY <1>4, <2>2
    <3>2. jobs[worker[u].job].status = "processing"
      BY <2>2, <3>1 DEF OwnInv
    <3> QED
      BY <1>4, <2>2, <3>1, <3>2
  <2> QED
    BY <1>3, <1>6, <2>1, <2>2
<1>7. ASSUME NEW v \in Workers, worker'[v].pc \in {"count", "append"}
      PROVE  ~StoredNext(worker'[v].job, worker'[v].place)
  <2>1. \/ worker'[v] = worker[v]
        \/ /\ worker[v].pc \in {"lookup", "count"}
           /\ worker'[v].job = worker[v].job /\ worker'[v].place = worker[v].place
           /\ ~IsStored(worker[v].job, worker[v].place) /\ events' = events
    BY <1>2, <1>7, WorkerStep, OnwardTyped DEF OwnInv
  <2>2. CASE events' = events
    BY <1>7, <2>1, <2>2 DEF OwnInv, IsStored, StoredNext
  <2>3. ASSUME NEW u \in Workers, appendEvent(u), worker'[v] = worker[v]
        PROVE  ~StoredNext(worker[v].job, worker[v].place)
    <3>1. worker[u].pc = "append" /\ Works(u, Onward(u))
      BY <2>3 DEF appendEvent
    <3>2. u # v
      <4>1. worker'[u] = Onward(u)
        BY <1>2, <3>1 DEF Works
      <4> QED
        BY <1>2, <1>7, <4>1, OnwardTyped
    <3>3. worker[u].job # worker[v].job
      BY <1>7, <2>3, <3>1, <3>2 DEF OwnInv
    <3>4. ~IsStored(worker[u].job, worker[u].place) /\ ~IsStored(worker[v].job, worker[v].place)
      BY <1>7, <2>3, <3>1 DEF OwnInv
    <3> DEFINE event == [job |-> worker[u].job, place |-> worker[u].place,
                         sequence |-> worker[u].count + 1]
    <3>5. /\ Len(events') = Len(events) + 1
          /\ \A k \in DOMAIN events : events'[k] = events[k]
          /\ events'[Len(events) + 1] = event
      BY <2>3, <3>4, AppendStep
    <3>6. event.job = worker[u].job
      OBVIOUS
    <3> HIDE DEF event
    <3>7. DOMAIN events' = DOMAIN events \cup {Len(events) + 1}
      BY <1>2, <3>5
    <3> QED
      BY <3>3, <3>4, <3>5, <3>6, <3>7 DEF IsStored, StoredNext
  <2> QED
    BY <2>1, <2>2, <2>3, EventsStep
<1>8. ASSUME NEW k \in DOMAIN events', NEW place \in 1..Size, place < events'[k].place
      PROVE  StoredNext(events'[k].job, place)
  <2>1. ASSUME k \in DOMAIN events, events'[k].job = events[k].job,
               events'[k].place = events[k].place
        PROVE  StoredNext(events'[k].job, place)
    BY <1>8, <2>1, StoredKept DEF OwnInv
  <2>2. ASSUME NEW u \in Workers, appendEvent(u), ~IsStored(worker[u].job, worker[u].place),
               k \notin DOMAIN events
        PROVE  StoredNext(events'[k].job, place)
    <3>1. Len(events') = Len(events) + 1
          /\ events'[Len(events) + 1] = [job |-> worker[u].job, place |-> worker[u].place,
                                         sequence |-> worker[u].count + 1]
      BY <2>2, AppendStep
    <3>2. k = Len(events) + 1
      BY <1>2, <1>8, <2>2, <3>1
    <3>3. events'[k].job = worker[u].job /\ events'[k].place = worker[u].place
      BY <3>1, <3>2
    <3>4. worker[u].pc # "idle"
      BY <2>2 DEF appendEvent
    <3> QED
      BY <1>8, <3>3, <3>4, StoredKept DEF StoredInv
  <2> QED
    BY <2>1, <2>2, EventsStep, AppendStep
<1> QED
  BY <1>5, <1>6, <1>7, <1>8 DEF OwnInv, IsStored, StoredNext

LEMMA SequenceStep ==
  ASSUME ~Overlap, TypeInv, StoredInv, OwnInv, SequenceInv, BatchOrder, [Next]_vars
  PROVE  SequenceInv' /\ BatchOrder'
<1>1. TypeInv'
  BY TypeStep
<1>2. /\ worker \in [Workers -> Worker] /\ events \in Seq(RunEvent) /\ events' \in Seq(RunEvent)
      /\ \A v \in Workers : worker[v] \in Worker /\ worker'[v] \in Worker
  BY <1>1 DEF TypeInv, TypeOK
<1> DEFINE event(u) == [job |-> worker[u].job, place |-> worker[u].place,
                        sequence |-> worker[u].count + 1]
<1>3. ASSUME NEW u \in Workers, appendEvent(u)
      PROVE  /\ worker[u].pc = "append" /\ worker'[u] = Onward(u)
             /\ worker[u].count \in Nat /\ Len(events) \in Nat
             /\ DOMAIN events' = DOMAIN events \cup {Len(events) + 1}
             /\ Len(events') = Len(events) + 1
             /\ \A k \in DOMAIN events : events'[k] = events[k]
             /\ events'[Len(events) + 1] = event(u)
             /\ ~IsStored(worker[u].job, worker[u].place) /\ worker[u].place \in 1..Size
  <2>1. worker[u].pc = "append" /\ Works(u, Onward(u))
    BY <1>3 DEF appendEvent
  <2>2. ~IsStored(worker[u].job, worker[u].place)
    BY <2>1 DEF OwnInv
  <2>3. /\ Len(events') = Len(events) + 1 /\ worker[u].place \in 1..Size
        /\ \A k \in DOMAIN events : events'[k] = events[k]
        /\ events'[Len(events) + 1] = event(u)
    BY <1>3, <2>2, AppendStep
  <2>4. worker[u].count \in Nat /\ Len(events) \in Nat
    BY <1>2, <1>3 DEF Worker
  <2>5. DOMAIN events' = DOMAIN events \cup {Len(events) + 1}
    BY <1>2, <2>3, <2>4
  <2> QED
    BY <1>2, <2>1, <2>2, <2>3, <2>4, <2>5 DEF Works
<1>4. \A u \in Workers : /\ event(u).job = worker[u].job /\ event(u).place = worker[u].place
                         /\ event(u).sequence = worker[u].count + 1
  OBVIOUS
<1> HIDE DEF event
<1>5. ASSUME NEW k \in DOMAIN events'
      PROVE  events'[k].sequence <= k
  <2>1. CASE events' = events
    BY <1>5, <2>1 DEF SequenceInv
  <2>2. ASSUME NEW u \in Workers, appendEvent(u)
        PROVE  events'[k].sequence <= k
    <3>1. CASE k \in DOMAIN events
      BY <1>3, <2>2, <3>1 DEF SequenceInv
    <3>2. CASE k = Len(events) + 1
      <4>1. worker[u].count <= Len(events) /\ worker[u].count \in Nat
        BY <1>3, <2>2 DEF SequenceInv
      <4>2. events'[k].sequence = worker[u].count + 1
        BY <1>3, <1>4, <2>2, <3>2
      <4> QED
        BY <1>3, <2>2, <3>2, <4>1, <4>2
    <3> QED
      BY <1>3, <1>5, <2>2, <3>1, <3>2
  <2> QED
    BY <2>1, <2>2, EventsStep
<1>6. ASSUME NEW v \in Workers, worker'[v].pc = "append"
      PROVE  /\ worker'[v].count <= Len(events')
             /\ \A k \in DOMAIN events' : events'[k].job = worker'[v].job => k <= worker'[v].count
  <2>1. \/ worker'[v] = worker[v]
        \/ worker'[v].count = Len(events) /\ events' = events
    BY <1>2, <1>6, WorkerStep, OnwardTyped
  <2>2. CASE worker'[v].count = Len(events) /\ events' = events
    BY <1>2, <2>2
  <2>3. CASE worker'[v] = worker[v] /\ events' = events
    BY <1>6, <2>3 DEF SequenceInv
  <2>4. ASSUME NEW u \in Workers, appendEvent(u), worker'[v] = worker[v]
        PROVE  /\ worker[v].count <= Len(events')
               /\ \A k \in DOMAIN events' : events'[k].job = worker[v].job => k <= worker[v].count
    <3>1. u # v
      BY <1>2, <1>3, <1>6, <2>4, OnwardTyped
    <3>2. worker[u].job # worker[v].job
      BY <1>3, <1>6, <2>4, <3>1 DEF OwnInv
    <3>3. worker[v].count <= Len(events) /\ worker[v].count \in Nat
      BY <1>2, <1>6, <2>4 DEF SequenceInv, Worker
    <3>4. \A k \in DOMAIN events : events[k].job = worker[v].job => k <= worker[v].count
      BY <1>6, <2>4 DEF SequenceInv
    <3>5. \A k \in DOMAIN events' : events'[k].job = worker[v].job => k \in DOMAIN events
      BY <1>3, <1>4, <2>4, <3>2
    <3>6. worker[v].count <= Len(events')
      BY <1>3, <2>4, <3>3
    <3> QED
      BY <1>3, <2>4, <3>4, <3>5, <3>6
  <2> QED
    BY <2>1, <2>2, <2>3, <2>4, EventsStep
<1>7. ASSUME NEW k \in DOMAIN events', NEW l \in DOMAIN events',
             events'[k].job = events'[l].job, events'[k].place < events'[l].place
      PROVE  k < l /\ events'[k].sequence < events'[l].sequence
  <2>1. CASE events' = events
    BY <1>7, <2>1 DEF BatchOrder
  <2>2. ASSUME NEW u \in Workers, appendEvent(u)
        PROVE  k < l /\ events'[k].sequence < events'[l].sequence
    <3>1. CASE k \in DOMAIN events /\ l \in DOMAIN events
      BY <1>3, <1>7, <2>2, <3>1 DEF BatchOrder
    <3>2. CASE k \in DOMAIN events /\ l = Len(events) + 1
      <4>1. events[k] = events'[k] /\ events[k].job = worker[u].job
            /\ events'[l].sequence = worker[u].count + 1
        BY <1>3, <1>4, <1>7, <2>2, <3>2
      <4>2. k <= worker[u].count /\ worker[u].count <= Len(events) /\ events[k].sequence <= k
        BY <1>3, <2>2, <3>2, <4>1 DEF SequenceInv
      <4>3. k \in Nat /\ events[k].sequence \in Nat /\ worker[u].count \in Nat
        <5>1. events[k] \in RunEvent /\ k \in Nat
          BY <1>2, <3>2
        <5> QED
          BY <1>3, <2>2, <5>1 DEF RunEvent
      <4>4. k < l
        BY <1>3, <2>2, <3>2, <4>2, <4>3
      <4>5. events[k].sequence < worker[u].count + 1
        BY <4>2, <4>3
      <4> QED
        BY <4>1, <4>4, <4>5
    <3>3. CASE k = Len(events) + 1 /\ l \in DOMAIN events
      <4>1. events[l] = events'[l] /\ events[l].job = worker[u].job
            /\ worker[u].place < events[l].place
        BY <1>3, <1>4, <1>7, <2>2, <3>3
      <4> QED
        BY <1>3, <2>2, <3>3, <4>1 DEF OwnInv
    <3>4. ~(k = Len(events) + 1 /\ l = Len(events) + 1)
      <4>1. events'[k].place \in Nat
        <5>1. events'[k] \in RunEvent
          BY <1>2, <1>7
        <5> QED
          BY <5>1, DeliveryAssumption DEF RunEvent, DeliveryAssumption
      <4> QED
        BY <1>7, <4>1
    <3> QED
      BY <1>3, <1>7, <2>2, <3>1, <3>2, <3>3, <3>4
  <2> QED
    BY <2>1, <2>2, EventsStep
<1> QED
  BY <1>5, <1>6, <1>7 DEF SequenceInv, BatchOrder

LEMMA InitOwn == Init => StoredInv /\ OwnInv /\ SequenceInv /\ BatchOrder
  BY DEF Init, Waiting, StoredInv, OwnInv, SequenceInv, BatchOrder

(* No event is replaced or moved, unless the platform hands a job to two   *)
(* workers at once.                                                        *)
THEOREM StreamIsKept == ~Overlap => (Spec => StreamKept)
<1> SUFFICES ASSUME ~Overlap PROVE Spec => StreamKept
  OBVIOUS
<1>1. TypeInv /\ [Next]_vars => TypeInv'
  BY TypeStep
<1>2. TypeInv /\ StoredInv /\ OwnInv /\ [Next]_vars => OwnInv'
  BY OwnStep
<1>3. ASSUME TypeInv, OwnInv, [Next]_vars
      PROVE  \A k \in DOMAIN events : k \in DOMAIN events' /\ events'[k] = events[k]
  <2>1. ASSUME NEW w \in Workers, appendEvent(w)
        PROVE  \A k \in DOMAIN events : k \in DOMAIN events' /\ events'[k] = events[k]
    <3>1. ~IsStored(worker[w].job, worker[w].place)
      BY <1>3, <2>1 DEF appendEvent, OwnInv
    <3>2. Len(events') = Len(events) + 1 /\ \A k \in DOMAIN events : events'[k] = events[k]
      BY <1>3, <2>1, <3>1, AppendStep
    <3>3. events \in Seq(RunEvent) /\ events' \in Seq(RunEvent)
      BY <1>3, TypeStep DEF TypeInv, TypeOK
    <3> QED
      BY <3>2, <3>3
  <2> QED
    BY <1>3, <2>1, EventsStep
<1> QED
  BY InitTyped, InitOwn, StoredStep, <1>1, <1>2, <1>3, PTL DEF Spec, StreamKept

(* The events of a job are stored in the order of its batch, with          *)
(* increasing sequences, whatever other jobs and failures come in between. *)
THEOREM BatchesKeepTheirOrder == ~Overlap => (Spec => []BatchOrder)
<1> SUFFICES ASSUME ~Overlap PROVE Spec => []BatchOrder
  OBVIOUS
<1>1. TypeInv /\ [Next]_vars => TypeInv'
  BY TypeStep
<1>2. TypeInv /\ StoredInv /\ OwnInv /\ [Next]_vars => OwnInv'
  BY OwnStep
<1>3. TypeInv /\ StoredInv /\ OwnInv /\ SequenceInv /\ BatchOrder /\ [Next]_vars
        => SequenceInv' /\ BatchOrder'
  BY SequenceStep
<1> QED
  BY InitTyped, InitOwn, StoredStep, <1>1, <1>2, <1>3, PTL DEF Spec
=============================================================================
