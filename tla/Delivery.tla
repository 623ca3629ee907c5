------------------------------ MODULE Delivery ------------------------------
(***************************************************************************)
(* The delivery of event batches to a hosted platform: the HTTP transport  *)
(* with its timeout and retries                                            *)
(* (typescript/packages/cip/src/client/transports.ts), the run tracker's   *)
(* polling (client/run-tracker.ts) and the keyed appendRunEvent of the     *)
(* control plane (services/cip-control-plane.ts), for one session.         *)
(*                                                                         *)
(* Between them is the platform, which is not in the repository: it        *)
(* accepts requests, one job per idempotency key, and its workers append   *)
(* the events of a job under ids of their own, again when a worker failed, *)
(* until it gives the job up.                                              *)
(***************************************************************************)
EXTENDS Naturals, Sequences, FiniteSets

CONSTANTS
  Producers,            \* run trackers, each awaiting one call at a time
  Batches,              \* batches of run events
  NoBatch,              \* the batch of a producer with no call in flight
  Keyed,                \* the batches sent with an idempotency key
  Size,                 \* events in a batch
  RetryableStatusCodes, \* retryPolicy.retryableStatusCodes
  Statuses,             \* statuses a platform or a gateway may answer with
  MaxAttempts,          \* retryPolicy.maxAttempts
  MaxPollAttempts,      \* maxPollAttempts of the run tracker
  Workers,              \* platform: its workers
  Overlap,              \* platform: TRUE when it may hand a job to a second worker
                        \* while the first is still at it
  MaxSends,             \* bound: calls of enqueueEvents
  MaxFaults             \* bound: answers other than ok, and failures of workers

ASSUME DeliveryAssumption ==
  /\ Keyed \subseteq Batches
  /\ Size \in Nat \ {0} /\ MaxAttempts \in Nat \ {0}
  /\ Overlap \in BOOLEAN
  /\ MaxPollAttempts \in Nat /\ MaxSends \in Nat /\ MaxFaults \in Nat

VARIABLES
  events,       \* runEvents repository of the session, a Map: in order of insertion
  request,      \* the call each producer has in flight
  late,         \* requests given up that may still arrive, per batch
  jobs,         \* platform: the jobs it has accepted
  worker,       \* platform: what each worker is at
  told,         \* the jobs a producer was told were completed
  sends,        \* calls of enqueueEvents so far
  faults        \* answers other than ok, and failures of workers, so far

client == <<request, told, sends>>
vars == <<events, request, late, jobs, worker, told, sends, faults>>

(* Event place of a job; the id is the pair of both.                       *)
RunEvent == [job: Nat \ {0}, place: 1..Size, sequence: Nat \ {0}]

Terminal == {"completed", "failed", "dead_letter"}

(* key: whether the request bore one, which is then the batch's own.       *)
IngestJob ==
  [batch: Batches, key: BOOLEAN, status: {"queued", "processing"} \cup Terminal]

(* job: the one the answer will name, 0 until the request has arrived.     *)
Request ==
  [pc: {"idle", "sent", "backoff", "polling"}, batch: Batches \cup {NoBatch},
   attempt: 0..(MaxAttempts - 1), job: Nat, poll: 0..MaxPollAttempts]

Worker ==
  [pc: {"idle", "lookup", "count", "append", "done"}, job: Nat, place: 1..Size, count: Nat]

Waiting == [pc |-> "idle", job |-> 0, place |-> 1, count |-> 0]

Init ==
  /\ events = <<>>
  /\ request = [p \in Producers |->
                  [pc |-> "idle", batch |-> NoBatch, attempt |-> 0, job |-> 0, poll |-> 0]]
  /\ late = [b \in Batches |-> 0]
  /\ jobs = <<>>
  /\ worker = [w \in Workers |-> Waiting]
  /\ told = {}
  /\ sends = 0
  /\ faults = 0

Fault == faults < MaxFaults /\ faults' = faults + 1

-----------------------------------------------------------------------------
(* The transport                                                           *)

Slip_KeyOnce(b, attempt) == b \in Keyed /\ attempt = 0

(* buildHeaders: every attempt of a request bears the same key.            *)
IdempotencyKey(b, attempt) == b \in Keyed

Becomes(p, r) == request' = [request EXCEPT ![p] = r]

Idle == [pc |-> "idle", batch |-> NoBatch, attempt |-> 0, job |-> 0, poll |-> 0]

enqueueEvents(p) ==
  /\ request[p].pc = "idle"
  /\ sends < MaxSends
  /\ sends' = sends + 1
  /\ \E b \in Batches : Becomes(p, [Idle EXCEPT !.pc = "sent", !.batch = b])
  /\ UNCHANGED <<events, late, jobs, worker, told, faults>>

(* A request that has not arrived when its answer or its timeout comes may *)
(* arrive later; nothing makes it.                                         *)
Abandoned(p) ==
  late' = IF request[p].job = 0 THEN [late EXCEPT ![request[p].batch] = @ + 1] ELSE late

DEFAULT_RETRYABLE_STATUS_CODES == {408, 429, 500, 502, 503, 504}

(* Whether an answer is repeated: buildError makes a retryable error of    *)
(* the default codes only, whatever the policy names.                      *)
isRetryable(status, attempt) ==
  /\ status \in DEFAULT_RETRYABLE_STATUS_CODES
  /\ attempt + 1 < MaxAttempts
  /\ status \in RetryableStatusCodes

(* The platform's answer is ok: the receipt names a job, which the run     *)
(* tracker then waits for.                                                 *)
requestOk(p) ==
  /\ request[p].pc = "sent" /\ request[p].job # 0
  /\ Becomes(p, [request[p] EXCEPT !.pc = "polling"])
  /\ UNCHANGED <<events, late, jobs, worker, told, sends, faults>>

(* A gateway or the platform answers something else, whether or not the    *)
(* request has arrived: the transport tries again or throws.               *)
requestFailed(p) ==
  /\ request[p].pc = "sent"
  /\ Fault
  /\ \E status \in Statuses :
       Becomes(p, IF isRetryable(status, request[p].attempt)
                    THEN [request[p] EXCEPT !.pc = "backoff", !.attempt = @ + 1, !.job = 0]
                    ELSE Idle)
  /\ Abandoned(p)
  /\ UNCHANGED <<events, jobs, worker, told, sends>>

(* AbortSignal.timeout: fetch rejects, and the call with it.               *)
requestTimeout(p) ==
  /\ request[p].pc = "sent"
  /\ Becomes(p, Idle)
  /\ Abandoned(p)
  /\ UNCHANGED <<events, jobs, worker, told, sends, faults>>

requestAgain(p) ==
  /\ request[p].pc = "backoff"
  /\ Becomes(p, [request[p] EXCEPT !.pc = "sent"])
  /\ UNCHANGED <<events, late, jobs, worker, told, sends, faults>>

LastPoll(p) == request[p].poll = MaxPollAttempts

(* waitForIngest: polls until the job is terminal or the attempts are      *)
(* spent; the last poll counts whatever it finds.                          *)
waitForIngest(p) ==
  /\ request[p].pc = "polling"
  /\ LET job == request[p].job
         status == jobs[job].status
     IN IF status \in Terminal \/ LastPoll(p)
          THEN /\ Becomes(p, Idle)
               /\ told' = IF status = "completed" THEN told \cup {job} ELSE told
          ELSE /\ Becomes(p, [request[p] EXCEPT !.poll = @ + 1])
               /\ told' = told
  /\ UNCHANGED <<events, late, jobs, worker, sends, faults>>

(* A poll is answered with an error that is not repeated, or times out.    *)
pollFailed(p) ==
  /\ request[p].pc = "polling"
  /\ Fault
  /\ Becomes(p, Idle)
  /\ UNCHANGED <<events, late, jobs, worker, told, sends>>

-----------------------------------------------------------------------------
(* The platform                                                            *)

(* The job of a request that bears this batch, and perhaps its key.        *)
Known(b, key) == {j \in DOMAIN jobs : key /\ jobs[j].key /\ jobs[j].batch = b}

Accepted(b, key) ==
  IF Known(b, key) # {} THEN jobs
  ELSE Append(jobs, [batch |-> b, key |-> key, status |-> "queued"])

Arrive(p) ==
  /\ request[p].pc = "sent" /\ request[p].job = 0
  /\ LET b == request[p].batch
         key == IdempotencyKey(b, request[p].attempt)
     IN /\ jobs' = Accepted(b, key)
        /\ \E j \in IF Known(b, key) # {} THEN Known(b, key) ELSE {Len(jobs) + 1} :
             Becomes(p, [request[p] EXCEPT !.job = j])
  /\ UNCHANGED <<events, late, worker, told, sends, faults>>

ArriveLate(b) ==
  /\ late[b] > 0
  /\ late' = [late EXCEPT ![b] = @ - 1]
  /\ jobs' = Accepted(b, IdempotencyKey(b, 0))
  /\ UNCHANGED <<events, request, worker, told, sends, faults>>

Works(w, r) == worker' = [worker EXCEPT ![w] = r]

Take(w) ==
  /\ worker[w].pc = "idle"
  /\ \E j \in DOMAIN jobs :
       /\ jobs[j].status = "queued" \/ (Overlap /\ jobs[j].status = "processing")
       /\ jobs' = [jobs EXCEPT ![j].status = "processing"]
       /\ Works(w, [Waiting EXCEPT !.pc = "lookup", !.job = j])
  /\ UNCHANGED <<events, late, client, faults>>

(* All events of the job have been appended.                               *)
Complete(w) ==
  /\ worker[w].pc = "done"
  /\ jobs' = [jobs EXCEPT ![worker[w].job].status = "completed"]
  /\ Works(w, Waiting)
  /\ UNCHANGED <<events, late, client, faults>>

(* The worker stops, or an append is rejected: the job goes back to the    *)
(* queue or is given up, unless it has been settled meanwhile.             *)
Fail(w) ==
  /\ worker[w].pc # "idle"
  /\ Fault
  /\ LET j == worker[w].job
     IN \E status \in {"queued", "failed", "dead_letter"} :
          jobs' = IF jobs[j].status = "processing"
                    THEN [jobs EXCEPT ![j].status = status] ELSE jobs
  /\ Works(w, Waiting)
  /\ UNCHANGED <<events, late, client>>

-----------------------------------------------------------------------------
(* appendRunEvent with an id                                               *)

(* The places at which the repository holds an event with the id.          *)
Stored(j, place) ==
  {k \in DOMAIN events : events[k].job = j /\ events[k].place = place}

(* On to the next event of the batch.                                      *)
Onward(w) ==
  IF worker[w].place < Size
    THEN [worker[w] EXCEPT !.pc = "lookup", !.place = @ + 1]
    ELSE [worker[w] EXCEPT !.pc = "done"]

Slip_NotLookedUp(w) ==
  /\ worker[w].pc = "lookup"
  /\ Works(w, [worker[w] EXCEPT !.pc = "count"])
  /\ UNCHANGED <<events, late, jobs, client, faults>>

Slip_ByBatch(w) ==
  /\ worker[w].pc = "lookup"
  /\ Works(w, IF \E place \in 1..Size : Stored(worker[w].job, place) # {} THEN Onward(w)
              ELSE [worker[w] EXCEPT !.pc = "count"])
  /\ UNCHANGED <<events, late, jobs, client, faults>>

(* An event with the id is returned as it is.                              *)
lookupEvent(w) ==
  /\ worker[w].pc = "lookup"
  /\ Works(w, IF Stored(worker[w].job, worker[w].place) # {} THEN Onward(w)
              ELSE [worker[w] EXCEPT !.pc = "count"])
  /\ UNCHANGED <<events, late, jobs, client, faults>>

countEvents(w) ==
  /\ worker[w].pc = "count"
  /\ Works(w, [worker[w] EXCEPT !.pc = "append", !.count = Len(events)])
  /\ UNCHANGED <<events, late, jobs, client, faults>>

(* Map.set: an event stored under the id meanwhile is replaced where it is.*)
appendEvent(w) ==
  /\ worker[w].pc = "append"
  /\ LET event == [job |-> worker[w].job, place |-> worker[w].place,
                   sequence |-> worker[w].count + 1]
         stored == Stored(event.job, event.place)
     IN events' = IF stored = {} THEN Append(events, event)
                  ELSE [k \in DOMAIN events |-> IF k \in stored THEN event ELSE events[k]]
  /\ Works(w, Onward(w))
  /\ UNCHANGED <<late, jobs, client, faults>>

-----------------------------------------------------------------------------
Rest ==
  /\ \A p \in Producers : request[p].pc = "idle"
  /\ UNCHANGED vars

Next ==
  \/ \E p \in Producers :
       \/ enqueueEvents(p) \/ Arrive(p)
       \/ requestOk(p) \/ requestFailed(p) \/ requestTimeout(p) \/ requestAgain(p)
       \/ waitForIngest(p) \/ pollFailed(p)
  \/ \E b \in Batches : ArriveLate(b)
  \/ \E w \in Workers :
       \/ Take(w) \/ Complete(w) \/ Fail(w)
       \/ lookupEvent(w) \/ countEvents(w) \/ appendEvent(w)
  \/ Rest

Spec == Init /\ [][Next]_vars

-----------------------------------------------------------------------------
TypeOK ==
  /\ events \in Seq(RunEvent)
  /\ request \in [Producers -> Request]
  /\ \A p \in Producers : request[p].job \in 0..Len(jobs)
  /\ late \in [Batches -> Nat]
  /\ jobs \in Seq(IngestJob)
  /\ worker \in [Workers -> Worker]
  /\ \A w \in Workers : worker[w].job \in 0..Len(jobs)
  /\ told \subseteq DOMAIN jobs

(* A batch sent with a key is stored once: no request repeated after an    *)
(* answer was lost, no late arrival, no second call and no attempt of a    *)
(* worker stores an event of it again.                                     *)
StoredOnce ==
  \A k, l \in DOMAIN events :
    /\ jobs[events[k].job].batch = jobs[events[l].job].batch
    /\ jobs[events[k].job].batch \in Keyed
    /\ events[k].place = events[l].place
    => k = l

(* The stream is append-only: no event in it is replaced or moved, however *)
(* often its id is appended again.                                         *)
StreamKept ==
  [][\A k \in DOMAIN events : k \in DOMAIN events' /\ events'[k] = events[k]]_vars

(* The events of a job have increasing sequences in the order of the       *)
(* batch, though workers append those of other jobs in between and fail    *)
(* half-way.                                                               *)
BatchOrder ==
  \A k, l \in DOMAIN events :
    events[k].job = events[l].job /\ events[k].place < events[l].place =>
      k < l /\ events[k].sequence < events[l].sequence

(* When a producer is told that its batch has been ingested, every event   *)
(* of it is in the stream.                                                 *)
ToldIsStored ==
  \A j \in told : \A place \in 1..Size : Stored(j, place) # {}

-----------------------------------------------------------------------------
(* The invariants of the proofs.                                           *)

TypeInv ==
  /\ TypeOK
  /\ \A p \in Producers : request[p].pc # "idle" => request[p].batch \in Batches
  /\ \A p \in Producers : request[p].pc = "polling" => request[p].job \in DOMAIN jobs
  /\ \A w \in Workers : worker[w].pc # "idle" => worker[w].job \in DOMAIN jobs

(* One job per key, one event per id.                                      *)
OnceInv ==
  /\ \A j \in DOMAIN jobs : jobs[j].key <=> jobs[j].batch \in Keyed
  /\ \A i, j \in DOMAIN jobs :
       jobs[i].key /\ jobs[j].key /\ jobs[i].batch = jobs[j].batch => i = j
  /\ \A k \in DOMAIN events : events[k].job \in DOMAIN jobs
  /\ \A k, l \in DOMAIN events :
       events[k].job = events[l].job /\ events[k].place = events[l].place => k = l

IsStored(j, place) == \E k \in DOMAIN events : events[k].job = j /\ events[k].place = place

(* What a worker has behind it is stored.                                  *)
StoredInv ==
  /\ \A w \in Workers :
       worker[w].pc # "idle" =>
         \A place \in 1..Size :
           place < worker[w].place \/ worker[w].pc = "done" => IsStored(worker[w].job, place)
  /\ \A j \in DOMAIN jobs :
       jobs[j].status = "completed" => \A place \in 1..Size : IsStored(j, place)

(* When the platform hands no job to two workers: what a worker is about   *)
(* to append, and what comes after it in the batch, is not stored.         *)
OwnInv ==
  /\ \A w \in Workers :
       worker[w].pc # "idle" => jobs[worker[w].job].status = "processing"
  /\ \A v, w \in Workers :
       worker[v].pc # "idle" /\ worker[w].pc # "idle" /\ worker[v].job = worker[w].job => v = w
  /\ \A w \in Workers :
       worker[w].pc \in {"count", "append"} => ~IsStored(worker[w].job, worker[w].place)
  /\ \A k \in DOMAIN events : \A place \in 1..Size :
       place < events[k].place => IsStored(events[k].job, place)

(* A sequence is at most its index, and a count about to be used is behind *)
(* every event of its job.                                                 *)
SequenceInv ==
  /\ \A k \in DOMAIN events : events[k].sequence <= k
  /\ \A w \in Workers :
       worker[w].pc = "append" =>
         /\ worker[w].count <= Len(events)
         /\ \A k \in DOMAIN events : events[k].job = worker[w].job => k <= worker[w].count

=============================================================================
