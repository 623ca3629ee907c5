----------------------------- MODULE Connectors -----------------------------
(***************************************************************************)
(* Connector backends, connector stubs and the quota coordinator they      *)
(* share (python/packages/cip/.../connectors.py).  acquire() reads and     *)
(* saves a bucket of tokens under a lock per bucket key; the HTTP JSON     *)
(* backend sends its request when the lease is granted.                    *)
(*                                                                         *)
(* Tokens are counted in parts, a thousand to a token, so that a bucket of *)
(* rate r gains r parts in a millisecond.                                  *)
(***************************************************************************)
EXTENDS WorkerClock, FiniteSets

CONSTANTS
  Manifests,    \* manifests the HTTP JSON backend is called with
  Prefilled,    \* the buckets there may be at first: the manifest each was
                \* made for and the tokens left, in parts
  MaxFaults     \* bound: bucket repository operations that raise

Second == 1000

(* The manifests the package ships are stubs; their quota is kept apart    *)
(* from that of the HTTP JSON backend by the api family.                   *)
WorkdayConnectorStub ==
  [provider |-> "workday", api_family |-> "rest", max_requests_per_second |-> 10]

Dynamics365ConnectorStub ==
  [provider |-> "dynamics365", api_family |-> "odata", max_requests_per_second |-> 25]

Stubs == {WorkdayConnectorStub, Dynamics365ConnectorStub}

(* bucket_key; the external tenant and the environment are fixed.          *)
BucketKey(manifest) == <<manifest.provider, manifest.api_family>>

BucketKeys == {BucketKey(m) : m \in Manifests \cup Stubs}

(* ConnectorRateBucket                                                     *)
Bucket == [max_requests_per_second: Nat, available_tokens: Int, last_refill_at: Int]

Opening == [tokens: Int, at: Nat]

ASSUME ConnectorsAssumption ==
  /\ IsFiniteSet(Workers)
  /\ \A m \in Manifests : m.max_requests_per_second \in Nat \ {0}
  /\ \A p \in Prefilled :
       p.manifest \in Manifests /\ p.tokens \in 0..(p.manifest.max_requests_per_second * Second)
  /\ None \notin Bucket /\ None \notin Opening

VARIABLES
  bucket,       \* connector_rate_buckets repository
  locks,        \* the worker that holds the lock of each bucket key
  job,          \* the connector call each worker has in flight
  granted,      \* leases granted under each bucket key
  sent,         \* requests sent under each bucket key
  opening,      \* what each bucket held when it was first there
  faults        \* repository operations that have raised

connectorVars == <<bucket, locks, job, granted, sent, opening, faults>>

vars == <<clockVars, calls, connectorVars>>

NewBucket(manifest, tokens) ==
  [max_requests_per_second |-> manifest.max_requests_per_second,
   available_tokens |-> tokens, last_refill_at |-> clock]

FullBucket(manifest) == NewBucket(manifest, manifest.max_requests_per_second * Second)

(* read: the bucket acquire() works on; tokens: what is left of it.        *)
Job ==
  [pc: {"idle", "waiting", "listed", "refilled", "leased", "sent"}, requests: BOOLEAN,
   manifest: Manifests \cup Stubs \cup {None}, read: Bucket \cup {None}, tokens: Int,
   lease: BOOLEAN]

NoJob == [pc |-> "idle", requests |-> FALSE, manifest |-> None, read |-> None, tokens |-> 0,
          lease |-> FALSE]

(* A bucket may be there from an earlier run of the process.               *)
Init ==
  /\ ClockInit
  /\ bucket \in {b \in [BucketKeys -> {None} \cup {NewBucket(p.manifest, p.tokens) : p \in Prefilled}] :
       \A k \in BucketKeys :
         b[k] = None \/ \E p \in Prefilled : k = BucketKey(p.manifest) /\ b[k] = NewBucket(p.manifest, p.tokens)}
  /\ locks = [k \in BucketKeys |-> None]
  /\ job = [w \in Workers |-> NoJob]
  /\ granted = [k \in BucketKeys |-> 0]
  /\ sent = [k \in BucketKeys |-> 0]
  /\ opening = [k \in BucketKeys |->
       IF bucket[k] = None THEN None ELSE [tokens |-> bucket[k].available_tokens, at |-> 0]]
  /\ faults = 0

KeyOf(w) == BucketKey(job[w].manifest)

-----------------------------------------------------------------------------
(* HttpJsonConnectorBackend.healthcheck and .invoke, and _execute_stub_tool*)
(* begin with acquire().  A healthcheck, and the invocation of an          *)
(* HttpJsonConnectorOperation whose path the input completes, make a       *)
(* request; a stub, a ConnectorToolContract and a path that lacks a        *)
(* parameter do not.                                                       *)
acquire(w) ==
  /\ job[w].pc = "idle"
  /\ StartsCall
  /\ \E m \in Manifests \cup Stubs, requests \in BOOLEAN :
       /\ requests => m \in Manifests
       /\ job' = [job EXCEPT ![w] =
            [NoJob EXCEPT !.pc = "waiting", !.requests = requests, !.manifest = m]]
  /\ UNCHANGED <<bucket, locks, granted, sent, opening, faults>>

Slip_Unlocked(w) ==
  /\ job[w].pc = "waiting"
  /\ locks' = locks
  /\ job' = [job EXCEPT ![w].pc = "listed", ![w].read =
               IF bucket[KeyOf(w)] = None THEN FullBucket(job[w].manifest) ELSE bucket[KeyOf(w)]]
  /\ UNCHANGED <<bucket, granted, sent, opening, calls, faults>>

(* Under the lock, the bucket is listed, or made full: one that is there   *)
(* keeps the rate it was made with.                                        *)
listBucket(w) ==
  /\ job[w].pc = "waiting"
  /\ locks[KeyOf(w)] = None
  /\ locks' = [locks EXCEPT ![KeyOf(w)] = w]
  /\ job' = [job EXCEPT ![w].pc = "listed", ![w].read =
               IF bucket[KeyOf(w)] = None THEN FullBucket(job[w].manifest) ELSE bucket[KeyOf(w)]]
  /\ UNCHANGED <<bucket, granted, sent, opening, calls, faults>>

(* min(max, available + elapsed * max); elapsed is negative when the clock *)
(* has been set back since the last refill.                                *)
Refilled(read) ==
  LET full == read.max_requests_per_second * Second
      refilled == read.available_tokens
                    + (clock - read.last_refill_at) * read.max_requests_per_second
  IN IF refilled < full THEN refilled ELSE full

Slip_MoreThanOne(refilled) == refilled > Second

Enough(refilled) == refilled >= Second

refill(w) ==
  LET refilled == Refilled(job[w].read)
      lease == Enough(refilled)
  IN /\ job[w].pc = "listed"
     /\ job' = [job EXCEPT ![w].pc = "refilled", ![w].lease = lease,
                           ![w].tokens = IF lease THEN refilled - Second ELSE refilled]
     /\ UNCHANGED <<bucket, locks, granted, sent, opening, calls, faults>>

(* last_refill_at is a later reading of the clock than the refill's.       *)
NextBucket(w) ==
  [job[w].read EXCEPT !.available_tokens = job[w].tokens, !.last_refill_at = clock]

(* The bucket is saved, and the lock released with the lease.              *)
saveBucket(w) ==
  LET k == KeyOf(w)
  IN /\ job[w].pc = "refilled"
     /\ bucket' = [bucket EXCEPT ![k] = NextBucket(w)]
     /\ locks' = [locks EXCEPT ![k] = None]
     /\ granted' = [granted EXCEPT ![k] = IF job[w].lease THEN @ + 1 ELSE @]
     /\ opening' = [opening EXCEPT ![k] =
          IF @ = None
          THEN [tokens |-> job[w].read.max_requests_per_second * Second, at |-> now]
          ELSE @]
     /\ job' = [job EXCEPT ![w].pc = "leased", ![w].read = None, ![w].tokens = 0]
     /\ UNCHANGED <<sent, calls, faults>>

Slip_LockKept(w) ==
  /\ job[w].pc \in {"listed", "refilled"}
  /\ faults < MaxFaults
  /\ faults' = faults + 1
  /\ locks' = locks
  /\ job' = [job EXCEPT ![w] = NoJob]
  /\ UNCHANGED <<bucket, granted, sent, opening, calls>>

(* The repository raises, in list or save; leaving the with block releases *)
(* the lock.                                                               *)
repositoryRaises(w) ==
  /\ job[w].pc \in {"listed", "refilled"}
  /\ faults < MaxFaults
  /\ faults' = faults + 1
  /\ locks' = [locks EXCEPT ![KeyOf(w)] = None]
  /\ job' = [job EXCEPT ![w] = NoJob]
  /\ UNCHANGED <<bucket, granted, sent, opening, calls>>

(* What returns or raises without a request: a stub, whatever its lease; a *)
(* backend refused a lease (a degraded healthcheck, a failed invocation);  *)
(* a tool that is only a contract; a path that lacks a parameter.          *)
answer(w) ==
  /\ job[w].pc = "leased"
  /\ ~(job[w].requests /\ job[w].lease)
  /\ job' = [job EXCEPT ![w] = NoJob]
  /\ UNCHANGED <<bucket, locks, granted, sent, opening, calls, faults>>

Slip_SendsAnyway(w) ==
  /\ job[w].pc = "leased"
  /\ job[w].requests
  /\ sent' = [sent EXCEPT ![KeyOf(w)] = @ + 1]
  /\ job' = [job EXCEPT ![w].pc = "sent"]
  /\ UNCHANGED <<bucket, locks, granted, opening, calls, faults>>

send(w) ==
  /\ job[w].pc = "leased"
  /\ job[w].requests /\ job[w].lease
  /\ sent' = [sent EXCEPT ![KeyOf(w)] = @ + 1]
  /\ job' = [job EXCEPT ![w].pc = "sent"]
  /\ UNCHANGED <<bucket, locks, granted, opening, calls, faults>>

(* The external system answers, well or not, or the request raises, which  *)
(* a healthcheck catches: either way the call is over.                     *)
respond(w) ==
  /\ job[w].pc = "sent"
  /\ job' = [job EXCEPT ![w] = NoJob]
  /\ UNCHANGED <<bucket, locks, granted, sent, opening, calls, faults>>

ContinueCall(w) ==
  \/ listBucket(w) \/ refill(w) \/ saveBucket(w) \/ repositoryRaises(w)
  \/ answer(w) \/ send(w) \/ respond(w)

(* Every worker has done its calls.                                        *)
Rest ==
  /\ \A w \in Workers : job[w].pc = "idle"
  /\ UNCHANGED vars

Next ==
  \/ (\E w \in Workers : acquire(w) \/ ContinueCall(w)) /\ UNCHANGED clockVars
  \/ (Tick \/ SetBack) /\ UNCHANGED connectorVars
  \/ Rest

Spec == Init /\ [][Next]_vars

(* A thread that can go on does; as calls are bounded, no worker can be    *)
(* overtaken at a lock for ever.                                           *)
FairSpec == Spec /\ \A w \in Workers : WF_vars(ContinueCall(w) /\ UNCHANGED clockVars)

-----------------------------------------------------------------------------
(* retry_after_ms of a refused lease                                       *)
RetryAfterMs(rate) == Second \div rate

(* Every variable holds what the code can put in it: a bucket owes no more *)
(* than the clock has been set back.                                       *)
TypeOK ==
  /\ now \in Nat /\ setback \in Nat /\ calls \in Nat
  /\ bucket \in [BucketKeys -> Bucket \cup {None}]
  /\ \A k \in BucketKeys : bucket[k] # None =>
       /\ bucket[k].available_tokens >= 0 - setback * bucket[k].max_requests_per_second
       /\ bucket[k].available_tokens <= bucket[k].max_requests_per_second * Second
  /\ opening \in [BucketKeys -> Opening \cup {None}]
  /\ granted \in [BucketKeys -> Nat] /\ sent \in [BucketKeys -> Nat]
  /\ locks \in [BucketKeys -> Workers \cup {None}]
  /\ job \in [Workers -> Job]

(* Leases are worth no more than the tokens the bucket held when it was    *)
(* first there and what its rate has refilled since, though workers race,  *)
(* repositories raise, clocks are set back and a later manifest asks for   *)
(* another rate; and a bucket never holds more than a full one.            *)
LeasesWithinBudget ==
  \A k \in BucketKeys :
    /\ granted[k] > 0 =>
         granted[k] * Second <=
           opening[k].tokens + (now - opening[k].at) * bucket[k].max_requests_per_second
    /\ bucket[k] # None =>
         bucket[k].available_tokens <= bucket[k].max_requests_per_second * Second

(* Every request sent to an external system has a lease of its own.        *)
RequestsAreLeased == \A k \in BucketKeys : sent[k] <= granted[k]

(* Where a second is a whole number of retry intervals, a worker that      *)
(* comes back after retry_after_ms is granted, unless another has asked    *)
(* meanwhile or the clock has been set back.                               *)
RetryIsGranted ==
  [][\A w \in Workers :
       LET read == job[w].read
       IN job[w].pc = "listed" /\ job'[w].pc = "refilled" /\ setback = 0
            /\ Second % read.max_requests_per_second = 0
            /\ clock - read.last_refill_at >= RetryAfterMs(read.max_requests_per_second)
            => job'[w].lease]_job

(* Every call returns or raises: no worker waits for a lock that a worker  *)
(* which raised has kept.                                                  *)
EveryCallReturns ==
  \A w \in Workers : job[w].pc = "waiting" ~> job[w].pc = "idle"

=============================================================================
