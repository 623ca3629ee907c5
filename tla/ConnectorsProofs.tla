-------------------------- MODULE ConnectorsProofs --------------------------
(***************************************************************************)
(* Theorems about the connectors' quota, for every set of workers and      *)
(* manifests, course of the clock and number of repositories that raise.   *)
(***************************************************************************)
EXTENDS Connectors, FiniteSetTheorems, TLAPS

-----------------------------------------------------------------------------
(* Products                                                                *)

LEMMA ProductGrows ==
  ASSUME NEW a \in Int, NEW b \in Int, NEW r \in Nat, a <= b
  PROVE  a * r <= b * r
  OBVIOUS

LEMMA ProductSplits ==
  ASSUME NEW a \in Int, NEW b \in Int, NEW r \in Int
  PROVE  (a + b) * r = a * r + b * r
  OBVIOUS

LEMMA ProductType ==
  ASSUME NEW a \in Int, NEW r \in Int
  PROVE  a * r \in Int
  OBVIOUS

LEMMA SecondType == Second \in Nat \ {0}
  BY DEF Second

-----------------------------------------------------------------------------
(* The invariant                                                           *)

(* A bucket owes no more than the clock has been set back, now or since    *)
(* the last refill.                                                        *)
Sound(b, t, behind) ==
  /\ b \in Bucket /\ b.max_requests_per_second # 0
  /\ b.available_tokens <= b.max_requests_per_second * Second
  /\ b.available_tokens >= 0 - behind * b.max_requests_per_second
  /\ b.available_tokens >= (b.last_refill_at - t) * b.max_requests_per_second

(* What a bucket was opened with and has refilled until t.                 *)
Earned(o, t, rate) == o.tokens + (t - o.at) * rate

(* Leases and what is left are earned by now, and by the last refill: that *)
(* was later than the clock said then, by no more than it is set back.     *)
BucketInv(k) ==
  IF bucket[k] = None THEN granted[k] = 0 /\ opening[k] = None
  ELSE LET b == bucket[k]
           rate == b.max_requests_per_second
       IN /\ Sound(b, now, setback) /\ opening[k] \in Opening
          /\ granted[k] * Second + b.available_tokens <= Earned(opening[k], now, rate)
          /\ granted[k] * Second + b.available_tokens
               <= Earned(opening[k], b.last_refill_at + setback, rate)
          /\ granted[k] > 0 => granted[k] * Second <= Earned(opening[k], now, rate)

Works(w) == job[w].pc \in {"listed", "refilled"}

Lent(w) == IF job[w].lease THEN Second ELSE 0

(* Who works on a bucket has its lock, and has read what is there; what it *)
(* is about to save is within the budget.                                  *)
JobInv(w) ==
  LET k == KeyOf(w)
      read == job[w].read
      rate == read.max_requests_per_second
  IN /\ job[w].pc # "idle" => job[w].manifest \in Manifests \cup Stubs
     /\ Works(w) =>
          /\ locks[k] = w /\ Sound(read, now, setback)
          /\ bucket[k] = None => read.available_tokens = rate * Second
          /\ bucket[k] # None => read = bucket[k]
     /\ job[w].pc = "refilled" =>
          /\ job[w].tokens <= rate * Second
          /\ job[w].tokens >= 0 - setback * rate
          /\ job[w].lease => job[w].tokens >= 0
          /\ bucket[k] = None => job[w].tokens + Lent(w) <= rate * Second
          /\ bucket[k] # None =>
               granted[k] * Second + job[w].tokens + Lent(w) <= Earned(opening[k], now, rate)

(* Every lease has at most one request: sent, or still to be sent.         *)
Leased(k) == {w \in Workers : job[w].pc = "leased" /\ job[w].lease /\ KeyOf(w) = k}

LeaseInv == \A k \in BucketKeys : sent[k] + Cardinality(Leased(k)) <= granted[k]

Inv ==
  /\ TypeOK /\ LeaseInv
  /\ \A k \in BucketKeys : BucketInv(k)
  /\ \A w \in Workers : JobInv(w)

-----------------------------------------------------------------------------
(* Workers, keys and leases                                                *)

LEMMA KeyType ==
  ASSUME NEW m \in Manifests \cup Stubs
  PROVE  BucketKey(m) \in BucketKeys /\ m.max_requests_per_second \in Nat \ {0}
  BY ConnectorsAssumption DEF BucketKeys, Stubs, WorkdayConnectorStub, Dynamics365ConnectorStub

LEMMA NotNone ==
  ASSUME NEW w \in Workers
  PROVE  w # None
  BY WorkerClockAssumption

LEMMA LeasedFinite ==
  ASSUME NEW k
  PROVE  IsFiniteSet(Leased(k)) /\ Cardinality(Leased(k)) \in Nat
  BY ConnectorsAssumption, FS_Subset, FS_CardinalityType DEF Leased

(* A worker that was not to send a request and is not to send one now      *)
(* changes nothing for the leases.                                         *)
LEMMA LeasedKept ==
  ASSUME NEW w \in Workers, \A d \in Workers \ {w} : job'[d] = job[d],
         ~(job[w].pc = "leased" /\ job[w].lease),
         ~(job'[w].pc = "leased" /\ job'[w].lease)
  PROVE  \A k : Leased(k)' = Leased(k)
  BY DEF Leased, KeyOf

LEMMA LeaseInvKept ==
  ASSUME LeaseInv, \A k : Leased(k)' = Leased(k), UNCHANGED <<sent, granted>>
  PROVE  LeaseInv'
  BY DEF LeaseInv

LEMMA OthersKept ==
  ASSUME NEW w \in Workers, NEW d \in Workers \ {w}, JobInv(d), job'[d] = job[d],
         UNCHANGED <<bucket, granted, opening, now, setback>>,
         Works(d) => locks'[KeyOf(d)] = locks[KeyOf(d)]
  PROVE  JobInv(d)'
  BY DEF JobInv, Works, Lent, Sound, Earned, KeyOf

LEMMA BucketsKept ==
  ASSUME \A k \in BucketKeys : BucketInv(k),
         UNCHANGED <<bucket, granted, opening, now, setback>>
  PROVE  \A k \in BucketKeys : BucketInv(k)'
  BY DEF BucketInv, Sound, Earned

(* Two workers do not work on one bucket.                                  *)
LEMMA LockExcludes ==
  ASSUME Inv, NEW w \in Workers, NEW d \in Workers \ {w}, Works(d),
         locks[KeyOf(w)] \in {w, None}
  PROVE  KeyOf(d) # KeyOf(w)
  BY NotNone DEF Inv, JobInv

-----------------------------------------------------------------------------
(* The clock                                                               *)

LEMMA SoundLater ==
  ASSUME NEW b, NEW t \in Nat, NEW u \in Nat, NEW m \in Nat, NEW n \in Nat,
         Sound(b, t, m), t <= u, m <= n
  PROVE  Sound(b, u, n)
  <1> DEFINE r == b.max_requests_per_second
  <1>1. r \in Nat /\ b.available_tokens \in Int /\ b.last_refill_at \in Int
    BY DEF Sound, Bucket
  <1>2. m * r <= n * r /\ m * r \in Int /\ n * r \in Int
    BY <1>1, ProductGrows, ProductType
  <1>3. (b.last_refill_at - u) * r <= (b.last_refill_at - t) * r
    BY <1>1, ProductGrows
  <1>4. (b.last_refill_at - u) * r \in Int /\ (b.last_refill_at - t) * r \in Int
    BY <1>1, ProductType
  <1> QED
    BY <1>1, <1>2, <1>3, <1>4 DEF Sound

LEMMA EarnedLater ==
  ASSUME NEW o \in Opening, NEW r \in Nat, NEW t \in Int, NEW u \in Int, t <= u
  PROVE  /\ Earned(o, t, r) \in Int /\ Earned(o, u, r) \in Int
         /\ Earned(o, t, r) <= Earned(o, u, r)
  <1>1. o.tokens \in Int /\ o.at \in Int
    BY DEF Opening
  <1>2. (t - o.at) * r <= (u - o.at) * r
    BY <1>1, ProductGrows
  <1>3. (t - o.at) * r \in Int /\ (u - o.at) * r \in Int
    BY <1>1, ProductType
  <1> QED
    BY <1>1, <1>2, <1>3 DEF Earned

LEMMA ClockKeeps ==
  ASSUME Inv, Tick \/ SetBack, UNCHANGED connectorVars
  PROVE  Inv'
  <1>1. /\ now \in Nat /\ now' \in Nat /\ setback \in Nat /\ setback' \in Nat
        /\ now <= now' /\ setback <= setback' /\ calls' = calls
    BY WorkerClockAssumption DEF Tick, SetBack, Inv, TypeOK
  <1>2. /\ bucket' = bucket /\ locks' = locks /\ job' = job /\ granted' = granted
        /\ sent' = sent /\ opening' = opening /\ faults' = faults
    BY DEF connectorVars
  <1>3. \A b : Sound(b, now, setback) => Sound(b, now', setback')
    BY <1>1, SoundLater
  <1>4. ASSUME NEW k \in BucketKeys PROVE BucketInv(k)'
    <2> DEFINE b == bucket[k]
               r == b.max_requests_per_second
               spent == granted[k] * Second
    <2>1. CASE b = None
      BY <1>2, <2>1 DEF Inv, BucketInv
    <2>2. CASE b # None
      <3>1. /\ Sound(b, now, setback) /\ opening[k] \in Opening
            /\ spent + b.available_tokens <= Earned(opening[k], now, r)
            /\ spent + b.available_tokens <= Earned(opening[k], b.last_refill_at + setback, r)
            /\ granted[k] > 0 => spent <= Earned(opening[k], now, r)
        BY <2>2 DEF Inv, BucketInv
      <3>2. r \in Nat /\ b.available_tokens \in Int /\ b.last_refill_at \in Int
        BY <3>1 DEF Sound, Bucket
      <3>3. spent \in Int
        BY SecondType, ProductType DEF Inv, TypeOK
      <3>4. /\ Earned(opening[k], now, r) \in Int /\ Earned(opening[k], now', r) \in Int
            /\ Earned(opening[k], now, r) <= Earned(opening[k], now', r)
        BY <1>1, <1>2, <3>1, <3>2, EarnedLater
      <3>5. /\ Earned(opening[k], b.last_refill_at + setback, r) \in Int
            /\ Earned(opening[k], b.last_refill_at + setback', r) \in Int
            /\ Earned(opening[k], b.last_refill_at + setback, r)
                 <= Earned(opening[k], b.last_refill_at + setback', r)
        <4>1. /\ b.last_refill_at + setback \in Int /\ b.last_refill_at + setback' \in Int
              /\ b.last_refill_at + setback <= b.last_refill_at + setback'
          BY <1>1, <3>2
        <4> QED
          BY <3>1, <3>2, <4>1, EarnedLater
      <3>6. Sound(b, now', setback')
        BY <1>3, <3>1
      <3>7. /\ spent + b.available_tokens <= Earned(opening[k], now', r)
            /\ spent + b.available_tokens <= Earned(opening[k], b.last_refill_at + setback', r)
            /\ granted[k] > 0 => spent <= Earned(opening[k], now', r)
        BY <3>1, <3>2, <3>3, <3>4, <3>5
      <3> QED
        BY <1>2, <2>2, <3>1, <3>6, <3>7 DEF BucketInv
    <2> QED
      BY <2>1, <2>2
  <1>5. ASSUME NEW w \in Workers PROVE JobInv(w)'
    <2> DEFINE k == KeyOf(w)
               read == job[w].read
               r == read.max_requests_per_second
               held == granted[k] * Second + job[w].tokens + Lent(w)
    <2>1. JobInv(w)
      BY DEF Inv
    <2>2. KeyOf(w)' = k /\ Works(w)' = Works(w) /\ Lent(w)' = Lent(w)
      BY <1>2 DEF KeyOf, Works, Lent
    <2>3. Works(w) => Sound(read, now', setback') /\ r \in Nat
      BY <1>3, <2>1 DEF JobInv, Sound, Bucket
    <2>4. job[w].pc = "refilled" => job[w].tokens >= 0 - setback' * r
      <3>1. SUFFICES ASSUME job[w].pc = "refilled" PROVE job[w].tokens >= 0 - setback' * r
        OBVIOUS
      <3>2. job[w].tokens >= 0 - setback * r /\ job[w].tokens \in Int
        BY <2>1, <3>1 DEF JobInv, Inv, TypeOK, Job
      <3>3. setback * r <= setback' * r /\ setback * r \in Int /\ setback' * r \in Int
        BY <1>1, <2>3, <3>1, ProductGrows, ProductType DEF Works
      <3> QED
        BY <3>2, <3>3
    <2>5. job[w].pc = "refilled" /\ bucket[k] # None => held <= Earned(opening[k], now', r)
      <3>1. SUFFICES ASSUME job[w].pc = "refilled", bucket[k] # None
                     PROVE  held <= Earned(opening[k], now', r)
        OBVIOUS
      <3>2. held <= Earned(opening[k], now, r) /\ r \in Nat
        BY <2>1, <2>3, <3>1 DEF JobInv, Works
      <3>3. k \in BucketKeys
        BY <2>1, <3>1, KeyType DEF JobInv, KeyOf
      <3>4. opening[k] \in Opening
        BY <3>1, <3>3 DEF Inv, BucketInv
      <3>5. /\ Earned(opening[k], now, r) \in Int /\ Earned(opening[k], now', r) \in Int
            /\ Earned(opening[k], now, r) <= Earned(opening[k], now', r)
        BY <1>1, <3>2, <3>4, EarnedLater
      <3>6. held \in Int
        <4>1. granted[k] * Second \in Int
          BY <3>3, SecondType, ProductType DEF Inv, TypeOK
        <4>2. job[w].tokens \in Int /\ Lent(w) \in Int
          BY SecondType DEF Inv, TypeOK, Job, Lent
        <4> QED
          BY <4>1, <4>2
      <3> QED
        BY <3>2, <3>5, <3>6
    <2> QED
      BY <1>2, <2>1, <2>2, <2>3, <2>4, <2>5 DEF JobInv, Works
  <1>6. TypeOK'
    <2>1. ASSUME NEW k \in BucketKeys, bucket'[k] # None
          PROVE  /\ bucket'[k].available_tokens >= 0 - setback' * bucket'[k].max_requests_per_second
                 /\ bucket'[k].available_tokens <= bucket'[k].max_requests_per_second * Second
      BY <1>4, <2>1 DEF BucketInv, Sound
    <2> QED
      BY <1>1, <1>2, <2>1 DEF Inv, TypeOK
  <1>7. LeaseInv'
    BY <1>2 DEF Inv, LeaseInv, Leased, KeyOf
  <1> QED
    BY <1>4, <1>5, <1>6, <1>7 DEF Inv

-----------------------------------------------------------------------------
(* The steps that leave the buckets alone                                  *)

LEMMA JobMoves ==
  ASSUME Inv, NEW w \in Workers, NEW j \in Job, job' = [job EXCEPT ![w] = j],
         UNCHANGED <<bucket, granted, opening, now, setback>>,
         calls' \in Nat, sent' \in [BucketKeys -> Nat],
         locks' \in [BucketKeys -> Workers \cup {None}],
         \A d \in Workers \ {w} : Works(d) => locks'[KeyOf(d)] = locks[KeyOf(d)],
         JobInv(w)', LeaseInv'
  PROVE  Inv'
  <1>1. /\ \A d \in Workers \ {w} : job'[d] = job[d]
        /\ job' \in [Workers -> Job]
    BY DEF Inv, TypeOK
  <1>2. \A d \in Workers \ {w} : JobInv(d)'
    BY <1>1, OthersKept DEF Inv
  <1>3. \A k \in BucketKeys : BucketInv(k)'
    BY BucketsKept DEF Inv
  <1>4. TypeOK'
    BY <1>1 DEF Inv, TypeOK
  <1> QED
    BY <1>2, <1>3, <1>4 DEF Inv

LEMMA Changed ==
  ASSUME TypeOK, NEW w \in Workers, NEW j, job' = [job EXCEPT ![w] = j]
  PROVE  job'[w] = j /\ \A d \in Workers \ {w} : job'[d] = job[d]
  BY DEF TypeOK

LEMMA NoJobType == NoJob \in Job
  BY DEF NoJob, Job

LEMMA NoJobInv ==
  ASSUME NEW w \in Workers, job'[w] = NoJob
  PROVE  JobInv(w)'
  BY DEF NoJob, JobInv, Works

LEMMA AcquireKeeps ==
  ASSUME Inv, NEW w \in Workers, acquire(w), UNCHANGED clockVars
  PROVE  Inv'
  <1>1. PICK m \in Manifests \cup Stubs, requests \in BOOLEAN :
          job' = [job EXCEPT ![w] =
            [NoJob EXCEPT !.pc = "waiting", !.requests = requests, !.manifest = m]]
    BY DEF acquire
  <1> DEFINE j == [NoJob EXCEPT !.pc = "waiting", !.requests = requests, !.manifest = m]
  <1> HIDE DEF j
  <1>2. j \in Job /\ j.pc = "waiting" /\ j.manifest = m
    BY NoJobType DEF j, Job
  <1>3. job[w].pc = "idle" /\ UNCHANGED <<bucket, locks, granted, sent, opening, faults>>
          /\ calls' \in Nat /\ now' = now /\ setback' = setback
    BY DEF acquire, StartsCall, clockVars, Inv, TypeOK
  <1>4. job'[w] = j /\ \A d \in Workers \ {w} : job'[d] = job[d]
    BY <1>1, Changed DEF Inv, j
  <1>5. JobInv(w)'
    BY <1>2, <1>4 DEF JobInv, Works
  <1>6. LeaseInv'
    BY <1>2, <1>3, <1>4, LeasedKept, LeaseInvKept DEF Inv
  <1> QED
    BY <1>1, <1>2, <1>3, <1>5, <1>6, JobMoves DEF j, Inv, TypeOK

LEMMA ListKeeps ==
  ASSUME Inv, NEW w \in Workers, listBucket(w), UNCHANGED clockVars
  PROVE  Inv'
  <1> DEFINE k == KeyOf(w)
             m == job[w].manifest
             read == IF bucket[k] = None THEN FullBucket(m) ELSE bucket[k]
             j == [job[w] EXCEPT !.pc = "listed", !.read = read]
  <1>1. /\ job[w].pc = "waiting" /\ locks[k] = None /\ locks' = [locks EXCEPT ![k] = w]
        /\ job' = [job EXCEPT ![w].pc = "listed", ![w].read = read]
        /\ UNCHANGED <<bucket, granted, sent, opening, calls, now, setback>>
    BY DEF listBucket, clockVars
  <1>2. m \in Manifests \cup Stubs /\ k \in BucketKeys /\ m.max_requests_per_second \in Nat \ {0}
    BY <1>1, KeyType DEF Inv, JobInv, KeyOf
  <1>3. job[w] \in Job /\ now \in Nat /\ setback \in Nat
    BY DEF Inv, TypeOK
  <1>4. Sound(FullBucket(m), now, setback)
    <2> DEFINE r == m.max_requests_per_second
               full == r * Second
               b == FullBucket(m)
    <2>1. full \in Nat
      BY <1>2, SecondType
    <2>2. /\ b.max_requests_per_second = r /\ b.available_tokens = full
          /\ b.last_refill_at = now - setback /\ b \in Bucket
      <3> HIDE DEF full
      <3>1. b = [max_requests_per_second |-> r, available_tokens |-> full,
                 last_refill_at |-> now - setback]
        BY DEF FullBucket, NewBucket, clock, full
      <3> QED
        BY <1>2, <1>3, <2>1, <3>1 DEF Bucket
    <2>3. setback * r \in Nat /\ ((now - setback) - now) * r = 0 - setback * r
      BY <1>2, <1>3
    <2> HIDE DEF full, b
    <2>4. full >= 0 - setback * r
      BY <2>1, <2>3
    <2> QED
      BY <1>2, <2>1, <2>2, <2>3, <2>4 DEF Sound, b, full
  <1>5. /\ Sound(read, now, setback) /\ read \in Bucket
        /\ bucket[k] = None => read.available_tokens = read.max_requests_per_second * Second
        /\ bucket[k] # None => read = bucket[k]
    <2>1. CASE bucket[k] = None
      BY <1>4, <2>1 DEF Sound, FullBucket, NewBucket
    <2>2. CASE bucket[k] # None
      BY <1>2, <2>2 DEF Inv, BucketInv, Sound
    <2> QED
      BY <2>1, <2>2
  <1> HIDE DEF read
  <1>6. job' = [job EXCEPT ![w] = j]
    BY <1>1 DEF Inv, TypeOK
  <1>7. j \in Job /\ j.pc = "listed" /\ j.manifest = m /\ j.read = read
    BY <1>3, <1>5 DEF Job
  <1> HIDE DEF j
  <1>8. job'[w] = j /\ \A d \in Workers \ {w} : job'[d] = job[d]
    BY <1>6, Changed DEF Inv
  <1>9. KeyOf(w)' = k
    BY <1>7, <1>8 DEF KeyOf
  <1>10. locks' \in [BucketKeys -> Workers \cup {None}] /\ locks'[k] = w
           /\ \A l \in BucketKeys \ {k} : locks'[l] = locks[l]
    BY <1>1, <1>2 DEF Inv, TypeOK
  <1>11. \A d \in Workers \ {w} : Works(d) => locks'[KeyOf(d)] = locks[KeyOf(d)]
    <2>1. ASSUME NEW d \in Workers \ {w}, Works(d) PROVE KeyOf(d) \in BucketKeys \ {k}
      <3>1. KeyOf(d) # k
        BY <1>1, <2>1, LockExcludes
      <3>2. job[d].manifest \in Manifests \cup Stubs
        BY <2>1 DEF Inv, JobInv, Works
      <3> QED
        BY <3>1, <3>2, KeyType DEF KeyOf
    <2> QED
      BY <1>10, <2>1
  <1>12. JobInv(w)'
    BY <1>1, <1>2, <1>5, <1>7, <1>8, <1>9, <1>10 DEF JobInv, Works
  <1>13. LeaseInv'
    BY <1>1, <1>7, <1>8, LeasedKept, LeaseInvKept DEF Inv
  <1> HIDE DEF k, m
  <1> QED
    BY <1>1, <1>6, <1>7, <1>10, <1>11, <1>12, <1>13, JobMoves DEF Inv, TypeOK, k

LEMMA RaisesKeeps ==
  ASSUME Inv, NEW w \in Workers, repositoryRaises(w), UNCHANGED clockVars
  PROVE  Inv'
  <1>1. /\ Works(w) /\ locks' = [locks EXCEPT ![KeyOf(w)] = None]
        /\ job' = [job EXCEPT ![w] = NoJob]
        /\ UNCHANGED <<bucket, granted, sent, opening, calls, now, setback>>
    BY DEF repositoryRaises, clockVars, Works
  <1>2. job'[w] = NoJob /\ \A d \in Workers \ {w} : job'[d] = job[d]
    BY <1>1, Changed DEF Inv
  <1>3. \A d \in Workers \ {w} : Works(d) => KeyOf(d) # KeyOf(w)
    BY <1>1, LockExcludes DEF Inv, JobInv
  <1>4. locks' \in [BucketKeys -> Workers \cup {None}]
          /\ \A d \in Workers \ {w} : Works(d) => locks'[KeyOf(d)] = locks[KeyOf(d)]
    <2>1. \A d \in Workers : Works(d) => KeyOf(d) \in BucketKeys
      BY KeyType DEF Inv, JobInv, Works, KeyOf
    <2> QED
      BY <1>1, <1>3, <2>1 DEF Inv, TypeOK
  <1>5. JobInv(w)'
    BY <1>2, NoJobInv
  <1>6. LeaseInv'
    BY <1>1, <1>2, LeasedKept, LeaseInvKept DEF Inv, Works, NoJob
  <1> QED
    BY <1>1, <1>4, <1>5, <1>6, NoJobType, JobMoves DEF Inv, TypeOK

(* A worker that is past its lease moves on.                               *)
LEMMA PastLease ==
  ASSUME Inv, NEW w \in Workers, job[w].pc \in {"leased", "sent"},
         NEW j \in Job, job' = [job EXCEPT ![w] = j], j.pc \in {"idle", "sent"},
         j.pc # "idle" => j.manifest = job[w].manifest,
         UNCHANGED <<bucket, locks, granted, opening, calls, now, setback>>,
         sent' \in [BucketKeys -> Nat],
         \A k \in BucketKeys : sent'[k] = sent[k] \/
           (sent'[k] = sent[k] + 1 /\ w \in Leased(k))
  PROVE  Inv'
  <1>1. job'[w] = j /\ \A d \in Workers \ {w} : job'[d] = job[d]
    BY Changed DEF Inv
  <1>2. JobInv(w)'
    BY <1>1 DEF Inv, JobInv, Works
  <1>3. ASSUME NEW k \in BucketKeys
        PROVE  sent'[k] + Cardinality(Leased(k)') <= granted'[k]
    <2>1. Leased(k)' = Leased(k) \ {w}
      BY <1>1 DEF Leased, KeyOf
    <2>2. /\ IsFiniteSet(Leased(k)) /\ Cardinality(Leased(k)) \in Nat
          /\ sent[k] + Cardinality(Leased(k)) <= granted[k]
          /\ sent[k] \in Nat /\ granted[k] \in Nat
      BY LeasedFinite DEF Inv, LeaseInv, TypeOK
    <2>3. Cardinality(Leased(k) \ {w})
            = IF w \in Leased(k) THEN Cardinality(Leased(k)) - 1 ELSE Cardinality(Leased(k))
      BY <2>2, FS_RemoveElement
    <2> QED
      BY <2>1, <2>2, <2>3
  <1>4. LeaseInv'
    BY <1>3 DEF LeaseInv
  <1> QED
    BY <1>2, <1>4, JobMoves DEF Inv, TypeOK

LEMMA AnswerKeeps ==
  ASSUME Inv, NEW w \in Workers, answer(w) \/ respond(w), UNCHANGED clockVars
  PROVE  Inv'
  <1>1. /\ job[w].pc \in {"leased", "sent"} /\ job' = [job EXCEPT ![w] = NoJob]
        /\ UNCHANGED <<bucket, locks, granted, sent, opening, calls, now, setback>>
    BY DEF answer, respond, clockVars
  <1> QED
    BY <1>1, NoJobType, PastLease DEF NoJob, Inv, TypeOK

LEMMA SendKeeps ==
  ASSUME Inv, NEW w \in Workers, send(w), UNCHANGED clockVars
  PROVE  Inv'
  <1> DEFINE j == [job[w] EXCEPT !.pc = "sent"]
  <1>1. /\ job[w].pc = "leased" /\ job[w].lease
        /\ sent' = [sent EXCEPT ![KeyOf(w)] = sent[KeyOf(w)] + 1]
        /\ job' = [job EXCEPT ![w].pc = "sent"]
        /\ UNCHANGED <<bucket, locks, granted, opening, calls, now, setback>>
    BY DEF send, clockVars
  <1>2. job[w] \in Job
    BY DEF Inv, TypeOK
  <1>3. job' = [job EXCEPT ![w] = j]
    BY <1>1 DEF Inv, TypeOK
  <1>4. j \in Job /\ j.pc = "sent" /\ j.manifest = job[w].manifest
    BY <1>2 DEF Job
  <1>5. sent' \in [BucketKeys -> Nat]
          /\ \A k \in BucketKeys : sent'[k] = sent[k] \/
               (sent'[k] = sent[k] + 1 /\ w \in Leased(k))
    <2>1. w \in Leased(KeyOf(w))
      BY <1>1 DEF Leased
    <2>2. sent \in [BucketKeys -> Nat] /\ KeyOf(w) \in BucketKeys
      BY <1>1, KeyType DEF Inv, TypeOK, JobInv, KeyOf
    <2>3. /\ sent' \in [BucketKeys -> Nat]
          /\ \A k \in BucketKeys : k # KeyOf(w) => sent'[k] = sent[k]
          /\ sent'[KeyOf(w)] = sent[KeyOf(w)] + 1
      BY <1>1, <2>2
    <2> QED
      BY <2>1, <2>3
  <1> HIDE DEF j
  <1> QED
    BY <1>1, <1>3, <1>4, <1>5, PastLease

-----------------------------------------------------------------------------
(* The steps that spend tokens                                             *)

(* What a bucket is refilled to is within its bounds and its budget.       *)
LEMMA RefilledBounds ==
  ASSUME NEW b, now \in Nat, setback \in Nat, Sound(b, now, setback)
  PROVE  /\ Refilled(b) \in Int
         /\ Refilled(b) <= b.max_requests_per_second * Second
         /\ Refilled(b) >= 0 - setback * b.max_requests_per_second
         /\ Refilled(b) <= b.available_tokens
                             + (clock - b.last_refill_at) * b.max_requests_per_second
  <1> DEFINE r == b.max_requests_per_second
             last == b.last_refill_at
             tokens == b.available_tokens
             full == r * Second
             more == (clock - last) * r
             owed == setback * r
  <1>1. r \in Nat /\ last \in Int /\ tokens \in Int /\ tokens >= (last - now) * r
    BY DEF Sound, Bucket
  <1>2. full \in Nat /\ owed \in Nat
    BY <1>1, SecondType
  <1>3. more = 0 - (last - now) * r - owed /\ more \in Int /\ (last - now) * r \in Int
    <2>1. clock - last = (0 - (last - now)) + (0 - setback)
      BY <1>1 DEF clock
    <2>2. more = (0 - (last - now)) * r + (0 - setback) * r
      BY <1>1, <2>1, ProductSplits
    <2>3. (0 - (last - now)) * r = 0 - (last - now) * r /\ (0 - setback) * r = 0 - setback * r
      BY <1>1
    <2>4. (last - now) * r \in Int /\ setback * r \in Int
      BY <1>1
    <2> HIDE DEF more
    <2> QED
      BY <2>2, <2>3, <2>4
  <1>4. Refilled(b) = IF tokens + more < full THEN tokens + more ELSE full
    BY DEF Refilled
  <1> HIDE DEF r, last, tokens, full, more, owed
  <1>5. /\ Refilled(b) \in Int /\ Refilled(b) <= full /\ Refilled(b) >= 0 - owed
        /\ Refilled(b) <= tokens + more
    BY <1>1, <1>2, <1>3, <1>4
  <1> QED
    BY <1>5 DEF r, last, tokens, full, more, owed

LEMMA RefilledEarned ==
  ASSUME NEW b, now \in Nat, setback \in Nat, Sound(b, now, setback),
         NEW o \in Opening, NEW spent \in Int,
         spent + b.available_tokens
           <= Earned(o, b.last_refill_at + setback, b.max_requests_per_second)
  PROVE  spent + Refilled(b) <= Earned(o, now, b.max_requests_per_second)
  <1> DEFINE r == b.max_requests_per_second
             last == b.last_refill_at
             tokens == b.available_tokens
             before == (last + setback - o.at) * r
             more == (clock - last) * r
             all == (now - o.at) * r
  <1>1. r \in Nat /\ last \in Int /\ tokens \in Int /\ o.tokens \in Int /\ o.at \in Int
    BY DEF Sound, Bucket, Opening
  <1>2. all = before + more
    <2>1. now - o.at = (last + setback - o.at) + (clock - last)
      BY <1>1 DEF clock
    <2>2. last + setback - o.at \in Int /\ clock - last \in Int
      BY <1>1 DEF clock
    <2> QED
      BY <1>1, <2>1, <2>2, ProductSplits
  <1>3. before \in Int /\ more \in Int
    BY <1>1, ProductType DEF clock
  <1>4. Refilled(b) \in Int /\ Refilled(b) <= tokens + more
    BY RefilledBounds
  <1>5. spent + tokens <= o.tokens + before
    <2> DEFINE t == last + setback
    <2>1. before = (t - o.at) * r
      BY <1>1
    <2> HIDE DEF before, t
    <2>2. Earned(o, t, r) = o.tokens + before
      BY <1>1, <2>1 DEF Earned
    <2>3. spent + tokens <= Earned(o, t, r)
      BY DEF t
    <2> QED
      BY <2>2, <2>3
  <1> HIDE DEF before, more, all
  <1>6. spent + Refilled(b) <= o.tokens + all
    BY <1>1, <1>2, <1>3, <1>4, <1>5
  <1> QED
    BY <1>6 DEF Earned, all

LEMMA RefillKeeps ==
  ASSUME Inv, NEW w \in Workers, refill(w), UNCHANGED clockVars
  PROVE  Inv'
  <1> DEFINE k == KeyOf(w)
             read == job[w].read
             r == read.max_requests_per_second
             refilled == Refilled(read)
             spent == granted[k] * Second
  <1>1. /\ job[w].pc = "listed"
        /\ job' = [job EXCEPT ![w].pc = "refilled", ![w].lease = Enough(refilled),
             ![w].tokens = IF Enough(refilled) THEN refilled - Second ELSE refilled]
        /\ UNCHANGED <<bucket, locks, granted, sent, opening, calls, now, setback>>
    BY DEF refill, clockVars
  <1>2. JobInv(w) /\ job[w] \in Job /\ now \in Nat /\ setback \in Nat
    BY DEF Inv, TypeOK
  <1>3. /\ locks[k] = w /\ Sound(read, now, setback) /\ job[w].manifest \in Manifests \cup Stubs
        /\ bucket[k] = None => read.available_tokens = r * Second
        /\ bucket[k] # None => read = bucket[k]
    BY <1>1, <1>2 DEF JobInv, Works
  <1>4. /\ refilled \in Int /\ refilled <= r * Second /\ refilled >= 0 - setback * r
    BY <1>2, <1>3, RefilledBounds
  <1>5. k \in BucketKeys
    BY <1>3, KeyType DEF KeyOf
  <1>6. BucketInv(k) /\ spent \in Int
    BY <1>5, SecondType, ProductType DEF Inv, TypeOK
  <1>7. bucket[k] # None => spent + refilled <= Earned(opening[k], now, r)
    <2>1. SUFFICES ASSUME bucket[k] # None
                   PROVE  spent + refilled <= Earned(opening[k], now, r)
      OBVIOUS
    <2>2. /\ opening[k] \in Opening
          /\ spent + read.available_tokens
               <= Earned(opening[k], read.last_refill_at + setback, r)
      BY <1>3, <1>6, <2>1 DEF BucketInv
    <2> QED
      BY <1>2, <1>3, <1>6, <2>2, RefilledEarned
  <1>8. PICK lease \in BOOLEAN, left \in Int :
          /\ job' = [job EXCEPT ![w] =
               [job[w] EXCEPT !.pc = "refilled", !.lease = lease, !.tokens = left]]
          /\ left = refilled - (IF lease THEN Second ELSE 0)
          /\ lease => left >= 0
    <2> HIDE DEF refilled
    <2>1. CASE Enough(refilled)
      <3>1. Enough(refilled) = TRUE /\ refilled - Second >= 0 /\ refilled - Second \in Int
        BY <1>4, <2>1, SecondType DEF Enough
      <3>2. job' = [job EXCEPT ![w] =
              [job[w] EXCEPT !.pc = "refilled", !.lease = TRUE, !.tokens = refilled - Second]]
        BY <1>1, <3>1 DEF Inv, TypeOK
      <3>3. refilled - Second = refilled - (IF TRUE THEN Second ELSE 0)
        OBVIOUS
      <3> refilled - Second \in Int
        BY <3>1
      <3> WITNESS TRUE \in BOOLEAN, refilled - Second \in Int
      <3> QED
        BY <3>1, <3>2, <3>3
    <2>2. CASE ~Enough(refilled)
      <3>1. Enough(refilled) = FALSE
        BY <2>2 DEF Enough
      <3>2. job' = [job EXCEPT ![w] =
              [job[w] EXCEPT !.pc = "refilled", !.lease = FALSE, !.tokens = refilled]]
        BY <1>1, <3>1 DEF Inv, TypeOK
      <3>3. refilled = refilled - (IF FALSE THEN Second ELSE 0)
        BY <1>4
      <3> refilled \in Int
        BY <1>4
      <3> WITNESS FALSE \in BOOLEAN, refilled \in Int
      <3> QED
        BY <3>2, <3>3
    <2> QED
      BY <2>1, <2>2
  <1> DEFINE j == [job[w] EXCEPT !.pc = "refilled", !.lease = lease, !.tokens = left]
             lent == IF lease THEN Second ELSE 0
             full == r * Second
             owed == setback * r
  <1>9. /\ j \in Job /\ j.pc = "refilled" /\ j.manifest = job[w].manifest /\ j.read = read
        /\ j.lease = lease /\ j.tokens = left
    <2> HIDE DEF k, read, r, refilled, spent
    <2>1. job[w].read = read /\ job[w] \in Job
      BY <1>2 DEF read
    <2>2. j \in Job
      BY <2>1 DEF Job
    <2> QED
      BY <2>1, <2>2 DEF Job
  <1>10. job'[w] = j /\ \A d \in Workers \ {w} : job'[d] = job[d]
    BY <1>8, Changed DEF Inv
  <1>11. KeyOf(w)' = k /\ Lent(w)' = lent
    BY <1>9, <1>10 DEF KeyOf, Lent
  <1>12. full \in Int /\ owed \in Nat
    BY <1>2, <1>3, SecondType DEF Sound, Bucket
  <1>13. /\ left <= full /\ left >= 0 - owed
         /\ left + lent <= full
         /\ bucket[k] # None => spent + left + lent <= Earned(opening[k], now, r)
    <2>1. /\ refilled <= full /\ refilled >= 0 - owed
      BY <1>4
    <2>2. lent \in Nat /\ left = refilled - lent /\ (lent # 0 => left >= 0)
      BY <1>8, SecondType
    <2> HIDE DEF refilled, lent, full, owed, spent
    <2>3. spent + left + lent = spent + refilled
      BY <1>4, <1>6, <2>2
    <2> QED
      BY <1>4, <1>7, <1>12, <2>1, <2>2, <2>3
  <1> HIDE DEF j
  <1>14. JobInv(w)'
    <2>1. /\ job'[w].pc = "refilled" /\ job'[w].manifest = job[w].manifest
          /\ job'[w].read = read /\ job'[w].tokens = left /\ job'[w].lease = lease
      BY <1>9, <1>10
    <2>2. /\ bucket' = bucket /\ locks' = locks /\ granted' = granted /\ opening' = opening
          /\ now' = now /\ setback' = setback
      BY <1>1
    <2>3. /\ job'[w].tokens <= full /\ job'[w].tokens >= 0 - owed
          /\ job'[w].lease => job'[w].tokens >= 0
          /\ bucket'[k] = None => job'[w].tokens + Lent(w)' <= full
          /\ bucket'[k] # None =>
               granted'[k] * Second + job'[w].tokens + Lent(w)' <= Earned(opening'[k], now', r)
      BY <1>8, <1>11, <1>13, <2>1, <2>2
    <2>4. /\ job'[w].manifest \in Manifests \cup Stubs
          /\ locks'[k] = w /\ Sound(read, now', setback')
          /\ bucket'[k] = None => read.available_tokens = r * Second
          /\ bucket'[k] # None => read = bucket'[k]
      BY <1>3, <2>1, <2>2
    <2> HIDE DEF k
    <2> QED
      BY <1>11, <2>1, <2>2, <2>3, <2>4 DEF JobInv, Works
  <1>15. LeaseInv'
    BY <1>1, <1>9, <1>10, LeasedKept, LeaseInvKept DEF Inv
  <1> HIDE DEF k, read, r, full, owed, spent, lent
  <1> QED
    BY <1>1, <1>8, <1>9, <1>14, <1>15, JobMoves DEF Inv, TypeOK, j

LEMMA LeasedJob ==
  ASSUME NEW x \in Job
  PROVE  LET j == [x EXCEPT !.pc = "leased", !.read = None, !.tokens = 0]
         IN j \in Job /\ j.pc = "leased" /\ j.manifest = x.manifest /\ j.lease = x.lease
  <1> DEFINE zero == 0
             i == [x EXCEPT !.pc = "leased", !.read = None, !.tokens = zero]
  <1>1. zero \in Int
    OBVIOUS
  <1> HIDE DEF zero
  <1>2. i \in Job
    BY <1>1 DEF Job
  <1>3. i.pc = "leased" /\ i.manifest = x.manifest /\ i.lease = x.lease
    BY DEF Job
  <1> QED
    BY <1>2, <1>3 DEF zero

LEMMA SaveBucketInv ==
  ASSUME NEW k, NEW b, bucket'[k] = b, b # None,
         Sound(b, now', setback'), opening'[k] \in Opening,
         granted'[k] * Second + b.available_tokens
           <= Earned(opening'[k], now', b.max_requests_per_second),
         granted'[k] * Second + b.available_tokens
           <= Earned(opening'[k], b.last_refill_at + setback', b.max_requests_per_second),
         granted'[k] > 0 =>
           granted'[k] * Second <= Earned(opening'[k], now', b.max_requests_per_second)
  PROVE  BucketInv(k)'
  BY DEF BucketInv

(* A save: the bucket of the worker's key, and only that, is what it has   *)
(* left, refilled now.                                                     *)
LEMMA SaveKeeps ==
  ASSUME Inv, NEW w \in Workers, saveBucket(w), UNCHANGED clockVars
  PROVE  Inv'
  <1>0. job[w].pc = "refilled" /\ job[w].manifest \in Manifests \cup Stubs
    BY DEF saveBucket, Inv, JobInv
  <1>25. PICK k \in BucketKeys : k = KeyOf(w)
    BY <1>0, KeyType DEF KeyOf
  <1> DEFINE read == job[w].read
             r == read.max_requests_per_second
             left == job[w].tokens
             full == r * Second
             owed == setback * r
             saved == [read EXCEPT !.available_tokens = left, !.last_refill_at = now - setback]
             new == [tokens |-> full, at |-> now]
             j == [job[w] EXCEPT !.pc = "leased", !.read = None, !.tokens = 0]
             spent == granted[k] * Second
             lent == Lent(w)
  <1>1. /\ job[w].pc = "refilled"
        /\ bucket' = [bucket EXCEPT ![k] = saved]
        /\ locks' = [locks EXCEPT ![k] = None]
        /\ granted' = [granted EXCEPT ![k] = IF job[w].lease THEN granted[k] + 1 ELSE granted[k]]
        /\ opening' = [opening EXCEPT ![k] = IF opening[k] = None THEN new ELSE opening[k]]
        /\ job' = [job EXCEPT ![w].pc = "leased", ![w].read = None, ![w].tokens = 0]
        /\ sent' = sent /\ calls' = calls /\ now' = now /\ setback' = setback
    BY <1>25 DEF saveBucket, NextBucket, clock, clockVars
  <1>2. /\ JobInv(w) /\ job[w] \in Job /\ now \in Nat /\ setback \in Nat /\ calls \in Nat
        /\ bucket \in [BucketKeys -> Bucket \cup {None}]
        /\ opening \in [BucketKeys -> Opening \cup {None}]
        /\ granted \in [BucketKeys -> Nat] /\ sent \in [BucketKeys -> Nat]
        /\ locks \in [BucketKeys -> Workers \cup {None}] /\ job \in [Workers -> Job]
    BY DEF Inv, TypeOK
  <1>3. /\ job[w].manifest \in Manifests \cup Stubs /\ locks[k] = w
        /\ Sound(read, now, setback)
        /\ bucket[k] # None => read = bucket[k]
        /\ left <= full /\ left >= 0 - owed /\ (job[w].lease => left >= 0)
        /\ bucket[k] = None => left + lent <= full
        /\ bucket[k] # None => spent + left + lent <= Earned(opening[k], now, r)
    BY <1>1, <1>2, <1>25 DEF JobInv, Works
  <1>4. k \in BucketKeys /\ BucketInv(k)
    BY DEF Inv
  <1>5. read \in Bucket /\ r \in Nat \ {0}
    BY <1>3 DEF Sound, Bucket
  <1>6. /\ left \in Int /\ full \in Nat /\ owed \in Nat /\ spent \in Nat /\ lent \in Nat
        /\ lent = IF job[w].lease THEN Second ELSE 0
    BY <1>2, <1>4, <1>5, SecondType DEF Job, Lent
  <1>7. /\ saved \in Bucket /\ saved.max_requests_per_second = r
        /\ saved.available_tokens = left /\ saved.last_refill_at = now - setback
    <2>1. now - setback \in Int
      BY <1>2
    <2>2. read.max_requests_per_second = r
      OBVIOUS
    <2> HIDE DEF read, left, r
    <2> QED
      BY <1>5, <1>6, <2>1, <2>2 DEF Bucket
  <1>8. new \in Opening /\ new.tokens = full /\ new.at = now
    BY <1>2, <1>6 DEF Opening
  <1> HIDE DEF saved, new
  <1>9. saved # None /\ new # None
    BY <1>7, <1>8, ConnectorsAssumption
  <1>10. job' = [job EXCEPT ![w] = j]
    BY <1>1, <1>2
  <1>11. j \in Job /\ j.pc = "leased" /\ j.manifest = job[w].manifest /\ j.lease = job[w].lease
    BY <1>2, LeasedJob
  <1> HIDE DEF j
  <1>12. /\ job'[w] = j /\ \A d \in Workers \ {w} : job'[d] = job[d]
         /\ job' \in [Workers -> Job]
    BY <1>2, <1>10, <1>11
  <1>13. /\ bucket'[k] = saved /\ \A l \in BucketKeys \ {k} : bucket'[l] = bucket[l]
         /\ bucket' \in [BucketKeys -> Bucket \cup {None}]
    BY <1>1, <1>2, <1>4, <1>7
  <1>14. /\ opening'[k] = IF opening[k] = None THEN new ELSE opening[k]
         /\ \A l \in BucketKeys \ {k} : opening'[l] = opening[l]
         /\ opening' \in [BucketKeys -> Opening \cup {None}]
    BY <1>1, <1>2, <1>4, <1>8
  <1>15. /\ granted'[k] = IF job[w].lease THEN granted[k] + 1 ELSE granted[k]
         /\ \A l \in BucketKeys \ {k} : granted'[l] = granted[l]
         /\ granted' \in [BucketKeys -> Nat]
    BY <1>1, <1>2, <1>4
  <1>16. /\ locks' \in [BucketKeys -> Workers \cup {None}]
         /\ \A l \in BucketKeys \ {k} : locks'[l] = locks[l]
    BY <1>1, <1>2, <1>4
  <1>17. granted'[k] * Second = spent + lent
    <2>1. CASE job[w].lease
      <3>1. granted'[k] = granted[k] + 1 /\ granted[k] \in Int /\ lent = Second
        BY <1>2, <1>4, <1>6, <1>15, <2>1
      <3>2. (granted[k] + 1) * Second = granted[k] * Second + 1 * Second
        BY <3>1, SecondType, ProductSplits
      <3> QED
        BY <3>1, <3>2, SecondType
    <2>2. CASE ~job[w].lease
      BY <1>2, <1>4, <1>6, <1>15, <2>2
    <2> QED
      BY <2>1, <2>2
  <1>18. Sound(saved, now, setback)
    <2>1. ((now - setback) - now) * r = 0 - owed
      BY <1>2, <1>5
    <2> HIDE DEF owed
    <2>2. left >= ((now - setback) - now) * r
      BY <1>3, <2>1
    <2> QED
      BY <1>3, <1>5, <1>7, <2>2 DEF Sound, owed
  <1>19. BucketInv(k)'
    <2> DEFINE o == opening'[k]
               all == Earned(o, now, r)
    <2>1. /\ o \in Opening /\ spent + lent + left <= all
          /\ spent > 0 => spent <= all
      <3>1. CASE bucket[k] = None
        <4>1. granted[k] = 0 /\ o = new
          BY <1>4, <1>14, <3>1 DEF BucketInv
        <4>2. spent = 0
          BY <4>1, SecondType
        <4>3. all = full
          <5>1. (now - now) * r = 0
            BY <1>2, <1>5
          <5> HIDE DEF full
          <5> QED
            BY <1>6, <1>8, <4>1, <5>1 DEF Earned
        <4> HIDE DEF spent, all, full, lent
        <4> QED
          BY <1>3, <1>6, <1>8, <3>1, <4>1, <4>2, <4>3
      <3>2. CASE bucket[k] # None
        <4>1. opening[k] \in Opening /\ (granted[k] > 0 => spent <= Earned(opening[k], now, r))
          BY <1>3, <1>4, <3>2 DEF BucketInv
        <4>2. o = opening[k]
          BY <1>14, <4>1, ConnectorsAssumption
        <4>3. spent > 0 => granted[k] > 0
          BY <1>2, <1>4, SecondType
        <4>4. spent + left + lent <= all
          BY <1>3, <3>2, <4>2
        <4> HIDE DEF spent, lent, all
        <4>5. spent + left + lent = spent + lent + left
          BY <1>6
        <4>6. spent + lent + left <= all
          BY <4>4, <4>5
        <4> QED
          BY <4>1, <4>2, <4>3, <4>6 DEF all
      <3> QED
        BY <3>1, <3>2
    <2>2. all \in Int
      BY <1>2, <1>5, <2>1, EarnedLater
    <2>3. granted'[k] > 0 => spent + lent <= all
      <3>1. CASE job[w].lease
        <4>1. left >= 0
          BY <1>3, <3>1
        <4> HIDE DEF spent, lent, all, left
        <4> QED
          BY <1>6, <2>1, <2>2, <4>1
      <3>2. CASE ~job[w].lease
        <4>1. lent = 0 /\ granted'[k] = granted[k] /\ granted[k] \in Nat
          BY <1>2, <1>4, <1>6, <1>15, <3>2
        <4>2. granted[k] > 0 => spent > 0
          BY <4>1, SecondType
        <4> HIDE DEF spent, lent, all
        <4> QED
          BY <1>6, <2>1, <4>1, <4>2
      <3> QED
        BY <3>1, <3>2
    <2>4. (now - setback) + setback = now
      BY <1>2
    <2> HIDE DEF spent, lent, left, all
    <2>5. /\ granted'[k] * Second + left <= all
          /\ granted'[k] > 0 => granted'[k] * Second <= all
      BY <1>17, <2>1, <2>3
    <2>6. /\ Sound(saved, now', setback') /\ opening'[k] \in Opening
          /\ granted'[k] * Second + saved.available_tokens
               <= Earned(opening'[k], now', saved.max_requests_per_second)
          /\ granted'[k] * Second + saved.available_tokens
               <= Earned(opening'[k], saved.last_refill_at + setback', saved.max_requests_per_second)
          /\ granted'[k] > 0 =>
               granted'[k] * Second <= Earned(opening'[k], now', saved.max_requests_per_second)
      BY <1>1, <1>7, <1>18, <2>1, <2>4, <2>5 DEF all
    <2> QED
      BY <1>9, <1>13, <2>6, SaveBucketInv
  <1>20. ASSUME NEW l \in BucketKeys PROVE BucketInv(l)'
    <2>1. CASE l = k
      BY <1>19, <2>1
    <2>2. CASE l # k
      BY <1>1, <1>13, <1>14, <1>15, <2>2 DEF Inv, BucketInv
    <2> QED
      BY <2>1, <2>2
  <1>21. ASSUME NEW d \in Workers PROVE JobInv(d)'
    <2>1. CASE d = w
      BY <1>3, <1>11, <1>12, <2>1 DEF JobInv, Works
    <2>2. CASE d # w
      <3>1. JobInv(d) /\ job'[d] = job[d]
        BY <1>12, <2>2 DEF Inv
      <3>2. Works(d) => KeyOf(d) \in BucketKeys \ {k}
        <4>1. Works(d) => KeyOf(d) # k
          BY <1>3, <1>25, <2>2, LockExcludes
        <4> QED
          BY <3>1, <4>1, KeyType DEF JobInv, Works, KeyOf
      <3>3. KeyOf(d)' = KeyOf(d) /\ Works(d)' = Works(d) /\ Lent(d)' = Lent(d)
        BY <3>1 DEF KeyOf, Works, Lent
      <3>4. Works(d) => /\ bucket'[KeyOf(d)] = bucket[KeyOf(d)]
                        /\ locks'[KeyOf(d)] = locks[KeyOf(d)]
                        /\ granted'[KeyOf(d)] = granted[KeyOf(d)]
                        /\ opening'[KeyOf(d)] = opening[KeyOf(d)]
        BY <1>13, <1>14, <1>15, <1>16, <3>2
      <3> QED
        BY <1>1, <3>1, <3>3, <3>4 DEF JobInv, Works
    <2> QED
      BY <2>1, <2>2
  <1>22. TypeOK'
    <2>1. ASSUME NEW l \in BucketKeys, bucket'[l] # None
          PROVE  /\ bucket'[l].available_tokens >= 0 - setback' * bucket'[l].max_requests_per_second
                 /\ bucket'[l].available_tokens <= bucket'[l].max_requests_per_second * Second
      BY <1>20, <2>1 DEF BucketInv, Sound
    <2> QED
      BY <1>1, <1>2, <1>12, <1>13, <1>14, <1>15, <1>16, <2>1 DEF TypeOK
  <1>23. ASSUME NEW l \in BucketKeys
         PROVE  sent'[l] + Cardinality(Leased(l)') <= granted'[l]
    <2>1. /\ IsFiniteSet(Leased(l)) /\ Cardinality(Leased(l)) \in Nat
          /\ sent[l] + Cardinality(Leased(l)) <= granted[l]
          /\ sent[l] \in Nat /\ granted[l] \in Nat /\ sent'[l] = sent[l]
      BY <1>1, LeasedFinite DEF Inv, LeaseInv, TypeOK
    <2>2. w \notin Leased(l)
      BY <1>1 DEF Leased
    <2>3. Leased(l)' = IF l = k /\ job[w].lease THEN Leased(l) \cup {w} ELSE Leased(l)
      BY <1>1, <1>11, <1>12, <1>25 DEF Leased, KeyOf
    <2>4. Cardinality(Leased(l) \cup {w}) = Cardinality(Leased(l)) + 1
      BY <2>1, <2>2, FS_AddElement
    <2>5. CASE l = k /\ job[w].lease
      BY <1>15, <2>1, <2>3, <2>4, <2>5
    <2>6. CASE ~(l = k /\ job[w].lease)
      BY <1>15, <2>1, <2>3, <2>6
    <2> QED
      BY <2>5, <2>6
  <1>24. LeaseInv'
    BY <1>23 DEF LeaseInv
  <1> QED
    BY <1>20, <1>21, <1>22, <1>24 DEF Inv

-----------------------------------------------------------------------------
(* The theorems                                                            *)

LEMMA InvInit == Init => Inv
  <1> SUFFICES ASSUME Init PROVE Inv
    OBVIOUS
  <1>1. /\ now = 0 /\ setback = 0 /\ calls = 0
        /\ job = [w \in Workers |-> NoJob] /\ locks = [k \in BucketKeys |-> None]
        /\ granted = [k \in BucketKeys |-> 0] /\ sent = [k \in BucketKeys |-> 0]
        /\ opening = [k \in BucketKeys |->
             IF bucket[k] = None THEN None ELSE [tokens |-> bucket[k].available_tokens, at |-> 0]]
    BY DEF Init, ClockInit
  <1>2. ASSUME NEW k \in BucketKeys
        PROVE  bucket[k] = None \/ \E p \in Prefilled : bucket[k] = NewBucket(p.manifest, p.tokens)
    BY DEF Init
  <1>3. ASSUME NEW k \in BucketKeys, bucket[k] # None
        PROVE  Sound(bucket[k], now, setback) /\ bucket[k].last_refill_at = 0
    <2>1. PICK p \in Prefilled : bucket[k] = NewBucket(p.manifest, p.tokens)
      BY <1>2, <1>3
    <2> DEFINE rate == p.manifest.max_requests_per_second
               full == rate * Second
    <2>2. rate \in Nat \ {0} /\ p.tokens \in 0..full /\ full \in Nat
      BY SecondType, ConnectorsAssumption
    <2> HIDE DEF full
    <2>3. bucket[k] = [max_requests_per_second |-> rate, available_tokens |-> p.tokens,
                       last_refill_at |-> 0]
      BY <1>1, <2>1 DEF NewBucket, clock
    <2>4. setback * rate = 0 /\ (0 - now) * rate = 0
      BY <1>1, <2>2
    <2> QED
      BY <1>1, <2>2, <2>3, <2>4 DEF Sound, Bucket, full
  <1>4. ASSUME NEW k \in BucketKeys PROVE BucketInv(k)
    <2>1. CASE bucket[k] = None
      BY <1>1, <2>1 DEF BucketInv
    <2>2. CASE bucket[k] # None
      <3> DEFINE b == bucket[k]
                 r == b.max_requests_per_second
      <3>1. Sound(b, now, setback) /\ b.last_refill_at = 0
        BY <1>3, <2>2
      <3>2. r \in Nat /\ b.available_tokens \in Int
        BY <3>1 DEF Sound, Bucket
      <3>3. opening[k] \in Opening /\ opening[k].tokens = b.available_tokens /\ opening[k].at = 0
        BY <1>1, <2>2, <3>2 DEF Opening
      <3>4. Earned(opening[k], 0, r) = b.available_tokens
        <4>1. (0 - 0) * r = 0
          BY <3>2
        <4> QED
          BY <3>2, <3>3, <4>1 DEF Earned
      <3>5. granted[k] = 0 /\ granted[k] * Second = 0
        BY <1>1, SecondType
      <3> QED
        BY <1>1, <2>2, <3>1, <3>2, <3>3, <3>4, <3>5 DEF BucketInv
    <2> QED
      BY <2>1, <2>2
  <1>5. TypeOK
    <2>1. bucket \in [BucketKeys -> Bucket \cup {None}]
      <3>1. \A k \in BucketKeys : bucket[k] \in Bucket \cup {None}
        BY <1>3 DEF Sound
      <3>2. \E S : bucket \in [BucketKeys -> S]
        BY DEF Init
      <3> QED
        BY <3>1, <3>2
    <2>2. opening \in [BucketKeys -> Opening \cup {None}]
      BY <1>1, <2>1 DEF Opening, Bucket
    <2>3. job \in [Workers -> Job]
      BY <1>1, NoJobType
    <2>4. ASSUME NEW k \in BucketKeys, bucket[k] # None
          PROVE  /\ bucket[k].available_tokens >= 0 - setback * bucket[k].max_requests_per_second
                 /\ bucket[k].available_tokens <= bucket[k].max_requests_per_second * Second
      BY <1>3, <2>4 DEF Sound
    <2> QED
      BY <1>1, <2>1, <2>2, <2>3, <2>4 DEF TypeOK
  <1>6. \A w \in Workers : JobInv(w)
    BY <1>1 DEF JobInv, Works, NoJob
  <1>7. LeaseInv
    <2>1. ASSUME NEW k \in BucketKeys PROVE Leased(k) = {}
      BY <1>1 DEF Leased, NoJob
    <2>2. Cardinality({}) = 0
      BY FS_EmptySet
    <2>3. ASSUME NEW k \in BucketKeys PROVE sent[k] + Cardinality(Leased(k)) <= granted[k]
      <3>1. sent[k] = 0 /\ granted[k] = 0
        BY <1>1
      <3>2. Cardinality(Leased(k)) = 0
        BY <2>1, <2>2
      <3> QED
        BY <3>1, <3>2
    <2> QED
      BY <2>3 DEF LeaseInv
  <1> QED
    BY <1>4, <1>5, <1>6, <1>7 DEF Inv

LEMMA InvStutters ==
  ASSUME Inv, UNCHANGED vars
  PROVE  Inv'
  <1>1. /\ now' = now /\ setback' = setback /\ calls' = calls /\ bucket' = bucket
        /\ locks' = locks /\ job' = job /\ granted' = granted /\ sent' = sent
        /\ opening' = opening
    BY DEF vars, clockVars, connectorVars
  <1>2. TypeOK' /\ LeaseInv'
    BY <1>1 DEF Inv, TypeOK, LeaseInv, Leased, KeyOf
  <1>3. \A k \in BucketKeys : BucketInv(k)'
    BY <1>1, BucketsKept DEF Inv
  <1>4. \A w \in Workers : JobInv(w)'
    BY <1>1 DEF Inv, JobInv, Works, Lent, KeyOf
  <1> QED
    BY <1>2, <1>3, <1>4 DEF Inv

LEMMA InvStep ==
  ASSUME Inv, [Next]_vars
  PROVE  Inv'
  <1>1. ASSUME NEW w \in Workers, acquire(w) \/ ContinueCall(w), UNCHANGED clockVars
        PROVE  Inv'
    <2>1. CASE acquire(w)
      BY <1>1, <2>1, AcquireKeeps
    <2>2. CASE listBucket(w)
      BY <1>1, <2>2, ListKeeps
    <2>3. CASE refill(w)
      BY <1>1, <2>3, RefillKeeps
    <2>4. CASE saveBucket(w)
      BY <1>1, <2>4, SaveKeeps
    <2>5. CASE repositoryRaises(w)
      BY <1>1, <2>5, RaisesKeeps
    <2>6. CASE answer(w) \/ respond(w)
      BY <1>1, <2>6, AnswerKeeps
    <2>7. CASE send(w)
      BY <1>1, <2>7, SendKeeps
    <2> QED
      BY <1>1, <2>1, <2>2, <2>3, <2>4, <2>5, <2>6, <2>7 DEF ContinueCall
  <1>2. CASE (Tick \/ SetBack) /\ UNCHANGED connectorVars
    BY <1>2, ClockKeeps
  <1>3. CASE UNCHANGED vars
    BY <1>3, InvStutters
  <1> QED
    BY <1>1, <1>2, <1>3 DEF Next, Rest

THEOREM Invariance == Spec => []Inv
  <1> QED
    BY InvInit, InvStep, PTL DEF Spec

(* Buckets, jobs and counts hold what the code can put in them, and a      *)
(* bucket owes no more than the clock has been set back.                   *)
THEOREM TypeCorrect == Spec => []TypeOK
  <1>1. Inv => TypeOK
    BY DEF Inv
  <1> QED
    BY <1>1, Invariance, PTL

(* The leases of a bucket are paid for by what it held and refilled        *)
(* (Refilled, refill, saveBucket).                                         *)
THEOREM Budget == Spec => []LeasesWithinBudget
  <1>1. ASSUME Inv PROVE LeasesWithinBudget
    <2>1. ASSUME NEW k \in BucketKeys, granted[k] > 0
          PROVE  granted[k] * Second <=
                   opening[k].tokens + (now - opening[k].at) * bucket[k].max_requests_per_second
      BY <1>1, <2>1 DEF Inv, BucketInv, Earned
    <2>2. ASSUME NEW k \in BucketKeys, bucket[k] # None
          PROVE  bucket[k].available_tokens <= bucket[k].max_requests_per_second * Second
      BY <1>1, <2>2 DEF Inv, TypeOK
    <2> QED
      BY <2>1, <2>2 DEF LeasesWithinBudget
  <1> QED
    BY <1>1, Invariance, PTL

(* No request without a lease, nor two on one (saveBucket, send).          *)
THEOREM Leases == Spec => []RequestsAreLeased
  <1>1. ASSUME Inv PROVE RequestsAreLeased
    <2>1. ASSUME NEW k \in BucketKeys PROVE sent[k] <= granted[k]
      <3>1. sent[k] \in Nat /\ granted[k] \in Nat /\ Cardinality(Leased(k)) \in Nat
              /\ sent[k] + Cardinality(Leased(k)) <= granted[k]
        BY <1>1, LeasedFinite DEF Inv, TypeOK, LeaseInv
      <3> QED
        BY <3>1
    <2> QED
      BY <2>1 DEF RequestsAreLeased
  <1> QED
    BY <1>1, Invariance, PTL

LEMMA Divides ==
  ASSUME NEW s \in Nat, NEW r \in Nat \ {0}, s % r = 0
  PROVE  (s \div r) * r = s /\ s \div r \in Nat
  OBVIOUS

LEMMA AtLeastOnce ==
  ASSUME NEW s \in Nat, NEW r \in Nat \ {0}
  PROVE  s <= r * s
  OBVIOUS

(* A bucket that nobody has touched for the retry time has a token.        *)
LEMMA RefilledEnough ==
  ASSUME NEW b, now \in Nat, setback = 0, Sound(b, now, setback),
         Second % b.max_requests_per_second = 0,
         clock - b.last_refill_at >= RetryAfterMs(b.max_requests_per_second)
  PROVE  Enough(Refilled(b)) = TRUE
  <1> DEFINE r == b.max_requests_per_second
             last == b.last_refill_at
             tokens == b.available_tokens
             full == r * Second
             more == (clock - last) * r
  <1>1. r \in Nat \ {0} /\ last \in Int /\ tokens \in Int /\ clock \in Int
    BY DEF Sound, Bucket, clock
  <1>2. tokens >= 0
    <2>1. setback * r = 0
      BY <1>1
    <2> QED
      BY <1>1, <2>1 DEF Sound
  <1>3. more >= Second /\ more \in Int
    <2>1. (Second \div r) * r = Second /\ Second \div r \in Nat
      BY <1>1, SecondType, Divides
    <2>2. Second \div r <= clock - last /\ clock - last \in Int
      BY <1>1 DEF RetryAfterMs
    <2>3. (Second \div r) * r <= (clock - last) * r
      BY <1>1, <2>1, <2>2, ProductGrows
    <2> QED
      BY <1>1, <2>1, <2>3, ProductType
  <1>4. full >= Second
    BY <1>1, SecondType, AtLeastOnce
  <1>5. Refilled(b) = IF tokens + more < full THEN tokens + more ELSE full
    BY DEF Refilled
  <1>6. full \in Nat
    BY <1>1, SecondType
  <1> HIDE DEF r, last, tokens, full, more
  <1>7. Refilled(b) >= Second
    BY <1>1, <1>2, <1>3, <1>4, <1>5, <1>6, SecondType
  <1> QED
    BY <1>7 DEF Enough

(* Coming back after retry_after_ms is long enough, whoever shares the     *)
(* bucket, as long as the clock runs forward (refill).                     *)
THEOREM RetryIsLongEnough == Spec => RetryIsGranted
  <1>1. ASSUME Inv, [Next]_vars, NEW w \in Workers,
               job[w].pc = "listed", job'[w].pc = "refilled", setback = 0,
               Second % job[w].read.max_requests_per_second = 0,
               clock - job[w].read.last_refill_at
                 >= RetryAfterMs(job[w].read.max_requests_per_second)
        PROVE  job'[w].lease
    <2>1. job' # job
      BY <1>1
    <2>2. PICK d \in Workers : acquire(d) \/ ContinueCall(d)
      BY <1>1, <2>1 DEF Next, Rest, vars, connectorVars
    <2>3. job \in [Workers -> Job]
      BY <1>1 DEF Inv, TypeOK
    <2>4. d = w
      <3>1. d # w => job'[w] = job[w]
        BY <2>2, <2>3 DEF acquire, ContinueCall, listBucket, refill, saveBucket,
             repositoryRaises, answer, send, respond
      <3> QED
        BY <1>1, <3>1
    <2>5. refill(w)
      <3>1. ~acquire(w) /\ ~listBucket(w) /\ ~saveBucket(w) /\ ~answer(w) /\ ~send(w)
              /\ ~respond(w)
        BY <1>1 DEF acquire, listBucket, saveBucket, answer, send, respond
      <3>2. ~repositoryRaises(w)
        BY <1>1, <2>3 DEF repositoryRaises, NoJob
      <3> QED
        BY <2>2, <2>4, <3>1, <3>2 DEF ContinueCall
    <2>6. Sound(job[w].read, now, setback) /\ now \in Nat
      BY <1>1 DEF Inv, JobInv, Works, TypeOK
    <2>7. Enough(Refilled(job[w].read)) = TRUE
      BY <1>1, <2>6, RefilledEnough
    <2>8. job'[w].lease = Enough(Refilled(job[w].read))
      BY <2>3, <2>5 DEF refill, Job
    <2> QED
      BY <2>7, <2>8
  <1>2. Inv /\ [Next]_vars =>
          [\A w \in Workers :
             LET read == job[w].read
             IN job[w].pc = "listed" /\ job'[w].pc = "refilled" /\ setback = 0
                  /\ Second % read.max_requests_per_second = 0
                  /\ clock - read.last_refill_at >= RetryAfterMs(read.max_requests_per_second)
                  => job'[w].lease]_job
    BY <1>1
  <1> QED
    BY <1>2, Invariance, PTL DEF Spec, RetryIsGranted
=============================================================================
