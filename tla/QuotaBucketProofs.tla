------------------------- MODULE QuotaBucketProofs --------------------------
(***************************************************************************)
(* Theorems about the quota coordinator, for every set of clients, rate,   *)
(* resolution of the clock and number of rejected operations.              *)
(***************************************************************************)
EXTENDS QuotaBucket, SequenceTheorems, TLAPS

-----------------------------------------------------------------------------
(* Arithmetic                                                              *)

LEMMA SpansAdd ==
  ASSUME NEW a \in Int, NEW b \in Int, NEW c \in Int, NEW r \in Int
  PROVE  (b - a) * r + (c - b) * r = (c - a) * r
  OBVIOUS

LEMMA OneMore ==
  ASSUME NEW a \in Int, NEW r \in Int
  PROVE  (a + 1) * r = a * r + r
  OBVIOUS

LEMMA ProductGrows ==
  ASSUME NEW a \in Int, NEW b \in Int, NEW r \in Nat, a <= b
  PROVE  a * r <= b * r
  <1>1. (b - a) * r \in Nat
    OBVIOUS
  <1>2. b * r = a * r + (b - a) * r
    OBVIOUS
  <1> QED
    BY <1>1, <1>2

-----------------------------------------------------------------------------
(* Types                                                                   *)

LEMMA IdleType == Idle \in Call
  BY DEF Idle, Call

LEMMA RefilledType ==
  ASSUME Types, NEW read \in Bucket \cup {None}, NEW skew \in Nat
  PROVE  Refilled(read, skew) \in Int /\ Refilled(read, skew) <= Full
  <1>1. Full \in Int
    BY QuotaBucketAssumption DEF Full
  <1>2. CASE read = None
    BY <1>1, <1>2, QuotaBucketAssumption DEF Refilled
  <1>3. CASE read # None
    <2>1. read.tokens \in Int /\ read.lastRefillAt \in Nat /\ now \in Nat
      BY <1>3 DEF Bucket, Types
    <2> QED
      BY <1>1, <1>3, <2>1, QuotaBucketAssumption DEF Refilled
  <1> QED
    BY <1>2, <1>3

(* A save puts a bucket into the repository whose tokens are what the      *)
(* refill left, less the one granted, and whose last refill is not before  *)
(* the time that was granted.                                              *)
LEMMA SaveBucket ==
  ASSUME Types, NEW c \in Clients, saveBucket(c)
  PROVE  \E refilled \in Int, skew \in 0..MaxSkew :
           /\ refilled = Refilled(call[c].read, skew)
           /\ refilled <= Full
           /\ now' \in Nat /\ now <= now'
           /\ bucket' \in Bucket /\ bucket' # None
           /\ bucket'.lastRefillAt = now'
           /\ bucket'.tokens = IF refilled >= Unit THEN refilled - Unit ELSE refilled
           /\ grants' = IF refilled >= Unit THEN Append(grants, now) ELSE grants
  <1> PICK skew \in 0..MaxSkew, later \in 0..MaxSkew :
         /\ now' = now + skew + later
         /\ bucket' = [tokens |-> IF Refilled(call[c].read, skew) >= Unit
                                    THEN Refilled(call[c].read, skew) - Unit
                                    ELSE Refilled(call[c].read, skew),
                       lastRefillAt |-> now']
         /\ grants' = IF Refilled(call[c].read, skew) >= Unit
                        THEN Append(grants, now) ELSE grants
    BY DEF saveBucket
  <1>1. skew \in Nat /\ later \in Nat /\ now \in Nat /\ Unit \in Nat
    BY QuotaBucketAssumption DEF Types
  <1>2. call[c].read \in Bucket \cup {None}
    BY DEF Types, Call
  <1>3. Refilled(call[c].read, skew) \in Int /\ Refilled(call[c].read, skew) <= Full
    BY <1>1, <1>2, RefilledType
  <1> DEFINE refilled == Refilled(call[c].read, skew)
  <1>4. refilled \in Int /\ refilled <= Full /\ refilled = Refilled(call[c].read, skew)
    BY <1>3
  <1>5. /\ now' \in Nat /\ now <= now'
        /\ bucket' = [tokens |-> IF refilled >= Unit THEN refilled - Unit ELSE refilled,
                      lastRefillAt |-> now']
        /\ grants' = IF refilled >= Unit THEN Append(grants, now) ELSE grants
    BY <1>1
  <1> HIDE DEF refilled
  <1>6. bucket' \in Bucket
    BY <1>1, <1>4, <1>5 DEF Bucket
  <1>7. bucket' # None
    BY <1>6, QuotaBucketAssumption
  <1> QED
    BY <1>4, <1>5, <1>6, <1>7

(* A release needs the lock: a client in flight has a ticket of its own.   *)
LEMMA TypesStep == Types /\ LockInv /\ [Next]_vars => Types'
  <1> SUFFICES ASSUME Types, LockInv, [Next]_vars PROVE Types'
    OBVIOUS
  <1>1. ASSUME NEW c \in Clients, acquire(c) PROVE Types'
    BY <1>1 DEF Types, acquire, Call
  <1>2. ASSUME NEW c \in Clients, listBucket(c) PROVE Types'
    BY <1>2 DEF Types, listBucket, Call
  <1>3. ASSUME NEW c \in Clients, saveBucket(c) PROVE Types'
    <2>1. /\ now' \in Nat /\ bucket' \in Bucket
          /\ grants' = grants \/ grants' = Append(grants, now)
      BY <1>3, SaveBucket
    <2>2. grants' \in Seq(Nat)
      BY <2>1 DEF Types
    <2>3. call' \in [Clients -> Call]
      BY <1>3 DEF Types, saveBucket, Call
    <2> QED
      BY <1>3, <2>1, <2>2, <2>3 DEF Types, saveBucket
  <1>4. ASSUME NEW c \in Clients, call[c].pc # "idle", Released(c),
               UNCHANGED <<now, bucket, grants, tickets>>, faults' \in Nat
        PROVE  Types'
    <2>1. call[c].ticket \in 1..tickets
      BY <1>4 DEF LockInv, InFlight, Types
    <2>2. released' \subseteq 1..tickets
      BY <1>4, <2>1 DEF Released, Types
    <2>4. tail' \in 0..tickets
      BY <1>4 DEF Released, Types
    <2>3. call' \in [Clients -> Call]
      BY <1>4, IdleType, Zenon DEF Types, Released
    <2> QED
      BY <1>4, <2>2, <2>3, <2>4 DEF Types
  <1>5. ASSUME Tick PROVE Types'
    BY <1>5 DEF Types, Tick
  <1>6. ASSUME NEW c \in Clients, release(c) PROVE Types'
    BY <1>4, <1>6 DEF release, Types
  <1>7. ASSUME NEW c \in Clients, Reject(c) PROVE Types'
    BY <1>4, <1>7 DEF Reject, Types
  <1>8. CASE UNCHANGED vars
    BY <1>8 DEF Types, vars
  <1> QED
    BY <1>1, <1>2, <1>3, <1>5, <1>6, <1>7, <1>8 DEF Next, Continue, Rest

-----------------------------------------------------------------------------
(* The lock                                                                *)

LEMMA InitInductive == Init => Inductive
  <1> SUFFICES ASSUME Init PROVE Inductive
    OBVIOUS
  <1>1. Types
    BY IdleType, QuotaBucketAssumption DEF Init, Types
  <1>2. LockInv /\ SavesOverWhatItRead
    BY DEF Init, LockInv, SavesOverWhatItRead, InFlight, Idle
  <1>3. RateInv
    BY DEF Init, RateInv, RateRespected
  <1> QED
    BY <1>1, <1>2, <1>3 DEF Inductive

(* The tickets and prior promises of the clients in flight.                *)
LEMMA Tickets ==
  ASSUME Types, LockInv, NEW c \in Clients
  PROVE  /\ call[c].ticket \in Nat /\ call[c].prior \in Nat
         /\ InFlight(c) => call[c].ticket >= 1 /\ call[c].ticket <= tail
         /\ tail \in Nat /\ tickets \in Nat /\ tail <= tickets
  BY DEF Types, LockInv, Call

(* The client that holds the lock is the earliest in flight: the others'   *)
(* prior promises are unresolved.                                          *)
LEMMA HolderIsFirst ==
  ASSUME Types, LockInv, NEW c \in Clients, NEW d \in Clients, c # d,
         InFlight(d), Holding(c)
  PROVE  call[c].ticket < call[d].ticket /\ ~Holding(d)
  <1>1. InFlight(c)
    BY DEF InFlight, Holding
  <1>2. ASSUME NEW e \in Clients, NEW f \in Clients, InFlight(e), InFlight(f), e # f,
               call[e].ticket < call[f].ticket
        PROVE  ~Holding(f)
    <2>1. call[e].ticket <= call[f].prior /\ call[f].prior \notin released
      BY <1>2 DEF LockInv
    <2>2. call[f].prior # 0
      BY <1>2, <2>1, Tickets
    <2> QED
      BY <1>2, <2>1, <2>2 DEF LockInv
  <1>3. call[c].ticket # call[d].ticket
    BY <1>1 DEF LockInv
  <1>4. ~(call[d].ticket < call[c].ticket)
    BY <1>1, <1>2
  <1>5. call[c].ticket < call[d].ticket
    BY <1>3, <1>4, Tickets
  <1> QED
    BY <1>1, <1>2, <1>5

LEMMA LockStep == Types /\ LockInv /\ [Next]_vars => LockInv'
  <1> SUFFICES ASSUME Types, LockInv, [Next]_vars PROVE LockInv'
    OBVIOUS
  <1>1. ASSUME NEW c \in Clients, acquire(c) PROVE LockInv'
    <2>1. /\ call'[c] = [pc |-> "waiting", ticket |-> tickets + 1, prior |-> tail,
                         read |-> None]
          /\ \A d \in Clients \ {c} : call'[d] = call[d]
          /\ tail' = tickets + 1 /\ tickets' = tickets + 1 /\ released' = released
          /\ ~InFlight(c)
      BY <1>1 DEF acquire, Types, InFlight
    <2>2. tickets + 1 \notin released /\ tickets \in Nat
      BY DEF Types
    <2>3. tail' # 0 => \E d \in Clients : InFlight(d)' /\ call'[d].ticket = tail'
      BY <2>1 DEF InFlight
    <2>4. ASSUME NEW d \in Clients, InFlight(d)'
          PROVE  /\ call'[d].ticket \in 1..tail' /\ call'[d].ticket \notin released'
                 /\ Holding(d)' => call'[d].prior \in released' \cup {0}
      <3>1. CASE d = c
        BY <2>1, <2>2, <3>1 DEF Holding
      <3>2. CASE d # c
        <4>1. InFlight(d)
          BY <2>1, <2>4, <3>2 DEF InFlight
        <4>2. /\ call[d].ticket \in Nat /\ call[d].ticket >= 1
              /\ call[d].ticket <= tail /\ tail <= tickets /\ tail \in Nat
          BY <4>1, Tickets
        <4> QED
          BY <2>1, <2>2, <3>2, <4>1, <4>2 DEF LockInv, Holding
      <3> QED
        BY <3>1, <3>2
    <2>5. ASSUME NEW d \in Clients, NEW e \in Clients, InFlight(d)', InFlight(e)', d # e
          PROVE  /\ call'[d].ticket # call'[e].ticket
                 /\ call'[d].ticket < call'[e].ticket =>
                      call'[d].ticket <= call'[e].prior /\ call'[e].prior \notin released'
      <3>1. \A f \in Clients \ {c} : InFlight(f)' => InFlight(f)
        BY <2>1 DEF InFlight
      <3>2. CASE d # c /\ e # c
        BY <2>1, <2>5, <3>1, <3>2 DEF LockInv
      <3>3. CASE d = c
        <4>1. call[e].ticket \in Nat /\ call[e].ticket <= tickets
          BY <2>5, <3>1, <3>3, <2>2, Tickets
        <4> QED
          BY <2>1, <2>2, <2>5, <3>3, <4>1
      <3>4. CASE e = c
        <4>1. /\ call[d].ticket \in Nat /\ call[d].ticket <= tickets
              /\ call[d].ticket <= tail /\ tail \in Nat
          BY <2>5, <3>1, <3>4, <2>2, Tickets
        <4>2. tail \notin released
          BY <2>5, <3>1, <3>4, Tickets DEF LockInv
        <4> QED
          BY <2>1, <2>2, <2>5, <3>4, <4>1, <4>2
      <3> QED
        BY <3>2, <3>3, <3>4
    <2> QED
      BY <2>3, <2>4, <2>5 DEF LockInv
  <1>2. ASSUME NEW c \in Clients, UNCHANGED <<tail, released, tickets>>,
               call[c].pc # "idle", call'[c].pc # "idle",
               call'[c].ticket = call[c].ticket, call'[c].prior = call[c].prior,
               call[c].prior \in released \cup {0},
               \A d \in Clients \ {c} : call'[d] = call[d]
        PROVE  LockInv'
    <2>1. \A d \in Clients :
            /\ InFlight(d)' <=> InFlight(d)
            /\ call'[d].ticket = call[d].ticket /\ call'[d].prior = call[d].prior
            /\ Holding(d)' /\ d # c => Holding(d)
      BY <1>2 DEF InFlight, Holding
    <2> QED
      BY <1>2, <2>1 DEF LockInv
  <1>3. ASSUME NEW c \in Clients, listBucket(c) PROVE LockInv'
    BY <1>2, <1>3 DEF listBucket, Types, Call
  <1>4. ASSUME NEW c \in Clients, saveBucket(c) PROVE LockInv'
    <2>1. call[c].prior \in released \cup {0}
      BY <1>4 DEF saveBucket, LockInv, InFlight, Holding
    <2> QED
      BY <1>2, <1>4, <2>1 DEF saveBucket, Types, Call
  <1>5. ASSUME NEW c \in Clients, Holding(c), Released(c), tickets' = tickets
        PROVE  LockInv'
    <2>1. /\ call'[c] = Idle /\ \A d \in Clients \ {c} : call'[d] = call[d]
          /\ released' = released \cup {call[c].ticket}
          /\ tail' = IF tail = call[c].ticket THEN 0 ELSE tail
      BY <1>5 DEF Released, Types
    <2>2. \A d \in Clients : InFlight(d)' => d # c /\ InFlight(d)
      BY <2>1 DEF InFlight, Idle
    <2>3. \A d \in Clients : InFlight(d)' => call[c].ticket < call[d].ticket /\ ~Holding(d)
      BY <1>5, <2>2, HolderIsFirst
    <2>4. tail' # 0 => \E d \in Clients : InFlight(d)' /\ call'[d].ticket = tail'
      <3> SUFFICES ASSUME tail # call[c].ticket, tail # 0
                   PROVE  \E d \in Clients : InFlight(d)' /\ call'[d].ticket = tail
        BY <2>1
      <3> PICK d \in Clients : InFlight(d) /\ call[d].ticket = tail
        BY DEF LockInv
      <3> QED
        BY <2>1 DEF InFlight
    <2>5. ASSUME NEW d \in Clients, InFlight(d)'
          PROVE  /\ call'[d].ticket \in 1..tail' /\ call'[d].ticket \notin released'
                 /\ Holding(d)' => call'[d].prior \in released' \cup {0}
      <3>1. d # c /\ InFlight(d) /\ call'[d] = call[d]
        BY <2>1, <2>2, <2>5
      <3>2. call[c].ticket < call[d].ticket /\ ~Holding(d)
        BY <2>3, <2>5
      <3>3. /\ call[d].ticket \in Nat /\ call[c].ticket \in Nat /\ tail \in Nat
            /\ call[d].ticket >= 1 /\ call[d].ticket <= tail
        BY <3>1, Tickets
      <3>4. tail' = tail
        BY <2>1, <3>2, <3>3
      <3> QED
        BY <2>1, <3>1, <3>2, <3>3, <3>4 DEF LockInv, Holding
    <2>6. ASSUME NEW d \in Clients, NEW e \in Clients, InFlight(d)', InFlight(e)', d # e
          PROVE  /\ call'[d].ticket # call'[e].ticket
                 /\ call'[d].ticket < call'[e].ticket =>
                      call'[d].ticket <= call'[e].prior /\ call'[e].prior \notin released'
      <3>1. /\ call'[d] = call[d] /\ call'[e] = call[e]
            /\ InFlight(d) /\ InFlight(e) /\ call[c].ticket < call[d].ticket
        BY <2>1, <2>2, <2>3, <2>6
      <3>2. /\ call[d].ticket \in Nat /\ call[c].ticket \in Nat /\ call[e].prior \in Nat
        BY Tickets
      <3> QED
        BY <2>1, <2>6, <3>1, <3>2 DEF LockInv
    <2> QED
      BY <2>4, <2>5, <2>6 DEF LockInv
  <1>6. ASSUME NEW c \in Clients, release(c) \/ Reject(c) PROVE LockInv'
    BY <1>5, <1>6 DEF release, Reject, Holding
  <1>7. CASE Tick \/ UNCHANGED vars
    BY <1>7 DEF Tick, vars, LockInv, InFlight, Holding
  <1> QED
    BY <1>1, <1>3, <1>4, <1>6, <1>7 DEF Next, Continue, Rest

-----------------------------------------------------------------------------
(* What the lock is for                                                    *)

LEMMA SavesStep ==
  Types /\ LockInv /\ SavesOverWhatItRead /\ [Next]_vars => SavesOverWhatItRead'
  <1> SUFFICES ASSUME Types, LockInv, SavesOverWhatItRead, [Next]_vars,
                      NEW d \in Clients, call'[d].pc = "listed"
               PROVE  call'[d].read = bucket'
    BY DEF SavesOverWhatItRead
  <1>1. ASSUME NEW c \in Clients, acquire(c) PROVE call'[d].read = bucket'
    BY <1>1 DEF acquire, Types, SavesOverWhatItRead
  <1>2. ASSUME NEW c \in Clients, listBucket(c) PROVE call'[d].read = bucket'
    BY <1>2 DEF listBucket, Types, SavesOverWhatItRead, Call
  <1>3. ASSUME NEW c \in Clients, saveBucket(c) PROVE FALSE
    <2>1. d # c /\ call'[d] = call[d]
      BY <1>3 DEF saveBucket, Types, Call
    <2>2. Holding(c) /\ Holding(d) /\ InFlight(d)
      BY <1>3, <2>1 DEF saveBucket, Holding, InFlight
    <2> QED
      BY <2>1, <2>2, HolderIsFirst
  <1>4. ASSUME NEW c \in Clients, release(c) \/ Reject(c) PROVE call'[d].read = bucket'
    <2>1. call' = [call EXCEPT ![c] = Idle] /\ bucket' = bucket
      BY <1>4 DEF release, Reject, Released
    <2>2. d # c /\ call'[d] = call[d]
      BY <2>1 DEF Types, Idle
    <2> QED
      BY <2>1, <2>2 DEF SavesOverWhatItRead
  <1>5. CASE Tick \/ UNCHANGED vars
    BY <1>5 DEF Tick, vars, SavesOverWhatItRead
  <1> QED
    BY <1>1, <1>2, <1>3, <1>4, <1>5 DEF Next, Continue, Rest

-----------------------------------------------------------------------------
(* The rate                                                                *)

(* The rate over one span: k leases since time g, with what is left in the *)
(* bucket, cost at most a full bucket and what the span refills.           *)
Within(k, left, g, t) == k * Unit + left <= Full + (t - g) * Rate

LEMMA FullType == Full \in Nat /\ Unit \in Nat /\ Rate \in Nat
  BY QuotaBucketAssumption DEF Full

(* The refill from t to u puts no more than the elapsed time allows into a *)
(* bucket with left in it.                                                 *)
WithinElapsed(refilled, left, t, u) == refilled <= left + (u - t) * Rate

(* It goes on holding as time passes,                                      *)
LEMMA WithinLater ==
  ASSUME NEW k \in Nat, NEW left \in Int, NEW g \in Nat, NEW t \in Nat, NEW u \in Nat,
         t <= u, Within(k, left, g, t)
  PROVE  Within(k, left, g, u)
  <1>1. (t - g) * Rate <= (u - g) * Rate
    BY FullType, ProductGrows
  <1>2. k * Unit \in Int /\ (t - g) * Rate \in Int /\ (u - g) * Rate \in Int
    BY FullType
  <1> QED
    BY <1>1, <1>2, FullType DEF Within

(* when the bucket is refilled,                                            *)
LEMMA WithinRefilled ==
  ASSUME NEW k \in Nat, NEW left \in Int, NEW g \in Nat, NEW t \in Nat, NEW u \in Nat,
         NEW refilled \in Int, Within(k, left, g, t),
         WithinElapsed(refilled, left, t, u)
  PROVE  Within(k, refilled, g, u)
  <1>1. (t - g) * Rate + (u - t) * Rate = (u - g) * Rate
    BY FullType, SpansAdd
  <1>2. /\ k * Unit \in Int /\ (t - g) * Rate \in Int
        /\ (u - g) * Rate \in Int /\ (u - t) * Rate \in Int
    BY FullType
  <1> QED
    BY <1>1, <1>2, FullType DEF Within, WithinElapsed

(* and when a token of what is left becomes one lease more.                *)
LEMMA WithinGranted ==
  ASSUME NEW k \in Nat, NEW left \in Int, NEW g \in Nat, NEW t \in Nat,
         Within(k, left, g, t)
  PROVE  Within(k + 1, left - Unit, g, t)
  <1>1. (k + 1) * Unit = k * Unit + Unit
    BY FullType, OneMore
  <1>2. k * Unit \in Int /\ (t - g) * Rate \in Int
    BY FullType
  <1> QED
    BY <1>1, <1>2, FullType DEF Within

(* A bucket that is not overfull may grant no lease at all.                *)
LEMMA WithinNothing ==
  ASSUME NEW left \in Int, left <= Full, NEW t \in Nat
  PROVE  Within(0, left, t, t)
  <1>1. t - t = 0 /\ 0 * Unit = 0 /\ 0 * Rate = 0
    BY FullType
  <1> QED
    BY <1>1, FullType DEF Within

(* What is left need not be counted.                                       *)
LEMMA WithinSpent ==
  ASSUME NEW k \in Nat, NEW left \in Nat, NEW g \in Nat, NEW t \in Nat,
         Within(k, left, g, t)
  PROVE  k * Unit <= Full + (t - g) * Rate
  <1>1. k * Unit \in Int /\ (t - g) * Rate \in Int
    BY FullType
  <1> QED
    BY <1>1, FullType DEF Within

(* What the refill leaves is at most what a refill since the last one adds.*)
LEMMA RefilledBound ==
  ASSUME Types, bucket # None, NEW skew
  PROVE  WithinElapsed(Refilled(bucket, skew), bucket.tokens, bucket.lastRefillAt, now)
  <1>1. bucket.tokens + (now - bucket.lastRefillAt) * Rate \in Int /\ Full \in Int
    BY QuotaBucketAssumption DEF Types, Bucket, Full
  <1> QED
    BY <1>1 DEF Refilled, WithinElapsed

LEMMA RateStep ==
  Types /\ SavesOverWhatItRead /\ RateInv /\ [Next]_vars => RateInv'
  <1> SUFFICES ASSUME Types, SavesOverWhatItRead, RateInv, [Next]_vars PROVE RateInv'
    OBVIOUS
  <1>1. ASSUME UNCHANGED <<bucket, grants>>, now' \in Nat, now <= now' PROVE RateInv'
    <2>1. bucket # None => bucket.lastRefillAt \in Nat
      BY DEF Types, Bucket
    <2>2. bucket # None => bucket.lastRefillAt <= now'
      BY <1>1, <2>1 DEF RateInv, Types
    <2> QED
      BY <1>1, <2>2 DEF RateInv, RateRespected
  <1>2. ASSUME NEW c \in Clients, saveBucket(c) PROVE RateInv'
    <2> PICK refilled \in Int, skew \in 0..MaxSkew, later \in Nat :
           /\ refilled = Refilled(call[c].read, skew)
           /\ refilled <= Full
           /\ now' = later /\ now <= later
           /\ bucket' \in Bucket /\ bucket' # None
           /\ bucket'.lastRefillAt = later
           /\ bucket'.tokens = IF refilled >= Unit THEN refilled - Unit ELSE refilled
           /\ grants' = IF refilled >= Unit THEN Append(grants, now) ELSE grants
      BY <1>2, SaveBucket
    <2>1. call[c].read = bucket
      BY <1>2 DEF saveBucket, SavesOverWhatItRead
    <2> DEFINE n == Len(grants)
    <2>i. /\ now \in Nat /\ later \in Nat /\ now <= later
          /\ Full \in Int /\ Rate \in Nat /\ Unit \in Nat /\ refilled \in Int
      BY QuotaBucketAssumption DEF Types, Full
    <2>2. /\ now \in Nat /\ Full \in Int /\ Rate \in Nat /\ Unit \in Nat
          /\ n \in Nat /\ DOMAIN grants = 1..n
          /\ \A i \in 1..n : grants[i] \in Nat
          /\ bucket # None => bucket.tokens \in Int /\ bucket.lastRefillAt \in Nat
      BY QuotaBucketAssumption DEF Types, Full, Bucket
    <2>3. ASSUME NEW i \in 1..n
          PROVE  Within(n - i + 1, refilled, grants[i], now)
      <3>1. bucket # None
        BY <2>2, <2>3 DEF RateInv
      <3>2. Within(n - i + 1, bucket.tokens, grants[i], bucket.lastRefillAt)
        BY <2>2, <2>3, <3>1 DEF RateInv, Within
      <3>3. WithinElapsed(refilled, bucket.tokens, bucket.lastRefillAt, now)
        BY <2>1, <3>1, RefilledBound
      <3>4. n - i + 1 \in Nat /\ grants[i] \in Nat
        BY <2>2, <2>3
      <3>5. bucket.tokens \in Int /\ bucket.lastRefillAt \in Nat
        BY <2>2, <3>1
      <3> QED
        BY <2>i, <3>2, <3>3, <3>4, <3>5, WithinRefilled, Zenon
    <2>4. CASE ~(refilled >= Unit)
      <3>1. grants' = grants /\ bucket'.tokens = refilled /\ bucket'.lastRefillAt = later
        BY <2>4
      <3>2. ASSUME NEW i \in 1..n
            PROVE  Within(n - i + 1, refilled, grants[i], later)
        <4>1. n - i + 1 \in Nat /\ grants[i] \in Nat
          BY <2>2, <3>2
        <4> QED
          BY <2>i, <2>3, <3>2, <4>1, WithinLater
      <3>3. RateRespected'
        BY <3>1 DEF RateInv, RateRespected
      <3>4. \A i \in DOMAIN grants' :
              (Len(grants') - i + 1) * Unit + bucket'.tokens
                <= Full + (bucket'.lastRefillAt - grants'[i]) * Rate
        BY <2>2, <3>1, <3>2 DEF Within
      <3> QED
        BY <3>1, <3>3, <3>4 DEF RateInv
    <2>5. CASE refilled >= Unit
      <3>1. /\ grants' = Append(grants, now) /\ bucket'.tokens = refilled - Unit
            /\ bucket'.lastRefillAt = later
        BY <2>5
      <3>2. /\ Len(grants') = n + 1 /\ DOMAIN grants' = 1..(n + 1)
            /\ grants'[n + 1] = now /\ \A i \in 1..n : grants'[i] = grants[i]
        BY <3>1 DEF Types
      <3>3. refilled - Unit \in Nat /\ refilled - Unit \in Int
        BY <2>i, <2>5
      <3>4. ASSUME NEW i \in 1..(n + 1)
            PROVE  /\ Within(n + 1 - i + 1, refilled - Unit, grants'[i], now)
                   /\ n + 1 - i + 1 \in Nat /\ grants'[i] \in Nat
        <4>1. CASE i = n + 1
          <5>1. Within(0, refilled, now, now)
            BY <2>i, WithinNothing
          <5>2. Within(0 + 1, refilled - Unit, now, now)
            BY <2>i, <5>1, WithinGranted
          <5>3. n + 1 - i + 1 = 0 + 1
            BY <2>2, <4>1
          <5> QED
            BY <2>i, <3>2, <4>1, <5>2, <5>3
        <4>2. CASE i \in 1..n
          <5>1. n - i + 1 \in Nat /\ n + 1 - i + 1 = (n - i + 1) + 1 /\ grants[i] \in Nat
            BY <2>2, <4>2
          <5>2. Within((n - i + 1) + 1, refilled - Unit, grants[i], now)
            BY <2>i, <2>3, <4>2, <5>1, WithinGranted
          <5> QED
            BY <3>2, <4>2, <5>1, <5>2
        <4> QED
          BY <2>2, <3>4, <4>1, <4>2
      <3>5. ASSUME NEW i \in 1..(n + 1)
            PROVE  /\ (n + 1 - i + 1) * Unit <= Full + (now - grants'[i]) * Rate
                   /\ Within(n + 1 - i + 1, refilled - Unit, grants'[i], later)
        <4>1. /\ Within(n + 1 - i + 1, refilled - Unit, grants'[i], now)
              /\ n + 1 - i + 1 \in Nat /\ grants'[i] \in Nat
          BY <3>4, <3>5
        <4>2. (n + 1 - i + 1) * Unit <= Full + (now - grants'[i]) * Rate
          BY <2>i, <3>3, <4>1, WithinSpent
        <4>3. Within(n + 1 - i + 1, refilled - Unit, grants'[i], later)
          BY <2>i, <3>3, <4>1, WithinLater, Zenon
        <4> QED
          BY <4>2, <4>3
      <3>6. RateRespected'
        <4> SUFFICES ASSUME NEW i \in 1..(n + 1), NEW j \in 1..(n + 1), i <= j
                     PROVE  (j - i + 1) * Unit <= Full + (grants'[j] - grants'[i]) * Rate
          BY <3>2 DEF RateRespected
        <4>1. CASE j = n + 1
          BY <3>2, <3>5, <4>1
        <4>2. CASE j # n + 1
          <5>1. i \in 1..n /\ j \in 1..n
            BY <2>2, <4>2
          <5> QED
            BY <2>2, <3>2, <5>1 DEF RateInv, RateRespected
        <4> QED
          BY <4>1, <4>2
      <3> QED
        BY <3>1, <3>2, <3>5, <3>6 DEF RateInv, Within
    <2> QED
      BY <2>4, <2>5
  <1>3. ASSUME NEW c \in Clients,
               acquire(c) \/ listBucket(c) \/ release(c) \/ Reject(c)
        PROVE  RateInv'
    BY <1>1, <1>3 DEF acquire, listBucket, release, Reject, Types
  <1>4. CASE Tick \/ UNCHANGED vars
    BY <1>1, <1>4 DEF Tick, vars, Types
  <1> QED
    BY <1>2, <1>3, <1>4 DEF Next, Continue, Rest

-----------------------------------------------------------------------------
(* Refills                                                                 *)

LEMMA ProductIsNat ==
  ASSUME NEW a \in Nat, NEW r \in Nat
  PROVE  a * r \in Nat
  OBVIOUS

LEMMA RoundUp ==
  ASSUME NEW a \in Nat, NEW r \in Nat \ {0}
  PROVE  ((a + r - 1) \div r) * r >= a /\ (a + r - 1) \div r \in Nat
  OBVIOUS

LEMMA SkewIsPaid ==
  ASSUME NEW a \in Nat, NEW r \in Nat, NEW b \in Nat, a <= b
  PROVE  r * b + (0 - a) * r \in Nat
  <1>1. a * r <= b * r
    BY ProductGrows
  <1>2. r * b = b * r /\ (0 - a) * r = 0 - a * r /\ a * r \in Nat /\ b * r \in Nat
    OBVIOUS
  <1> QED
    BY <1>1, <1>2

(* A refill leaves no less than nothing in a bucket that owed nothing, nor *)
(* in a new one that was made within a second of the reading of the clock. *)
LEMMA RefilledNat ==
  ASSUME MaxSkew <= Unit, TypeOK, NEW read \in {bucket}, NEW skew \in 0..MaxSkew
  PROVE  Refilled(read, skew) \in 0..Full
  <1>1. CASE read = None
    <2>1. skew \in Nat /\ skew <= Unit
      BY QuotaBucketAssumption
    <2>2. Full + (0 - skew) * Rate \in Nat
      BY <2>1, FullType, SkewIsPaid DEF Full
    <2> QED
      BY <1>1, <2>2, FullType DEF Refilled
  <1>2. CASE read # None
    <2> PICK left \in Nat, elapsed \in Nat :
          left = read.tokens /\ elapsed = now - read.lastRefillAt
      BY <1>2, FullType DEF TypeOK, Types, Bucket
    <2>1. elapsed * Rate \in Nat
      BY FullType, ProductIsNat
    <2>2. left + elapsed * Rate \in Nat
      BY <2>1
    <2> QED
      BY <1>2, <2>2, FullType DEF Refilled
  <1> QED
    BY <1>1, <1>2

LEMMA TypeOKStep ==
  ASSUME MaxSkew <= Unit
  PROVE  TypeOK /\ Types' /\ SavesOverWhatItRead /\ [Next]_vars => TypeOK'
  <1> SUFFICES ASSUME TypeOK, Types', SavesOverWhatItRead, [Next]_vars PROVE TypeOK'
    OBVIOUS
  <1>1. ASSUME NEW c \in Clients, saveBucket(c) PROVE TypeOK'
    <2> PICK refilled \in Int, skew \in 0..MaxSkew :
           /\ refilled = Refilled(call[c].read, skew)
           /\ bucket'.lastRefillAt = now'
           /\ bucket'.tokens = IF refilled >= Unit THEN refilled - Unit ELSE refilled
      BY <1>1, SaveBucket DEF TypeOK
    <2>1. call[c].read = bucket
      BY <1>1 DEF saveBucket, SavesOverWhatItRead
    <2>2. refilled \in 0..Full
      BY <2>1, RefilledNat
    <2>3. bucket'.tokens \in 0..Full
      BY <2>2, FullType
    <2>4. bucket'.lastRefillAt <= now'
      BY DEF Types
    <2> QED
      BY <2>3, <2>4, FullType DEF TypeOK, Full
  <1>2. ASSUME bucket' = bucket, now <= now' PROVE TypeOK'
    <2>1. bucket # None => bucket.lastRefillAt <= now'
      BY <1>2 DEF TypeOK, Types, Bucket
    <2> QED
      BY <1>2, <2>1 DEF TypeOK, Full
  <1>3. ASSUME NEW c \in Clients,
               acquire(c) \/ listBucket(c) \/ release(c) \/ Reject(c)
        PROVE  TypeOK'
    BY <1>2, <1>3 DEF acquire, listBucket, release, Reject, TypeOK, Types
  <1>4. CASE Tick \/ UNCHANGED vars
    BY <1>2, <1>4 DEF Tick, vars, TypeOK, Types
  <1> QED
    BY <1>1, <1>3, <1>4 DEF Next, Continue, Rest

(* A refill over retryAfterMs makes at least one token.                    *)
LEMMA RetryStep ==
  TypeOK /\ SavesOverWhatItRead /\ [Next]_vars =>
    \A c \in Clients :
      /\ call[c].pc = "listed" /\ call'[c].pc = "saved"
      /\ call[c].read # None
      /\ now - call[c].read.lastRefillAt >= RetryAfter
      => Len(grants') = Len(grants) + 1
  <1> SUFFICES ASSUME TypeOK, SavesOverWhatItRead, [Next]_vars, NEW c \in Clients,
                      call[c].pc = "listed", call'[c].pc = "saved",
                      call[c].read # None,
                      now - call[c].read.lastRefillAt >= RetryAfter
               PROVE  Len(grants') = Len(grants) + 1
    OBVIOUS
  <1>a. ASSUME NEW d \in Clients, acquire(d) PROVE FALSE
    BY <1>a DEF acquire, TypeOK, Types
  <1>b. ASSUME NEW d \in Clients, listBucket(d) PROVE FALSE
    BY <1>b DEF listBucket, TypeOK, Types, Call
  <1>c. ASSUME NEW d \in Clients, saveBucket(d) PROVE d = c
    BY <1>c DEF saveBucket, TypeOK, Types
  <1>d. ASSUME NEW d \in Clients, release(d) \/ Reject(d) PROVE FALSE
    BY <1>d DEF release, Reject, Released, Idle, TypeOK, Types
  <1>e. ASSUME Tick \/ UNCHANGED vars PROVE FALSE
    BY <1>e DEF Tick, vars
  <1>1. saveBucket(c)
    BY <1>a, <1>b, <1>c, <1>d, <1>e DEF Next, Continue, Rest
  <1> PICK refilled \in Int, skew \in 0..MaxSkew :
         /\ refilled = Refilled(call[c].read, skew)
         /\ grants' = IF refilled >= Unit THEN Append(grants, now) ELSE grants
    BY <1>1, SaveBucket DEF TypeOK
  <1>2. call[c].read = bucket
    BY DEF SavesOverWhatItRead
  <1> PICK left \in Nat, elapsed \in Nat :
        /\ left = bucket.tokens /\ elapsed = now - bucket.lastRefillAt
        /\ elapsed >= RetryAfter
    BY <1>2, FullType DEF TypeOK, Types, Bucket
  <1>3. RetryAfter * Rate >= Unit /\ RetryAfter \in Nat
    BY RoundUp, QuotaBucketAssumption DEF RetryAfter
  <1>4. elapsed * Rate >= RetryAfter * Rate
    BY <1>3, FullType, ProductGrows
  <1>5. elapsed * Rate \in Nat /\ RetryAfter * Rate \in Nat
    BY <1>3, FullType, ProductIsNat
  <1>6. left + elapsed * Rate >= Unit
    BY <1>3, <1>4, <1>5, FullType
  <1>7. Full >= Unit
    BY QuotaBucketAssumption DEF Full
  <1>8. refilled >= Unit
    BY <1>2, <1>6, <1>7 DEF Refilled
  <1> QED
    BY <1>8 DEF TypeOK, Types

-----------------------------------------------------------------------------
(* Theorems                                                                *)

LEMMA InductiveStep == Inductive /\ [Next]_vars => Inductive'
  BY TypesStep, LockStep, SavesStep, RateStep DEF Inductive

THEOREM InductiveInvariant == Spec => []Inductive
  BY InitInductive, InductiveStep, PTL DEF Spec

(* No two clients are between their list of the bucket and their save, and *)
(* nothing else saves it: what a client saves is made of what is there,    *)
(* whichever of them arrive, leave and fail in whatever order.             *)
THEOREM LockExcludes == Spec => []SavesOverWhatItRead
  <1>1. Inductive => SavesOverWhatItRead
    BY DEF Inductive
  <1> QED
    BY <1>1, InductiveInvariant, PTL

(* The lock passes from client to client in the order of their calls: the  *)
(* chain of promises is a queue.                                           *)
THEOREM LockIsFair == Spec => []ServedInOrder
  <1>1. Inductive => ServedInOrder
    <2> SUFFICES ASSUME Inductive, NEW c \in Clients, NEW d \in Clients, Holding(c),
                        call[d].pc \in {"waiting", "listed", "saved"}
                 PROVE  call[c].ticket <= call[d].ticket
      BY DEF ServedInOrder, Holding
    <2>1. InFlight(d)
      BY DEF InFlight
    <2>2. call[c].ticket \in Nat /\ call[d].ticket \in Nat
      BY Tickets DEF Inductive
    <2>3. CASE c = d
      BY <2>2, <2>3
    <2>4. CASE c # d
      BY <2>1, <2>2, <2>4, HolderIsFirst DEF Inductive
    <2> QED
      BY <2>3, <2>4
  <1> QED
    BY <1>1, InductiveInvariant, PTL

(* The map of locks does not grow: the promise of the last client in       *)
(* flight leaves it with that client, and no other removes it before.      *)
THEOREM LockLeavesNothing == Spec => []LockIsCollected
  <1>1. Inductive => LockIsCollected
    BY DEF Inductive, LockInv, LockIsCollected, InFlight
  <1> QED
    BY <1>1, InductiveInvariant, PTL

(* Over any span the leases granted are no more than a full bucket and     *)
(* what the span refills, whatever the clock does within a handler.        *)
THEOREM RateHolds == Spec => []RateRespected
  <1>1. Inductive => RateRespected
    BY DEF Inductive, RateInv
  <1> QED
    BY <1>1, InductiveInvariant, PTL

(* No bucket owes tokens or was refilled in the future.                    *)
THEOREM TypeCorrect ==
  ASSUME MaxSkew <= Unit
  PROVE  Spec => []TypeOK
  <1>1. Init => TypeOK
    BY InitInductive DEF Init, TypeOK, Inductive
  <1>2. TypeOK /\ Inductive /\ Inductive' /\ [Next]_vars => TypeOK'
    BY TypeOKStep DEF Inductive
  <1> QED
    BY <1>1, <1>2, InductiveInvariant, PTL DEF Spec

(* retryAfterMs is long enough, whatever the rate and the resolution of    *)
(* the clock are.                                                          *)
THEOREM RetryIsLongEnough ==
  ASSUME MaxSkew <= Unit
  PROVE  Spec => RetryIsGranted
  <1>1. TypeOK /\ Inductive /\ [Next]_vars =>
          [\A c \in Clients :
             /\ call[c].pc = "listed" /\ call'[c].pc = "saved"
             /\ call[c].read # None
             /\ now - call[c].read.lastRefillAt >= RetryAfter
             => Len(grants') = Len(grants) + 1]_vars
    BY RetryStep DEF Inductive
  <1> QED
    BY <1>1, TypeCorrect, InductiveInvariant, PTL DEF Spec, RetryIsGranted

=============================================================================
