---------------------------- MODULE QuotaBucket -----------------------------
(***************************************************************************)
(* The connector quota coordinator                                         *)
(* (typescript/packages/cip/src/connectors/quota.ts): a token bucket in a  *)
(* repository, read and saved across awaits under a lock made of promises. *)
(* The lock is per bucket key, so one bucket is modelled.                  *)
(*                                                                         *)
(* Every acquire() has a ticket.  The promise an acquire() puts into       *)
(* bucketLocks resolves when the one it found there has and it has been    *)
(* released itself; as nothing runs before its prior has resolved, that is *)
(* when its ticket is in released.                                         *)
(*                                                                         *)
(* Tokens are counted in parts: a token is Unit parts and Unit ticks are a *)
(* second (1000 in the code), so that a tick refills Rate parts.           *)
(***************************************************************************)
EXTENDS Integers, Sequences

CONSTANTS
  Clients,      \* callers of acquire(), each awaiting one lease at a time
  Rate,         \* maxRequestsPerSecond, a whole number
  Unit,         \* ticks in a second, and parts in a token
  MaxSkew,      \* ticks that may pass between two readings of the clock in
                \* one synchronous block
  None,         \* no bucket
  MaxTime,      \* bound: the time up to which the clock ticks by itself
  MaxCalls,     \* bound: calls of acquire()
  MaxFaults     \* bound: repository operations rejected

Bucket == [tokens: Int, lastRefillAt: Nat]

ASSUME QuotaBucketAssumption ==
  /\ None \notin Bucket
  /\ Rate \in Nat \ {0} /\ Unit \in Nat \ {0} /\ MaxSkew \in Nat
  /\ MaxTime \in Nat /\ MaxCalls \in Nat /\ MaxFaults \in Nat

VARIABLES
  now,          \* the clock
  bucket,       \* connectorRateBuckets repository
  tail,         \* ticket of the promise in bucketLocks, 0 for none
  released,     \* tickets whose promise has resolved
  call,         \* the call each client has in flight
  grants,       \* the times of the leases granted, in order
  tickets,      \* calls started so far
  faults        \* operations rejected so far

vars == <<now, bucket, tail, released, call, grants, tickets, faults>>

(* read: the bucket the client has listed, None for none.                  *)
Call ==
  [pc: {"idle", "waiting", "listed", "saved"}, ticket: Nat, prior: Nat,
   read: Bucket \cup {None}]

Idle == [pc |-> "idle", ticket |-> 0, prior |-> 0, read |-> None]

Init ==
  /\ now = 0
  /\ bucket = None
  /\ tail = 0
  /\ released = {}
  /\ call = [c \in Clients |-> Idle]
  /\ grants = <<>>
  /\ tickets = 0
  /\ faults = 0

-----------------------------------------------------------------------------
(* withBucketLock, up to the await of the prior promise.                   *)
acquire(c) ==
  /\ call[c].pc = "idle"
  /\ tickets < MaxCalls
  /\ tickets' = tickets + 1
  /\ tail' = tickets + 1
  /\ call' = [call EXCEPT ![c] =
                [pc |-> "waiting", ticket |-> tickets + 1, prior |-> tail, read |-> None]]
  /\ UNCHANGED <<now, bucket, released, grants, faults>>

Slip_Unlocked(c) ==
  /\ call[c].pc = "waiting"
  /\ call' = [call EXCEPT ![c].pc = "listed", ![c].read = bucket]
  /\ UNCHANGED <<now, bucket, tail, released, grants, tickets, faults>>

(* The prior promise has resolved: the operation lists the bucket.         *)
listBucket(c) ==
  /\ call[c].pc = "waiting"
  /\ call[c].prior \in released \cup {0}
  /\ call' = [call EXCEPT ![c].pc = "listed", ![c].read = bucket]
  /\ UNCHANGED <<now, bucket, tail, released, grants, tickets, faults>>

Full == Rate * Unit

Slip_Uncapped(read, skew) ==
  IF read = None THEN Full - skew * Rate
  ELSE read.tokens + (now - read.lastRefillAt) * Rate

(* A bucket that is not there is made full, and last refilled at a reading *)
(* of the clock that comes skew ticks after now.                           *)
Refilled(read, skew) ==
  LET tokens == IF read = None THEN Full ELSE read.tokens
      elapsed == IF read = None THEN 0 - skew ELSE now - read.lastRefillAt
      refilled == tokens + elapsed * Rate
  IN IF refilled < Full THEN refilled ELSE Full

(* The rest of the operation, up to the await of save: refill, grant, and  *)
(* save under one more reading of the clock.                               *)
saveBucket(c) ==
  /\ call[c].pc = "listed"
  /\ \E skew, later \in 0..MaxSkew :
       LET refilled == Refilled(call[c].read, skew)
           granted == refilled >= Unit
       IN /\ now' = now + skew + later
          /\ call[c].read # None => skew = 0
          /\ bucket' = [tokens |-> IF granted THEN refilled - Unit ELSE refilled,
                        lastRefillAt |-> now']
          /\ grants' = IF granted THEN Append(grants, now) ELSE grants
  /\ call' = [call EXCEPT ![c].pc = "saved"]
  /\ UNCHANGED <<tail, released, tickets, faults>>

Slip_AlwaysDeleted(c) ==
  /\ released' = released \cup {call[c].ticket}
  /\ tail' = 0
  /\ call' = [call EXCEPT ![c] = Idle]

Slip_NeverDeleted(c) ==
  /\ released' = released \cup {call[c].ticket}
  /\ tail' = tail
  /\ call' = [call EXCEPT ![c] = Idle]

(* The finally block: the promise resolves, and leaves bucketLocks unless  *)
(* another call has put its own there.                                     *)
Released(c) ==
  /\ released' = released \cup {call[c].ticket}
  /\ tail' = IF tail = call[c].ticket THEN 0 ELSE tail
  /\ call' = [call EXCEPT ![c] = Idle]

release(c) ==
  /\ call[c].pc = "saved"
  /\ Released(c)
  /\ UNCHANGED <<now, bucket, grants, tickets, faults>>

Slip_NoFinally(c) ==
  /\ call[c].pc \in {"listed", "saved"}
  /\ faults < MaxFaults
  /\ faults' = faults + 1
  /\ call' = [call EXCEPT ![c] = Idle]
  /\ UNCHANGED <<now, bucket, grants, tickets, tail, released>>

(* The list or the save is rejected: nothing more is saved.                *)
Reject(c) ==
  /\ call[c].pc \in {"listed", "saved"}
  /\ faults < MaxFaults
  /\ faults' = faults + 1
  /\ Released(c)
  /\ UNCHANGED <<now, bucket, grants, tickets>>

Tick ==
  /\ now < MaxTime
  /\ now' = now + 1
  /\ UNCHANGED <<bucket, tail, released, call, grants, tickets, faults>>

Continue(c) == listBucket(c) \/ saveBucket(c) \/ release(c)

Rest ==
  /\ \A c \in Clients : call[c].pc = "idle"
  /\ UNCHANGED vars

Next ==
  \/ \E c \in Clients : acquire(c) \/ Continue(c) \/ Reject(c)
  \/ Tick
  \/ Rest

Spec == Init /\ [][Next]_vars

(* The event loop keeps running the continuations of pending promises.     *)
FairSpec == Spec /\ \A c \in Clients : WF_vars(Continue(c))

(* retryAfterMs of a refused lease.                                        *)
Slip_RetryFloor == Unit \div Rate

RetryAfter == (Unit + Rate - 1) \div Rate

-----------------------------------------------------------------------------
Types ==
  /\ now \in Nat /\ tickets \in Nat /\ faults \in Nat
  /\ bucket \in Bucket \cup {None}
  /\ tail \in 0..tickets
  /\ released \subseteq 1..tickets
  /\ call \in [Clients -> Call]
  /\ grants \in Seq(Nat)

(* Every variable holds what the code can put in it; a bucket never owes   *)
(* tokens, though a new one may have been made later than the clock was    *)
(* read, and it was never refilled in the future.                          *)
TypeOK ==
  /\ Types
  /\ bucket # None => bucket.tokens \in 0..Full /\ bucket.lastRefillAt <= now

(* A client that has listed the bucket saves over the bucket it listed:    *)
(* no other client's save comes between, whoever arrives, leaves or fails. *)
SavesOverWhatItRead ==
  \A c \in Clients : call[c].pc = "listed" => call[c].read = bucket

(* In no span of time are more leases granted than a full bucket and what  *)
(* the span refills.                                                       *)
RateRespected ==
  \A i, j \in DOMAIN grants :
    i <= j => (j - i + 1) * Unit <= Full + (grants[j] - grants[i]) * Rate

(* A client that waits for retryAfterMs is granted, unless another client  *)
(* has asked meanwhile.                                                    *)
RetryIsGranted ==
  [][\A c \in Clients :
       /\ call[c].pc = "listed" /\ call'[c].pc = "saved"
       /\ call[c].read # None
       /\ now - call[c].read.lastRefillAt >= RetryAfter
       => Len(grants') = Len(grants) + 1]_vars

(* The clients are served in the order they called.                        *)
ServedInOrder ==
  \A c, d \in Clients :
    call[c].pc \in {"listed", "saved"} /\ call[d].pc \in {"waiting", "listed", "saved"} =>
      call[c].ticket <= call[d].ticket

(* When no call is in flight the lock is gone from bucketLocks.            *)
LockIsCollected == (\A c \in Clients : call[c].pc = "idle") => tail = 0

(* Every call returns: no client waits for a promise nobody resolves.      *)
EveryCallReturns ==
  \A c \in Clients : call[c].pc = "waiting" ~> call[c].pc = "idle"

-----------------------------------------------------------------------------
(* Inductive strengthenings                                                *)

InFlight(c) == call[c].pc # "idle"
Holding(c) == call[c].pc \in {"listed", "saved"}

(* The promise in bucketLocks is that of the last client in flight; of two *)
(* clients in flight the later one's prior promise is unresolved and not   *)
(* older than the earlier one's own.                                       *)
LockInv ==
  /\ tail # 0 => \E c \in Clients : InFlight(c) /\ call[c].ticket = tail
  /\ \A c \in Clients : InFlight(c) =>
       /\ call[c].ticket \in 1..tail /\ call[c].ticket \notin released
       /\ Holding(c) => call[c].prior \in released \cup {0}
  /\ \A c, d \in Clients : InFlight(c) /\ InFlight(d) /\ c # d =>
       /\ call[c].ticket # call[d].ticket
       /\ call[c].ticket < call[d].ticket =>
            call[c].ticket <= call[d].prior /\ call[d].prior \notin released

(* What is left in the bucket could still be granted at its last refill    *)
(* without exceeding the rate over any span that began with a grant.       *)
RateInv ==
  /\ bucket = None => grants = <<>>
  /\ bucket # None =>
       /\ bucket.lastRefillAt <= now
       /\ \A i \in DOMAIN grants :
            (Len(grants) - i + 1) * Unit + bucket.tokens
              <= Full + (bucket.lastRefillAt - grants[i]) * Rate
  /\ RateRespected

(* The strengthenings the proofs use, together: what TLC checks of them.   *)
Inductive == Types /\ LockInv /\ SavesOverWhatItRead /\ RateInv

=============================================================================
