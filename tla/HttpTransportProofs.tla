------------------------ MODULE HttpTransportProofs ------------------------
(***************************************************************************)
(* Theorems about the HTTP transports, for every set of calls, keys and    *)
(* objects, retry policy, number of attempts and course of the network.    *)
(***************************************************************************)
EXTENDS HttpTransport, TLAPS

-----------------------------------------------------------------------------
(* The invariant                                                           *)

Waits(c) == IF call[c].pc = "waiting" THEN 1 ELSE 0

Sendings(c) == IF call[c].pc \in {"idle", "sleeping"} THEN 0 ELSE 1

(* Every request that was sent was done, was answered, is late or is       *)
(* waited for.                                                             *)
SentInv ==
  \A c \in Calls :
    /\ call[c].pc = "idle" => call[c] = Idle
    /\ call[c].pc # "idle" =>
         call[c].route \in CipClient \cup CipAdminClient /\ call[c].object \in Objects
    /\ done[c] + late[c] + Waits(c) <= call[c].attempt + Sendings(c)

(* Calls that bear one key make one request, and the platform keeps count  *)
(* of what it did for keys.                                                *)
DoneOnce(c) ==
  /\ done[c] > 0 /\ call[c].key # None => call[c].key \in applied
  /\ done[c] > 1 => call[c].key = None

DoneApart(c, d) ==
  done[c] > 0 /\ done[d] > 0 /\ c # d /\ call[c].key # None =>
    call[c].key # call[d].key

SameAsked(c, d) ==
  call[c].key # None /\ call[c].key = call[d].key =>
    call[c].route = call[d].route /\ call[c].object = call[d].object

DoneInv ==
  /\ \A c \in Calls : DoneOnce(c)
  /\ \A c, d \in Calls : DoneApart(c, d) /\ SameAsked(c, d)
  /\ \A k \in applied : k # None /\ \E c \in Calls : call[c].key = k /\ done[c] > 0

(* An answer that says so is the answer to something done, and the first   *)
(* answer that refuses is one to nothing done.                             *)
Succeeded(c) ==
  call[c].pc = "returned" \/ (call[c].pc = "answered" /\ is_success(call[c].status))

Refused(c) ==
  /\ call[c].attempt = 0
  /\ \/ /\ call[c].pc = "raised"
        /\ call[c].error \in {"auth", "validation", "conflict"}
     \/ /\ call[c].pc = "answered"
        /\ build_error(call[c].status) \in {"auth", "validation", "conflict"}

Truth(c) ==
  /\ Succeeded(c) /\ call[c].route.effect # "reads" =>
       \E d \in SameRequest(c) : done[d] > 0
  /\ Refused(c) => done[c] = 0 /\ late[c] = 0

TruthInv == \A c \in Calls : Truth(c)

Inv == TypeOK /\ SentInv /\ DoneInv /\ TruthInv

-----------------------------------------------------------------------------
(* Steps                                                                   *)

(* A call begins; nobody else's call changes.                              *)
Begins(c) ==
  \E route \in CipClient \cup CipAdminClient : \E object \in Objects :
    \E k \in KeysFor(route, object) :
      call' = [call EXCEPT ![c] = [Idle EXCEPT !.pc = "waiting", !.route = route,
                                               !.object = object, !.key = k]]

(* What calls ask for stays what it is.                                    *)
RequestsKept ==
  \A c \in Calls :
    /\ call'[c].key = call[c].key
    /\ call'[c].route = call[c].route
    /\ call'[c].object = call[c].object

(* The platform does what it has not done yet.                             *)
NewlyDoes(c) ==
  /\ Does(c)
  /\ call[c].key # None => call[c].key \notin applied

PlatformKept == UNCHANGED <<done, applied>>

LEMMA BeginsAny ==
  ASSUME NEW c \in Calls, sdkCall(c) \/ adminCall(c)
  PROVE  Begins(c) /\ call[c].pc = "idle" /\ UNCHANGED platform
  BY DEF sdkCall, adminCall, begins, Begins, Becomes

(* What the platform may do with a request, and the answers it may give.   *)
LEMMA Handling ==
  ASSUME NEW c \in Calls, NEW status \in Statuses, Handles(c, status)
  PROVE  /\ NewlyDoes(c) \/ PlatformKept
         /\ status = 200 /\ call[c].route.effect # "reads" =>
              NewlyDoes(c) \/ (call[c].key # None /\ call[c].key \in applied)
         /\ status # 200 => PlatformKept
  <1>1. headers(c).key = call[c].key
    BY DEF headers
  <1>2. 200 \notin Refusals
    BY HttpTransportAssumption
  <1> QED
    BY <1>1, <1>2 DEF Handles, Known, NewlyDoes, PlatformKept

-----------------------------------------------------------------------------
(* What the platform did stays counted                                     *)

LEMMA RequestKept ==
  ASSUME RequestsKept
  PROVE  \A c \in Calls : SameRequest(c)' = SameRequest(c)
  BY DEF RequestsKept, SameRequest

LEMMA DoneWhenKept ==
  ASSUME DoneInv, RequestsKept, PlatformKept
  PROVE  DoneInv'
  BY DEF DoneInv, DoneOnce, DoneApart, SameAsked, RequestsKept, PlatformKept

LEMMA DoneWhenBegins ==
  ASSUME TypeOK, SentInv, DoneInv, NEW c \in Calls, call[c].pc = "idle", Begins(c),
         UNCHANGED platform
  PROVE  DoneInv'
  <1>1. PICK route \in CipClient \cup CipAdminClient, object \in Objects :
          \E k \in KeysFor(route, object) :
            call' = [call EXCEPT ![c] = [Idle EXCEPT !.pc = "waiting", !.route = route,
                                                     !.object = object, !.key = k]]
    BY DEF Begins
  <1>2. PICK k \in KeysFor(route, object) :
          call' = [call EXCEPT ![c] = [Idle EXCEPT !.pc = "waiting", !.route = route,
                                                   !.object = object, !.key = k]]
    BY <1>1
  <1>3. /\ call'[c].key = k /\ call'[c].route = route /\ call'[c].object = object
        /\ \A d \in Calls \ {c} : call'[d] = call[d]
        /\ done' = done /\ applied' = applied
    BY <1>2 DEF TypeOK, Idle, platform
  <1>4. k # None => \A d \in Calls : call[d].key = k =>
                      call[d].route = route /\ call[d].object = object
    BY DEF KeysFor
  <1>5. ~(done[c] > 0) /\ ~(done[c] > 1) /\ call[c].key = None
    BY DEF SentInv, TypeOK, Idle, Waits, Sendings
  <1>6. \A d \in Calls : DoneOnce(d)'
    BY <1>3, <1>5 DEF DoneInv, DoneOnce
  <1>7. ASSUME NEW d \in Calls, NEW e \in Calls
        PROVE  DoneApart(d, e)'
    BY <1>3, <1>5 DEF DoneInv, DoneApart
  <1>8. ASSUME NEW d \in Calls, NEW e \in Calls
        PROVE  SameAsked(d, e)'
    BY <1>3, <1>4 DEF DoneInv, SameAsked
  <1>9. ASSUME NEW a \in applied'
        PROVE  a # None /\ \E d \in Calls : call'[d].key = a /\ done'[d] > 0
    <2>1. a # None
      BY <1>3 DEF DoneInv
    <2>2. PICK d \in Calls : call[d].key = a /\ done[d] > 0
      BY <1>3 DEF DoneInv
    <2> QED
      BY <1>3, <1>5, <2>1, <2>2
  <1> QED
    BY <1>6, <1>7, <1>8, <1>9 DEF DoneInv

LEMMA DoneWhenDone ==
  ASSUME TypeOK, DoneInv, RequestsKept, NEW c \in Calls, NewlyDoes(c)
  PROVE  DoneInv'
  <1>1. /\ done' = [done EXCEPT ![c] = done[c] + 1]
        /\ applied' = IF call[c].key = None THEN applied ELSE applied \cup {call[c].key}
    BY DEF NewlyDoes, Does, headers
  <1>2. call[c].key # None => call[c].key \notin applied
    BY DEF NewlyDoes
  <1>3. \A d \in Calls : /\ call'[d].key = call[d].key
                         /\ call'[d].route = call[d].route
                         /\ call'[d].object = call[d].object
    BY DEF RequestsKept
  <1>4. /\ \A d \in Calls \ {c} : done'[d] = done[d]
        /\ done'[c] = done[c] + 1 /\ \A d \in Calls : done[d] \in Nat
        /\ applied \subseteq applied'
        /\ call[c].key # None => call[c].key \in applied'
    BY <1>1 DEF TypeOK
  <1>5. call[c].key # None => done[c] = 0
    BY <1>2, <1>4 DEF DoneInv, DoneOnce
  <1>6. ASSUME NEW d \in Calls PROVE DoneOnce(d)'
    <2>1. CASE d = c
      BY <1>2, <1>3, <1>4, <1>5, <2>1 DEF DoneOnce
    <2>2. CASE d # c
      BY <1>3, <1>4, <2>2 DEF DoneInv, DoneOnce
    <2> QED
      BY <2>1, <2>2
  <1>7. \A d \in Calls \ {c} : done[d] > 0 /\ call[c].key # None => call[d].key # call[c].key
    BY <1>2 DEF DoneInv, DoneOnce
  <1>8. ASSUME NEW d \in Calls, NEW e \in Calls PROVE DoneApart(d, e)'
    <2>2. CASE d = c /\ e # c
      BY <1>3, <1>4, <1>7, <2>2 DEF DoneApart
    <2>3. CASE d # c /\ e = c
      BY <1>3, <1>4, <1>7, <2>3 DEF DoneApart
    <2>4. CASE d # c /\ e # c
      BY <1>3, <1>4, <2>4 DEF DoneInv, DoneApart
    <2>5. CASE d = e
      BY <2>5 DEF DoneApart
    <2> QED
      BY <2>2, <2>3, <2>4, <2>5
  <1>9. \A d, e \in Calls : SameAsked(d, e)'
    BY <1>3 DEF DoneInv, SameAsked
  <1>10. ASSUME NEW k \in applied'
         PROVE  k # None /\ \E d \in Calls : call'[d].key = k /\ done'[d] > 0
    <2>1. CASE k \in applied
      <3>1. PICK d \in Calls : call[d].key = k /\ done[d] > 0
        BY <2>1 DEF DoneInv
      <3>2. done'[d] > 0
        BY <1>4, <3>1
      <3> QED
        BY <1>3, <2>1, <3>1, <3>2 DEF DoneInv
    <2>2. CASE k \notin applied
      <3>1. call[c].key # None /\ k = call[c].key
        BY <1>1, <2>2
      <3> QED
        BY <1>3, <1>4, <3>1
    <2> QED
      BY <2>1, <2>2
  <1> QED
    BY <1>6, <1>8, <1>9, <1>10 DEF DoneInv

-----------------------------------------------------------------------------
(* Types, and what a step leaves alone                                     *)

LEMMA PlatformTypes ==
  ASSUME TypeOK, SentInv, NEW c \in Calls, call[c].pc # "idle",
         NewlyDoes(c) \/ PlatformKept
  PROVE  /\ done' \in [Calls -> Nat] /\ applied' \subseteq Keys
         /\ \A d \in Calls \ {c} : done'[d] = done[d]
         /\ done'[c] \in {done[c], done[c] + 1}
         /\ NewlyDoes(c) => done'[c] = done[c] + 1
  <1>1. CASE PlatformKept
    <2>1. ~NewlyDoes(c)
      BY <1>1 DEF TypeOK, PlatformKept, NewlyDoes, Does
    <2> QED
      BY <1>1, <2>1 DEF TypeOK, PlatformKept
  <1>2. CASE NewlyDoes(c)
    <2>1. /\ done' = [done EXCEPT ![c] = done[c] + 1]
          /\ applied' = IF call[c].key = None THEN applied ELSE applied \cup {call[c].key}
      BY <1>2 DEF NewlyDoes, Does, headers
    <2>2. call[c].key \in Keys \cup {None}
      BY DEF TypeOK, CallRecord
    <2> QED
      BY <2>1, <2>2 DEF TypeOK
  <1> QED
    BY <1>1, <1>2

LEMMA CallMoves ==
  ASSUME TypeOK, NEW c \in Calls, NEW r \in CallRecord, Becomes(c, r),
         r.key = call[c].key, r.route = call[c].route, r.object = call[c].object
  PROVE  /\ RequestsKept
         /\ call' \in [Calls -> CallRecord]
         /\ call'[c] = r
         /\ \A d \in Calls \ {c} : call'[d] = call[d]
  BY DEF TypeOK, Becomes, RequestsKept

LEMMA CallKept ==
  ASSUME TypeOK, UNCHANGED call
  PROVE  RequestsKept /\ call' \in [Calls -> CallRecord]
  BY DEF TypeOK, RequestsKept

(* What was true of a call stays true when another one moves.              *)
LEMMA TruthOfOthers ==
  ASSUME TypeOK, SentInv, TruthInv, RequestsKept, NEW c \in Calls, call[c].pc # "idle",
         NewlyDoes(c) \/ PlatformKept, NEW d \in Calls \ {c},
         call'[d] = call[d], late'[d] = late[d]
  PROVE  Truth(d)'
  <1>1. \A e \in Calls : done[e] > 0 => done'[e] > 0
    BY PlatformTypes DEF TypeOK
  <1>2. SameRequest(d)' = SameRequest(d) /\ SameRequest(d) \subseteq Calls
    BY RequestKept DEF SameRequest
  <1>3. done'[d] = done[d]
    BY PlatformTypes
  <1> QED
    BY <1>1, <1>2, <1>3 DEF TruthInv, Truth, Succeeded, Refused

(* Where an answer to a call comes from.                                   *)
LEMMA DoneSomewhere ==
  ASSUME TypeOK, DoneInv, RequestsKept, NEW c \in Calls, call[c].pc # "idle", SentInv,
         NewlyDoes(c) \/ PlatformKept,
         NewlyDoes(c) \/ (call[c].key # None /\ call[c].key \in applied)
  PROVE  \E d \in SameRequest(c)' : done'[d] > 0
  <1>1. SameRequest(c)' = SameRequest(c)
    BY RequestKept
  <1>2. CASE NewlyDoes(c)
    BY <1>1, <1>2, PlatformTypes DEF SameRequest, TypeOK
  <1>3. CASE call[c].key # None /\ call[c].key \in applied
    <2>1. PICK d \in Calls : call[d].key = call[c].key /\ done[d] > 0
      BY <1>3 DEF DoneInv
    <2>2. d \in SameRequest(c)
      BY <1>3, <2>1 DEF SameRequest
    <2>3. done'[d] > 0
      BY <2>1, PlatformTypes DEF TypeOK
    <2> QED
      BY <1>1, <2>2, <2>3
  <1> QED
    BY <1>2, <1>3

-----------------------------------------------------------------------------
(* The steps of a call                                                     *)

LEMMA BeginsKeeps ==
  ASSUME Inv, NEW c \in Calls, sdkCall(c) \/ adminCall(c)
  PROVE  Inv'
  <1>1. Begins(c) /\ call[c].pc = "idle" /\ UNCHANGED platform
    BY BeginsAny
  <1>2. DoneInv'
    BY <1>1, DoneWhenBegins DEF Inv
  <1>13. PICK route \in CipClient \cup CipAdminClient, object \in Objects :
           \E k \in KeysFor(route, object) :
             call' = [call EXCEPT ![c] = [Idle EXCEPT !.pc = "waiting", !.route = route,
                                                      !.object = object, !.key = k]]
    BY <1>1 DEF Begins
  <1>3. PICK k \in KeysFor(route, object) :
          call' = [call EXCEPT ![c] = [Idle EXCEPT !.pc = "waiting", !.route = route,
                                                   !.object = object, !.key = k]]
    BY <1>13
  <1> DEFINE r == [Idle EXCEPT !.pc = "waiting", !.route = route, !.object = object, !.key = k]
  <1>4. k \in Keys \cup {None}
    BY DEF KeysFor
  <1>5. r \in CallRecord
    BY <1>4 DEF Idle, CallRecord
  <1>6. r.pc = "waiting" /\ r.attempt = 0 /\ r.route = route /\ r.object = object
    BY DEF Idle
  <1>7. call' \in [Calls -> CallRecord] /\ call'[c] = r
          /\ \A d \in Calls \ {c} : call'[d] = call[d]
    BY <1>3, <1>5 DEF Inv, TypeOK
  <1>8. late' = late /\ done' = done /\ applied' = applied /\ lost' = lost
    BY <1>1 DEF platform
  <1>9. TypeOK'
    BY <1>7, <1>8 DEF Inv, TypeOK
  <1>10. done[c] + late[c] <= 0 /\ done[c] \in Nat /\ late[c] \in Nat
    BY <1>1 DEF Inv, SentInv, TypeOK, Idle, Waits, Sendings
  <1>11. SentInv'
    <2>1. ASSUME NEW d \in Calls, d # c
          PROVE  /\ call'[d].pc = "idle" => call'[d] = Idle
                 /\ call'[d].pc # "idle" =>
                      /\ call'[d].route \in CipClient \cup CipAdminClient
                      /\ call'[d].object \in Objects
                 /\ done'[d] + late'[d] + Waits(d)' <= call'[d].attempt + Sendings(d)'
      BY <1>7, <1>8, <2>1 DEF Inv, SentInv, Waits, Sendings
    <2>2. /\ call'[c].pc # "idle"
          /\ call'[c].route \in CipClient \cup CipAdminClient /\ call'[c].object \in Objects
          /\ done'[c] + late'[c] + Waits(c)' <= call'[c].attempt + Sendings(c)'
      BY <1>6, <1>7, <1>8, <1>10 DEF Waits, Sendings
    <2> QED
      BY <2>1, <2>2 DEF SentInv
  <1>12. ASSUME NEW d \in Calls PROVE Truth(d)'
    <2>1. CASE d = c
      BY <1>6, <1>7, <2>1 DEF Truth, Succeeded, Refused
    <2>2. CASE d # c
      <3>1. call[c].key = None
        BY <1>1 DEF Inv, SentInv, Idle
      <3>2. SameRequest(d) \subseteq SameRequest(d)'
        BY <1>7, <2>2, <3>1 DEF SameRequest
      <3> QED
        BY <1>7, <1>8, <2>2, <3>2 DEF Inv, TruthInv, Truth, Succeeded, Refused
    <2> QED
      BY <2>1, <2>2
  <1> QED
    BY <1>2, <1>9, <1>11, <1>12 DEF Inv, TruthInv

(* A call that has begun moves, and its requests with it.                  *)
LEMMA Moving ==
  ASSUME Inv, NEW c \in Calls, call[c].pc # "idle", NewlyDoes(c) \/ PlatformKept,
         NEW r \in CallRecord, Becomes(c, r),
         r.key = call[c].key, r.route = call[c].route, r.object = call[c].object,
         r.pc # "idle", lost' \in [Calls -> Nat],
         late' \in [Calls -> Nat], \A d \in Calls \ {c} : late'[d] = late[d],
         done'[c] + late'[c] + (IF r.pc = "waiting" THEN 1 ELSE 0)
           <= r.attempt + (IF r.pc = "sleeping" THEN 0 ELSE 1),
         Truth(c)'
  PROVE  Inv'
  <1>1. /\ RequestsKept /\ call' \in [Calls -> CallRecord] /\ call'[c] = r
        /\ \A d \in Calls \ {c} : call'[d] = call[d]
    BY CallMoves DEF Inv
  <1>2. TypeOK'
    BY <1>1, PlatformTypes DEF Inv, TypeOK
  <1>3. DoneInv'
    BY <1>1, DoneWhenKept, DoneWhenDone DEF Inv
  <1>4. SentInv'
    <2>1. ASSUME NEW d \in Calls, d # c
          PROVE  /\ call'[d].pc = "idle" => call'[d] = Idle
                 /\ call'[d].pc # "idle" =>
                      /\ call'[d].route \in CipClient \cup CipAdminClient
                      /\ call'[d].object \in Objects
                 /\ done'[d] + late'[d] + Waits(d)' <= call'[d].attempt + Sendings(d)'
      <3>1. done'[d] = done[d]
        BY <2>1, PlatformTypes DEF Inv
      <3> QED
        BY <1>1, <2>1, <3>1 DEF Inv, SentInv, Waits, Sendings
    <2>2. /\ call'[c].pc # "idle"
          /\ call'[c].route \in CipClient \cup CipAdminClient /\ call'[c].object \in Objects
          /\ done'[c] + late'[c] + Waits(c)' <= call'[c].attempt + Sendings(c)'
      BY <1>1 DEF Inv, SentInv, Waits, Sendings
    <2> QED
      BY <2>1, <2>2 DEF SentInv
  <1>5. \A d \in Calls \ {c} : Truth(d)'
    BY <1>1, TruthOfOthers DEF Inv
  <1> QED
    BY <1>2, <1>3, <1>4, <1>5 DEF Inv, TruthInv

LEMMA AnsweredKeeps ==
  ASSUME Inv, NEW c \in Calls, answered(c)
  PROVE  Inv'
  <1> DEFINE r == IF ~call[c].readable THEN Raised(c, "decoding")
                  ELSE IF is_success(call[c].status) THEN [call[c] EXCEPT !.pc = "returned"]
                  ELSE IF is_retryable(c) THEN Again(c)
                  ELSE Raised(c, build_error(call[c].status))
  <1>1. Becomes(c, r) /\ call[c].pc = "answered" /\ PlatformKept /\ late' = late
          /\ lost' = lost
    BY DEF answered, platform, PlatformKept
  <1>2. build_error(call[c].status) \in {"auth", "validation", "conflict", "retryable", "api"}
    BY DEF build_error
  <1>3. call[c] \in CallRecord
    BY DEF Inv, TypeOK
  <1>4. r \in CallRecord
    <2>1. Raised(c, "decoding") \in CallRecord
      BY <1>3 DEF CallRecord, Raised
    <2>2. [call[c] EXCEPT !.pc = "returned"] \in CallRecord
      BY <1>3 DEF CallRecord
    <2>3. Again(c) \in CallRecord
      <3>1. call[c].attempt \in Nat
        BY <1>3 DEF CallRecord
      <3> DEFINE n == call[c].attempt + 1
      <3>2. n \in Nat
        BY <3>1
      <3> HIDE DEF n
      <3>3. [call[c] EXCEPT !.pc = "sleeping", !.attempt = n, !.status = 0] \in CallRecord
        BY <1>3, <3>2 DEF CallRecord
      <3> QED
        BY <3>3 DEF Again, n
    <2>4. Raised(c, build_error(call[c].status)) \in CallRecord
      BY <1>2, <1>3 DEF CallRecord, Raised
    <2> QED
      BY <2>1, <2>2, <2>3, <2>4
  <1>5. /\ r.key = call[c].key /\ r.route = call[c].route /\ r.object = call[c].object
        /\ r.pc \in {"returned", "raised", "sleeping"}
        /\ r.attempt = IF r.pc = "sleeping" THEN call[c].attempt + 1 ELSE call[c].attempt
        /\ r.pc = "returned" => is_success(call[c].status)
        /\ r.pc = "raised" => r.error \in {"decoding", build_error(call[c].status)}
    BY <1>3 DEF CallRecord, Raised, Again
  <1>6. done[c] + late[c] <= call[c].attempt + 1 /\ done' = done
    BY <1>1 DEF Inv, SentInv, Waits, Sendings, PlatformKept, TypeOK
  <1>7. RequestsKept /\ call'[c] = r
    BY <1>1, <1>4, <1>5, CallMoves DEF Inv
  <1>8. Truth(c)'
    <2>1. Succeeded(c)' => Succeeded(c)
      BY <1>1, <1>5, <1>7 DEF Succeeded
    <2>2. Refused(c)' => Refused(c)
      BY <1>1, <1>5, <1>7 DEF Refused
    <2>3. SameRequest(c)' = SameRequest(c) /\ call'[c].route = call[c].route
      BY <1>5, <1>7, RequestKept
    <2> QED
      BY <1>1, <1>6, <2>1, <2>2, <2>3 DEF Inv, TruthInv, Truth
  <1>9. done'[c] + late'[c] + (IF r.pc = "waiting" THEN 1 ELSE 0)
          <= r.attempt + (IF r.pc = "sleeping" THEN 0 ELSE 1)
    BY <1>1, <1>3, <1>5, <1>6 DEF CallRecord, Inv, TypeOK
  <1>10. /\ late' \in [Calls -> Nat] /\ \A d \in Calls \ {c} : late'[d] = late[d]
         /\ lost' \in [Calls -> Nat]
    BY <1>1 DEF Inv, TypeOK
  <1> HIDE DEF r
  <1> QED
    BY <1>1, <1>4, <1>5, <1>8, <1>9, <1>10, Moving

LEMMA WakesKeeps ==
  ASSUME Inv, NEW c \in Calls, wakes(c)
  PROVE  Inv'
  <1> DEFINE r == [call[c] EXCEPT !.pc = "waiting", !.readable = TRUE]
  <1>1. Becomes(c, r) /\ call[c].pc = "sleeping" /\ PlatformKept /\ late' = late
          /\ lost' = lost
    BY DEF wakes, platform, PlatformKept
  <1>2. call[c] \in CallRecord
    BY DEF Inv, TypeOK
  <1>3. /\ r \in CallRecord /\ r.pc = "waiting" /\ r.attempt = call[c].attempt
        /\ r.key = call[c].key /\ r.route = call[c].route /\ r.object = call[c].object
    BY <1>2 DEF CallRecord
  <1>4. done[c] + late[c] <= call[c].attempt /\ done' = done
    BY <1>1 DEF Inv, SentInv, Waits, Sendings, PlatformKept, TypeOK, CallRecord
  <1>5. call'[c] = r
    BY <1>1, <1>3, CallMoves DEF Inv
  <1>6. Truth(c)'
    BY <1>3, <1>5 DEF Truth, Succeeded, Refused
  <1>7. done'[c] + late'[c] + (IF r.pc = "waiting" THEN 1 ELSE 0)
          <= r.attempt + (IF r.pc = "sleeping" THEN 0 ELSE 1)
    BY <1>1, <1>2, <1>3, <1>4 DEF CallRecord, Inv, TypeOK
  <1>8. /\ late' \in [Calls -> Nat] /\ \A d \in Calls \ {c} : late'[d] = late[d]
        /\ lost' \in [Calls -> Nat]
    BY <1>1 DEF Inv, TypeOK
  <1> HIDE DEF r
  <1> QED
    BY <1>1, <1>3, <1>6, <1>7, <1>8, Moving

LEMMA TimesOutKeeps ==
  ASSUME Inv, NEW c \in Calls, times_out(c)
  PROVE  Inv'
  <1> DEFINE r == Raised(c, "httpx")
  <1>1. Becomes(c, r) /\ call[c].pc = "waiting" /\ PlatformKept
          /\ late' = [late EXCEPT ![c] = late[c] + 1] /\ lost' = lost
    BY DEF times_out, PlatformKept
  <1>2. call[c] \in CallRecord
    BY DEF Inv, TypeOK
  <1>3. /\ r \in CallRecord /\ r.pc = "raised" /\ r.error = "httpx"
        /\ r.attempt = call[c].attempt
        /\ r.key = call[c].key /\ r.route = call[c].route /\ r.object = call[c].object
    BY <1>2 DEF CallRecord, Raised
  <1>4. done[c] + late[c] + 1 <= call[c].attempt + 1 /\ done' = done
    BY <1>1 DEF Inv, SentInv, Waits, Sendings, PlatformKept, TypeOK, CallRecord
  <1>5. call'[c] = r
    BY <1>1, <1>3, CallMoves DEF Inv
  <1>6. Truth(c)'
    BY <1>3, <1>5 DEF Truth, Succeeded, Refused
  <1>7. late' \in [Calls -> Nat] /\ late'[c] = late[c] + 1
          /\ (\A d \in Calls \ {c} : late'[d] = late[d]) /\ lost' \in [Calls -> Nat]
    BY <1>1 DEF Inv, TypeOK
  <1>8. done'[c] + late'[c] + (IF r.pc = "waiting" THEN 1 ELSE 0)
          <= r.attempt + (IF r.pc = "sleeping" THEN 0 ELSE 1)
    BY <1>2, <1>3, <1>4, <1>7 DEF CallRecord, Inv, TypeOK
  <1> HIDE DEF r
  <1> QED
    BY <1>1, <1>3, <1>6, <1>7, <1>8, Moving

-----------------------------------------------------------------------------
(* The steps of the network and the platform                               *)

(* A call that waits for its first answer has had nothing done for it.     *)
LEMMA NothingYet ==
  ASSUME Inv, NEW c \in Calls, call[c].pc = "waiting"
  PROVE  /\ done[c] + late[c] <= call[c].attempt
         /\ call[c].attempt = 0 => done[c] = 0 /\ late[c] = 0
         /\ done[c] \in Nat /\ late[c] \in Nat /\ call[c].attempt \in Nat
  <1>1. done[c] \in Nat /\ late[c] \in Nat /\ call[c].attempt \in Nat
    BY DEF Inv, TypeOK, CallRecord
  <1>2. done[c] + late[c] + 1 <= call[c].attempt + 1
    BY DEF Inv, SentInv, Waits, Sendings
  <1> QED
    BY <1>1, <1>2

LEMMA HandlesKeeps ==
  ASSUME Inv, NEW c \in Calls, handles(c)
  PROVE  Inv'
  <1>1. PICK status \in Statuses : Handles(c, status) /\ Answers(c, status)
    BY DEF handles
  <1>2. PICK readable \in BOOLEAN :
          Becomes(c, [call[c] EXCEPT !.pc = "answered", !.status = status,
                                     !.readable = readable])
    BY <1>1 DEF Answers
  <1> DEFINE r == [call[c] EXCEPT !.pc = "answered", !.status = status,
                                  !.readable = readable]
  <1>3. call[c].pc = "waiting" /\ late' = late /\ lost' = lost
    BY DEF handles
  <1>4. call[c] \in CallRecord /\ status \in Nat
    BY HttpTransportAssumption DEF Inv, TypeOK, Statuses
  <1>5. /\ r \in CallRecord /\ r.pc = "answered" /\ r.status = status
        /\ r.attempt = call[c].attempt
        /\ r.key = call[c].key /\ r.route = call[c].route /\ r.object = call[c].object
    BY <1>4 DEF CallRecord
  <1>6. /\ NewlyDoes(c) \/ PlatformKept
        /\ status = 200 /\ call[c].route.effect # "reads" =>
             NewlyDoes(c) \/ (call[c].key # None /\ call[c].key \in applied)
        /\ status # 200 => PlatformKept
    BY <1>1, Handling
  <1>7. done'[c] \in {done[c], done[c] + 1}
    BY <1>3, <1>6, PlatformTypes DEF Inv
  <1>8. call'[c] = r /\ RequestsKept
    BY <1>2, <1>5, CallMoves DEF Inv
  <1>9. is_success(status) => status = 200
    BY HttpTransportAssumption DEF is_success, Statuses
  <1>10. Truth(c)'
    <2>1. ASSUME Succeeded(c)', call'[c].route.effect # "reads"
          PROVE  \E d \in SameRequest(c)' : done'[d] > 0
      <3>1. status = 200
        BY <1>5, <1>8, <1>9, <2>1 DEF Succeeded
      <3> QED
        BY <1>3, <1>5, <1>6, <1>8, <2>1, <3>1, DoneSomewhere DEF Inv
    <2>2. ASSUME Refused(c)' PROVE done'[c] = 0 /\ late'[c] = 0
      <3>1. call[c].attempt = 0 /\ build_error(status) \in {"auth", "validation", "conflict"}
        BY <1>5, <1>8, <2>2 DEF Refused
      <3>2. status # 200
        BY <3>1 DEF build_error
      <3> QED
        BY <1>3, <1>6, <3>1, <3>2, NothingYet DEF PlatformKept
    <2> QED
      BY <2>1, <2>2 DEF Truth
  <1>11. done'[c] + late'[c] + (IF r.pc = "waiting" THEN 1 ELSE 0)
           <= r.attempt + (IF r.pc = "sleeping" THEN 0 ELSE 1)
    BY <1>3, <1>5, <1>7, NothingYet
  <1>12. /\ late' \in [Calls -> Nat] /\ \A d \in Calls \ {c} : late'[d] = late[d]
         /\ lost' \in [Calls -> Nat]
    BY <1>3 DEF Inv, TypeOK
  <1> HIDE DEF r
  <1> QED
    BY <1>2, <1>3, <1>5, <1>6, <1>10, <1>11, <1>12, Moving DEF r

LEMMA GatewayKeeps ==
  ASSUME Inv, NEW c \in Calls, gatewayFails(c)
  PROVE  Inv'
  <1>1. PICK status \in Failures : Answers(c, status)
    BY DEF gatewayFails
  <1>2. PICK readable \in BOOLEAN :
          Becomes(c, [call[c] EXCEPT !.pc = "answered", !.status = status,
                                     !.readable = readable])
    BY <1>1 DEF Answers
  <1> DEFINE r == [call[c] EXCEPT !.pc = "answered", !.status = status,
                                  !.readable = readable]
  <1>3. call[c].pc = "waiting" /\ PlatformKept
    BY DEF gatewayFails, PlatformKept
  <1>4. call[c] \in CallRecord /\ status \in Nat
    BY HttpTransportAssumption DEF Inv, TypeOK
  <1>5. /\ r \in CallRecord /\ r.pc = "answered" /\ r.status = status
        /\ r.attempt = call[c].attempt
        /\ r.key = call[c].key /\ r.route = call[c].route /\ r.object = call[c].object
    BY <1>4 DEF CallRecord
  <1>6. /\ late' \in [Calls -> Nat] /\ \A d \in Calls \ {c} : late'[d] = late[d]
        /\ late'[c] \in {late[c], late[c] + 1} /\ lost' \in [Calls -> Nat]
    BY DEF gatewayFails, Inv, TypeOK
  <1>7. call'[c] = r
    BY <1>2, <1>5, CallMoves DEF Inv
  <1>8. Truth(c)'
    <2>1. ~is_success(status)
      BY HttpTransportAssumption DEF is_success
    <2>2. build_error(status) \notin {"auth", "validation", "conflict"}
      <3>1. status \notin {400, 401, 403, 409, 422}
        BY HttpTransportAssumption
      <3> QED
        BY <3>1 DEF build_error
    <2> QED
      BY <1>5, <1>7, <2>1, <2>2 DEF Truth, Succeeded, Refused
  <1>9. done'[c] + late'[c] + (IF r.pc = "waiting" THEN 1 ELSE 0)
          <= r.attempt + (IF r.pc = "sleeping" THEN 0 ELSE 1)
    BY <1>3, <1>5, <1>6, NothingYet DEF PlatformKept
  <1> HIDE DEF r
  <1> QED
    BY <1>2, <1>3, <1>5, <1>6, <1>8, <1>9, Moving DEF r

(* What is late belongs to a call that no longer waits for it: a refusal   *)
(* of a first request leaves nothing late.                                 *)
LEMMA ArrivesKeeps ==
  ASSUME Inv, NEW c \in Calls, arrivesLate(c)
  PROVE  Inv'
  <1>1. /\ late[c] > 0 /\ late' = [late EXCEPT ![c] = late[c] - 1] /\ call' = call
        /\ lost' = lost
        /\ (\E status \in Statuses : Handles(c, status)) \/ PlatformKept
    BY DEF arrivesLate, PlatformKept
  <1>2. NewlyDoes(c) \/ PlatformKept
    BY <1>1, Handling
  <1>3. call[c].pc # "idle"
    BY <1>1 DEF Inv, SentInv, Idle, TypeOK, Waits, Sendings
  <1>4. RequestsKept
    BY <1>1 DEF RequestsKept
  <1>5. /\ late' \in [Calls -> Nat] /\ \A d \in Calls \ {c} : late'[d] = late[d]
        /\ late'[c] = late[c] - 1 /\ late[c] \in Nat /\ done[c] \in Nat
    BY <1>1 DEF Inv, TypeOK
  <1>6. /\ \A d \in Calls \ {c} : done'[d] = done[d]
        /\ done'[c] \in {done[c], done[c] + 1}
    BY <1>2, <1>3, PlatformTypes DEF Inv
  <1>7. TypeOK'
    BY <1>1, <1>2, <1>3, <1>5, PlatformTypes DEF Inv, TypeOK
  <1>8. DoneInv'
    BY <1>2, <1>4, DoneWhenKept, DoneWhenDone DEF Inv
  <1>9. SentInv'
    <2>1. ASSUME NEW d \in Calls
          PROVE  done'[d] + late'[d] + Waits(d)' <= call'[d].attempt + Sendings(d)'
      <3>1. done'[d] + late'[d] <= done[d] + late[d]
        BY <1>5, <1>6 DEF Inv, TypeOK
      <3>2. Waits(d)' = Waits(d) /\ Sendings(d)' = Sendings(d) /\ Waits(d) \in Nat
              /\ Sendings(d) \in Nat /\ call'[d].attempt = call[d].attempt
        BY <1>1 DEF Waits, Sendings
      <3>3. done[d] + late[d] + Waits(d) <= call[d].attempt + Sendings(d)
        BY DEF Inv, SentInv
      <3>4. /\ done[d] \in Nat /\ late[d] \in Nat /\ call[d].attempt \in Nat
            /\ done'[d] \in Nat /\ late'[d] \in Nat
        BY <1>7 DEF Inv, TypeOK, CallRecord
      <3> QED
        BY <3>1, <3>2, <3>3, <3>4
    <2> QED
      BY <1>1, <2>1 DEF Inv, SentInv
  <1>10. Truth(c)'
    <2>1. Succeeded(c)' = Succeeded(c) /\ Refused(c)' = Refused(c)
            /\ SameRequest(c)' = SameRequest(c)
      BY <1>1, <1>4, RequestKept DEF Succeeded, Refused
    <2>2. \A d \in Calls : done[d] > 0 => done'[d] > 0
      BY <1>6 DEF Inv, TypeOK
    <2>3. SameRequest(c) \subseteq Calls
      BY DEF SameRequest
    <2>4. ~Refused(c)
      BY <1>1, <1>5 DEF Inv, TruthInv, Truth
    <2> QED
      BY <1>1, <2>1, <2>2, <2>3, <2>4 DEF Inv, TruthInv, Truth
  <1>11. \A d \in Calls \ {c} : Truth(d)'
    BY <1>1, <1>2, <1>3, <1>4, <1>5, TruthOfOthers DEF Inv
  <1> QED
    BY <1>7, <1>8, <1>9, <1>10, <1>11 DEF Inv, TruthInv

-----------------------------------------------------------------------------
(* The theorems                                                            *)

LEMMA InvInit == Init => Inv
  <1> SUFFICES ASSUME Init PROVE Inv
    OBVIOUS
  <1>1. TypeOK
    BY DEF Init, TypeOK, Idle, CallRecord
  <1>2. SentInv
    BY DEF Init, SentInv, Waits, Sendings, Idle
  <1>3. DoneInv
    BY DEF Init, DoneInv, DoneOnce, DoneApart, SameAsked, Idle
  <1>4. TruthInv
    BY DEF Init, TruthInv, Truth, Succeeded, Refused, Idle
  <1> QED
    BY <1>1, <1>2, <1>3, <1>4 DEF Inv

LEMMA InvStutters ==
  ASSUME Inv, UNCHANGED vars
  PROVE  Inv'
  <1>1. TypeOK' /\ SentInv'
    BY DEF Inv, vars, TypeOK, SentInv, Waits, Sendings
  <1>2. DoneInv'
    BY DEF Inv, vars, DoneInv, DoneOnce, DoneApart, SameAsked
  <1>3. TruthInv'
    BY DEF Inv, vars, TruthInv, Truth, Succeeded, Refused, SameRequest
  <1> QED
    BY <1>1, <1>2, <1>3 DEF Inv

THEOREM Invariance == Spec => []Inv
  <1>1. ASSUME Inv, [Next]_vars PROVE Inv'
    <2>1. ASSUME NEW c \in Calls, sdkCall(c) \/ adminCall(c) PROVE Inv'
      BY <1>1, <2>1, BeginsKeeps
    <2>2. ASSUME NEW c \in Calls, answered(c) PROVE Inv'
      BY <1>1, <2>2, AnsweredKeeps
    <2>3. ASSUME NEW c \in Calls, wakes(c) PROVE Inv'
      BY <1>1, <2>3, WakesKeeps
    <2>4. ASSUME NEW c \in Calls, times_out(c) PROVE Inv'
      BY <1>1, <2>4, TimesOutKeeps
    <2>5. ASSUME NEW c \in Calls, handles(c) PROVE Inv'
      BY <1>1, <2>5, HandlesKeeps
    <2>6. ASSUME NEW c \in Calls, arrivesLate(c) PROVE Inv'
      BY <1>1, <2>6, ArrivesKeeps
    <2>7. ASSUME NEW c \in Calls, gatewayFails(c) PROVE Inv'
      BY <1>1, <2>7, GatewayKeeps
    <2>8. CASE UNCHANGED vars
      BY <1>1, <2>8, InvStutters
    <2> QED
      BY <1>1, <2>1, <2>2, <2>3, <2>4, <2>5, <2>6, <2>7, <2>8 DEF Next, Rest
  <1> QED
    BY <1>1, InvInit, PTL DEF Spec

(* Calls, counts and keys are what the code and the network can make them, *)
(* for any number of threads, answers and late arrivals.                   *)
THEOREM TypeCorrect == Spec => []TypeOK
  <1>1. Inv => TypeOK
    BY DEF Inv
  <1> QED
    BY <1>1, Invariance, PTL

(* What bears a key is done once, by whoever makes the request, and nothing *)
(* is done more often than it was sent (begins, headers, Again).           *)
THEOREM Effects == Spec => []EffectsOnce
  <1>1. ASSUME Inv PROVE EffectsOnce
    <2>1. ASSUME NEW c \in Calls PROVE done[c] <= call[c].attempt + 1
      BY <1>1 DEF Inv, SentInv, TypeOK, CallRecord, Waits, Sendings
    <2>2. ASSUME NEW c \in Calls, done[c] > 1 PROVE call[c].key = None
      BY <1>1, <2>2 DEF Inv, DoneInv, DoneOnce
    <2>3. ASSUME NEW c \in Calls, NEW d \in SameRequest(c) \ {c}
          PROVE  done[c] + done[d] <= 1
      <3>1. d \in Calls /\ d # c /\ call[c].key # None /\ call[d].key = call[c].key
        BY <2>3 DEF SameRequest
      <3>2. done[c] \in Nat /\ done[d] \in Nat /\ done[c] <= 1 /\ done[d] <= 1
        BY <1>1, <3>1 DEF Inv, TypeOK, DoneInv, DoneOnce
      <3>3. ~(done[c] > 0 /\ done[d] > 0)
        BY <1>1, <3>1 DEF Inv, DoneInv, DoneApart
      <3> QED
        BY <3>2, <3>3
    <2> QED
      BY <2>1, <2>2, <2>3 DEF EffectsOnce
  <1> QED
    BY <1>1, Invariance, PTL

(* Whoever is told of a success or of a refusal at once is told what       *)
(* happened to the request (answered, build_error).                        *)
THEOREM Truthful == Spec => []ToldTheTruth
  <1>1. Inv => ToldTheTruth
    BY DEF Inv, TruthInv, Truth, Succeeded, Refused, ToldTheTruth
  <1> QED
    BY <1>1, Invariance, PTL

-----------------------------------------------------------------------------
(* Repeats                                                                 *)

(* The transport has a request to send for this call, or one on its way,   *)
(* or an answer in hand after which it will send another.                  *)
MaySend(c) ==
  \/ call[c].pc \in {"idle", "waiting", "sleeping"}
  \/ /\ call[c].pc = "answered" /\ call[c].readable
     /\ ~is_success(call[c].status) /\ is_retryable(c)

(* Of the requests that were done or are late, all but one were lost; while *)
(* another may be sent, all of them were.                                  *)
Accounted(c) == done[c] + late[c] <= lost[c] + (IF MaySend(c) THEN 0 ELSE 1)

LostInv == \A c \in Calls : Accounted(c)

(* The platform does a thing once at a time, and then answers 200.         *)
LEMMA HandlesOnce ==
  ASSUME Inv, NEW c \in Calls, call[c].pc # "idle", NEW status \in Statuses,
         Handles(c, status)
  PROVE  /\ done'[c] \in {done[c], done[c] + 1} /\ \A d \in Calls \ {c} : done'[d] = done[d]
         /\ done'[c] # done[c] => status = 200
  <1>1. (NewlyDoes(c) \/ PlatformKept) /\ (status # 200 => PlatformKept)
    BY Handling
  <1> QED
    BY <1>1, PlatformTypes DEF Inv, PlatformKept

LEMMA LostByCall ==
  ASSUME Inv, LostInv, NEW c \in Calls,
         sdkCall(c) \/ adminCall(c) \/ answered(c) \/ wakes(c) \/ times_out(c)
  PROVE  LostInv'
  <1>1. call[c] \in CallRecord /\ call \in [Calls -> CallRecord] /\ done' = done /\ lost' = lost
    BY DEF Inv, TypeOK, sdkCall, adminCall, begins, answered, wakes, times_out, platform
  <1>2. \A d \in Calls \ {c} : call'[d] = call[d] /\ late'[d] = late[d]
    BY <1>1 DEF Inv, TypeOK, sdkCall, adminCall, begins, answered, wakes, times_out, platform,
                Becomes
  <1>3. ASSUME NEW d \in Calls \ {c} PROVE Accounted(d)'
    BY <1>1, <1>2 DEF LostInv, Accounted, MaySend, is_retryable
  <1>9. SUFFICES Accounted(c)'
    BY <1>3 DEF LostInv
  <1>4. done[c] \in Nat /\ late[c] \in Nat /\ lost[c] \in Nat
    BY DEF Inv, TypeOK
  <1>5. CASE sdkCall(c) \/ adminCall(c)
    <2>1. Begins(c) /\ call[c].pc = "idle" /\ UNCHANGED platform
      BY <1>5, BeginsAny
    <2>2. done[c] + late[c] <= lost[c]
      BY <1>4, <2>1 DEF LostInv, Accounted, MaySend
    <2> QED
      BY <1>4, <2>1, <2>2 DEF Accounted, platform
  <1>6. CASE answered(c)
    <2>1. late' = late
      BY <1>6 DEF answered, platform
    <2>2. CASE MaySend(c)
      BY <1>1, <1>4, <2>1, <2>2 DEF LostInv, Accounted
    <2>3. CASE ~MaySend(c)
      <3>1. call'[c].pc \in {"returned", "raised"}
        BY <1>1, <1>6, <2>3 DEF answered, Becomes, MaySend, Raised, CallRecord
      <3> QED
        BY <1>1, <1>4, <2>1, <2>3, <3>1 DEF LostInv, Accounted, MaySend
    <2> QED
      BY <2>2, <2>3
  <1>7. CASE wakes(c)
    <2>1. call[c].pc = "sleeping" /\ late' = late
      BY <1>7 DEF wakes, platform
    <2> QED
      BY <1>1, <1>4, <2>1 DEF LostInv, Accounted, MaySend
  <1>8. CASE times_out(c)
    <2>1. /\ call[c].pc = "waiting" /\ late'[c] = late[c] + 1
          /\ call'[c] = Raised(c, "httpx")
      BY <1>1, <1>8 DEF times_out, Becomes, Inv, TypeOK
    <2>2. call'[c].pc = "raised"
      BY <1>1, <2>1 DEF Raised, CallRecord
    <2> QED
      BY <1>1, <1>4, <2>1, <2>2 DEF LostInv, Accounted, MaySend
  <1> QED
    BY <1>5, <1>6, <1>7, <1>8

LEMMA LostByNetwork ==
  ASSUME Inv, LostInv, NEW c \in Calls, handles(c) \/ arrivesLate(c) \/ gatewayFails(c)
  PROVE  LostInv'
  <1>1. call[c] \in CallRecord /\ call \in [Calls -> CallRecord]
          /\ done[c] \in Nat /\ late[c] \in Nat /\ lost[c] \in Nat
    BY DEF Inv, TypeOK
  <1>2. call[c].pc # "idle"
    BY DEF handles, gatewayFails, arrivesLate, Inv, SentInv, Idle, TypeOK, Waits, Sendings
  <1>3. \A d \in Calls \ {c} : call'[d] = call[d] /\ late'[d] = late[d] /\ lost'[d] = lost[d]
    BY DEF handles, gatewayFails, arrivesLate, Answers, Becomes, Inv, TypeOK
  <1>4. \A d \in Calls \ {c} : done'[d] = done[d]
    BY <1>2, HandlesOnce DEF handles, gatewayFails, arrivesLate
  <1>5. ASSUME NEW d \in Calls \ {c} PROVE Accounted(d)'
    BY <1>3, <1>4 DEF LostInv, Accounted, MaySend, is_retryable
  <1>9. SUFFICES Accounted(c)'
    BY <1>5 DEF LostInv
  <1>6. CASE handles(c)
    <2>1. PICK status \in Statuses : Handles(c, status) /\ Answers(c, status)
      BY <1>6 DEF handles
    <2>2. call[c].pc = "waiting" /\ late' = late /\ lost' = lost
      BY <1>6 DEF handles
    <2>3. call'[c].pc = "answered" /\ call'[c].status = status
      BY <1>1, <2>1 DEF Answers, Becomes, CallRecord
    <2>4. done[c] + late[c] <= lost[c]
      BY <1>1, <2>2 DEF LostInv, Accounted, MaySend
    <2>5. /\ done'[c] \in {done[c], done[c] + 1}
          /\ done'[c] # done[c] => status = 200
      BY <1>2, <2>1, HandlesOnce
    <2>6. done'[c] # done[c] => ~MaySend(c)'
      BY <2>3, <2>5 DEF MaySend, is_success
    <2> QED
      BY <1>1, <2>2, <2>4, <2>5, <2>6 DEF Accounted
  <1>7. CASE arrivesLate(c)
    <2>1. /\ late[c] > 0 /\ late'[c] = late[c] - 1 /\ lost' = lost /\ call' = call
          /\ done'[c] \in {done[c], done[c] + 1}
      BY <1>1, <1>2, <1>7, HandlesOnce DEF arrivesLate, Inv, TypeOK
    <2>2. MaySend(c)' = MaySend(c)
      BY <2>1 DEF MaySend, is_retryable
    <2> QED
      BY <1>1, <2>1, <2>2 DEF LostInv, Accounted
  <1>8. CASE gatewayFails(c)
    <2>1. /\ call[c].pc = "waiting" /\ done' = done
          /\ \/ late'[c] = late[c] /\ lost'[c] = lost[c]
             \/ late'[c] = late[c] + 1 /\ lost'[c] = lost[c] + 1
      BY <1>8 DEF gatewayFails, Inv, TypeOK
    <2>2. done[c] + late[c] <= lost[c]
      BY <1>1, <2>1 DEF LostInv, Accounted, MaySend
    <2> QED
      BY <1>1, <2>1, <2>2 DEF Accounted
  <1> QED
    BY <1>6, <1>7, <1>8

(* A call is repeated only where the network lost a request that went on   *)
(* (answered, times_out): no answer of the platform is followed by another *)
(* attempt after the thing was done.                                       *)
THEOREM Repeats == Spec => []RepeatsOnlyWhatWasLost
  <1>1. Init => LostInv
    BY DEF Init, LostInv, Accounted, MaySend, Idle
  <1>2. ASSUME Inv, LostInv, [Next]_vars PROVE LostInv'
    <2>1. ASSUME UNCHANGED vars PROVE LostInv'
      BY <1>2, <2>1 DEF vars, LostInv, Accounted, MaySend, is_retryable
    <2> QED
      BY <1>2, <2>1, LostByCall, LostByNetwork DEF Next, Rest
  <1>3. ASSUME Inv, LostInv PROVE RepeatsOnlyWhatWasLost
    <2> SUFFICES ASSUME NEW c \in Calls PROVE done[c] <= lost[c] + 1
      BY DEF RepeatsOnlyWhatWasLost
    <2> QED
      BY <1>3 DEF LostInv, Accounted, Inv, TypeOK
  <1> QED
    BY <1>1, <1>2, <1>3, Invariance, PTL DEF Spec
=============================================================================
