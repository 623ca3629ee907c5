--------------------------- MODULE SecretsProofs ----------------------------
(***************************************************************************)
(* Theorems about the secret cache, for every set of workers and refs,     *)
(* ttl, course of the clock and sequence of replacements.                  *)
(***************************************************************************)
EXTENDS Secrets, SequenceTheorems, TLAPS

-----------------------------------------------------------------------------
(* The invariant                                                           *)

(* Version v of the secret has been held, and still was at time t.         *)
Held(r, v, t) == v \in 1..current[r] /\ t <= now /\ CurrentSince(r, v, t)

GoodEntry(r, entry) ==
  entry # None => Held(r, entry.version, entry.expiresAt - CacheTtlMs)

GoodCall(c) ==
  /\ c.askedAt <= now
  /\ c.pc \in {"looked", "fetching", "fetched"} => c.ref \in Refs
  /\ c.pc = "looked" => GoodEntry(c.ref, c.cached)
  /\ c.pc \in {"fetching", "fetched"} => c.readClock <= c.askedAt
  /\ c.pc = "fetched" => Held(c.ref, c.version, c.askedAt)
  /\ c.pc = "resolved" /\ c.version # 0 =>
       /\ c.ref \in Refs
       /\ Held(c.ref, c.version, c.askedAt - CacheTtlMs - setback)

(* What is in the cache was held when the clock showed a ttl less than its *)
(* expiry, and what a call has read or fetched when it says it was.        *)
Inv ==
  /\ TypeOK
  /\ \A r \in Refs : GoodEntry(r, cache[r])
  /\ \A w \in Workers : GoodCall(resolving[w])

-----------------------------------------------------------------------------
(* Steps of the clock and of the operators                                 *)

(* Time passes, the clock falls behind, and versions are replaced now.     *)
Passes ==
  /\ now \in Nat /\ now' \in Nat /\ setback \in Nat /\ setback' \in Nat
  /\ now <= now' /\ setback <= setback'
  /\ \A r \in Refs :
       /\ current[r] \in Nat /\ current'[r] \in Nat /\ current[r] <= current'[r]
       /\ \A v \in 1..current[r] : v < current'[r] =>
            IF v < current[r] THEN replacedAt'[r][v] = replacedAt[r][v]
                              ELSE replacedAt'[r][v] = now

LEMMA StillPasses ==
  ASSUME TypeOK, UNCHANGED <<current, replacedAt>>,
         now' \in Nat, setback' \in Nat, now <= now', setback <= setback'
  PROVE  Passes
  BY DEF TypeOK, Passes

LEMMA ReplacePasses ==
  ASSUME TypeOK, NEW r \in Refs, Replace(r), UNCHANGED clockVars
  PROVE  Passes
  <1>1. /\ current' = [current EXCEPT ![r] = current[r] + 1]
        /\ replacedAt' = [replacedAt EXCEPT ![r] = Append(replacedAt[r], now)]
        /\ now' = now /\ setback' = setback
    BY DEF Replace, clockVars
  <1>2. /\ now \in Nat /\ setback \in Nat /\ current \in [Refs -> Nat \ {0}]
        /\ DOMAIN replacedAt = Refs
        /\ \A q \in Refs : replacedAt[q] \in Seq(Nat) /\ Len(replacedAt[q]) = current[q] - 1
    BY DEF TypeOK
  <1>3. ASSUME NEW q \in Refs, NEW v \in 1..current[q], v < current'[q]
        PROVE  IF v < current[q] THEN replacedAt'[q][v] = replacedAt[q][v]
                                 ELSE replacedAt'[q][v] = now
    <2>1. CASE q = r
      <3>1. replacedAt'[r] = Append(replacedAt[r], now)
        BY <1>1, <1>2
      <3>2. v \in 1..(Len(replacedAt[r]) + 1) /\ Len(replacedAt[r]) = current[r] - 1
        BY <1>2, <2>1
      <3>3. Append(replacedAt[r], now)[v]
              = IF v <= Len(replacedAt[r]) THEN replacedAt[r][v] ELSE now
        BY <1>2, <3>2
      <3> QED
        BY <1>2, <2>1, <3>1, <3>2, <3>3
    <2>2. CASE q # r
      <3>1. replacedAt'[q] = replacedAt[q] /\ current'[q] = current[q]
        BY <1>1, <1>2, <2>2
      <3> QED
        BY <1>3, <3>1
    <2> QED
      BY <2>1, <2>2
  <1>4. \A q \in Refs : current[q] \in Nat /\ current'[q] \in Nat /\ current[q] <= current'[q]
    BY <1>1, <1>2
  <1> QED
    BY <1>1, <1>2, <1>3, <1>4 DEF Passes

(* What has been held has been held later, and not before.                 *)
LEMMA HeldLater ==
  ASSUME Passes, NEW r \in Refs, NEW v \in Nat, NEW t \in Int, NEW s \in Int,
         s <= t, Held(r, v, t), \A x \in 1..(current[r] - 1) : replacedAt[r][x] \in Nat
  PROVE  Held(r, v, s)'
  <1>1. v \in 1..current[r] /\ t <= now /\ (v < current[r] => replacedAt[r][v] >= t)
    BY DEF Held, CurrentSince
  <1>2. v \in 1..current'[r] /\ s <= now'
    BY <1>1 DEF Passes
  <1>3. ASSUME v < current'[r] PROVE replacedAt'[r][v] >= s
    <2>1. CASE v < current[r]
      <3>1. replacedAt'[r][v] = replacedAt[r][v] /\ replacedAt[r][v] \in Nat
        BY <1>1, <1>3, <2>1 DEF Passes
      <3> QED
        BY <1>1, <2>1, <3>1
    <2>2. CASE ~(v < current[r])
      BY <1>1, <1>3, <2>2 DEF Passes
    <2> QED
      BY <2>1, <2>2
  <1> QED
    BY <1>2, <1>3 DEF Held, CurrentSince

LEMMA ReplacedTimes ==
  ASSUME TypeOK, NEW r \in Refs
  PROVE  \A x \in 1..(current[r] - 1) : replacedAt[r][x] \in Nat
  BY DEF TypeOK

LEMMA EntryLater ==
  ASSUME TypeOK, Passes, NEW r \in Refs, NEW e \in Entry \cup {None}, GoodEntry(r, e)
  PROVE  GoodEntry(r, e)'
  <1>1. CASE e # None
    <2>1. e.version \in Nat /\ e.expiresAt - CacheTtlMs \in Int
      BY <1>1, SecretsAssumption DEF Entry, SecretsAssumption
    <2>2. Held(r, e.version, e.expiresAt - CacheTtlMs)'
      BY <1>1, <2>1, HeldLater, ReplacedTimes DEF GoodEntry
    <2> QED
      BY <2>2 DEF GoodEntry
  <1> QED
    BY <1>1 DEF GoodEntry

LEMMA CallLater ==
  ASSUME TypeOK, Passes, NEW c \in CallRecord, GoodCall(c)
  PROVE  GoodCall(c)'
  <1> DEFINE old == c.askedAt - CacheTtlMs - setback
             new == c.askedAt - CacheTtlMs - setback'
  <1>1. /\ c.askedAt \in Int /\ c.version \in Nat /\ c.cached \in Entry \cup {None}
        /\ old \in Int /\ new \in Int /\ new <= old
    BY SecretsAssumption DEF CallRecord, Passes, SecretsAssumption
  <1>2. c.askedAt <= now'
    BY <1>1 DEF GoodCall, Passes
  <1>3. c.pc = "looked" => GoodEntry(c.ref, c.cached)'
    BY <1>1, EntryLater DEF GoodCall
  <1>4. c.pc = "fetched" => Held(c.ref, c.version, c.askedAt)'
    BY <1>1, HeldLater, ReplacedTimes DEF GoodCall
  <1>5. c.pc = "resolved" /\ c.version # 0 =>
          c.ref \in Refs /\ \A k \in Int : k = new => Held(c.ref, c.version, k)'
    <2> SUFFICES ASSUME c.pc = "resolved", c.version # 0, NEW k \in Int, k = new
                 PROVE  c.ref \in Refs /\ Held(c.ref, c.version, k)'
      BY DEF GoodCall
    <2>1. c.ref \in Refs /\ Held(c.ref, c.version, old)
      BY DEF GoodCall
    <2> HIDE DEF old, new
    <2> QED
      BY <1>1, <2>1, HeldLater, ReplacedTimes
  <1>6. c.pc = "resolved" /\ c.version # 0 =>
          c.ref \in Refs /\ (Held(c.ref, c.version, c.askedAt - CacheTtlMs - setback))'
    BY <1>1, <1>5 DEF Held, CurrentSince
  <1> QED
    BY <1>2, <1>3, <1>4, <1>6 DEF GoodCall

-----------------------------------------------------------------------------
(* Steps of the workers: a worker's call becomes a good call               *)

LEMMA WorkerPasses ==
  ASSUME TypeOK, UNCHANGED <<now, setback, current, replacedAt>>
  PROVE  Passes
  <1>1. now \in Nat /\ setback \in Nat
    BY DEF TypeOK
  <1> QED
    BY <1>1, StillPasses

(* The cache is left alone, or one good entry is put into it.              *)
LEMMA OneCall ==
  ASSUME Inv, NEW w \in Workers, NEW c \in CallRecord, GoodCall(c),
         resolving' = [resolving EXCEPT ![w] = c],
         UNCHANGED <<now, setback, current, replacedAt>>, calls' \in Nat,
         \/ cache' = cache
         \/ \E r \in Refs, e \in Entry :
              GoodEntry(r, e) /\ cache' = [cache EXCEPT ![r] = e]
  PROVE  Inv'
  <1>1. TypeOK /\ Passes
    BY WorkerPasses DEF Inv
  <1>2. /\ resolving \in [Workers -> CallRecord] /\ resolving' \in [Workers -> CallRecord]
        /\ cache \in [Refs -> Entry \cup {None}] /\ cache' \in [Refs -> Entry \cup {None}]
    BY <1>1 DEF TypeOK
  <1>3. TypeOK'
    BY <1>1, <1>2 DEF TypeOK
  <1>4. ASSUME NEW x \in Workers
        PROVE  GoodCall(resolving[x])'
    <2>1. CASE x = w
      <3>1. resolving'[x] = c
        BY <1>2, <2>1
      <3>2. GoodCall(c)'
        BY <1>1, CallLater
      <3> QED
        BY <3>1, <3>2
    <2>2. CASE x # w
      <3>1. PICK d \in CallRecord : d = resolving[x]
        BY <1>2
      <3>2. GoodCall(d)
        BY <3>1 DEF Inv
      <3>3. GoodCall(d)'
        BY <1>1, <3>2, CallLater
      <3>4. resolving'[x] = d
        BY <1>2, <2>2, <3>1
      <3> QED
        BY <3>3, <3>4
    <2> QED
      BY <2>1, <2>2
  <1>5. ASSUME NEW q \in Refs
        PROVE  GoodEntry(q, cache[q])'
    <2>1. PICK e \in Entry \cup {None} : e = cache'[q]
      BY <1>2
    <2>2. GoodEntry(q, e)
      BY <1>2, <2>1 DEF Inv
    <2>3. GoodEntry(q, e)'
      BY <1>1, <2>2, EntryLater
    <2> QED
      BY <2>1, <2>3
  <1> QED
    BY <1>3, <1>4, <1>5 DEF Inv

LEMMA CallsTypes ==
  ASSUME TypeOK, NEW w \in Workers
  PROVE  /\ resolving[w] \in CallRecord /\ now \in Nat /\ setback \in Nat /\ calls \in Nat
         /\ clock \in Int
  BY DEF TypeOK, clock

LEMMA AnswerGood ==
  ASSUME TypeOK, NEW found \in BOOLEAN
  PROVE  Answer(found) \in CallRecord /\ GoodCall(Answer(found))
  <1>1. Answer(found) =
          [pc |-> IF found THEN "resolved" ELSE "raised", ref |-> None, cached |-> None,
           askedAt |-> 0, readClock |-> 0, version |-> 0]
    BY DEF Answer, NotResolving
  <1>2. now \in Nat
    BY DEF TypeOK
  <1> QED
    BY <1>1, <1>2 DEF CallRecord, Returned, GoodCall

(* A call that begins is answered or looks at the cache.                   *)
LEMMA CallsKeepInv ==
  ASSUME Inv, NEW w \in Workers, NEW c \in CallRecord, GoodCall(c), Calls(w, c),
         UNCHANGED cache, UNCHANGED clockVars
  PROVE  Inv'
  <1>1. calls' \in Nat
    BY DEF Calls, StartsCall, Inv, TypeOK
  <1> QED
    BY <1>1, OneCall DEF Calls, clockVars

LEMMA BecomesKeepsInv ==
  ASSUME Inv, NEW w \in Workers, NEW c \in CallRecord, GoodCall(c), Becomes(w, c),
         UNCHANGED clockVars,
         \/ cache' = cache
         \/ \E r \in Refs, e \in Entry :
              GoodEntry(r, e) /\ cache' = [cache EXCEPT ![r] = e]
  PROVE  Inv'
  <1>1. calls' \in Nat
    BY DEF Becomes, Inv, TypeOK
  <1> QED
    BY <1>1, OneCall DEF Becomes, clockVars

LEMMA ResolveKeepsInv ==
  ASSUME Inv, NEW w \in Workers, resolve(w), UNCHANGED clockVars
  PROVE  Inv'
  <1>1. PICK ref \in Refs, provider \in Providers, policy \in Policies :
          Calls(w, IF Permitted(provider, policy) THEN Looked(ref) ELSE Answer(FALSE))
    BY DEF resolve
  <1>2. UNCHANGED cache /\ TypeOK
    BY DEF resolve, Inv
  <1>3. CASE Permitted(provider, policy)
    <2>1. PICK c : c = [pc |-> "looked", ref |-> ref, cached |-> cache[ref],
                        askedAt |-> 0, readClock |-> 0, version |-> 0]
      OBVIOUS
    <2>2. cache[ref] \in Entry \cup {None} /\ now \in Nat
      BY <1>2 DEF TypeOK
    <2>3. c \in CallRecord
      BY <2>1, <2>2 DEF CallRecord
    <2>4. GoodCall(c)
      BY <2>1, <2>2 DEF GoodCall, Inv
    <2>5. Calls(w, c)
      BY <1>1, <1>3, <2>1 DEF Looked
    <2> QED
      BY <1>2, <2>3, <2>4, <2>5, CallsKeepInv
  <1>4. CASE ~Permitted(provider, policy)
    BY <1>1, <1>2, <1>4, AnswerGood, CallsKeepInv
  <1> QED
    BY <1>3, <1>4

(* A live entry was held less than a ttl before the clock was read.        *)
LEMMA HitKeepsInv ==
  ASSUME Inv, NEW w \in Workers, hit(w), UNCHANGED clockVars
  PROVE  Inv'
  <1>1. PICK old \in CallRecord : old = resolving[w]
    BY CallsTypes DEF Inv
  <1>2. old.pc = "looked" /\ GoodCall(old) /\ Alive(old.cached)
    BY <1>1 DEF hit, Inv
  <1>3. PICK c : c = [old EXCEPT !.pc = "resolved", !.version = old.cached.version,
                                !.cached = None, !.askedAt = now]
    OBVIOUS
  <1>4. /\ old.cached \in Entry /\ now \in Nat /\ setback \in Nat /\ CacheTtlMs \in Nat
        /\ old.cached.version \in Nat /\ old.cached.expiresAt \in Int
        /\ old.cached.expiresAt > now - setback
    BY <1>1, <1>2, CallsTypes, SecretsAssumption
       DEF CallRecord, Entry, Alive, clock, Inv, SecretsAssumption
  <1>5. /\ c.pc = "resolved" /\ c.version = old.cached.version /\ c.askedAt = now
        /\ c.ref = old.ref /\ c \in CallRecord
    BY <1>1, <1>3, <1>4 DEF CallRecord, Returned
  <1>6. old.ref \in Refs /\ Held(old.ref, old.cached.version, old.cached.expiresAt - CacheTtlMs)
    BY <1>2, <1>4 DEF GoodCall, GoodEntry, Alive
  <1>7. Held(old.ref, old.cached.version, now - CacheTtlMs - setback)
    <2>1. now - CacheTtlMs - setback <= old.cached.expiresAt - CacheTtlMs
      BY <1>4
    <2>2. \A x \in 1..(current[old.ref] - 1) : replacedAt[old.ref][x] \in Nat
      BY <1>6, ReplacedTimes DEF Inv
    <2>3. current[old.ref] \in Nat
      BY <1>6 DEF Inv, TypeOK
    <2> QED
      BY <1>4, <1>6, <2>1, <2>2, <2>3 DEF Held, CurrentSince
  <1>8. GoodCall(c)
    BY <1>4, <1>5, <1>6, <1>7 DEF GoodCall
  <1>9. Becomes(w, c) /\ cache' = cache
    BY <1>1, <1>3 DEF hit
  <1> QED
    BY <1>5, <1>8, <1>9, BecomesKeepsInv

LEMMA MissKeepsInv ==
  ASSUME Inv, NEW w \in Workers, miss(w), UNCHANGED clockVars
  PROVE  Inv'
  <1>1. PICK old \in CallRecord : old = resolving[w]
    BY CallsTypes DEF Inv
  <1>2. old.pc = "looked" /\ GoodCall(old)
    BY <1>1 DEF miss, Inv
  <1>3. PICK c : c = [old EXCEPT !.pc = "fetching", !.cached = None, !.askedAt = now,
                                !.readClock = clock]
    OBVIOUS
  <1>4. now \in Nat /\ setback \in Nat /\ clock \in Int /\ clock <= now
    BY CallsTypes DEF Inv, clock
  <1>5. /\ c.pc = "fetching" /\ c.askedAt = now /\ c.readClock = clock
        /\ c.ref = old.ref /\ c \in CallRecord
    BY <1>1, <1>3, <1>4 DEF CallRecord, Returned
  <1>6. GoodCall(c)
    BY <1>2, <1>4, <1>5 DEF GoodCall
  <1>7. Becomes(w, c) /\ cache' = cache
    BY <1>1, <1>3 DEF miss
  <1> QED
    BY <1>5, <1>6, <1>7, BecomesKeepsInv

LEMMA FetchKeepsInv ==
  ASSUME Inv, NEW w \in Workers, fetch(w), UNCHANGED clockVars
  PROVE  Inv'
  <1>1. PICK old \in CallRecord : old = resolving[w]
    BY CallsTypes DEF Inv
  <1>2. old.pc = "fetching" /\ GoodCall(old)
    BY <1>1 DEF fetch, Inv
  <1>3. PICK c : c = [old EXCEPT !.pc = "fetched", !.version = current[old.ref]]
    OBVIOUS
  <1>4. old.ref \in Refs /\ old.askedAt <= now /\ old.readClock <= old.askedAt
    BY <1>2 DEF GoodCall
  <1>5. current[old.ref] \in Nat \ {0}
    BY <1>4 DEF Inv, TypeOK
  <1>6. /\ c.pc = "fetched" /\ c.version = current[old.ref] /\ c.askedAt = old.askedAt
        /\ c.readClock = old.readClock /\ c.ref = old.ref /\ c \in CallRecord
    BY <1>1, <1>3, <1>5 DEF CallRecord, Returned
  <1>7. Held(old.ref, current[old.ref], old.askedAt)
    BY <1>4, <1>5 DEF Held, CurrentSince
  <1>8. GoodCall(c)
    BY <1>4, <1>6, <1>7 DEF GoodCall
  <1>9. Becomes(w, c) /\ cache' = cache
    BY <1>1, <1>3 DEF fetch
  <1> QED
    BY <1>6, <1>8, <1>9, BecomesKeepsInv

(* The entry is dated from before the fetch.                               *)
LEMMA FillKeepsInv ==
  ASSUME Inv, NEW w \in Workers, fill(w), UNCHANGED clockVars
  PROVE  Inv'
  <1>1. PICK old \in CallRecord : old = resolving[w]
    BY CallsTypes DEF Inv
  <1>2. old.pc = "fetched" /\ GoodCall(old)
    BY <1>1 DEF fill, Inv
  <1>3. PICK c : c = [old EXCEPT !.pc = "resolved", !.readClock = 0]
    OBVIOUS
  <1>4. PICK e : e = [expiresAt |-> ExpiresAt(old), version |-> old.version]
    OBVIOUS
  <1>5. /\ old.version \in Nat /\ old.askedAt \in Nat /\ old.readClock \in Int
        /\ setback \in Nat /\ CacheTtlMs \in Nat
    BY <1>1, CallsTypes, SecretsAssumption DEF Inv, CallRecord, SecretsAssumption
  <1>6. /\ old.ref \in Refs /\ old.askedAt <= now /\ old.readClock <= old.askedAt
        /\ Held(old.ref, old.version, old.askedAt)
    BY <1>2 DEF GoodCall
  <1>7. /\ c.pc = "resolved" /\ c.version = old.version /\ c.askedAt = old.askedAt
        /\ c.ref = old.ref /\ c \in CallRecord
    <2>1. c.pc = "resolved" /\ c.version = old.version /\ c.askedAt = old.askedAt
          /\ c.ref = old.ref
      BY <1>1, <1>3 DEF CallRecord
    <2>2. c \in CallRecord
      BY <1>1, <1>3, 0 \in Int, "resolved" \in Returned DEF CallRecord, Returned
    <2> QED
      BY <2>1, <2>2
  <1>8. ASSUME NEW s \in Int, s <= old.askedAt
        PROVE  Held(old.ref, old.version, s)
    <2>1. current[old.ref] \in Nat /\ \A x \in 1..(current[old.ref] - 1) :
            replacedAt[old.ref][x] \in Nat
      BY <1>6, ReplacedTimes DEF Inv, TypeOK
    <2>2. now \in Nat
      BY DEF Inv, TypeOK
    <2> QED
      BY <1>5, <1>6, <1>8, <2>1, <2>2 DEF Held, CurrentSince
  <1>9. GoodCall(c)
    <2>1. old.askedAt - CacheTtlMs - setback \in Int
          /\ old.askedAt - CacheTtlMs - setback <= old.askedAt
      BY <1>5
    <2>2. Held(old.ref, old.version, old.askedAt - CacheTtlMs - setback)
      BY <1>8, <2>1
    <2> QED
      BY <1>6, <1>7, <2>2 DEF GoodCall
  <1>10. e \in Entry /\ GoodEntry(old.ref, e)
    <2>1. e.expiresAt = old.readClock + CacheTtlMs /\ e.version = old.version
          /\ e \in Entry
      BY <1>4, <1>5 DEF ExpiresAt, Entry
    <2>2. e.expiresAt - CacheTtlMs = old.readClock
      BY <1>5, <2>1
    <2> QED
      BY <1>5, <1>6, <1>8, <2>1, <2>2 DEF GoodEntry
  <1>11. Becomes(w, c) /\ cache' = [cache EXCEPT ![old.ref] = e]
    BY <1>1, <1>3, <1>4 DEF fill
  <1> QED
    BY <1>6, <1>7, <1>9, <1>10, <1>11, BecomesKeepsInv

-----------------------------------------------------------------------------
(* The other steps                                                         *)

LEMMA PassesKeepsInv ==
  ASSUME Inv, Passes, UNCHANGED <<cache, resolving>>, TypeOK'
  PROVE  Inv'
  <1>1. ASSUME NEW x \in Workers
        PROVE  GoodCall(resolving[x])'
    <2>1. PICK d \in CallRecord : d = resolving[x]
      BY DEF Inv, TypeOK
    <2>2. GoodCall(d)'
      BY <2>1, CallLater DEF Inv
    <2> QED
      BY <2>1, <2>2
  <1>2. ASSUME NEW q \in Refs
        PROVE  GoodEntry(q, cache[q])'
    <2>1. PICK e \in Entry \cup {None} : e = cache[q]
      BY DEF Inv, TypeOK
    <2>2. GoodEntry(q, e)'
      BY <2>1, EntryLater DEF Inv
    <2> QED
      BY <2>1, <2>2
  <1> QED
    BY <1>1, <1>2 DEF Inv

LEMMA ReplaceType ==
  ASSUME TypeOK, NEW r \in Refs, Replace(r), UNCHANGED clockVars
  PROVE  TypeOK'
  <1>1. /\ current' = [current EXCEPT ![r] = current[r] + 1]
        /\ replacedAt' = [replacedAt EXCEPT ![r] = Append(replacedAt[r], now)]
        /\ UNCHANGED <<now, setback, calls, cache, resolving>>
    BY DEF Replace, clockVars
  <1>2. /\ now \in Nat /\ current \in [Refs -> Nat \ {0}] /\ DOMAIN replacedAt = Refs
        /\ \A q \in Refs : replacedAt[q] \in Seq(Nat) /\ Len(replacedAt[q]) = current[q] - 1
    BY DEF TypeOK
  <1>3. current' \in [Refs -> Nat \ {0}] /\ DOMAIN replacedAt' = Refs
    BY <1>1, <1>2
  <1>4. ASSUME NEW q \in Refs
        PROVE  replacedAt'[q] \in Seq(Nat) /\ Len(replacedAt'[q]) = current'[q] - 1
    <2>1. CASE q = r
      <3>1. replacedAt'[q] = Append(replacedAt[q], now) /\ current'[q] = current[q] + 1
        BY <1>1, <1>2, <2>1
      <3> QED
        BY <1>2, <3>1
    <2>2. CASE q # r
      BY <1>1, <1>2, <2>2
    <2> QED
      BY <2>1, <2>2
  <1> QED
    BY <1>1, <1>3, <1>4 DEF TypeOK

LEMMA InitInv == Init => Inv
  <1> SUFFICES ASSUME Init PROVE Inv
    OBVIOUS
  <1>1. NotResolving \in CallRecord
    BY DEF NotResolving, CallRecord, Returned
  <1>2. \A r \in Refs : replacedAt[r] = <<>> /\ current[r] = 1
    BY DEF Init
  <1>3. TypeOK
    BY <1>1, <1>2 DEF Init, ClockInit, TypeOK
  <1>4. \A r \in Refs : GoodEntry(r, cache[r])
    BY DEF Init, GoodEntry
  <1>5. ASSUME NEW w \in Workers
        PROVE  GoodCall(resolving[w])
    BY DEF Init, ClockInit, NotResolving, GoodCall
  <1> QED
    BY <1>3, <1>4, <1>5 DEF Inv

LEMMA NextInv ==
  ASSUME Inv, [Next]_vars
  PROVE  Inv'
  <1>1. ASSUME NEW w \in Workers, resolveUnknown(w), UNCHANGED clockVars
        PROVE  Inv'
    BY <1>1, AnswerGood, CallsKeepInv DEF resolveUnknown, Inv
  <1>2. ASSUME NEW w \in Workers, resolveEnvironment(w), UNCHANGED clockVars
        PROVE  Inv'
    <2>1. PICK found \in BOOLEAN : Calls(w, Answer(found)) /\ UNCHANGED cache
      BY <1>2 DEF resolveEnvironment, Permitted
    <2> QED
      BY <1>2, <2>1, AnswerGood, CallsKeepInv DEF Inv
  <1>3. ASSUME NEW w \in Workers, resolveStub(w), UNCHANGED clockVars
        PROVE  Inv'
    <2>1. PICK found \in BOOLEAN : Calls(w, Answer(found)) /\ UNCHANGED cache
      BY <1>3 DEF resolveStub, Permitted
    <2> QED
      BY <1>3, <2>1, AnswerGood, CallsKeepInv DEF Inv
  <1>4. ASSUME NEW w \in Workers, fetchRaises(w), UNCHANGED clockVars
        PROVE  Inv'
    BY <1>4, AnswerGood, BecomesKeepsInv DEF fetchRaises, Inv
  <1>5. ASSUME NEW r \in Refs, Replace(r), UNCHANGED clockVars
        PROVE  Inv'
    <2>1. UNCHANGED <<cache, resolving>> /\ TypeOK
      BY <1>5 DEF Replace, Inv
    <2> QED
      BY <1>5, <2>1, ReplacePasses, ReplaceType, PassesKeepsInv
  <1>6. ASSUME Tick \/ SetBack, UNCHANGED secretVars
        PROVE  Inv'
    <2>1. /\ now \in Nat /\ setback \in Nat /\ now' \in Nat /\ setback' \in Nat
          /\ now <= now' /\ setback <= setback' /\ calls' = calls
      BY <1>6, WorkerClockAssumption DEF Tick, SetBack, Inv, TypeOK, WorkerClockAssumption
    <2>2. UNCHANGED <<current, replacedAt, cache, resolving>> /\ TypeOK
      BY <1>6 DEF secretVars, Inv
    <2>3. TypeOK'
      BY <2>1, <2>2 DEF TypeOK
    <2> QED
      BY <2>1, <2>2, <2>3, StillPasses, PassesKeepsInv
  <1>7. ASSUME UNCHANGED vars
        PROVE  Inv'
    BY <1>7 DEF vars, Inv, TypeOK, GoodEntry, GoodCall, Held, CurrentSince
  <1> QED
    BY <1>1, <1>2, <1>3, <1>4, <1>5, <1>6, <1>7, ResolveKeepsInv, HitKeepsInv, MissKeepsInv,
       FetchKeepsInv, FillKeepsInv DEF Next, ContinueResolve, Rest

(* Every reachable state satisfies the invariant.                          *)
THEOREM Invariant == Spec => []Inv
  BY InitInv, NextInv, PTL DEF Spec

(* AwsSecretsManagerSecretBackend.resolve returns no secret that had been  *)
(* replaced a ttl before it read the clock, for any number of threads,     *)
(* whatever the delays of their fetches.                                   *)
THEOREM Freshness == Spec => []SecretFresh
  <1>1. Inv => SecretFresh
    BY DEF Inv, GoodCall, Held, SecretFresh
  <1> QED
    BY <1>1, Invariant, PTL

(* Every variable of the secret backends keeps its type.                   *)
THEOREM TypeCorrect == Spec => []TypeOK
  <1>1. Inv => TypeOK
    BY DEF Inv
  <1> QED
    BY <1>1, Invariant, PTL

=============================================================================
