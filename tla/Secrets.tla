------------------------------ MODULE Secrets -------------------------------
(***************************************************************************)
(* Secret backends (python/packages/cip/.../secrets.py): a registry of     *)
(* backends, and the AWS backend's cache, which threads fill without a     *)
(* lock while operators replace the secrets.  A secret's value is the      *)
(* number of its version.                                                  *)
(***************************************************************************)
EXTENDS WorkerClock, Sequences

CONSTANTS
  Refs,         \* VaultReference.ref
  Providers,    \* VaultReference.provider
  EnvKey,       \* the environment variable each ref is written as
  Environ,      \* the environment variables that are set
  StubValues,   \* the <<provider, ref>> pairs a StubVaultResolver is given
  CacheTtlMs,   \* cache_ttl_ms
  MaxVersions   \* bound: versions of a secret

ASSUME SecretsAssumption == CacheTtlMs \in Nat /\ MaxVersions \in Nat

VARIABLES
  current,      \* the version AWS Secrets Manager holds
  replacedAt,   \* when each older version was replaced
  cache,        \* _cache of the AWS backend
  resolving     \* each worker's last call of resolve()

secretVars == <<current, replacedAt, cache, resolving>>

vars == <<now, setback, calls, current, replacedAt, cache, resolving>>

Entry == [expiresAt: Int, version: Nat]

Returned == {"idle", "resolved", "raised"}

(* askedAt: the time at which the call read the clock; readClock: what it  *)
(* read, now_ms, while that matters.                                       *)
CallRecord ==
  [pc: Returned \cup {"looked", "fetching", "fetched"}, ref: Refs \cup {None},
   cached: Entry \cup {None}, askedAt: Nat, readClock: Int, version: Nat]

NotResolving ==
  [pc |-> "idle", ref |-> None, cached |-> None, askedAt |-> 0, readClock |-> 0,
   version |-> 0]

Init ==
  /\ ClockInit
  /\ current = [r \in Refs |-> 1]
  /\ replacedAt = [r \in Refs |-> <<>>]
  /\ cache = [r \in Refs |-> None]
  /\ resolving = [w \in Workers |-> NotResolving]

-----------------------------------------------------------------------------
(* _enforce_access_policy; no policy permits every provider.               *)
Permitted(provider, policy) == policy = None \/ provider \in policy

Policies == {None} \cup SUBSET Providers

Calls(w, call) ==
  /\ resolving[w].pc \in Returned
  /\ StartsCall
  /\ resolving' = [resolving EXCEPT ![w] = call]
  /\ UNCHANGED <<current, replacedAt>>

Answer(found) == [NotResolving EXCEPT !.pc = IF found THEN "resolved" ELSE "raised"]

(* SecretBackendRegistry.resolve of a backend that is not registered.      *)
resolveUnknown(w) == Calls(w, Answer(FALSE)) /\ UNCHANGED cache

(* EnvironmentSecretResolver.resolve and StubVaultResolver.resolve         *)
resolveEnvironment(w) ==
  /\ \E ref \in Refs, provider \in Providers, policy \in Policies :
       Calls(w, Answer(Permitted(provider, policy) /\ EnvKey[ref] \in Environ))
  /\ UNCHANGED cache

resolveStub(w) ==
  /\ \E ref \in Refs, provider \in Providers, policy \in Policies :
       Calls(w, Answer(Permitted(provider, policy) /\ <<provider, ref>> \in StubValues))
  /\ UNCHANGED cache

Looked(ref) ==
  [pc |-> "looked", ref |-> ref, cached |-> cache[ref], askedAt |-> 0, readClock |-> 0,
   version |-> 0]

(* AwsSecretsManagerSecretBackend.resolve: the policy, and the cache read. *)
resolve(w) ==
  /\ \E ref \in Refs, provider \in Providers, policy \in Policies :
       Calls(w, IF Permitted(provider, policy) THEN Looked(ref) ELSE Answer(FALSE))
  /\ UNCHANGED cache

(* The worker's call goes on as the record says.                           *)
Becomes(w, call) ==
  /\ resolving' = [resolving EXCEPT ![w] = call]
  /\ UNCHANGED <<current, replacedAt, calls>>

Alive(entry) == entry # None /\ entry.expiresAt > clock

(* The clock is read after the cache: the entry is alive, or it is not.    *)
hit(w) ==
  LET call == resolving[w]
  IN /\ call.pc = "looked" /\ Alive(call.cached)
     /\ Becomes(w, [call EXCEPT !.pc = "resolved", !.version = call.cached.version,
                                !.cached = None, !.askedAt = now])
     /\ UNCHANGED cache

miss(w) ==
  LET call == resolving[w]
  IN /\ call.pc = "looked" /\ ~Alive(call.cached)
     /\ Becomes(w, [call EXCEPT !.pc = "fetching", !.cached = None, !.askedAt = now,
                                !.readClock = clock])
     /\ UNCHANGED cache

(* get_secret_value                                                        *)
fetch(w) ==
  LET call == resolving[w]
  IN /\ call.pc = "fetching"
     /\ Becomes(w, [call EXCEPT !.pc = "fetched", !.version = current[call.ref]])
     /\ UNCHANGED cache

(* The request fails, or the secret has no SecretString.                   *)
fetchRaises(w) ==
  /\ resolving[w].pc = "fetching"
  /\ Becomes(w, Answer(FALSE))
  /\ UNCHANGED cache

Slip_FromTheAnswer(call) == clock + CacheTtlMs

(* The entry expires a ttl after the clock was read, not after the answer. *)
ExpiresAt(call) == call.readClock + CacheTtlMs

fill(w) ==
  LET call == resolving[w]
  IN /\ call.pc = "fetched"
     /\ cache' = [cache EXCEPT ![call.ref] =
                    [expiresAt |-> ExpiresAt(call), version |-> call.version]]
     /\ Becomes(w, [call EXCEPT !.pc = "resolved", !.readClock = 0])

(* An operator puts a new version of the secret.                           *)
Replace(r) ==
  /\ current[r] < MaxVersions
  /\ current' = [current EXCEPT ![r] = @ + 1]
  /\ replacedAt' = [replacedAt EXCEPT ![r] = Append(@, now)]
  /\ UNCHANGED <<cache, resolving, calls>>

ContinueResolve(w) == hit(w) \/ miss(w) \/ fetch(w) \/ fetchRaises(w) \/ fill(w)

(* Every worker has done its calls.                                        *)
Rest ==
  /\ \A w \in Workers : resolving[w].pc \in Returned
  /\ UNCHANGED vars

Next ==
  \/ (\E w \in Workers :
         \/ resolveUnknown(w) \/ resolveEnvironment(w) \/ resolveStub(w) \/ resolve(w)
         \/ ContinueResolve(w)) /\ UNCHANGED clockVars
  \/ (\E r \in Refs : Replace(r)) /\ UNCHANGED clockVars
  \/ (Tick \/ SetBack) /\ UNCHANGED secretVars
  \/ Rest

Spec == Init /\ [][Next]_vars

-----------------------------------------------------------------------------
(* Every variable holds what the code can put in it.                       *)
TypeOK ==
  /\ now \in Nat /\ setback \in Nat /\ calls \in Nat
  /\ current \in [Refs -> Nat \ {0}]
  /\ DOMAIN replacedAt = Refs
  /\ \A r \in Refs : replacedAt[r] \in Seq(Nat) /\ Len(replacedAt[r]) = current[r] - 1
  /\ cache \in [Refs -> Entry \cup {None}]
  /\ resolving \in [Workers -> CallRecord]

(* Version v of the secret was the current one at a time not before t.     *)
CurrentSince(r, v, t) == v < current[r] => replacedAt[r][v] >= t

(* A resolved secret still was the current one a ttl before the clock was  *)
(* read, or as much earlier as the clock has been set back: whoever filled *)
(* the cache, however long its fetch took, and in whatever order two slow  *)
(* fetches of different versions filled it.                                *)
SecretFresh ==
  \A w \in Workers :
    LET call == resolving[w]
    IN call.pc = "resolved" /\ call.version # 0 =>
         CurrentSince(call.ref, call.version, call.askedAt - CacheTtlMs - setback)

=============================================================================
