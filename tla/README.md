# CIP control plane: a verification project

TLA+ models of the Control & Integration Plane in this repository, model-checked
with TLC on small instances, and theorems about them checked by TLAPS for every
value of the constants. `PROJECT.json` ties every definition to the source lines
it stands for and lists the runs, mutants, findings, hazards and theorems.

Contents: [the system](#the-system) ·
[the modules and the code](#the-modules-and-the-code) ·
[the runs](#the-runs) · [bounds](#bounds) · [fairness](#fairness) ·
[the proofs](#the-proofs) ·
[where code and documents disagree](#where-code-and-documents-disagree) ·
[what is not modelled](#what-is-not-modelled) · [plan](#plan)

Paths below are short: `cip-control-plane.ts` is
`typescript/packages/cip/src/services/cip-control-plane.ts`, other TypeScript
paths are under `typescript/packages/cip/src/`, `control_plane.py` and other
Python files under `python/packages/cip/src/new_odyssey_cip/`.

## The system

CIP is a library that governs AI-agent runs. It exists twice: in TypeScript,
where every repository operation is awaited, and in Python, where every call is
synchronous and a host may make calls from several threads. All state is in
repositories that a host injects; in-memory ones are supplied. Nothing spans two
repository operations: there is no transaction, no compare-and-set on `revision`,
and the only locks are the quota coordinators'.

| Component | State | Operations | Talks to | What makes it correct |
|---|---|---|---|---|
| Run sessions (`cip-control-plane.ts` 947-1476) | `runSessions`, `approvalRequests`, `disclosureRecords`, `humanReviewRecords`, `runEvents`, `auditEvents`, `evidenceBundles` | start, complete, request/resolve approval, disclosure, review, append event, replay | deployments (read), telemetry | completion is gated; a waiting session names its request; a client's events keep their order; a bundle lists a closing event; the trail is complete; replay agrees with the status |
| Deployments and compliance (`cip-control-plane.ts` 686-945) | `deployments`, `complianceProfiles`, `complianceArtifacts`, `auditEvents` | deploy, transition, rollback, upsert profile, create artifact | blueprints (read), sessions | high-risk activation is gated; retired is final; one profile; the audit trail explains the state; runs start on active deployments |
| Registries (`control_plane.py`; counterpart `cip-control-plane.ts` 376-684) | tenants, connector definitions and bindings, credential bindings, policy packs, guardrails, blueprints | register, publish, create | deployments, sessions, evidence | tenants stay apart; what was released stays pinned; evidence names what governed; every change is audited; chosen versions are new |
| Quota coordinator (`connectors/quota.ts`) | `connectorRateBuckets`, `bucketLocks` (a chain of promises per bucket) | `acquire` | connector stubs | mutual exclusion, order, the rate, a sufficient `retryAfterMs`, every call returns, no lock left behind |
| Connectors (`connectors.py`) | `connector_rate_buckets`, a lock per bucket key | `acquire`; `healthcheck` and `invoke` of the HTTP backend and the stubs | external systems | leases within the budget, a lease for each request, a sufficient `retry_after_ms`, every call returns |
| Secrets (`secrets.py`; counterpart `secrets/resolver.ts`) | a cache with expiry, without a lock | `resolve` of each backend, by way of a registry | AWS Secrets Manager, the environment | nothing is served long after it was replaced |
| HTTP transports and clients (`client.py`) | none; server state behind HTTP | one method per route, retry, idempotency keys, tokens | a hosted platform | what bears a key is done once; nothing is repeated that did not have to be; callers are told the truth; every call ends |
| HTTP transport and client (`client/transports.ts`, `client/client.ts`) | none | the same routes | a hosted platform | a keyed batch is stored once, whatever is repeated, lost or late |
| Keyed ingest (`appendRunEvent` with `input.id`, `cip-control-plane.ts` 1184-1226) | `runEvents` | look up, count, append | a platform's workers | a batch started over neither replaces nor misses an event, and keeps its order |
| Run tracker (`client/run-tracker.ts`) | none | send batches, poll | client | what it reports as ingested is stored |
| Runtime adapters, admin stubs | none | forwarding | | (no state of their own) |
| Conformance package | none | checks run against a target | control plane | (a test harness) |

How they interact: a client or the run tracker calls a transport; the local
transport calls the control plane directly, the HTTP transport a server that
does. A session's handlers read its deployment and the deployment's profile;
the end of a session reads its deployment and the blueprint that this names;
every handler writes audit events; a connector acquires a lease before it calls
out.

What is hard in this code:

- **A handler is a sequence of awaits** (or, in a threaded Python host, of
  repository calls). Between two of them any other handler may run, and a record
  read before is saved after (`touchRecord` computes the next revision of
  whatever was read; `save` overwrites the stored record).
- **Effects come one by one.** A handler saves its record, then appends run
  events, then the audit event, then the bundle. When an await rejects, or the
  telemetry sink throws, the rest is not done and nothing is undone.
- **Sequence numbers are counts.** `appendRunEvent` lists, awaits, and appends
  under the length it read plus one. The next version of a definition is chosen
  from a list that another registration may be about to lengthen, and by the
  order of strings.
- **Delivery is at least once.** A request is repeated although it may have been
  applied, one that was given up may still arrive, and a job is started over after
  half of its events have been appended. Every route is repeated; three take a key.
- **The lock is a chain of promises** in a map, from which an entry is deleted
  only if it is still the last one. In Python it is a lock per bucket, and a lease
  is used after it is released.
- **Time is a wall clock** that is read several times in one operation and may be
  set back: a refill over a negative interval, a cache entry that lives longer.
- **The two control planes must agree**, although one is interleaved and the
  other is not.

## The modules and the code

    RunSessionRecords ── RunSessions ── RunSessionsProperties ── RunSessionsRefinement ─┬─ MCRunSessions
            └──────────── AtomicRunSessions ─ ─ ─ ─ ─ (INSTANCE) ─ ─ ─ ─ ─ ┘            └─ RunSessionsProofs
    Deployments ── DeploymentsProperties ─── DeploymentsRefinement ─┬─ MCDeployments
                     AtomicDeployments ─ ─ ─ ─ ─ ─ (INSTANCE) ┘     └─ DeploymentsProofs
    Registry ──────────── MCRegistry, RegistryProofs
    WorkerClock ─┬─ Connectors ── MCConnectors, ConnectorsProofs
                 └─ Secrets ───── MCSecrets, SecretsProofs
    HttpTransport ─────── MCHttpTransport, HttpTransportProofs
    QuotaBucket ───────── MCQuotaBucket, QuotaBucketProofs
    Delivery ──────────── MCDelivery, DeliveryProofs

**How a handler is modelled.** Each caller has one call in flight at a time. Its
call is a record `call[c]` (`job[c]`, `resolving[w]`) with a program counter `pc`
and the values the handler has read and will use later (`record`, `count`,
`bundle`, ...). The first action of a handler (`startRunSession(c)`, ...) is
everything up to its first await that matters; each further action
(`saveSession(c)`, `countRunEvents(c)`, ...) is one await's continuation, or in
Python what a thread does between two operations on shared state. A call that the
code refuses changes nothing and is not a step. `Reject(c)`, `Raises(c)` and
`repositoryRaises(w)` end a call where a repository operation or a telemetry sink
may throw, before or after the operation took effect. Operators named `Slip_...`
are faulty variants of the definition after them; no specification uses them.
They are the mutants of `PROJECT.json`.

- `RunSessionRecords` declares the ids, profiles and batches clients choose from
  and the records. A compliance profile is reduced to what completion reads of
  it; an approval decision to approved or not (every other decision takes the
  same branch); payloads, actors, timestamps and telemetry are left out.
- `RunSessions` is the session part of the TypeScript control plane. After the
  saves of a handler come its *effects*, in the order of the code: a list `todo`
  of run events, audit events and `"bundle"`. `countRunEvents` and
  `appendRunEvent` are the two halves of `appendRunEvent`; `readRunEvents`,
  `readAuditEvents`, `readExistingBundle`, `persistEvidenceBundle` are the awaits
  of `persistEvidenceBundle`. An evidence bundle is the lengths of the two
  streams it listed. The deployment's profile is chosen when a session starts
  (`Deployments` says which one it is). `enqueueEvents` is the local transport's:
  a batch of appends.
- `AtomicRunSessions` is the same part of the Python control plane: one step per
  handler, which is what a handler is for a client on one thread.
- `RunSessionsRefinement` maps the first to the second: the Python state is what
  the repositories *will be* when the call in flight has returned.
- `Deployments`, `AtomicDeployments`, `DeploymentsRefinement` do the same for
  deployments. The six required artifact kinds are a constant `Kinds`; an
  artifact's status is whether it is the one its kind requires. Reads of records
  that are never deleted (the deployment's existence, the blueprint) are part of
  the step before them. `startRunSession` goes up to the save of the session.
  With `ReuseIds` clients repeat their ids, and a save replaces what is stored; `held`
  is history: what each artifact's id has ever been stored with.
- `Registry` is the rest of the Python control plane, called by threads. A
  handler reads and checks in its first step, then `save`, then
  `_record_audit_event`; `complete_run_session` goes on to
  `_persist_evidence_bundle`, which reads the deployment and the blueprint as they
  then are. All repositories are one function `stored` from ids (disjoint sets,
  one per kind) to records. The version `n` stands for `"1.0.n"`, and `Greatest`
  orders versions by their digits, as `max()` orders strings.
  `increment_patch_version` is the choice of the next one. Policy packs have no
  automatic version. `Raises` leaves what is saved. A record's id is the caller's
  `record_id` or a new one (`_build_record_metadata`), and a save is an upsert, so
  every handler may be called with an id that is stored or that another call is about
  to store. `saved`, `moved` and `governed` are history: how often an id was saved;
  the ids that were saved again with another tenant, owner, key, version or snapshot
  (`Keeps` lists what others copy or compare); and the releases that the deployment of
  a session had since the session ended.
- `WorkerClock` is the threads of a Python process and the clock they read: time
  passes, and the clock may be set back by `setback` in all. `Connectors` and
  `Secrets` extend it.
- `Connectors` is the quota coordinator of the Python SDK and its callers. `acquire`
  begins a call for a manifest; `listBucket` takes the lock of its bucket key and
  reads (or makes) the bucket, `refill` reads the clock and decides, `saveBucket`
  reads the clock again, saves and releases. `send` and `respond` are the request
  of the HTTP JSON backend, after the lock is released; `answer` is every way to
  return without one. A manifest is its provider, api family and rate; the two
  stubs have the rates of the code. Tokens are counted in thousandths and time in
  milliseconds, so that the arithmetic is exact. `granted`, `sent` and `opening`
  are history: what the properties compare.
- `Secrets` is the registry of backends, the access policy, the environment and
  stub backends, and the cache of the AWS backend: `resolve` looks the entry up,
  `hit` or `miss` reads the clock, `fetch` is the answer of AWS, `fill` the write.
  A secret's value is its version; `replacedAt` is history.
- `HttpTransport` is the request loop of the Python transports. `Route` reduces a
  method to the token it sends, whether it reads or writes, and whether it takes a
  key; the tables are the methods of `CipClient` and `CipAdminClient`.
  `begins`, `answered`, `wakes` and `times_out` are `_request_json`; `headers`,
  `build_error` and `is_retryable` are the code's. The body is decoded before the
  status is looked at, as in the code. `handles`, `arrivesLate` and `gatewayFails`
  are the platform and the gateways, which are external. Of the platform it is assumed
  that it honours keys, and nothing else: a request without one may be done as often
  as it arrives, or be refused. In particular a resolution or a completion that comes
  twice may be done twice, as the control plane in this repository does when two
  resolutions race or a session was set running again. `lost` is history: the
  requests of a call that a gateway gave up although they went on.
- `QuotaBucket` is one bucket of the TypeScript coordinator and its lock. A ticket
  stands for the promise each `acquire` puts into `bucketLocks`; `tail` is the one
  in the map. `skew` and `later` are what the clock advances between the readings
  within one synchronous block (`Date.now()`, then `nowIso()` for a new bucket,
  then `nowIso()` for the save). The clock never goes back, and every client asks
  for the same `maxRequestsPerSecond`.
- `Delivery` is one session's events on their way: a producer's request with its
  attempts (`requestJson`), the jobs a hosted platform makes of what arrives, the
  workers that execute them, and the three awaits of `appendRunEvent` with an id
  (`lookupEvent`, `countEvents`, `appendEvent`). The platform is not in the
  repository; it is modelled as loosely as what `src/` says of it allows (a receipt
  names a job, a key names one job, `IngestJobRecord` has these statuses): it
  answers or not, gives a job up or starts it over, and with `Overlap` hands it to
  two workers at once. An event's id is the pair of its job and its place in the
  batch. A request given up before it arrived may arrive at any later time, or
  never. Payloads, authentication and the length of the back-off are left out.

## The runs

| Run | What it asks |
|---|---|
| `sessions_concurrent` | Two callers race three calls on a running session under a profile that requires everything, batches of a producer among them; they repeat no ids, and one handler may be aborted. The completion gate holds although it is read in two awaits and used after a third (`CompletionGate`), a waiting session names its stored request (`WaitingNamesRequest`), stale saves keep the profile (`ProfileSnapshotKept`), each client's events keep its order (`ProducerOrder`), every bundle lists a closing event (`BundleListsClosing`), and at rest every record and every closing of a run has its audit event, but for at most one per aborted handler (`AuditTrailComplete`). |
| `sessions_sequential` | One caller, five calls, two sessions, nothing overlaps. Sequences are without gaps and a terminal session has one bundle up to a closing event (`StreamAgrees`); the status is what the events replay to, and the request a waiting session names is its only open one (`StatusAgrees`); resolutions are final, revisions count saves, a terminal session is reopened only by a resolution (`AwaitedSteps`); and `ImplementsPython`: every behaviour is one of `AtomicRunSessions`. |
| `sessions_liveness` | With fair continuations a session that became terminal gets an evidence bundle (`TerminalGetsBundle`), though its id is used again meanwhile. |
| `terminal_reopened` | A sentence of the specification documents (`TerminalFinal`) that TLC finds violated by what the code does; see below. |
| `deployments_concurrent` | Two operators race three calls on an existing deployment, which may have a high-risk profile; they may repeat ids, that of the deployment and of an artifact included, and one handler may be aborted. When an activation is saved the artifacts the gate asked for are still there, or a client has recorded other contents under an artifact's own id: no other step takes them away (`GatedActivation`). At rest and without aborted handlers the trail explains each deployment (`AuditExplainsState`), although two stale saves may have overwritten each other. |
| `deployments_sequential` | One operator, six calls, two required kinds. `OneOperator`: the gate, final retirement, one profile, a trail in which each event starts where the one before it ended, runs on active deployments; `TypeOK`; and `ImplementsPython`. |
| `registry` | Two threads race two calls of any handler under any ids, stored ones included, on registries that hold what a deployment of one of two tenants needs and a running session, whose completion may have begun; one call may raise. Tenants stay apart (`TenantIsolation`), versions that blueprints, deployments and evidence name stay those of the definitions (`DependenciesPinned`), both but for what a caller saved again under its id with another tenant, owner, key or version. Evidence names a release that the session's deployment had when the session ended or later, and cites the whole of it, when the deployment has packs of its own, is rolled back or is deployed again meanwhile too (`EvidenceNamesRulesInForce`). At rest every save, those lost to a race included, has its audit event, but for at most one per fault (`AuditComplete`). An automatic version is new (`NextVersionIsNew`). |
| `quota` | Three clients, five calls, one rejected operation, clock skew: no save over an unread state (`SavesOverWhatItRead`), arrival order (`ServedInOrder`), no lock left (`LockIsCollected`), the token bucket's rate over every span (`RateRespected`), a client that waited `retryAfterMs` is granted (`RetryIsGranted`), every call returns (`EveryCallReturns`). |
| `connectors` | Two threads, three calls, two manifests that share a bucket and two stubs, one repository operation that raises, a clock that is set back once. Leases are paid for by what the bucket held and has refilled in real time (`LeasesWithinBudget`), each request has its lease (`RequestsAreLeased`), waiting `retry_after_ms` suffices while the clock is not set back (`RetryIsGranted`), every call returns (`EveryCallReturns`). |
| `secrets` | Two threads resolve a secret that is replaced meanwhile, with fetches of any length and a clock that is set back: what is resolved was still the current version a time to live before the clock was read, or as much earlier as the clock has been set back (`SecretFresh`). |
| `http` | Two calls of any two routes about one object, the second without an operator token; gateways answer for the platform, answers cannot be decoded, requests time out, are repeated and arrive late. What bears a key is done once (`EffectsOnce`), success and first refusals are true (`ToldTheTruth`), a thing is done over only for a request that a gateway lost, so never after an answer that could not be read (`RepeatsOnlyWhatWasLost`), every call ends (`EveryCallEnds`). |
| `delivery` | A producer sends two batches of two events, one keyed, to a platform with two workers; one answer or worker fails, any request may be late. A keyed batch is stored once (`StoredOnce`), no stored event is replaced (`StreamKept`), the events of a batch keep its order among those of the other (`BatchOrder`), and a batch reported as ingested is stored whole (`ToldIsStored`). |

Every property of a passing run has a mutant: a plausible slip in one mapped
definition under which TLC finds that property violated. The exceptions that
`TenantIsolation`, `DependenciesPinned`, `EvidenceNamesRulesInForce` and
`GatedActivation` make by name are needed: without them TLC finds, in the same runs, a
credential that was registered again for another tenant, a pack or blueprint that was
published again under another version, and an artifact that was recorded again.

## Bounds

| Bound | Values | Why it is enough |
|---|---|---|
| `MaxCalls` | 2 to 4 with two callers, 5 or 6 with one | Two callers: one call to change what another has read, and one more (resolve after request, activate after an artifact). They race from a state in which the session, the deployment or the registries' records exist (`RunningInit`, `CreatedInit`, `MCInit`: what calls that have returned leave behind), so none is spent on setting up; in `registry` a completion may be under way besides the two calls, so that a rollback or another deployment and one more change fall into it. One caller: start, request, complete, resolve and one more; deploy, profile, two artifacts, activate and one more. In `secrets` two calls overlap, a third reads what they filled in, and one more does. |
| `Sessions`, `Deployments` | 1, or 2 sessions in `sessions_sequential` | No handler relates two of them; the second shows that counts and lists are taken per session. |
| `Approvals`, `Disclosures`, `Reviews`, `Artifacts` | 1 or 2 | Two requests show the unnamed second one; two artifacts are one per kind; one that may be repeated is replaced. |
| `Profiles` | none, one that asks for everything, or both | |
| `Batches` | one batch of two run events | a batch interleaved between its events |
| ids of `registry` | 2 tenants, connector definitions, packs, blueprints, deployments and sessions; 1 of the rest | one of each kind is there; where a second one matters it is free. Every id may be saved again. |
| `Keys`, `Named` of `registry` | one key at version 8, `{9}` | automatic versions go 9, 10, and past it, where strings and numbers order differently |
| `MaxFaults` | 0 or 1 | One aborted handler leaves every partial state; a second repeats it. In `delivery` one failure is an answer to repeat, or a worker that leaves half a batch. The theorems have any number. |
| `MaxSends`, `Size`, `Workers` of `delivery` | 2, 2, 2 | two jobs in execution at once, each with an event behind it and one to come; two calls, or a call and its late first attempt |
| `Statuses`, `RetryableStatusCodes` of `delivery` | 425, 503 | one that is repeated; one that the policy names and the transport does not repeat |
| `MaxAttempts`, `MaxPollAttempts` | 2, 1 | a request sent a second time; a poll that goes on and one that does not |
| `Calls`, `Keys`, `Objects` of `http` | 2, 1, 1 | two callers of one object, or one who repeats a request under its key |
| `RetryableStatusCodes`, `Refusals`, `Failures` of `http` | 409 and 503; 409 and 422; 500 and 503 | each class of error; a conflict that the policy names and that is not repeated; a gateway's status that is repeated and one that is not. At most `MaxAttempts` requests of a call are late. |
| `Rate`, `Unit`, `MaxSkew`, `MaxTime` of `quota` | 3, 5, 1, 5 | 3 does not divide 5, so rounding shows; the fourth lease is refused until a refill; the clock passes a full refill. |
| `Manifests`, `Prefilled`, `Steps`, `MaxTime`, `MaxSetBack` of `connectors` | rates 10 and 25; no bucket, no token or one left; 100 ms, once forward and once back | 100 ms is `retry_after_ms` of rate 10, so that a refused lease, a granted retry and a bucket that owes a token are all reached; the second manifest meets a bucket of the first one's rate. |
| `CacheTtlMs`, `MaxTime`, `MaxSetBack`, `MaxVersions` of `secrets` | 2, 4, 1, 3 | an entry expires and one filled late expires early or late; two replacements between a read and a fill |

`MaxTime` bounds only the ticks of the clock. Callers, operators, blueprints,
kinds, artifacts and workers are symmetric; symmetry is used in no run with a
liveness property. Deadlock is checked everywhere: `Rest` is the stuttering of a
system whose clients make no more calls, so a call that cannot go on is reported.

## Fairness

`WF_vars(Continue(c))` for every caller: the event loop keeps running the
continuation of a pending promise. Nothing is assumed of clients (they need not
call again), of `Reject`, or of the clock. Strong fairness is not needed: a
continuation stays enabled until it runs; in the quota model `listBucket` becomes
enabled once, when its prior promise resolves, and stays so.

In `Connectors` it is `WF` of `ContinueCall(w)`: a thread that can go on does. A
lock of Python is not fair, so a waiting thread might be overtaken; the calls of a
run are bounded, so not for ever. That is a bound of the model: of endless calls
nothing is claimed. In `HttpTransport` it is `WF` of `Proceeds(c)`: a thread goes
on with an answer, wakes up, or times out, the `timeout` that the client gives
httpx being what bounds the wait. That timeout is one of each read, not of the whole
answer, and a client that a caller injects (`client`) may have none: of a platform
that sends its answer byte by byte, or of such a client, `EveryCallEnds` says nothing.
Nothing is assumed of gateways or the platform.

## The proofs

Eight modules, one per component. The theorems hold for any sets of callers and
ids, any number of calls and faults, and any interleaving; what they assume of the
constants is in the `ASSUME`s of the modules, which TLC evaluates in every run
(types, disjoint kinds of ids, finitely many callers, reviews and workers), and in the
hypotheses listed here.

| Module | Theorem | States |
|---|---|---|
| `RunSessionsProofs` | `TypeCorrect` | `Spec => []TypeOK` |
| | `WaitingSessionsNameTheirRequest` | `Spec => []WaitingNamesRequest` |
| | `EventsKeepProducerOrder` | `Spec => []ProducerOrder` |
| | `BundlesListAClosingEvent` | `Spec => []BundleListsClosing` |
| | `CompletionIsGated` | `Spec => []CompletionGate`, when `~ReuseIds` |
| | `ProfileSnapshotIsKept` | `Spec => ProfileSnapshotKept`, when `~ReuseIds` |
| | `RestingTrailIsComplete` | `Spec => []AuditTrailComplete`, when `~ReuseIds` and `OwnReports` |
| | `AwaitedStepsHold` | `Spec => AwaitedSteps`, with one caller and `~ReuseIds` |
| | `AwaitedStreamAgrees` | `Spec => []StreamAgrees`, with one caller, `~ReuseIds`, no faults and `OwnEvents` |
| | `AwaitedStatusAgrees` | `Spec => []StatusAgrees`, likewise |
| | `RunSessionsImplementPython` | `Spec => ImplementsPython`, with one caller and no faults |
| `DeploymentsProofs` | `TypeCorrect` | `Spec => []TypeOK` |
| | `ActivationIsGated` | `Spec => GatedActivation` |
| | `AuditTrailExplains` | `Spec => []AuditExplainsState` |
| | `OneOperatorHolds` | `Spec => OneOperator`, with one operator, `~ReuseIds` and no faults |
| | `DeploymentsImplementPython` | `Spec => ImplementsPython`, likewise |
| `RegistryProofs` | `TypeCorrect` | `Spec => []TypeOK` |
| | `Isolated` | `Spec => []TenantIsolation` |
| | `Pinning` | `Spec => []DependenciesPinned` |
| | `EvidenceGoverned` | `Spec => []EvidenceNamesRulesInForce` |
| | `Audited` | `Spec => []AuditComplete` |
| | `ChosenVersionsAreNew` | `Spec => NextVersionIsNew` |
| `QuotaBucketProofs` | `LockExcludes` | `Spec => []SavesOverWhatItRead` |
| | `LockIsFair` | `Spec => []ServedInOrder` |
| | `LockLeavesNothing` | `Spec => []LockIsCollected` |
| | `RateHolds` | `Spec => []RateRespected` |
| | `TypeCorrect` | `Spec => []TypeOK`, when `MaxSkew <= Unit` |
| | `RetryIsLongEnough` | `Spec => RetryIsGranted`, when `MaxSkew <= Unit` |
| `ConnectorsProofs` | `TypeCorrect` | `Spec => []TypeOK` |
| | `Budget` | `Spec => []LeasesWithinBudget` |
| | `Leases` | `Spec => []RequestsAreLeased` |
| | `RetryIsLongEnough` | `Spec => RetryIsGranted` |
| `SecretsProofs` | `TypeCorrect` | `Spec => []TypeOK` |
| | `Freshness` | `Spec => []SecretFresh` |
| `HttpTransportProofs` | `TypeCorrect` | `Spec => []TypeOK` |
| | `Effects` | `Spec => []EffectsOnce` |
| | `Truthful` | `Spec => []ToldTheTruth` |
| | `Repeats` | `Spec => []RepeatsOnlyWhatWasLost` |
| `DeliveryProofs` | `TypeCorrect` | `Spec => []TypeOK` |
| | `KeyedBatchesAreStoredOnce` | `Spec => []StoredOnce` |
| | `ToldBatchesAreStored` | `Spec => []ToldIsStored` |
| | `StreamIsKept` | `Spec => StreamKept`, when `~Overlap` |
| | `BatchesKeepTheirOrder` | `Spec => []BatchOrder`, when `~Overlap` |

The arguments, each an invariant that is inductive together with those before it:

**Run sessions.** `~ReuseIds` says that clients repeat no `input.id`.
`disclosureRecords.save` and `humanReviewRecords.save` are upserts, so that a client
that does can replace an approval by a rejection after the session was completed on
it, and starting a session under a used id replaces its snapshot.

1. `TypeInv`: `TypeOK`, and what the program counter says of the rest of a call
   (a call in flight names a session and owes an effect). `TypeOK` alone is not
   inductive: `Head(todo)` needs a non-empty list.
2. `RequestInv`: a request about to be saved is not stored and no other call has
   its id; a record of a waiting session about to be saved names a stored request
   of that session. `WaitingNamesRequest` alone says nothing of the record that
   `saveSession` will write.
3. `OrderInv`: a stored sequence is at most its place, and a count about to be
   used is at most the length of the stream and at least the sequence of every
   event the same caller has stored. The bound on the count is what survives the
   other callers' appends: they only lengthen the stream.
4. `EvidenceInv`, `GateInv`: evidence about to be saved replaces nothing, so
   evidence once there stays; a call past a half of the gate has its half
   satisfied, and goes on having it. Monotonicity is the point: reading stale
   disclosures is harmless because none is ever withdrawn.
5. `SnapshotInv`: a record about to be saved has the profile the stored session
   has, and a session not yet stored is named by one call only.
6. `BundleInv`: a call that owes a bundle has a closing event before it in its
   list of effects (`ClosesFirst`), or has a session that is closed; and the number
   of events a bundle lists, once read, contains a closing one (`Lists`) for good,
   streams only growing. Aborted handlers do not matter: an abort drops the bundle
   with the rest of the list.
7. `AuditInv`: a call audits an action at most once, and what it will audit is what
   its place says it saves (`CallReports`); the stored records of a session are as
   many as its audit events and the calls in flight that have saved and not yet
   audited, or more by at most the handlers that were aborted (`Balanced`). Two calls
   may both have resolved one request, so that for resolutions it is an inequality.
   `ClosingInv` is the same for the events that close a run and have no record of
   their own: the closing events are as many as the audited completions and the
   rejections, give or take the calls between the two and the aborted handlers
   (`Settling`), since a call owes both or neither (`CallCloses`). `OwnReports` says
   that no producer reports an action or a closing event that the control plane
   counts (the control plane does not refuse one that does).
8. `StepsInv`, for a client that awaits each of its calls: what its call has read
   is what is there, so that the record about to be saved is the stored one's next
   revision, and a call that saves over a terminal session has resolved a request
   of it. Aborted handlers only free the client.
9. `StreamInv`, for such a client when no handler is aborted: the list of effects
   of a call is a suffix of a handler's (`Planned`), in which a closing event is
   always followed by a bundle; between two awaits a session is as its events say,
   or the call in flight will append the event that says so (`Announces`), and its
   bundle reaches every closing event, or the call will replace it (`Bundles`).
   The open requests of a session are none while it runs and the one it names while
   it waits (`OpenFor`); of a terminal one they are at most one, which a completion
   left. `OwnEvents` says that producers do not send the events the control plane
   itself emits. Without it the replay can disagree.

`RunSessionsImplementPython` is the refinement, step by step, for one client that
awaits each call and no aborted handler; the client may repeat ids and report any
events. The mapping is then a function of the stored state and of the one call
(`Mapped`). The first step of a handler is a step of the Python one, or a stutter if
the gate will refuse the completion (`StartImplements`, `CheckMaps`); each later await
leaves what will be stored as it is (`SavesMap`, `ReadsMap`, `AppendMaps`,
`AuditMaps`, `BundleMaps`). The mapped bundle is computed from the effects still to
come, so that this needs `BundlesRead`: what the call has read for its bundle is
still so when it saves it, and it owes one bundle at most. What a list of effects
leaves to one stream is a recursive function on its last elements (`Chosen`), of
which the proof needs how it behaves on the tail of the list; that is an induction
on the length, done as an argument about the least counterexample (`LeastNat`).

**Deployments.** `GateInv`: what is stored under an artifact's id is in its history
(`HeldInv`), and a call past the gate that read a high-risk profile has every required
artifact there, or one whose id has had other contents (`PastGate`). Histories only
grow, and a save that takes a required artifact away adds the other contents to its
history: so readiness once read remains in this sense, with any ids repeated.
`SingleInv`: with one operator there is one call in flight, so that what it read is
what is there; its save leads from the stored status to one that may follow, and
the trail of a deployment leaves what the deployment has, except between a save and
its audit event, when it leaves what the event starts from. `AccountInv` is for any
number of operators: what the trail and the calls about to audit amount to
(`Total`) never falls, so that a record read before the saves of others is at most
one revision past it whenever it is saved; and the deployment as it is has been
described by an event, or will be by a call that is past its save.

`DeploymentsImplementPython` is the refinement, step by step. With one operator the
mapping is a function of the stored state and of the one call (`Mapped`). The first
step of a handler is a step of the Python one, or a stutter if the gate will refuse
the transition (`StartImplements`); each later await leaves what will be stored as it
is (`ReadMaps`, `SaveMaps`, `CommitMaps`), which needs `SingleInv`: what the call read
is still there. The mapped trail is what stays of the stored one without the events of
profiles and artifacts, a recursive function on the trail; that it keeps an appended
event, or not, by its action is an induction on the length (`KeptEvents`), done as an
argument about the least counterexample (`LeastNat`).

**Registries.** `Good`: what a record to be saved, or saved, names is there, and is of
the tenant and version it says or is in `moved`. It survives every save (`Extends`):
records stay there, `moved` only grows, and a save over an existing record either keeps
what others copied of it (`Keeps`) or puts its id in `moved`. That two calls may have
read before either saves, or be about to save one id, needs no case of its own: a
record is compared with what is stored at the moment of its save.

`GovernedInv`: the release that the deployment of an ended session has is in the
history of that session, through every save of the session, of its deployment (a
rollback, another deployment under its id) and of others; so what a call reads for the
bundle is in it, and stays in it while the bundle is saved (`GovernedJob`). `BundledInv`: a
session that ended has its evidence or a call that is about to leave it, unless a call
failed. `TrailInv`: the audit events of an id, with those that calls owe (the callers
between a save and its event, which is why they are finitely many), are as many as
its saves, but for one per fault at most. It counts saves and not revisions, so that
two rollbacks which read the same revision are two, though one of them is lost.

`ChosenVersionsAreNew` needs no invariant but the types: below ten every version is
one digit, on which the order of strings is that of numbers, so that `max()` is the
latest version and its successor is past all of them.

**TypeScript quota.** `MaxSkew <= Unit` says that the readings of the clock within
one synchronous block are within a second of each other: a new bucket is last
refilled at a reading that comes after the one its refill is computed from, so that
a longer pause would leave it owing tokens. The rate holds without it. `LockInv`:
the promise in the map is that of the last client in flight, and of two clients in
flight the later one's prior promise is not resolved and not older than the earlier
one's own, so that at most one client, the earliest, is past its await.
`RateInv`: what is in the bucket could all be granted at its last refill without
exceeding the rate over any span that began with a grant (`RateRespected` alone says
nothing of the tokens that are left).

**Connectors.** `JobInv`: who works on a bucket has its lock and has read what is
there. `BucketInv` bounds leases and remaining tokens twice: by what is earned
until now, and by what is earned until `last_refill_at + setback`. The second is
what a refill after a setback needs: the interval it adds is measured on a clock
that was behind by less than it is now. A bucket owes no more than the setback
(`Sound`), so that waiting suffices when there was none. `LeaseInv` counts the
leases that are granted and not yet used. The arithmetic is exact; the code's is in
floating point, and `RetryIsGranted` is claimed for rates that divide a second, as
the code truncates.

**Secrets.** `Held(r, v, t)`: version `v` had been put, and was not replaced before
`t`. An entry's version was held a time to live before its expiry on the clock the
filler read, whatever other filler it overwrites (`GoodEntry`); a fetch between two
replacements returns one that was held when the clock was read (`GoodCall`). As time
passes `Held` only weakens in the right direction (`Passes`).

**HTTP.** `SentInv`: done, late and awaited requests of a call are no more than it
has sent. `DoneInv`: what was done under a key is in the platform's books, and for one
call only. `TruthInv`: an answer that says so is the answer to
something done, and a first answer that refuses one to nothing done, with nothing
late. `LostInv`: of what was done or is late all but one was lost, and all of it while
another request may be sent (`MaySend`), which is what an unreadable answer ends.

**Delivery.** `~Overlap` says that no job is handed to two workers at once: it is
what the code relies on and nothing in it ensures. `OnceInv`: one job per key and
one event per id; that `Map.set` replaces is what makes the second hold even when
workers overlap. `StoredInv`: all that a worker has behind it is stored, and stays
so because what replaces an event has its id. `OwnInv`: a worker past its lookup is
about to append what is not stored, since no other worker has its job; and what is
stored of a job is a prefix of its batch. `SequenceInv`: a sequence is at most its
index, and the count a worker is about to use lies behind every event of its job,
which is what survives the appends of other jobs.

Only model-checked: liveness (`TerminalGetsBundle`, `EveryCallReturns`,
`EveryCallEnds`; the prover has no rule for fairness and `ENABLED`). Every other
property of a passing run is stated by a theorem.

## Where code and documents disagree

Shown by the run `terminal_reopened`: `resolveApprovalRequest` never looks at the
session's status, so that approving a request which a completion left pending sets
the completed session running (`spec/workflow-state.md:21` "Terminal states are
final").

Met while modelling, without a run of their own:

- Two appends count the same events and store one sequence twice
  (`spec/workflow-state.md:30` "strictly increasing per session").
- The terminal status is saved before the closing event is appended, and the call
  cannot be repeated: an aborted one leaves a session without it
  (`spec/execution-outcomes.md:30` "MUST have a closing ... event").
- Two overlapping appends under one id both find nothing stored, and the second
  replaces the first, with a later sequence (`spec/workflow-state.md:29` "Event
  streams are append-only"): `StreamKept` fails with `Overlap`.
- Two resolutions both read a request as pending and the second overwrites the first
  (`spec/approvals.md:29` "the request's terminal status is immutable"):
  `AwaitedSteps` fails as soon as there are two callers.
- Two upserts both find no profile and each stores one (`docs/eu-ai-act.md:28` "one
  `ComplianceProfile`"): `OneOperator` fails with two operators.
- Two registrations of one key both list its versions before either saves, and both
  store the same version; after `1.0.10` the next patch of a key is `1.0.10` again,
  as `max()` compares strings.
- The evidence of a session cites the packs of its deployment's blueprint, also when
  the deployment was given others, or was rolled back while keeping its own; and the
  release is the one the deployment has when the bundle is made, which may be later
  than the session's end (`spec/evidence-and-citations.md:33` asks for the rules at
  the time).
- A create or publish call whose `record_id` is in use replaces the record: a
  credential can move to another tenant after a binding to it was checked, and a
  published pack or blueprint to another version (`in_memory.py` 82-85). An
  `input.id` of an artifact that is in use replaces an artifact that the activation
  gate has read, in the TypeScript control plane.
- A session that a resolution set running again is completed a second time, with a
  second closing event.
- Registering a connector definition writes no audit event.
- A retried `record_human_review` is two reviews, and counts as two towards the
  reviewers a profile asks for: of the routes that add something, only three take
  an idempotency key.
- An answer that is not JSON raises a decoding error and is not repeated, also when
  its status is one that the policy names.
- A connector's bucket keeps the rate it was made with when a later manifest has
  another; `retry_after_ms` is truncated, and falls short for rates that do not
  divide a second (TypeScript rounds up).
- The TypeScript transport never repeats a status outside its default list, whatever
  `retryableStatusCodes` names; the Python client repeats what the policy names, but
  for 400, 401, 403, 409 and 422.
- An append under an id that another session's event has returns that event
  (`cip-control-plane.ts` 1186-1190).
- A rejection persists the bundle before its `approval.resolved` audit event
  (`cip-control-plane.ts` 1399, 1402), so that bundle lacks it
  (`spec/evidence-and-citations.md:13`).
- Two concurrent requests for one running session both succeed, and a request
  survives the completion of its session (`spec/approvals.md:33`).
- Resolving a resolved request is refused, not answered with the recorded
  resolution (`spec/approvals.md:34`).
- Two stale saves give two different records the same revision (`spec/README.md:28`).
- Disclosure and review saves replace a record with the same id
  (`spec/evidence-and-citations.md:32`).
- Events are accepted after a session is terminal (`spec/execution-outcomes.md:15`),
  and producers may send the life-cycle events the control plane emits
  (`spec/execution-outcomes.md:25`), after which a replay need not agree with the
  stored status.
- A profile upserted as high-risk on a deployment that is already active is not
  checked against the gate; a deployment may be created active.
- A rollback changes the blueprint and keeps the status (`spec/workflow-state.md:35`
  speaks of re-activating).
- The Python control plane records no audit events for profiles and artifacts.

## What is not modelled

- The TypeScript registries, secret resolver and connector backends: `Registry`,
  `Secrets` and `Connectors` translate their Python counterparts, which have the
  same reads and saves. Where the two differ in kind (the promise lock, the
  sessions, the deployments) the TypeScript code has a model of its own.
- The Python sessions and deployments under several threads: the handlers of
  `RunSessions` and `Deployments` read and save at the same places, with awaits
  between. Python's replay is a fold over events that TypeScript's also is.
- What a hosted platform does behind the HTTP transports, but for what `Delivery`
  and `HttpTransport` assume of it.
- Conversions of keys and records to and from JSON (`client.py`, the largest part
  that is left): data without control, but for the answer that cannot be decoded.
  The Python local transports and `CipRunTracker` forward one call each, or poll one.
- `trackRuntimeResult`, which chooses one call from its argument; `appendAuditEvent`
  with an id, which looks up and appends without a count.
- The canned data of the connector stubs, runtime adapters, admin stubs: lookup
  tables and forwarding without shared state. The conformance package: a test
  harness. Schemas and documents: data and prose.
- Repositories other than in-memory ones: a save or append takes effect at one
  moment between the call and the continuation, and a list is consistent. Several
  coordinators on one bucket repository: a lock is per object, and a model has one.
- An injected HTTP client, and the time within one answer (see [fairness](#fairness)).
- Tenants in `RunSessions` and `Deployments`: every guard that compares tenant ids
  refuses the call, which is no step. `Registry` has them.

## Plan

Done: run sessions, deployments, registries, the two quota coordinators and the
connectors, secrets, the HTTP transports, delivery, the two refinements, and
theorems about each component, the refinements included.

1. The composition of sessions, deployments and registries, so that the snapshot of
   a session, the transition of its deployment and the evidence interleave in one
   model.
2. The unkeyed routes of `HttpTransport` against the session handlers: which of
   their repetitions the guards of the handlers refuse.
3. `CipRunTracker` and the conversions of records, as functions checked against the
   schemas.
