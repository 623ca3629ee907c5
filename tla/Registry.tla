------------------------------ MODULE Registry ------------------------------
(***************************************************************************)
(* The registries of CipControlPlane (python/packages/cip/.../             *)
(* control_plane.py): tenants, the definitions that agents depend on, the  *)
(* deployments of agents, and the evidence bundles that name what governed *)
(* a session.  Threads call the handlers; a handler reads and checks, then *)
(* saves, then records an audit event.  A record's id is the record_id the *)
(* caller gives or a uuid4, and saving replaces what is stored under it.   *)
(* The version n stands for "1.0.n".                                       *)
(***************************************************************************)
EXTENDS Naturals, Sequences, FiniteSets

CONSTANTS
  Callers, None,
  Tenants, ConnectorDefinitions, CredentialBindings, ConnectorBindings,
  PolicyPacks, Guardrails, Blueprints, Deployments, Sessions,  \* ids of each kind
  Keys,         \* keys of the versioned definitions
  Named,        \* the versions that callers name
  MaxCalls,     \* bound: calls of the handlers
  MaxFaults     \* bound: calls that a repository or the telemetry ends

Versioned == ConnectorDefinitions \cup PolicyPacks \cup Guardrails \cup Blueprints

Ids == Tenants \cup CredentialBindings \cup ConnectorBindings \cup Deployments
         \cup Sessions \cup Versioned

Kinds ==
  <<Tenants, ConnectorDefinitions, CredentialBindings, ConnectorBindings, PolicyPacks,
    Guardrails, Blueprints, Deployments, Sessions>>

VARIABLES
  stored,       \* repositories: the record of each id
  evidence,     \* evidence_bundles: the bundle of each session
  audited,      \* audit_events: how many name each id
  job,          \* each caller's call in progress
  calls, faults, \* calls and faults so far
  saved,        \* history: how often each id was saved
  moved,        \* history: ids saved again with another content that others rely on
  governed      \* history: the releases each session's deployment had since it ended

history == <<saved, moved, governed>>
vars == <<stored, evidence, audited, job, calls, faults, history>>

-----------------------------------------------------------------------------
(* Records: the fields the handlers compare or copy                        *)

DependencyVersionReference == [id: Versioned, key: Keys, version: Nat]

BlueprintDependencySnapshot ==
  [policy_packs: SUBSET DependencyVersionReference,
   guardrails: SUBSET DependencyVersionReference,
   connector_manifests: SUBSET DependencyVersionReference]

TenantRecord == [id: Tenants]

CredentialBinding == [tenant: Tenants]

ConnectorBinding ==
  [tenant: Tenants, definition: ConnectorDefinitions, credential: CredentialBindings]

(* automatic: the caller named no version.                                 *)
ConnectorDefinition == [key: Keys, version: Nat, automatic: BOOLEAN]

GuardrailDefinition == [key: Keys, version: Nat, automatic: BOOLEAN]

PolicyPack ==
  [key: Keys, version: Nat, ownership: {"shared", "tenant"}, tenant: Tenants \cup {None}]

AgentBlueprint ==
  [key: Keys, version: Nat, automatic: BOOLEAN, connectors: SUBSET ConnectorDefinitions,
   packs: SUBSET PolicyPacks, snapshot: BlueprintDependencySnapshot]

(* overridden: the caller named the policy packs.                          *)
DeploymentRecord ==
  [tenant: Tenants, blueprint: Blueprints, version: Nat, bindings: SUBSET ConnectorBindings,
   packs: SUBSET PolicyPacks, overridden: BOOLEAN, revision: Nat]

RunSession == [tenant: Tenants, deployment: Deployments, terminal: BOOLEAN]

EvidenceBundle ==
  [tenant: Tenants, deployment: Deployments, blueprint: Blueprints, version: Nat,
   policy_packs: SUBSET DependencyVersionReference,
   guardrails: SUBSET DependencyVersionReference]

(* The records of an id's kind.                                            *)
Fits(id, record) ==
  /\ id \in Tenants => record \in TenantRecord
  /\ id \in ConnectorDefinitions => record \in ConnectorDefinition
  /\ id \in CredentialBindings => record \in CredentialBinding
  /\ id \in ConnectorBindings => record \in ConnectorBinding
  /\ id \in PolicyPacks => record \in PolicyPack
  /\ id \in Guardrails => record \in GuardrailDefinition
  /\ id \in Blueprints => record \in AgentBlueprint
  /\ id \in Deployments => record \in DeploymentRecord
  /\ id \in Sessions => record \in RunSession

ASSUME RegistryAssumption ==
  /\ IsFiniteSet(Callers)
  /\ Named \subseteq Nat /\ None \notin Nat /\ None \notin EvidenceBundle
  /\ \A i, j \in 1..9 : i # j => Kinds[i] \cap Kinds[j] = {}
  /\ \A id \in Ids : ~Fits(id, None)

At(pc, id, record) == [pc |-> pc, id |-> id, record |-> record]

NoJob == At("idle", None, None)

Init ==
  /\ stored = [id \in Ids |-> None]
  /\ evidence = [s \in Sessions |-> None]
  /\ audited = [id \in Ids |-> 0]
  /\ job = [c \in Callers |-> NoJob]
  /\ calls = 0 /\ faults = 0
  /\ saved = [id \in Ids |-> 0]
  /\ moved = {}
  /\ governed = [s \in Sessions |-> {}]

-----------------------------------------------------------------------------
(* Versions                                                                *)

(* The digits of a version, and how Python's max() orders strings of them. *)
Digits[n \in Nat] == IF n < 10 THEN <<n>> ELSE Append(Digits[n \div 10], n % 10)

Before(v, w) ==
  LET s == Digits[v]
      t == Digits[w]
      Agree(k) == \A i \in 1..k : s[i] = t[i]
  IN \/ Len(s) < Len(t) /\ Agree(Len(s))
     \/ \E k \in 1..Len(s) : k <= Len(t) /\ Agree(k - 1) /\ s[k] < t[k]

VersionsOf(kind, key) ==
  {stored[id].version : id \in {d \in kind : stored[d] # None /\ stored[d].key = key}}

Slip_First(versions) == {v \in versions : \A w \in versions : v = w \/ Before(v, w)}

(* max(existing_versions)                                                  *)
Greatest(versions) == {v \in versions : \A w \in versions : v = w \/ Before(w, v)}

increment_patch_version(versions) ==
  IF versions = {} THEN {0} ELSE {v + 1 : v \in Greatest(versions)}

(* The version that is recorded: the caller's, or else the next one.       *)
VersionFor(kind, key, named) ==
  IF named = None THEN increment_patch_version(VersionsOf(kind, key)) ELSE {named}

-----------------------------------------------------------------------------
(* How a handler goes on                                                   *)

Exists(id) == stored[id] # None

Registered(kind) == {id \in kind : Exists(id)}

Begins(c, id, record) ==
  /\ job[c] = NoJob
  /\ calls < MaxCalls /\ calls' = calls + 1
  /\ job' = [job EXCEPT ![c] = At("save", id, record)]
  /\ UNCHANGED <<stored, evidence, audited, faults, history>>

GoesOn(c, next) == job' = [job EXCEPT ![c] = next] /\ UNCHANGED <<calls, faults>>

(* What others rely on is the same in two records of an id.                *)
Keeps(id, old, new) ==
  /\ id \in CredentialBindings \cup ConnectorBindings \cup Deployments \cup Sessions =>
       new.tenant = old.tenant
  /\ id \in Sessions => new.deployment = old.deployment
  /\ id \in PolicyPacks => new.ownership = old.ownership /\ new.tenant = old.tenant
  /\ id \in Versioned => new.key = old.key /\ new.version = old.version
  /\ id \in Blueprints => new.snapshot = old.snapshot

(* What is remembered of the save of a record.                             *)
Remember(id, record) ==
  /\ saved' = [saved EXCEPT ![id] = @ + 1]
  /\ moved' = moved \cup {x \in {id} : Exists(x) /\ ~Keeps(x, stored[x], record)}
  /\ governed' = [s \in Sessions |-> governed[s] \cup
       {stored'[stored'[x].deployment].blueprint : x \in
          {y \in {s} : stored'[y] # None /\ (stored'[y].terminal \/ governed[y] # {})}}]

(* repositories.<kind>.save; only a connector definition is not audited.   *)
save(c) ==
  /\ job[c].pc = "save"
  /\ stored' = [stored EXCEPT ![job[c].id] = job[c].record]
  /\ Remember(job[c].id, job[c].record)
  /\ GoesOn(c, IF job[c].id \in ConnectorDefinitions THEN NoJob
               ELSE At("audit", job[c].id, job[c].record))
  /\ UNCHANGED <<evidence, audited>>

(* A completion goes on to the evidence bundle.                            *)
ClosesSession(c) == job[c].id \in Sessions /\ job[c].record.terminal

Slip_AuditLost(c) ==
  /\ job[c].pc = "audit"
  /\ GoesOn(c, IF ClosesSession(c) THEN At("bundle", job[c].id, job[c].record) ELSE NoJob)
  /\ UNCHANGED <<stored, evidence, audited, history>>

_record_audit_event(c) ==
  /\ job[c].pc = "audit"
  /\ audited' = [audited EXCEPT ![job[c].id] = @ + 1]
  /\ GoesOn(c, IF ClosesSession(c) THEN At("bundle", job[c].id, job[c].record) ELSE NoJob)
  /\ UNCHANGED <<stored, evidence, history>>

(* The repository or the telemetry sink raises: what is saved stays saved. *)
Raises(c) ==
  /\ job[c].pc # "idle" /\ faults < MaxFaults
  /\ job' = [job EXCEPT ![c] = NoJob]
  /\ faults' = faults + 1
  /\ UNCHANGED <<stored, evidence, audited, calls, history>>

-----------------------------------------------------------------------------
(* Handlers, up to their save; one that refuses its input changes nothing  *)

register_tenant(c) == \E t \in Tenants : Begins(c, t, [id |-> t])

register_connector_definition(c) ==
  \E id \in ConnectorDefinitions, key \in Keys, named \in Named \cup {None} :
    \E version \in VersionFor(ConnectorDefinitions, key, named) :
      Begins(c, id, [key |-> key, version |-> version, automatic |-> named = None])

create_credential_binding(c) ==
  \E id \in CredentialBindings, t \in Tenants :
    Exists(t) /\ Begins(c, id, [tenant |-> t])

Slip_AnyCredential(credential, t) == Exists(credential)

MayUse(credential, t) == Exists(credential) /\ stored[credential].tenant = t

create_connector_binding(c) ==
  \E id \in ConnectorBindings, t \in Tenants, definition \in ConnectorDefinitions,
     credential \in CredentialBindings :
    /\ Exists(t) /\ Exists(definition) /\ MayUse(credential, t)
    /\ Begins(c, id, [tenant |-> t, definition |-> definition, credential |-> credential])

publish_policy_pack(c) ==
  \E id \in PolicyPacks, key \in Keys, version \in Named, ownership \in {"shared", "tenant"},
     t \in Tenants \cup {None} :
    /\ ownership = "tenant" => t # None
    /\ t # None => Exists(t)
    /\ Begins(c, id, [key |-> key, version |-> version, ownership |-> ownership, tenant |-> t])

publish_guardrail_definition(c) ==
  \E id \in Guardrails, key \in Keys, named \in Named \cup {None} :
    \E version \in VersionFor(Guardrails, key, named) :
      Begins(c, id, [key |-> key, version |-> version, automatic |-> named = None])

Slip_Newest(ids) ==
  {[id |-> id, key |-> stored[id].key,
    version |-> CHOOSE v \in Greatest(VersionsOf(Versioned, stored[id].key)) : TRUE] :
     id \in ids}

References(ids) ==
  {[id |-> id, key |-> stored[id].key, version |-> stored[id].version] : id \in ids}

register_agent_blueprint(c) ==
  \E id \in Blueprints, key \in Keys, named \in Named \cup {None},
     connectors \in SUBSET Registered(ConnectorDefinitions),
     packs \in SUBSET Registered(PolicyPacks), guardrails \in SUBSET Registered(Guardrails) :
    \E version \in VersionFor(Blueprints, key, named) \ VersionsOf(Blueprints, key) :
      Begins(c, id,
        [key |-> key, version |-> version, automatic |-> named = None,
         connectors |-> connectors, packs |-> packs,
         snapshot |-> [policy_packs |-> References(packs),
                       guardrails |-> References(guardrails),
                       connector_manifests |-> References(connectors)]])

(* The packs of a deployment: the caller's, or else the blueprint's.       *)
PacksOf(given, blueprint) == IF given = {} THEN stored[blueprint].packs ELSE given

deploy_agent(c) ==
  \E id \in Deployments, t \in Tenants, blueprint \in Blueprints,
     bindings \in SUBSET Registered(ConnectorBindings),
     given \in SUBSET Registered(PolicyPacks) :
    /\ Exists(t) /\ Exists(blueprint)
    /\ \A b \in bindings : stored[b].tenant = t
    /\ stored[blueprint].connectors \subseteq {stored[b].definition : b \in bindings}
    /\ \A p \in PacksOf(given, blueprint) :
         stored[p].ownership = "tenant" => stored[p].tenant = t
    /\ Begins(c, id,
         [tenant |-> t, blueprint |-> blueprint, version |-> stored[blueprint].version,
          bindings |-> bindings, packs |-> PacksOf(given, blueprint),
          overridden |-> given # {}, revision |-> 1])

(* The bindings and the packs stay those of the blueprint before.          *)
rollback_deployment_to_blueprint(c) ==
  \E id \in Deployments, blueprint \in Blueprints :
    /\ Exists(id) /\ Exists(blueprint)
    /\ Begins(c, id, [stored[id] EXCEPT !.blueprint = blueprint,
                                        !.version = stored[blueprint].version,
                                        !.revision = @ + 1])

(* Deployments says when a deployment is active.                           *)
start_run_session(c) ==
  \E id \in Sessions, t \in Tenants, d \in Deployments :
    /\ Exists(t) /\ Exists(d) /\ stored[d].tenant = t
    /\ Begins(c, id, [tenant |-> t, deployment |-> d, terminal |-> FALSE])

(* RunSessions has what a completion requires of the session.              *)
complete_run_session(c) ==
  \E id \in Sessions :
    /\ Exists(id) /\ ~stored[id].terminal
    /\ Begins(c, id, [stored[id] EXCEPT !.terminal = TRUE])

Slip_LatestRelease(session) ==
  LET d == session.deployment
      key == stored[stored[d].blueprint].key
      b == CHOOSE id \in Registered(Blueprints) :
             stored[id].key = key /\ stored[id].version \in Greatest(VersionsOf(Blueprints, key))
  IN [tenant |-> session.tenant, deployment |-> d, blueprint |-> b,
      version |-> stored[b].version, policy_packs |-> stored[b].snapshot.policy_packs,
      guardrails |-> stored[b].snapshot.guardrails]

(* _persist_evidence_bundle: the deployment and its blueprint as they are  *)
(* now, with the packs of the blueprint's release.                         *)
BundleOf(session) ==
  LET d == session.deployment
      b == stored[d].blueprint
  IN [tenant |-> session.tenant, deployment |-> d, blueprint |-> b,
      version |-> stored[b].version, policy_packs |-> stored[b].snapshot.policy_packs,
      guardrails |-> stored[b].snapshot.guardrails]

_persist_evidence_bundle(c) ==
  /\ job[c].pc = "bundle"
  /\ GoesOn(c, At("persist", job[c].id, BundleOf(job[c].record)))
  /\ UNCHANGED <<stored, evidence, audited, history>>

saveBundle(c) ==
  /\ job[c].pc = "persist"
  /\ evidence' = [evidence EXCEPT ![job[c].id] = job[c].record]
  /\ GoesOn(c, NoJob)
  /\ UNCHANGED <<stored, audited, history>>

Registers(c) ==
  \/ register_tenant(c) \/ register_connector_definition(c)
  \/ create_credential_binding(c) \/ create_connector_binding(c)
  \/ publish_policy_pack(c) \/ publish_guardrail_definition(c)
  \/ register_agent_blueprint(c)

Operates(c) ==
  \/ deploy_agent(c) \/ rollback_deployment_to_blueprint(c)
  \/ start_run_session(c) \/ complete_run_session(c)

Continues(c) ==
  \/ save(c) \/ _record_audit_event(c) \/ _persist_evidence_bundle(c) \/ saveBundle(c)
  \/ Raises(c)

(* Every caller has done its calls.                                        *)
Rest == (\A c \in Callers : job[c] = NoJob) /\ UNCHANGED vars

Next == (\E c \in Callers : Registers(c) \/ Operates(c) \/ Continues(c)) \/ Rest

Spec == Init /\ [][Next]_vars

-----------------------------------------------------------------------------
JobFits(j) ==
  \/ j = NoJob
  \/ j = At(j.pc, j.id, j.record) /\
       \/ j.pc \in {"save", "audit"} /\ j.id \in Ids /\ Fits(j.id, j.record)
       \/ j.pc = "bundle" /\ j.id \in Sessions /\ j.record \in RunSession
       \/ j.pc = "persist" /\ j.id \in Sessions /\ j.record \in EvidenceBundle

(* Every variable holds what the handlers can put in it.                   *)
TypeOK ==
  /\ DOMAIN stored = Ids
  /\ \A id \in Ids : Exists(id) => Fits(id, stored[id])
  /\ evidence \in [Sessions -> EvidenceBundle \cup {None}]
  /\ audited \in [Ids -> Nat]
  /\ DOMAIN job = Callers
  /\ \A c \in Callers : JobFits(job[c])
  /\ calls \in Nat /\ faults \in Nat
  /\ saved \in [Ids -> Nat] /\ moved \subseteq Ids
  /\ governed \in [Sessions -> SUBSET Blueprints]

(* Everything a deployment, its sessions and their evidence reach belongs  *)
(* to one tenant: its bindings, the credentials these use, and the packs   *)
(* that a tenant owns, whatever threads register meanwhile.  What is       *)
(* referred to can be another tenant's only when a caller saved it again   *)
(* under its own record_id, with another tenant (or owner).                *)
TenantIsolation ==
  /\ \A b \in ConnectorBindings : Exists(b) =>
       stored[b].credential \in moved \/ stored[stored[b].credential].tenant = stored[b].tenant
  /\ \A d \in Deployments : Exists(d) =>
       /\ \A b \in stored[d].bindings \ moved : stored[b].tenant = stored[d].tenant
       /\ \A p \in stored[d].packs \ moved :
            stored[p].ownership = "tenant" => stored[p].tenant = stored[d].tenant
  /\ \A s \in Sessions : Exists(s) =>
       /\ stored[s].deployment \in moved
            \/ stored[stored[s].deployment].tenant = stored[s].tenant
       /\ evidence[s] # None /\ s \notin moved =>
            /\ evidence[s].tenant = stored[s].tenant
            /\ evidence[s].deployment = stored[s].deployment

Pinned(reference) ==
  /\ Exists(reference.id)
  /\ reference.id \notin moved =>
       /\ stored[reference.id].key = reference.key
       /\ stored[reference.id].version = reference.version

(* Every version that a released blueprint, a deployment or an evidence    *)
(* bundle names is that of the stored definition, now as at its release:   *)
(* registering another version, deploying again or rolling back while a    *)
(* session ends changes none of them.  Only a definition that a caller     *)
(* saved again under its own record_id, as another version, is not what    *)
(* was named.                                                              *)
DependenciesPinned ==
  /\ \A b \in Blueprints : Exists(b) =>
       /\ \A r \in stored[b].snapshot.policy_packs : Pinned(r)
       /\ \A r \in stored[b].snapshot.guardrails : Pinned(r)
       /\ \A r \in stored[b].snapshot.connector_manifests : Pinned(r)
  /\ \A d \in Deployments : Exists(d) /\ stored[d].blueprint \notin moved =>
       stored[stored[d].blueprint].version = stored[d].version
  /\ \A s \in Sessions : evidence[s] # None =>
       /\ evidence[s].blueprint \notin moved =>
            stored[evidence[s].blueprint].version = evidence[s].version
       /\ \A r \in evidence[s].policy_packs \cup evidence[s].guardrails : Pinned(r)

AtRest == \A c \in Callers : job[c] = NoJob

(* A session that ended has a bundle unless a call failed.  The bundle     *)
(* names a release that the session's deployment had when the session      *)
(* ended or later, and cites the packs and guardrails of that release: a   *)
(* deployment that is rolled back, deployed again or given packs of its    *)
(* own while the session ends is never cited with a release it left before *)
(* or with a mixture of two.  (Saved again under its own record_id, a      *)
(* session may belong to another deployment, and a release be another.)    *)
EvidenceNamesRulesInForce ==
  \A s \in Sessions :
    /\ AtRest /\ faults = 0 /\ Exists(s) /\ stored[s].terminal => evidence[s] # None
    /\ evidence[s] # None =>
         LET b == evidence[s].blueprint
         IN /\ s \notin moved => b \in governed[s]
            /\ b \notin moved =>
                 /\ evidence[s].policy_packs = stored[b].snapshot.policy_packs
                 /\ evidence[s].guardrails = stored[b].snapshot.guardrails

(* When no call is running, every save of a record but a connector         *)
(* definition has its audit event, also when two threads saved the record  *)
(* at once and one of them was lost; and no more of them lack it than      *)
(* calls failed.                                                           *)
AuditComplete ==
  AtRest => \A id \in Ids \ ConnectorDefinitions :
    audited[id] <= saved[id] /\ saved[id] <= audited[id] + faults

(* A version that the registry chooses is new to its key, as long as the   *)
(* key has no version of two digits: max() puts "1.0.9" after "1.0.10".    *)
ChoosesNewVersion(c) ==
  job[c] = NoJob /\ job'[c].pc = "save" /\ job'[c].id \in ConnectorDefinitions \cup Guardrails
    /\ job'[c].record.automatic =>
  LET kind == IF job'[c].id \in Guardrails THEN Guardrails ELSE ConnectorDefinitions
      versions == VersionsOf(kind, job'[c].record.key)
  IN (\A v \in versions : v < 10) => \A v \in versions : v < job'[c].record.version

NextVersionIsNew == [][\A c \in Callers : ChoosesNewVersion(c)]_vars

=============================================================================
