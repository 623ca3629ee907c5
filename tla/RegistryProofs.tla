--------------------------- MODULE RegistryProofs ---------------------------
(***************************************************************************)
(* Theorems about the registries, for every set of callers and of ids, and *)
(* however many calls they make and how many of these fail.                *)
(***************************************************************************)
EXTENDS Registry, FiniteSetTheorems, TLAPS

-----------------------------------------------------------------------------
(* The invariant                                                           *)

(* What a record saved for the id depends on is there, and as it says      *)
(* unless it was saved again as something else.                            *)
Good(id, r) ==
  /\ id \in ConnectorBindings =>
       /\ Exists(r.credential)
       /\ r.credential \in moved \/ stored[r.credential].tenant = r.tenant
  /\ id \in Blueprints =>
       \A x \in r.snapshot.policy_packs \cup r.snapshot.guardrails
                  \cup r.snapshot.connector_manifests : Pinned(x)
  /\ id \in Blueprints => \A p \in r.packs : Exists(p)
  /\ id \in Deployments =>
       /\ Exists(r.blueprint)
       /\ r.blueprint \in moved \/ stored[r.blueprint].version = r.version
       /\ \A b \in r.bindings : Exists(b) /\ (b \in moved \/ stored[b].tenant = r.tenant)
       /\ \A p \in r.packs :
            /\ Exists(p)
            /\ p \in moved \/ (stored[p].ownership = "tenant" => stored[p].tenant = r.tenant)
  /\ id \in Sessions =>
       /\ Exists(r.deployment)
       /\ r.deployment \in moved \/ stored[r.deployment].tenant = r.tenant

GoodBundle(s, e) ==
  /\ Exists(s)
  /\ s \in moved \/ (e.tenant = stored[s].tenant /\ e.deployment = stored[s].deployment)
  /\ Exists(e.blueprint)
  /\ e.blueprint \in moved \/ stored[e.blueprint].version = e.version
  /\ \A x \in e.policy_packs \cup e.guardrails : Pinned(x)

GoodJob(j) ==
  /\ j.pc \in {"save", "audit", "bundle"} => Good(j.id, j.record)
  /\ j.pc \in {"audit", "bundle"} =>
       Exists(j.id) /\ (j.id \in moved \/ Keeps(j.id, stored[j.id], j.record))
  /\ j.pc = "persist" => GoodBundle(j.id, j.record)

Inv ==
  /\ TypeOK
  /\ \A id \in Ids : Exists(id) => Good(id, stored[id])
  /\ \A s \in Sessions : evidence[s] # None => GoodBundle(s, evidence[s])
  /\ \A c \in Callers : GoodJob(job[c])

-----------------------------------------------------------------------------
(* The kinds of ids                                                        *)

LEMMA Disjoint ==
  /\ Tenants \cap (ConnectorDefinitions \cup CredentialBindings \cup ConnectorBindings
       \cup PolicyPacks \cup Guardrails \cup Blueprints \cup Deployments \cup Sessions) = {}
  /\ ConnectorDefinitions \cap (CredentialBindings \cup ConnectorBindings \cup PolicyPacks
       \cup Guardrails \cup Blueprints \cup Deployments \cup Sessions) = {}
  /\ CredentialBindings \cap (ConnectorBindings \cup PolicyPacks \cup Guardrails
       \cup Blueprints \cup Deployments \cup Sessions) = {}
  /\ ConnectorBindings \cap (PolicyPacks \cup Guardrails \cup Blueprints \cup Deployments
       \cup Sessions) = {}
  /\ PolicyPacks \cap (Guardrails \cup Blueprints \cup Deployments \cup Sessions) = {}
  /\ Guardrails \cap (Blueprints \cup Deployments \cup Sessions) = {}
  /\ Blueprints \cap (Deployments \cup Sessions) = {}
  /\ Deployments \cap Sessions = {}
  <1>1. \A i, j \in 1..9 : i # j => Kinds[i] \cap Kinds[j] = {}
    BY RegistryAssumption DEF RegistryAssumption
  <1>2. /\ Kinds[1] = Tenants /\ Kinds[2] = ConnectorDefinitions
        /\ Kinds[3] = CredentialBindings /\ Kinds[4] = ConnectorBindings
        /\ Kinds[5] = PolicyPacks /\ Kinds[6] = Guardrails /\ Kinds[7] = Blueprints
        /\ Kinds[8] = Deployments /\ Kinds[9] = Sessions
    BY DEF Kinds
  <1>3. \A j \in 2..9 : Tenants \cap Kinds[j] = {}
    BY <1>1, <1>2
  <1>4. \A j \in 3..9 : ConnectorDefinitions \cap Kinds[j] = {}
    BY <1>1, <1>2
  <1>5. \A j \in 4..9 : CredentialBindings \cap Kinds[j] = {}
    BY <1>1, <1>2
  <1>6. \A j \in 5..9 : ConnectorBindings \cap Kinds[j] = {}
    BY <1>1, <1>2
  <1>7. \A j \in 6..9 : PolicyPacks \cap Kinds[j] = {}
    BY <1>1, <1>2
  <1>8. \A j \in 7..9 : Guardrails \cap Kinds[j] = {}
    BY <1>1, <1>2
  <1>9. Blueprints \cap Kinds[8] = {} /\ Blueprints \cap Kinds[9] = {}
        /\ Deployments \cap Kinds[9] = {}
    BY <1>1, <1>2
  <1> QED
    BY <1>2, <1>3, <1>4, <1>5, <1>6, <1>7, <1>8, <1>9

-----------------------------------------------------------------------------
(* What stays while records are saved                                      *)

(* Records stay, and keep what others depend on unless they were moved.    *)
Extends ==
  /\ moved \subseteq moved'
  /\ \A id \in Ids : Exists(id) =>
       stored'[id] # None /\ (id \in moved' \/ Keeps(id, stored[id], stored'[id]))

LEMMA PinnedLater ==
  ASSUME Extends, NEW x \in DependencyVersionReference, Pinned(x)
  PROVE  Pinned(x)'
  <1>1. x.id \in Versioned /\ x.id \in Ids
    BY DEF DependencyVersionReference, Ids
  <1>2. /\ stored'[x.id] # None
        /\ x.id \notin moved' =>
             stored'[x.id].key = x.key /\ stored'[x.id].version = x.version
    BY <1>1 DEF Extends, Keeps, Pinned
  <1> QED
    BY <1>2 DEF Pinned, Exists

LEMMA GoodLater ==
  ASSUME Extends, NEW id \in Ids, NEW r, Fits(id, r), Good(id, r)
  PROVE  Good(id, r)'
  <1>1. ASSUME id \in ConnectorBindings
        PROVE  (/\ Exists(r.credential)
                /\ r.credential \in moved \/ stored[r.credential].tenant = r.tenant)'
    <2>1. r.credential \in CredentialBindings /\ r.credential \in Ids
      BY <1>1 DEF Fits, ConnectorBinding, Ids
    <2> QED
      BY <1>1, <2>1 DEF Good, Exists, Extends, Keeps
  <1>2. ASSUME id \in Blueprints
        PROVE  (\A x \in r.snapshot.policy_packs \cup r.snapshot.guardrails
                           \cup r.snapshot.connector_manifests : Pinned(x))'
    <2>1. r.snapshot.policy_packs \cup r.snapshot.guardrails
            \cup r.snapshot.connector_manifests \subseteq DependencyVersionReference
      BY <1>2 DEF Fits, AgentBlueprint, BlueprintDependencySnapshot
    <2> QED
      BY <1>2, <2>1, PinnedLater DEF Good
  <1>3. ASSUME id \in Blueprints
        PROVE  (\A p \in r.packs : Exists(p))'
    <2>1. r.packs \subseteq Ids
      BY <1>3 DEF Fits, AgentBlueprint, Ids, Versioned
    <2> QED
      BY <1>3, <2>1 DEF Good, Extends, Exists
  <1>4. ASSUME id \in Deployments
        PROVE  /\ (/\ Exists(r.blueprint)
                   /\ r.blueprint \in moved \/ stored[r.blueprint].version = r.version)'
               /\ (\A b \in r.bindings :
                     Exists(b) /\ (b \in moved \/ stored[b].tenant = r.tenant))'
               /\ (\A p \in r.packs :
                     /\ Exists(p)
                     /\ p \in moved
                          \/ (stored[p].ownership = "tenant" => stored[p].tenant = r.tenant))'
    <2>1. /\ r.blueprint \in Blueprints /\ r.bindings \subseteq ConnectorBindings
          /\ r.packs \subseteq PolicyPacks
      BY <1>4 DEF Fits, DeploymentRecord
    <2>2. /\ \A x \in Blueprints : Exists(x) =>
               stored'[x] # None /\ (x \in moved' \/ stored'[x].version = stored[x].version)
          /\ \A x \in ConnectorBindings : Exists(x) =>
               stored'[x] # None /\ (x \in moved' \/ stored'[x].tenant = stored[x].tenant)
          /\ \A x \in PolicyPacks : Exists(x) =>
               /\ stored'[x] # None
               /\ x \in moved' \/ (/\ stored'[x].tenant = stored[x].tenant
                                   /\ stored'[x].ownership = stored[x].ownership)
      BY DEF Extends, Keeps, Ids, Versioned
    <2>3. moved \subseteq moved'
      BY DEF Extends
    <2> QED
      BY <1>4, <2>1, <2>2, <2>3 DEF Good, Exists
  <1>5. ASSUME id \in Sessions
        PROVE  (/\ Exists(r.deployment)
                /\ r.deployment \in moved \/ stored[r.deployment].tenant = r.tenant)'
    <2>1. r.deployment \in Deployments /\ r.deployment \in Ids
      BY <1>5 DEF Fits, RunSession, Ids
    <2> QED
      BY <1>5, <2>1 DEF Good, Extends, Keeps, Exists
  <1> QED
    BY <1>1, <1>2, <1>3, <1>4, <1>5 DEF Good

LEMMA BundleLater ==
  ASSUME Extends, NEW s \in Sessions, NEW e \in EvidenceBundle, GoodBundle(s, e)
  PROVE  GoodBundle(s, e)'
  <1>1. /\ e.blueprint \in Blueprints /\ e.blueprint \in Versioned
        /\ s \in Ids /\ e.blueprint \in Ids
        /\ e.policy_packs \cup e.guardrails \subseteq DependencyVersionReference
    BY DEF EvidenceBundle, Ids, Versioned
  <1>2. moved \subseteq moved'
    BY DEF Extends
  <1>3. /\ stored'[e.blueprint] # None
        /\ e.blueprint \in moved' \/ stored'[e.blueprint].version = e.version
    BY <1>1, <1>2 DEF Extends, Keeps, GoodBundle
  <1>4. /\ stored'[s] # None
        /\ s \in moved' \/ (e.tenant = stored'[s].tenant /\ e.deployment = stored'[s].deployment)
    BY <1>1, <1>2 DEF Extends, Keeps, GoodBundle
  <1>5. \A x \in e.policy_packs \cup e.guardrails : Pinned(x)'
    BY <1>1, PinnedLater DEF GoodBundle
  <1> QED
    BY <1>3, <1>4, <1>5 DEF GoodBundle, Exists

-----------------------------------------------------------------------------
(* A step of one call                                                      *)

LEMMA JobIds ==
  ASSUME NEW j, JobFits(j), j # NoJob
  PROVE  j.id \in Ids
  BY DEF JobFits, Ids

LEMMA NoJobFits == JobFits(NoJob) /\ GoodJob(NoJob)
  BY DEF JobFits, NoJob, At, GoodJob

LEMMA AtFields ==
  ASSUME NEW pc, NEW id, NEW r
  PROVE  At(pc, id, r).pc = pc /\ At(pc, id, r).id = id /\ At(pc, id, r).record = r
  BY DEF At

LEMMA SameGoodJob ==
  ASSUME stored' = stored, moved' = moved, NEW i, GoodJob(i)
  PROVE  GoodJob(i)'
  <1>1. Good(i.id, i.record)' = Good(i.id, i.record)
    BY DEF Good, Exists, Pinned
  <1>2. GoodBundle(i.id, i.record)' = GoodBundle(i.id, i.record)
    BY DEF GoodBundle, Exists, Pinned
  <1>3. Exists(i.id)' = Exists(i.id) /\ stored'[i.id] = stored[i.id]
    BY DEF Exists
  <1>4. Keeps(i.id, stored[i.id], i.record)' = Keeps(i.id, stored[i.id], i.record)
    BY DEF Keeps
  <1> QED
    BY <1>1, <1>2, <1>3, <1>4 DEF GoodJob

(* Steps that save no record: c's call becomes j.                          *)
LEMMA JobStep ==
  ASSUME Inv, NEW c \in Callers, NEW j, JobFits(j), GoodJob(j),
         job' = [job EXCEPT ![c] = j], stored' = stored, history' = history,
         \/ evidence' = evidence
         \/ \E s \in Sessions, e \in EvidenceBundle :
              GoodBundle(s, e) /\ evidence' = [evidence EXCEPT ![s] = e],
         audited' \in [Ids -> Nat], calls' \in Nat, faults' \in Nat
  PROVE  Inv'
  <1>1. DOMAIN job = Callers /\ evidence \in [Sessions -> EvidenceBundle \cup {None}]
    BY DEF Inv, TypeOK
  <1>2. job'[c] = j /\ DOMAIN job' = Callers /\ \A x \in Callers : x # c => job'[x] = job[x]
    BY <1>1
  <1>3. evidence' \in [Sessions -> EvidenceBundle \cup {None}]
    BY <1>1
  <1>10. saved' = saved /\ moved' = moved /\ governed' = governed
    BY DEF history
  <1>4. TypeOK'
    <2>1. \A x \in Callers : JobFits(job[x])'
      BY <1>2 DEF Inv, TypeOK, JobFits
    <2>2. DOMAIN stored' = Ids /\ \A id \in Ids : Exists(id)' => Fits(id, stored'[id])
      BY DEF Inv, TypeOK, Exists
    <2> QED
      BY <1>2, <1>3, <1>10, <2>1, <2>2 DEF Inv, TypeOK
  <1>5. \A id \in Ids : Exists(id)' => Good(id, stored[id])'
    BY <1>10 DEF Inv, Exists, Good, Pinned
  <1>6. \A s \in Sessions : evidence'[s] # None => GoodBundle(s, evidence'[s])
    BY <1>1 DEF Inv
  <1>7. \A s \in Sessions : (evidence[s] # None => GoodBundle(s, evidence[s]))'
    BY <1>6, <1>10 DEF GoodBundle, Exists, Pinned
  <1>8. \A x \in Callers : GoodJob(job'[x])
    BY <1>2 DEF Inv
  <1>9. ASSUME NEW x \in Callers
        PROVE  GoodJob(job[x])'
    <2>1. PICK i : i = job'[x]
      OBVIOUS
    <2>2. GoodJob(i)'
      BY <1>8, <1>10, <2>1, SameGoodJob
    <2> QED
      BY <2>1, <2>2
  <1> QED
    BY <1>4, <1>5, <1>7, <1>9 DEF Inv

-----------------------------------------------------------------------------
(* Handlers until their save                                               *)

LEMMA BeginStep ==
  ASSUME Inv, NEW c \in Callers, NEW id \in Ids, NEW r, Fits(id, r), Good(id, r),
         Begins(c, id, r)
  PROVE  Inv'
  <1>1. PICK j : j = At("save", id, r)
    OBVIOUS
  <1>2. j.pc = "save" /\ j.id = id /\ j.record = r /\ j = At(j.pc, j.id, j.record)
    BY <1>1, AtFields
  <1>3. JobFits(j)
    BY <1>2 DEF JobFits
  <1>4. GoodJob(j)
    BY <1>2 DEF GoodJob
  <1>6. /\ job' = [job EXCEPT ![c] = j] /\ calls' = calls + 1
        /\ UNCHANGED <<stored, evidence, audited, faults, history>>
    BY <1>1 DEF Begins
  <1>7. audited \in [Ids -> Nat] /\ calls \in Nat /\ faults \in Nat
    BY DEF Inv, TypeOK
  <1>8. /\ stored' = stored /\ evidence' = evidence /\ audited' \in [Ids -> Nat]
        /\ calls' \in Nat /\ faults' \in Nat /\ history' = history
    BY <1>6, <1>7
  <1> QED
    BY <1>3, <1>4, <1>6, <1>8, JobStep

LEMMA VersionIsNat ==
  ASSUME Inv, NEW kind, kind \in {ConnectorDefinitions, Guardrails, Blueprints},
         NEW key, NEW named \in Named \cup {None}, NEW v \in VersionFor(kind, key, named)
  PROVE  v \in Nat
  <1>1. CASE named # None
    BY <1>1, RegistryAssumption DEF VersionFor, RegistryAssumption
  <1>2. CASE named = None
    <2>1. VersionsOf(kind, key) \subseteq Nat
      <3>1. ASSUME NEW id \in kind, stored[id] # None
            PROVE  stored[id].version \in Nat
        <4>1. id \in Ids /\ Fits(id, stored[id])
          BY <3>1 DEF Inv, TypeOK, Exists, Ids, Versioned
        <4> QED
          BY <4>1 DEF Fits, ConnectorDefinition, GuardrailDefinition, AgentBlueprint
      <3> QED
        BY <3>1 DEF VersionsOf
    <2>2. v = 0 \/ \E w \in VersionsOf(kind, key) : v = w + 1
      BY <1>2 DEF VersionFor, increment_patch_version, Greatest
    <2> QED
      BY <2>1, <2>2
  <1> QED
    BY <1>1, <1>2

LEMMA StoredFits ==
  ASSUME Inv, NEW id \in Ids, Exists(id)
  PROVE  Fits(id, stored[id]) /\ Good(id, stored[id])
  BY DEF Inv, TypeOK

LEMMA RegisterTenantKeepsInv ==
  ASSUME Inv, NEW c \in Callers, register_tenant(c)
  PROVE  Inv'
  <1>1. PICK t \in Tenants : Begins(c, t, [id |-> t])
    BY DEF register_tenant
  <1>2. t \in Ids /\ Fits(t, [id |-> t]) /\ Good(t, [id |-> t])
    BY Disjoint DEF Ids, Fits, TenantRecord, Good
  <1> QED
    BY <1>1, <1>2, BeginStep

LEMMA RegisterConnectorDefinitionKeepsInv ==
  ASSUME Inv, NEW c \in Callers, register_connector_definition(c)
  PROVE  Inv'
  <1>1. PICK id \in ConnectorDefinitions, key \in Keys, named \in Named \cup {None} :
          \E version \in VersionFor(ConnectorDefinitions, key, named) :
            Begins(c, id, [key |-> key, version |-> version, automatic |-> named = None])
    BY DEF register_connector_definition
  <1>2. PICK version \in VersionFor(ConnectorDefinitions, key, named) :
          Begins(c, id, [key |-> key, version |-> version, automatic |-> named = None])
    BY <1>1
  <1>3. version \in Nat
    BY VersionIsNat
  <1>4. PICK r : r = [key |-> key, version |-> version, automatic |-> named = None]
    OBVIOUS
  <1>5. r \in ConnectorDefinition
    BY <1>3, <1>4 DEF ConnectorDefinition
  <1>6. id \in Ids /\ Fits(id, r) /\ Good(id, r)
    BY <1>5, Disjoint DEF Ids, Versioned, Fits, Good
  <1> QED
    BY <1>1, <1>2, <1>4, <1>6, BeginStep

LEMMA PublishGuardrailKeepsInv ==
  ASSUME Inv, NEW c \in Callers, publish_guardrail_definition(c)
  PROVE  Inv'
  <1>1. PICK id \in Guardrails, key \in Keys, named \in Named \cup {None} :
          \E version \in VersionFor(Guardrails, key, named) :
            Begins(c, id, [key |-> key, version |-> version, automatic |-> named = None])
    BY DEF publish_guardrail_definition
  <1>2. PICK version \in VersionFor(Guardrails, key, named) :
          Begins(c, id, [key |-> key, version |-> version, automatic |-> named = None])
    BY <1>1
  <1>3. version \in Nat
    BY VersionIsNat
  <1>4. PICK r : r = [key |-> key, version |-> version, automatic |-> named = None]
    OBVIOUS
  <1>5. r \in GuardrailDefinition
    BY <1>3, <1>4 DEF GuardrailDefinition
  <1>6. id \in Ids /\ Fits(id, r) /\ Good(id, r)
    BY <1>5, Disjoint DEF Ids, Versioned, Fits, Good
  <1> QED
    BY <1>1, <1>2, <1>4, <1>6, BeginStep

LEMMA CreateCredentialKeepsInv ==
  ASSUME Inv, NEW c \in Callers, create_credential_binding(c)
  PROVE  Inv'
  <1>1. PICK id \in CredentialBindings, t \in Tenants :
          Begins(c, id, [tenant |-> t])
    BY DEF create_credential_binding
  <1>2. id \in Ids /\ Fits(id, [tenant |-> t]) /\ Good(id, [tenant |-> t])
    BY Disjoint DEF Ids, Fits, CredentialBinding, Good
  <1> QED
    BY <1>1, <1>2, BeginStep

(* The credential belongs to the tenant.                                   *)
LEMMA CreateConnectorBindingKeepsInv ==
  ASSUME Inv, NEW c \in Callers, create_connector_binding(c)
  PROVE  Inv'
  <1>1. PICK id \in ConnectorBindings, t \in Tenants, definition \in ConnectorDefinitions,
             credential \in CredentialBindings :
          /\ MayUse(credential, t)
          /\ Begins(c, id, [tenant |-> t, definition |-> definition,
                            credential |-> credential])
    BY DEF create_connector_binding
  <1>2. PICK r : r = [tenant |-> t, definition |-> definition, credential |-> credential]
    OBVIOUS
  <1>3. r \in ConnectorBinding /\ r.tenant = t /\ r.credential = credential
    BY <1>2 DEF ConnectorBinding
  <1>4. id \in Ids /\ Fits(id, r) /\ Good(id, r)
    BY <1>1, <1>3, Disjoint DEF Ids, Fits, Good, MayUse
  <1> QED
    BY <1>1, <1>2, <1>4, BeginStep

LEMMA PublishPolicyPackKeepsInv ==
  ASSUME Inv, NEW c \in Callers, publish_policy_pack(c)
  PROVE  Inv'
  <1>1. PICK id \in PolicyPacks, key \in Keys, version \in Named,
             ownership \in {"shared", "tenant"}, t \in Tenants \cup {None} :
          /\ Begins(c, id, [key |-> key, version |-> version, ownership |-> ownership,
                            tenant |-> t])
    BY DEF publish_policy_pack
  <1>2. PICK r : r = [key |-> key, version |-> version, ownership |-> ownership, tenant |-> t]
    OBVIOUS
  <1>3. r \in PolicyPack
    BY <1>2, RegistryAssumption DEF PolicyPack, RegistryAssumption
  <1>4. id \in Ids /\ Fits(id, r) /\ Good(id, r)
    BY <1>3, Disjoint DEF Ids, Versioned, Fits, Good
  <1> QED
    BY <1>1, <1>2, <1>4, BeginStep

LEMMA ReferencesPinned ==
  ASSUME Inv, NEW kind, kind \in {ConnectorDefinitions, PolicyPacks, Guardrails},
         NEW ids \in SUBSET Registered(kind)
  PROVE  /\ References(ids) \subseteq DependencyVersionReference
         /\ \A x \in References(ids) : Pinned(x)
  <1>1. ASSUME NEW id \in ids
        PROVE  /\ Exists(id) /\ id \in Versioned
               /\ stored[id].key \in Keys /\ stored[id].version \in Nat
    <2>1. id \in kind /\ Exists(id) /\ id \in Versioned /\ id \in Ids
      BY DEF Registered, Versioned, Ids
    <2>2. Fits(id, stored[id])
      BY <2>1, StoredFits
    <2> QED
      BY <2>1, <2>2 DEF Fits, ConnectorDefinition, PolicyPack, GuardrailDefinition
  <1>2. ASSUME NEW x \in References(ids)
        PROVE  x \in DependencyVersionReference /\ Pinned(x)
    <2>1. PICK id \in ids :
            x = [id |-> id, key |-> stored[id].key, version |-> stored[id].version]
      BY DEF References
    <2>2. Exists(id) /\ id \in Versioned /\ stored[id].key \in Keys
          /\ stored[id].version \in Nat
      BY <1>1
    <2>3. x.id = id /\ x.key = stored[id].key /\ x.version = stored[id].version
      BY <2>1
    <2> QED
      BY <2>1, <2>2, <2>3 DEF DependencyVersionReference, Pinned
  <1> QED
    BY <1>2

(* The snapshot names the versions that are registered.                    *)
LEMMA RegisterBlueprintKeepsInv ==
  ASSUME Inv, NEW c \in Callers, register_agent_blueprint(c)
  PROVE  Inv'
  <1>1. PICK id \in Blueprints, key \in Keys, named \in Named \cup {None},
             connectors \in SUBSET Registered(ConnectorDefinitions),
             packs \in SUBSET Registered(PolicyPacks),
             guardrails \in SUBSET Registered(Guardrails) :
          /\ \E version \in VersionFor(Blueprints, key, named) \ VersionsOf(Blueprints, key) :
               Begins(c, id,
                 [key |-> key, version |-> version, automatic |-> named = None,
                  connectors |-> connectors, packs |-> packs,
                  snapshot |-> [policy_packs |-> References(packs),
                                guardrails |-> References(guardrails),
                                connector_manifests |-> References(connectors)]])
    BY DEF register_agent_blueprint
  <1>2. PICK version \in VersionFor(Blueprints, key, named) :
          Begins(c, id,
            [key |-> key, version |-> version, automatic |-> named = None,
             connectors |-> connectors, packs |-> packs,
             snapshot |-> [policy_packs |-> References(packs),
                           guardrails |-> References(guardrails),
                           connector_manifests |-> References(connectors)]])
    BY <1>1
  <1>3. version \in Nat
    BY VersionIsNat
  <1>4. PICK snapshot : snapshot = [policy_packs |-> References(packs),
                                    guardrails |-> References(guardrails),
                                    connector_manifests |-> References(connectors)]
    OBVIOUS
  <1>5. PICK r : r = [key |-> key, version |-> version, automatic |-> named = None,
                      connectors |-> connectors, packs |-> packs, snapshot |-> snapshot]
    OBVIOUS
  <1>6. /\ snapshot \in BlueprintDependencySnapshot
        /\ \A x \in snapshot.policy_packs \cup snapshot.guardrails
                     \cup snapshot.connector_manifests : Pinned(x)
    <2>1. /\ References(packs) \subseteq DependencyVersionReference
          /\ \A x \in References(packs) : Pinned(x)
      BY ReferencesPinned
    <2>2. /\ References(guardrails) \subseteq DependencyVersionReference
          /\ \A x \in References(guardrails) : Pinned(x)
      BY ReferencesPinned
    <2>3. /\ References(connectors) \subseteq DependencyVersionReference
          /\ \A x \in References(connectors) : Pinned(x)
      BY ReferencesPinned
    <2> QED
      BY <1>4, <2>1, <2>2, <2>3 DEF BlueprintDependencySnapshot
  <1>7. /\ r \in AgentBlueprint /\ r.snapshot = snapshot /\ r.packs = packs
        /\ \A p \in r.packs : Exists(p)
    <2>1. r \in AgentBlueprint
      BY <1>3, <1>5, <1>6 DEF AgentBlueprint, Registered
    <2> QED
      BY <1>5, <2>1 DEF Registered
  <1>8. id \in Ids /\ Fits(id, r) /\ Good(id, r)
    BY <1>6, <1>7, Disjoint DEF Ids, Versioned, Fits, Good
  <1>9. Begins(c, id, r)
    BY <1>2, <1>4, <1>5
  <1> QED
    BY <1>1, <1>8, <1>9, BeginStep

(* The bindings and the packs are the tenant's.                            *)
LEMMA DeployKeepsInv ==
  ASSUME Inv, NEW c \in Callers, deploy_agent(c)
  PROVE  Inv'
  <1>1. PICK id \in Deployments, t \in Tenants, blueprint \in Blueprints,
             bindings \in SUBSET Registered(ConnectorBindings),
             given \in SUBSET Registered(PolicyPacks) :
          /\ Exists(blueprint)
          /\ \A b \in bindings : stored[b].tenant = t
          /\ \A p \in PacksOf(given, blueprint) :
               stored[p].ownership = "tenant" => stored[p].tenant = t
          /\ Begins(c, id,
               [tenant |-> t, blueprint |-> blueprint, version |-> stored[blueprint].version,
                bindings |-> bindings, packs |-> PacksOf(given, blueprint),
                overridden |-> given # {}, revision |-> 1])
    BY DEF deploy_agent
  <1>2. Fits(blueprint, stored[blueprint]) /\ Good(blueprint, stored[blueprint])
    BY <1>1, StoredFits DEF Ids, Versioned
  <1>3. stored[blueprint] \in AgentBlueprint /\ \A p \in stored[blueprint].packs : Exists(p)
    BY <1>2 DEF Fits, Good
  <1>4. PICK version : version = stored[blueprint].version
    OBVIOUS
  <1>5. version \in Nat /\ stored[blueprint].packs \subseteq PolicyPacks
    BY <1>3, <1>4 DEF AgentBlueprint
  <1>6. PICK packs : packs = PacksOf(given, blueprint)
    OBVIOUS
  <1>7. packs \subseteq PolicyPacks /\ \A p \in packs : Exists(p)
    BY <1>3, <1>5, <1>6 DEF PacksOf, Registered
  <1>8. PICK r : r = [tenant |-> t, blueprint |-> blueprint, version |-> version,
                      bindings |-> bindings, packs |-> packs, overridden |-> given # {},
                      revision |-> 1]
    OBVIOUS
  <1>9. bindings \subseteq ConnectorBindings /\ \A b \in bindings : Exists(b)
    BY DEF Registered
  <1>10. r \in DeploymentRecord
    BY <1>5, <1>7, <1>8, <1>9 DEF DeploymentRecord
  <1>11. /\ r.tenant = t /\ r.blueprint = blueprint /\ r.version = version
         /\ r.bindings = bindings /\ r.packs = packs
    BY <1>8
  <1>12. id \in Ids /\ Fits(id, r) /\ Good(id, r)
    <2>1. id \in Ids /\ Fits(id, r)
      BY <1>10, Disjoint DEF Ids, Fits
    <2>2. Good(id, r)
      BY <1>1, <1>4, <1>6, <1>7, <1>9, <1>11, Disjoint DEF Good
    <2> QED
      BY <2>1, <2>2
  <1>13. Begins(c, id, r)
    BY <1>1, <1>4, <1>6, <1>8
  <1> QED
    BY <1>1, <1>12, <1>13, BeginStep

(* A rollback keeps the tenant, the bindings and the packs.                *)
LEMMA RollbackKeepsInv ==
  ASSUME Inv, NEW c \in Callers, rollback_deployment_to_blueprint(c)
  PROVE  Inv'
  <1>1. PICK id \in Deployments, blueprint \in Blueprints :
          /\ Exists(id) /\ Exists(blueprint)
          /\ Begins(c, id, [stored[id] EXCEPT !.blueprint = blueprint,
                                              !.version = stored[blueprint].version,
                                              !.revision = stored[id].revision + 1])
    BY DEF rollback_deployment_to_blueprint
  <1>2. id \in Ids /\ blueprint \in Ids
    BY DEF Ids, Versioned
  <1>3. stored[id] \in DeploymentRecord /\ stored[blueprint] \in AgentBlueprint
        /\ Good(id, stored[id])
    BY <1>1, <1>2, StoredFits DEF Fits
  <1>4. PICK old \in DeploymentRecord : old = stored[id]
    BY <1>3
  <1>5. PICK version \in Nat : version = stored[blueprint].version
    BY <1>3 DEF AgentBlueprint
  <1>6. PICK r : r = [old EXCEPT !.blueprint = blueprint, !.version = version,
                                 !.revision = old.revision + 1]
    OBVIOUS
  <1>7. /\ r \in DeploymentRecord
        /\ r.tenant = old.tenant /\ r.blueprint = blueprint /\ r.version = version
        /\ r.bindings = old.bindings /\ r.packs = old.packs
    <2>1. PICK n \in Nat : n = old.revision + 1
      BY DEF DeploymentRecord
    <2>2. PICK a : a = [old EXCEPT !.blueprint = blueprint]
      OBVIOUS
    <2>3. /\ a \in DeploymentRecord /\ a.blueprint = blueprint /\ a.tenant = old.tenant
          /\ a.bindings = old.bindings /\ a.packs = old.packs
      BY <2>2 DEF DeploymentRecord
    <2>4. PICK b : b = [a EXCEPT !.version = version]
      OBVIOUS
    <2>5. /\ b \in DeploymentRecord /\ b.blueprint = a.blueprint /\ b.tenant = a.tenant
          /\ b.bindings = a.bindings /\ b.packs = a.packs /\ b.version = version
      BY <2>3, <2>4 DEF DeploymentRecord
    <2>6. r = [b EXCEPT !.revision = n]
      BY <1>6, <2>1, <2>2, <2>4
    <2>7. /\ r \in DeploymentRecord /\ r.blueprint = b.blueprint /\ r.tenant = b.tenant
          /\ r.bindings = b.bindings /\ r.packs = b.packs /\ r.version = b.version
      BY <2>5, <2>6 DEF DeploymentRecord
    <2> QED
      BY <2>3, <2>5, <2>7
  <1>8. Fits(id, r)
    BY <1>7, Disjoint DEF Fits
  <1>9. Good(id, r)
    <2>1. /\ \A b \in old.bindings :
               Exists(b) /\ (b \in moved \/ stored[b].tenant = old.tenant)
          /\ \A p \in old.packs :
               /\ Exists(p)
               /\ p \in moved
                    \/ (stored[p].ownership = "tenant" => stored[p].tenant = old.tenant)
      BY <1>3, <1>4 DEF Good
    <2> QED
      BY <1>1, <1>5, <1>7, <2>1, Disjoint DEF Good
  <1>10. Begins(c, id, r)
    BY <1>1, <1>4, <1>5, <1>6
  <1> QED
    BY <1>2, <1>8, <1>9, <1>10, BeginStep

LEMMA StartSessionKeepsInv ==
  ASSUME Inv, NEW c \in Callers, start_run_session(c)
  PROVE  Inv'
  <1>1. PICK id \in Sessions, t \in Tenants, d \in Deployments :
          /\ Exists(d) /\ stored[d].tenant = t
          /\ Begins(c, id, [tenant |-> t, deployment |-> d, terminal |-> FALSE])
    BY DEF start_run_session
  <1>2. PICK r : r = [tenant |-> t, deployment |-> d, terminal |-> FALSE]
    OBVIOUS
  <1>3. r \in RunSession /\ r.tenant = t /\ r.deployment = d
    BY <1>2 DEF RunSession
  <1>4. id \in Ids /\ Fits(id, r) /\ Good(id, r)
    BY <1>1, <1>3, Disjoint DEF Ids, Fits, Good
  <1> QED
    BY <1>1, <1>2, <1>4, BeginStep

LEMMA CompleteSessionKeepsInv ==
  ASSUME Inv, NEW c \in Callers, complete_run_session(c)
  PROVE  Inv'
  <1>1. PICK id \in Sessions :
          Exists(id) /\ Begins(c, id, [stored[id] EXCEPT !.terminal = TRUE])
    BY DEF complete_run_session
  <1>2. id \in Ids
    BY DEF Ids
  <1>3. stored[id] \in RunSession /\ Good(id, stored[id])
    BY <1>1, <1>2, StoredFits DEF Fits
  <1>4. PICK old \in RunSession : old = stored[id]
    BY <1>3
  <1>5. PICK r : r = [old EXCEPT !.terminal = TRUE]
    OBVIOUS
  <1>6. r \in RunSession /\ r.tenant = old.tenant /\ r.deployment = old.deployment
    BY <1>5 DEF RunSession
  <1>7. Fits(id, r) /\ Good(id, r)
    BY <1>3, <1>4, <1>6, Disjoint DEF Fits, Good
  <1> QED
    BY <1>1, <1>2, <1>4, <1>5, <1>7, BeginStep

-----------------------------------------------------------------------------
(* A call that goes on                                                     *)

(* The record extends what is stored, and is as good as its call said.     *)
LEMMA SaveExtends ==
  ASSUME Inv, NEW c \in Callers, save(c)
  PROVE  /\ Extends /\ job[c].id \in Ids /\ Fits(job[c].id, job[c].record)
         /\ job[c].record # None /\ Good(job[c].id, job[c].record)
         /\ stored' = [stored EXCEPT ![job[c].id] = job[c].record]
         /\ DOMAIN stored = Ids
  <1>1. PICK j : j = job[c]
    OBVIOUS
  <1>2. /\ j.pc = "save" /\ stored' = [stored EXCEPT ![j.id] = j.record] /\ DOMAIN stored = Ids
        /\ JobFits(j) /\ GoodJob(j)
        /\ moved' = moved \cup {x \in {j.id} : Exists(x) /\ ~Keeps(x, stored[x], j.record)}
    BY <1>1 DEF save, Remember, Inv, TypeOK
  <1>3. j.id \in Ids /\ Fits(j.id, j.record)
    BY <1>2 DEF JobFits, NoJob, At
  <1>4. j.record # None
    BY <1>3, RegistryAssumption DEF RegistryAssumption
  <1>5. Good(j.id, j.record)
    BY <1>2 DEF GoodJob
  <1>6. ASSUME NEW id \in Ids, Exists(id)
        PROVE  stored'[id] # None /\ (id \in moved' \/ Keeps(id, stored[id], stored'[id]))
    <2>1. CASE id = j.id
      BY <1>2, <1>4, <1>6, <2>1
    <2>2. CASE id # j.id
      <3>1. stored'[id] = stored[id]
        BY <1>2, <2>2
      <3> QED
        BY <1>6, <3>1 DEF Exists, Keeps
    <2> QED
      BY <2>1, <2>2
  <1>7. moved \subseteq moved'
    BY <1>2
  <1> QED
    BY <1>1, <1>2, <1>3, <1>4, <1>5, <1>6, <1>7 DEF Extends

(* What a call was good for before another's save, it is after.            *)
LEMMA JobLater ==
  ASSUME Inv, Extends, NEW j, JobFits(j), GoodJob(j)
  PROVE  GoodJob(j)'
  <1>1. CASE j = NoJob
    BY <1>1 DEF NoJob, At, GoodJob
  <1>2. CASE j.pc \in {"save", "audit", "bundle"} /\ j # NoJob
    <2>1. j.id \in Ids /\ Fits(j.id, j.record)
      <3>1. CASE j.pc \in {"save", "audit"}
        BY <1>2, <3>1 DEF JobFits
      <3>2. CASE j.pc = "bundle"
        <4>1. j.id \in Sessions /\ j.record \in RunSession
          BY <1>2, <3>2 DEF JobFits
        <4> QED
          BY <4>1, Disjoint DEF Ids, Fits
      <3> QED
        BY <1>2, <3>1, <3>2
    <2>2. Good(j.id, j.record)'
      BY <1>2, <2>1, GoodLater DEF GoodJob
    <2>3. ASSUME j.pc \in {"audit", "bundle"}
          PROVE  Exists(j.id)' /\ (j.id \in moved \/ Keeps(j.id, stored[j.id], j.record))'
      <3>1. /\ Exists(j.id) /\ (j.id \in moved \/ Keeps(j.id, stored[j.id], j.record))
            /\ stored'[j.id] # None /\ moved \subseteq moved'
            /\ j.id \in moved' \/ Keeps(j.id, stored[j.id], stored'[j.id])
        BY <2>1, <2>3 DEF GoodJob, Extends
      <3>2. ASSUME Keeps(j.id, stored[j.id], j.record), Keeps(j.id, stored[j.id], stored'[j.id])
            PROVE  Keeps(j.id, stored'[j.id], j.record)
        BY <3>2 DEF Keeps
      <3>3. Keeps(j.id, stored'[j.id], j.record) => Keeps(j.id, stored[j.id], j.record)'
        BY DEF Keeps
      <3> QED
        BY <3>1, <3>2, <3>3 DEF Exists
    <2> QED
      BY <1>2, <2>2, <2>3 DEF GoodJob
  <1>3. CASE j.pc = "persist" /\ j # NoJob
    <2>1. j.id \in Sessions /\ j.record \in EvidenceBundle /\ GoodBundle(j.id, j.record)
      BY <1>3 DEF JobFits, GoodJob
    <2>2. GoodBundle(j.id, j.record)'
      BY <2>1, BundleLater
    <2> QED
      BY <1>3, <2>2 DEF GoodJob
  <1> QED
    BY <1>1, <1>2, <1>3 DEF JobFits

LEMMA SaveKeepsInv ==
  ASSUME Inv, NEW c \in Callers, save(c)
  PROVE  Inv'
  <1>1. PICK j : j = job[c]
    OBVIOUS
  <1>2. /\ Extends /\ j.id \in Ids /\ Fits(j.id, j.record) /\ j.record # None
        /\ Good(j.id, j.record) /\ stored' = [stored EXCEPT ![j.id] = j.record]
        /\ DOMAIN stored = Ids
    BY <1>1, SaveExtends
  <1>3. PICK next : next = IF j.id \in ConnectorDefinitions THEN NoJob
                           ELSE At("audit", j.id, j.record)
    OBVIOUS
  <1>4. /\ job' = [job EXCEPT ![c] = next] /\ j.pc = "save"
        /\ UNCHANGED <<calls, faults, evidence, audited>>
    BY <1>1, <1>3 DEF save, GoesOn
  <1>5. DOMAIN job = Callers
    BY DEF Inv, TypeOK
  <1>6. job'[c] = next /\ DOMAIN job' = Callers /\ \A x \in Callers : x # c => job'[x] = job[x]
    BY <1>4, <1>5
  <1>7. stored'[j.id] = j.record /\ DOMAIN stored' = Ids
        /\ \A id \in Ids : id # j.id => stored'[id] = stored[id]
    BY <1>2
  <1>8. JobFits(next)
    <2>1. CASE next = NoJob
      BY <2>1 DEF JobFits
    <2>2. CASE next = At("audit", j.id, j.record)
      <3>1. next.pc = "audit" /\ next.id = j.id /\ next.record = j.record
        BY <2>2, AtFields
      <3> QED
        BY <1>2, <2>2, <3>1 DEF JobFits
    <2> QED
      BY <1>3, <2>1, <2>2
  <1>9. Good(j.id, j.record)'
    BY <1>2, GoodLater
  <1>10. GoodJob(next)'
    <2>1. CASE next = NoJob
      BY <2>1 DEF NoJob, At, GoodJob
    <2>2. CASE next = At("audit", j.id, j.record)
      <3>1. next.pc = "audit" /\ next.id = j.id /\ next.record = j.record
        BY <2>2, AtFields
      <3>2. Exists(j.id)' /\ Keeps(j.id, stored[j.id], j.record)'
        BY <1>2, <1>7 DEF Exists, Keeps
      <3> QED
        BY <1>9, <3>1, <3>2 DEF GoodJob
    <2> QED
      BY <1>3, <2>1, <2>2
  <1>11. ASSUME NEW x \in Callers, x # c
         PROVE  GoodJob(job[x])'
    <2>1. PICK i : i = job[x]
      OBVIOUS
    <2>2. JobFits(i) /\ GoodJob(i)
      BY <2>1 DEF Inv, TypeOK
    <2>3. GoodJob(i)'
      BY <1>2, <2>2, JobLater
    <2> QED
      BY <1>6, <1>11, <2>1, <2>3
  <1>12. \A x \in Callers : GoodJob(job[x])'
    BY <1>6, <1>10, <1>11
  <1>13. ASSUME NEW id \in Ids, Exists(id)'
         PROVE  Fits(id, stored'[id]) /\ Good(id, stored[id])'
    <2>1. CASE id = j.id
      BY <1>2, <1>7, <1>9, <2>1
    <2>2. CASE id # j.id
      <3>1. PICK r : r = stored[id]
        OBVIOUS
      <3>2. stored'[id] = r /\ Exists(id)
        BY <1>7, <1>13, <2>2, <3>1 DEF Exists
      <3>3. Fits(id, r) /\ Good(id, r)
        BY <3>1, <3>2, StoredFits
      <3>4. Good(id, r)'
        BY <1>2, <3>3, GoodLater
      <3> QED
        BY <3>2, <3>3, <3>4
    <2> QED
      BY <2>1, <2>2
  <1>14. ASSUME NEW s \in Sessions, evidence'[s] # None
         PROVE  GoodBundle(s, evidence[s])'
    <2>1. PICK e : e = evidence[s]
      OBVIOUS
    <2>2. e \in EvidenceBundle /\ GoodBundle(s, e) /\ evidence'[s] = e
      BY <1>4, <1>14, <2>1 DEF Inv, TypeOK
    <2>3. GoodBundle(s, e)'
      BY <1>2, <2>2, BundleLater
    <2> QED
      BY <2>2, <2>3
  <1>15. saved' \in [Ids -> Nat] /\ moved' \subseteq Ids
    <2>1. saved \in [Ids -> Nat] /\ moved \subseteq Ids
      BY DEF Inv, TypeOK
    <2>2. /\ saved' = [saved EXCEPT ![j.id] = saved[j.id] + 1]
          /\ moved' = moved \cup {x \in {j.id} : Exists(x) /\ ~Keeps(x, stored[x], j.record)}
      BY <1>1 DEF save, Remember
    <2> QED
      BY <1>2, <2>1, <2>2
  <1>16. governed' \in [Sessions -> SUBSET Blueprints]
    <2>1. governed \in [Sessions -> SUBSET Blueprints]
      BY DEF Inv, TypeOK
    <2>2. governed' = [s \in Sessions |-> governed[s] \cup
            {stored'[stored'[x].deployment].blueprint : x \in
               {y \in {s} : stored'[y] # None /\ (stored'[y].terminal \/ governed[y] # {})}}]
      BY DEF save, Remember
    <2>3. ASSUME NEW s \in Sessions, stored'[s] # None
          PROVE  stored'[stored'[s].deployment].blueprint \in Blueprints
      <3>1. s \in Ids
        BY DEF Ids
      <3>2. Fits(s, stored'[s]) /\ Good(s, stored[s])'
        BY <1>13, <2>3, <3>1 DEF Exists
      <3>3. stored'[s].deployment \in Deployments /\ stored'[stored'[s].deployment] # None
        BY <3>2 DEF Fits, RunSession, Good, Exists
      <3>4. stored'[s].deployment \in Ids
        BY <3>3 DEF Ids
      <3>5. Fits(stored'[s].deployment, stored'[stored'[s].deployment])
        BY <1>13, <3>3, <3>4 DEF Exists
      <3> QED
        BY <3>3, <3>5 DEF Fits, DeploymentRecord
    <2> QED
      BY <2>1, <2>2, <2>3
  <1>17. TypeOK'
    <2>1. \A x \in Callers : JobFits(job'[x])
      BY <1>6, <1>8 DEF Inv, TypeOK
    <2>2. \A x \in Callers : JobFits(job[x])'
      BY <2>1 DEF JobFits
    <2>3. /\ evidence' \in [Sessions -> EvidenceBundle \cup {None}]
          /\ audited' \in [Ids -> Nat] /\ calls' \in Nat /\ faults' \in Nat
      BY <1>4 DEF Inv, TypeOK
    <2> QED
      BY <1>6, <1>7, <1>13, <1>15, <1>16, <2>2, <2>3 DEF TypeOK
  <1> QED
    BY <1>12, <1>13, <1>14, <1>17 DEF Inv

LEMMA AuditKeepsInv ==
  ASSUME Inv, NEW c \in Callers, _record_audit_event(c)
  PROVE  Inv'
  <1>1. PICK j : j = job[c]
    OBVIOUS
  <1>2. j.pc = "audit" /\ JobFits(j) /\ GoodJob(j) /\ j # NoJob
    BY <1>1 DEF _record_audit_event, Inv, TypeOK, NoJob, At
  <1>3. j.id \in Ids /\ Fits(j.id, j.record)
    BY <1>2 DEF JobFits
  <1>4. PICK next : next = IF ClosesSession(c) THEN At("bundle", j.id, j.record) ELSE NoJob
    OBVIOUS
  <1>5. /\ job' = [job EXCEPT ![c] = next]
        /\ UNCHANGED <<calls, faults, stored, evidence, history>>
        /\ audited' = [audited EXCEPT ![j.id] = audited[j.id] + 1]
    BY <1>1, <1>4 DEF _record_audit_event, GoesOn
  <1>6. JobFits(next) /\ GoodJob(next)
    <2>1. CASE next = NoJob
      BY <2>1, NoJobFits
    <2>2. CASE ClosesSession(c) /\ next = At("bundle", j.id, j.record)
      <3>1. next.pc = "bundle" /\ next.id = j.id /\ next.record = j.record
        BY <2>2, AtFields
      <3>2. j.id \in Sessions /\ j.record \in RunSession
        BY <1>1, <1>3, <2>2 DEF ClosesSession, Fits
      <3>3. JobFits(next)
        BY <2>2, <3>1, <3>2 DEF JobFits
      <3>4. GoodJob(next)
        BY <1>2, <3>1 DEF GoodJob
      <3> QED
        BY <3>3, <3>4
    <2> QED
      BY <1>4, <2>1, <2>2
  <1>8. audited \in [Ids -> Nat] /\ calls \in Nat /\ faults \in Nat
    BY DEF Inv, TypeOK
  <1>9. audited' \in [Ids -> Nat] /\ calls' \in Nat /\ faults' \in Nat
    BY <1>3, <1>5, <1>8
  <1>10. /\ stored' = stored /\ evidence' = evidence /\ job' = [job EXCEPT ![c] = next]
         /\ history' = history
    BY <1>5
  <1> QED
    BY <1>6, <1>9, <1>10, JobStep

(* The bundle of a deployment and its blueprint as they are.               *)
LEMMA BundleKeepsInv ==
  ASSUME Inv, NEW c \in Callers, _persist_evidence_bundle(c)
  PROVE  Inv'
  <1>1. PICK j : j = job[c]
    OBVIOUS
  <1>2. j.pc = "bundle" /\ JobFits(j) /\ GoodJob(j) /\ j # NoJob
    BY <1>1 DEF _persist_evidence_bundle, Inv, TypeOK, NoJob, At
  <1>3. j.id \in Sessions /\ j.record \in RunSession /\ j.id \in Ids
    BY <1>2 DEF JobFits, Ids
  <1>4. /\ Exists(j.id) /\ Good(j.id, j.record)
        /\ j.id \in moved \/ (/\ j.record.tenant = stored[j.id].tenant
                             /\ j.record.deployment = stored[j.id].deployment)
    BY <1>2, <1>3 DEF GoodJob, Keeps
  <1>5. PICK d : d = j.record.deployment
    OBVIOUS
  <1>6. d \in Deployments /\ Exists(d) /\ j.record.tenant \in Tenants
    BY <1>3, <1>4, <1>5 DEF Good, RunSession
  <1>7. PICK b : b = stored[d].blueprint
    OBVIOUS
  <1>8. b \in Blueprints /\ Exists(b)
    BY <1>6, <1>7, StoredFits DEF Fits, Good, DeploymentRecord, Ids
  <1>9. stored[b] \in AgentBlueprint
        /\ \A x \in stored[b].snapshot.policy_packs \cup stored[b].snapshot.guardrails :
             Pinned(x)
    BY <1>8, StoredFits DEF Fits, Good, Ids, Versioned
  <1>10. PICK e : e = BundleOf(j.record)
    OBVIOUS
  <1>11. e = [tenant |-> j.record.tenant, deployment |-> d, blueprint |-> b,
              version |-> stored[b].version,
              policy_packs |-> stored[b].snapshot.policy_packs,
              guardrails |-> stored[b].snapshot.guardrails]
    BY <1>5, <1>7, <1>10 DEF BundleOf
  <1>12. /\ stored[b].version \in Nat
         /\ stored[b].snapshot.policy_packs \in SUBSET DependencyVersionReference
         /\ stored[b].snapshot.guardrails \in SUBSET DependencyVersionReference
    BY <1>9 DEF AgentBlueprint, BlueprintDependencySnapshot
  <1>13. e \in EvidenceBundle
    BY <1>6, <1>8, <1>11, <1>12 DEF EvidenceBundle
  <1>14. GoodBundle(j.id, e)
    BY <1>4, <1>5, <1>8, <1>9, <1>11 DEF GoodBundle
  <1>15. PICK next : next = At("persist", j.id, e)
    OBVIOUS
  <1>16. next.pc = "persist" /\ next.id = j.id /\ next.record = e
    BY <1>15, AtFields
  <1>17. JobFits(next) /\ GoodJob(next)
    BY <1>3, <1>13, <1>14, <1>15, <1>16 DEF JobFits, GoodJob
  <1>19. /\ job' = [job EXCEPT ![c] = next]
         /\ UNCHANGED <<calls, faults, stored, evidence, audited, history>>
    BY <1>1, <1>10, <1>15 DEF _persist_evidence_bundle, GoesOn
  <1>20. audited \in [Ids -> Nat] /\ calls \in Nat /\ faults \in Nat
    BY DEF Inv, TypeOK
  <1>21. /\ stored' = stored /\ evidence' = evidence /\ audited' \in [Ids -> Nat]
         /\ calls' \in Nat /\ faults' \in Nat /\ history' = history
    BY <1>19, <1>20
  <1> QED
    BY <1>17, <1>19, <1>21, JobStep

LEMMA SaveBundleKeepsInv ==
  ASSUME Inv, NEW c \in Callers, saveBundle(c)
  PROVE  Inv'
  <1>1. PICK j : j = job[c]
    OBVIOUS
  <1>2. j.pc = "persist" /\ JobFits(j) /\ GoodJob(j)
    BY <1>1 DEF saveBundle, Inv, TypeOK
  <1>3. j.id \in Sessions /\ j.record \in EvidenceBundle /\ GoodBundle(j.id, j.record)
    BY <1>2 DEF JobFits, GoodJob, NoJob, At
  <1>4. /\ job' = [job EXCEPT ![c] = NoJob]
        /\ evidence' = [evidence EXCEPT ![j.id] = j.record]
        /\ UNCHANGED <<calls, faults, stored, audited, history>>
    BY <1>1 DEF saveBundle, GoesOn
  <1>6. audited \in [Ids -> Nat] /\ calls \in Nat /\ faults \in Nat
    BY DEF Inv, TypeOK
  <1>7. /\ stored' = stored /\ audited' \in [Ids -> Nat] /\ calls' \in Nat /\ faults' \in Nat
        /\ history' = history
    BY <1>4, <1>6
  <1>8. \E s \in Sessions, e \in EvidenceBundle :
          GoodBundle(s, e) /\ evidence' = [evidence EXCEPT ![s] = e]
    BY <1>3, <1>4
  <1> QED
    BY <1>4, <1>7, <1>8, NoJobFits, JobStep

LEMMA RaisesKeepsInv ==
  ASSUME Inv, NEW c \in Callers, Raises(c)
  PROVE  Inv'
  <1>1. /\ job' = [job EXCEPT ![c] = NoJob] /\ faults' = faults + 1
        /\ UNCHANGED <<calls, stored, evidence, audited, history>>
    BY DEF Raises
  <1>3. audited \in [Ids -> Nat] /\ calls \in Nat /\ faults \in Nat
    BY DEF Inv, TypeOK
  <1>4. /\ stored' = stored /\ evidence' = evidence /\ audited' \in [Ids -> Nat]
        /\ calls' \in Nat /\ faults' \in Nat /\ history' = history
    BY <1>1, <1>3
  <1> QED
    BY <1>1, <1>4, NoJobFits, JobStep

-----------------------------------------------------------------------------
(* The theorems                                                            *)

LEMMA InitInv == Init => Inv
  <1> SUFFICES ASSUME Init PROVE Inv
    OBVIOUS
  <1>1. \A id \in Ids : ~Exists(id)
    BY DEF Init, Exists
  <1>2. \A c \in Callers : job[c] = NoJob
    BY DEF Init
  <1>3. TypeOK
    BY <1>1, <1>2, NoJobFits DEF Init, TypeOK
  <1>4. \A s \in Sessions : evidence[s] = None
    BY DEF Init
  <1> QED
    BY <1>1, <1>2, <1>3, <1>4, NoJobFits DEF Inv

LEMMA NextInv ==
  ASSUME Inv, [Next]_vars
  PROVE  Inv'
  <1>1. ASSUME NEW c \in Callers, Registers(c)
        PROVE  Inv'
    BY <1>1, RegisterTenantKeepsInv, RegisterConnectorDefinitionKeepsInv,
       CreateCredentialKeepsInv, CreateConnectorBindingKeepsInv, PublishPolicyPackKeepsInv,
       PublishGuardrailKeepsInv, RegisterBlueprintKeepsInv DEF Registers
  <1>2. ASSUME NEW c \in Callers, Operates(c)
        PROVE  Inv'
    BY <1>2, DeployKeepsInv, RollbackKeepsInv, StartSessionKeepsInv, CompleteSessionKeepsInv
       DEF Operates
  <1>3. ASSUME NEW c \in Callers, Continues(c)
        PROVE  Inv'
    BY <1>3, SaveKeepsInv, AuditKeepsInv, BundleKeepsInv, SaveBundleKeepsInv, RaisesKeepsInv
       DEF Continues
  <1>4. ASSUME UNCHANGED vars
        PROVE  Inv'
    BY <1>4 DEF vars, history, Inv, TypeOK, Good, GoodBundle, GoodJob, JobFits, Keeps, Exists,
       Pinned
  <1> QED
    BY <1>1, <1>2, <1>3, <1>4 DEF Next, Rest

(* Every reachable state satisfies the invariant.                          *)
THEOREM Invariant == Spec => []Inv
  BY InitInv, NextInv, PTL DEF Spec

(* Every variable of the registries keeps its type.                        *)
THEOREM TypeCorrect == Spec => []TypeOK
  <1>1. Inv => TypeOK
    BY DEF Inv
  <1> QED
    BY <1>1, Invariant, PTL

(* Bindings, credentials, packs, deployments, sessions and evidence never  *)
(* cross from one tenant to another, for any number of threads, unless a   *)
(* caller saves one of them again under its id as another tenant's.        *)
THEOREM Isolated == Spec => []TenantIsolation
  <1>1. ASSUME Inv
        PROVE  TenantIsolation
    <2>1. ASSUME NEW b \in ConnectorBindings, Exists(b)
          PROVE  stored[b].credential \in moved
                   \/ stored[stored[b].credential].tenant = stored[b].tenant
      BY <1>1, <2>1, StoredFits DEF Good, Ids
    <2>2. ASSUME NEW d \in Deployments, Exists(d)
          PROVE  /\ \A b \in stored[d].bindings \ moved : stored[b].tenant = stored[d].tenant
                 /\ \A p \in stored[d].packs \ moved :
                      stored[p].ownership = "tenant" => stored[p].tenant = stored[d].tenant
      BY <1>1, <2>2, StoredFits DEF Good, Ids
    <2>3. ASSUME NEW s \in Sessions, Exists(s)
          PROVE  /\ stored[s].deployment \in moved
                      \/ stored[stored[s].deployment].tenant = stored[s].tenant
                 /\ evidence[s] # None /\ s \notin moved =>
                      /\ evidence[s].tenant = stored[s].tenant
                      /\ evidence[s].deployment = stored[s].deployment
      <3>1. Good(s, stored[s])
        BY <1>1, <2>3, StoredFits DEF Ids
      <3> QED
        BY <1>1, <3>1 DEF Good, Inv, GoodBundle
    <2> QED
      BY <2>1, <2>2, <2>3 DEF TenantIsolation
  <1> QED
    BY <1>1, Invariant, PTL

(* What a blueprint, a deployment or a bundle names as the version of a    *)
(* dependency is that of the stored definition for ever, unless a caller   *)
(* saves this definition again under its id as another version.            *)
THEOREM Pinning == Spec => []DependenciesPinned
  <1>1. ASSUME Inv
        PROVE  DependenciesPinned
    <2>1. ASSUME NEW b \in Blueprints, Exists(b)
          PROVE  \A x \in stored[b].snapshot.policy_packs \cup stored[b].snapshot.guardrails
                            \cup stored[b].snapshot.connector_manifests : Pinned(x)
      BY <1>1, <2>1, StoredFits DEF Good, Ids, Versioned
    <2>2. ASSUME NEW d \in Deployments, Exists(d), stored[d].blueprint \notin moved
          PROVE  stored[stored[d].blueprint].version = stored[d].version
      BY <1>1, <2>2, StoredFits DEF Good, Ids
    <2>3. ASSUME NEW s \in Sessions, evidence[s] # None
          PROVE  /\ evidence[s].blueprint \notin moved =>
                      stored[evidence[s].blueprint].version = evidence[s].version
                 /\ \A x \in evidence[s].policy_packs \cup evidence[s].guardrails : Pinned(x)
      BY <1>1, <2>3 DEF Inv, GoodBundle
    <2> QED
      BY <2>1, <2>2, <2>3 DEF DependenciesPinned
  <1> QED
    BY <1>1, Invariant, PTL

-----------------------------------------------------------------------------
(* The rules that governed a session, and what every save owes the trail   *)

(* A bundle of the session cites a release that its deployment had since   *)
(* the session ended, and the packs and guardrails of that release.        *)
Cites(s, e) ==
  /\ s \in moved \/ e.blueprint \in governed[s]
  /\ \/ e.blueprint \in moved
     \/ /\ e.policy_packs = stored[e.blueprint].snapshot.policy_packs
        /\ e.guardrails = stored[e.blueprint].snapshot.guardrails

GovernedJob(j) ==
  /\ j.pc = "bundle" => j.record.terminal
  /\ j.pc \in {"audit", "bundle"} /\ j.id \in Sessions /\ j.record.terminal =>
       governed[j.id] # {}
  /\ j.pc = "persist" => Cites(j.id, j.record)

GovernedInv ==
  /\ \A s \in Sessions : governed[s] # {} =>
       Exists(s) /\ stored[stored[s].deployment].blueprint \in governed[s]
  /\ \A s \in Sessions : Exists(s) /\ stored[s].terminal => governed[s] # {}
  /\ \A s \in Sessions : evidence[s] # None => Cites(s, evidence[s])
  /\ \A c \in Callers : GovernedJob(job[c])

(* The call will leave the evidence of the session.                        *)
Bundles(j, s) ==
  /\ j.id = s /\ j.pc \in {"audit", "bundle", "persist"}
  /\ j.pc = "audit" => j.record.terminal

BundledInv ==
  faults = 0 => \A s \in Sessions : Exists(s) /\ stored[s].terminal =>
    evidence[s] # None \/ \E c \in Callers : Bundles(job[c], s)

Owing(id) == {c \in Callers : job[c].pc = "audit" /\ job[c].id = id}

(* The audit events there are, and those that calls still owe.             *)
Trail(id) == audited[id] + Cardinality(Owing(id))

TrailInv ==
  \A id \in Ids \ ConnectorDefinitions : Trail(id) <= saved[id] /\ saved[id] <= Trail(id) + faults

(* A call that begins.                                                     *)
LEMMA SomethingBegins ==
  ASSUME NEW c \in Callers, Registers(c) \/ Operates(c)
  PROVE  \E id : \E r : Begins(c, id, r)
  <1>1. CASE register_tenant(c)
    BY <1>1 DEF register_tenant
  <1>2. CASE register_connector_definition(c)
    BY <1>2 DEF register_connector_definition
  <1>3. CASE create_credential_binding(c)
    BY <1>3 DEF create_credential_binding
  <1>4. CASE create_connector_binding(c)
    BY <1>4 DEF create_connector_binding
  <1>5. CASE publish_policy_pack(c)
    BY <1>5 DEF publish_policy_pack
  <1>6. CASE publish_guardrail_definition(c)
    BY <1>6 DEF publish_guardrail_definition
  <1>7. CASE register_agent_blueprint(c)
    BY <1>7 DEF register_agent_blueprint
  <1>8. CASE deploy_agent(c)
    BY <1>8 DEF deploy_agent
  <1>9. CASE rollback_deployment_to_blueprint(c)
    BY <1>9 DEF rollback_deployment_to_blueprint
  <1>10. CASE start_run_session(c)
    BY <1>10 DEF start_run_session
  <1>11. CASE complete_run_session(c)
    BY <1>11 DEF complete_run_session
  <1> QED
    BY <1>1, <1>2, <1>3, <1>4, <1>5, <1>6, <1>7, <1>8, <1>9, <1>10, <1>11
       DEF Registers, Operates

-----------------------------------------------------------------------------
(* The rules that governed a session                                       *)

LEMMA GovernedNoJob == GovernedJob(NoJob)
  BY DEF GovernedJob, NoJob, At

(* Steps that save no record: c's call becomes j.                          *)
LEMMA GovernedJobStep ==
  ASSUME Inv, GovernedInv, NEW c \in Callers, NEW j, GovernedJob(j),
         job' = [job EXCEPT ![c] = j], stored' = stored, history' = history,
         \/ evidence' = evidence
         \/ \E s \in Sessions, e \in EvidenceBundle :
              Cites(s, e) /\ evidence' = [evidence EXCEPT ![s] = e]
  PROVE  GovernedInv'
  <1>1. DOMAIN job = Callers /\ evidence \in [Sessions -> EvidenceBundle \cup {None}]
    BY DEF Inv, TypeOK
  <1>2. job'[c] = j /\ \A x \in Callers : x # c => job'[x] = job[x]
    BY <1>1
  <1>3. \A x \in Callers : GovernedJob(job'[x])
    BY <1>2 DEF GovernedInv
  <1>4. moved' = moved /\ governed' = governed
    BY DEF history
  <1>5. \A x \in Callers : GovernedJob(job[x])'
    BY <1>3, <1>4 DEF GovernedJob, Cites
  <1>6. \A s \in Sessions : evidence'[s] # None => Cites(s, evidence'[s])
    BY <1>1 DEF GovernedInv
  <1>7. \A s \in Sessions : (evidence[s] # None => Cites(s, evidence[s]))'
    BY <1>4, <1>6 DEF Cites
  <1>8. /\ (\A s \in Sessions : governed[s] # {} =>
              Exists(s) /\ stored[stored[s].deployment].blueprint \in governed[s])'
        /\ (\A s \in Sessions : Exists(s) /\ stored[s].terminal => governed[s] # {})'
    BY <1>4 DEF GovernedInv, Exists
  <1> QED
    BY <1>5, <1>7, <1>8 DEF GovernedInv

LEMMA BeginKeepsGoverned ==
  ASSUME Inv, GovernedInv, NEW c \in Callers, NEW id, NEW r, Begins(c, id, r)
  PROVE  GovernedInv'
  <1>1. PICK j : j = At("save", id, r)
    OBVIOUS
  <1>2. GovernedJob(j)
    BY <1>1, AtFields DEF GovernedJob
  <1>3. /\ job' = [job EXCEPT ![c] = j] /\ stored' = stored /\ evidence' = evidence
        /\ history' = history
    BY <1>1 DEF Begins
  <1> QED
    BY <1>2, <1>3, GovernedJobStep

(* A release that is not saved again as another one keeps its snapshot.    *)
LEMMA CitesLater ==
  ASSUME Extends, NEW s \in Sessions, NEW e \in EvidenceBundle, GoodBundle(s, e), Cites(s, e),
         governed[s] \subseteq governed'[s]
  PROVE  Cites(s, e)'
  <1>1. e.blueprint \in Blueprints /\ e.blueprint \in Ids /\ Exists(e.blueprint)
    BY DEF EvidenceBundle, Ids, Versioned, GoodBundle
  <1>2. e.blueprint \in moved' \/ stored'[e.blueprint].snapshot = stored[e.blueprint].snapshot
    BY <1>1 DEF Extends, Keeps
  <1>3. moved \subseteq moved'
    BY DEF Extends
  <1> QED
    BY <1>2, <1>3 DEF Cites

LEMMA SaveKeepsGoverned ==
  ASSUME Inv, GovernedInv, NEW c \in Callers, save(c)
  PROVE  GovernedInv'
  <1>1. PICK j : j = job[c]
    OBVIOUS
  <1>2. /\ Extends /\ j.id \in Ids /\ stored' = [stored EXCEPT ![j.id] = j.record]
        /\ DOMAIN stored = Ids /\ j.record # None
    BY <1>1, SaveExtends
  <1>3. PICK next : next = IF j.id \in ConnectorDefinitions THEN NoJob
                           ELSE At("audit", j.id, j.record)
    OBVIOUS
  <1>4. job' = [job EXCEPT ![c] = next] /\ evidence' = evidence
    BY <1>1, <1>3 DEF save, GoesOn
  <1>5. DOMAIN job = Callers
    BY DEF Inv, TypeOK
  <1>6. job'[c] = next /\ \A x \in Callers : x # c => job'[x] = job[x]
    BY <1>4, <1>5
  <1>7. \A s \in Sessions : governed'[s] = governed[s] \cup
          {stored'[stored'[x].deployment].blueprint : x \in
             {y \in {s} : stored'[y] # None /\ (stored'[y].terminal \/ governed[y] # {})}}
    BY DEF save, Remember
  <1>8. \A s \in Sessions :
          /\ governed[s] \subseteq governed'[s]
          /\ stored'[s] # None /\ (stored'[s].terminal \/ governed[s] # {}) =>
               stored'[stored'[s].deployment].blueprint \in governed'[s]
          /\ governed'[s] # {} =>
               governed[s] # {} \/ (stored'[s] # None /\ stored'[s].terminal)
    BY <1>7
  <1>9. \A s \in Sessions : governed[s] # {} => stored'[s] # None
    BY <1>2 DEF GovernedInv, Extends, Ids
  <1>10. \A s \in Sessions : governed'[s] # {} =>
           stored'[s] # None /\ stored'[stored'[s].deployment].blueprint \in governed'[s]
    BY <1>8, <1>9
  <1>11. \A s \in Sessions : stored'[s] # None /\ stored'[s].terminal => governed'[s] # {}
    BY <1>8
  <1>12. GovernedJob(next)'
    <2>1. CASE j.id \in ConnectorDefinitions
      BY <1>3, <2>1 DEF GovernedJob, NoJob, At
    <2>2. CASE j.id \notin ConnectorDefinitions
      <3>1. next.pc = "audit" /\ next.id = j.id /\ next.record = j.record
        BY <1>3, <2>2, AtFields
      <3>2. stored'[j.id] = j.record
        BY <1>2
      <3>3. j.id \in Sessions /\ j.record.terminal => governed'[j.id] # {}
        BY <1>2, <1>11, <3>2
      <3> QED
        BY <3>1, <3>3 DEF GovernedJob
    <2> QED
      BY <2>1, <2>2
  <1>13. ASSUME NEW x \in Callers, x # c
         PROVE  GovernedJob(job[x])'
    <2>1. PICK i : i = job[x]
      OBVIOUS
    <2>2. JobFits(i) /\ GoodJob(i) /\ GovernedJob(i)
      BY <2>1 DEF Inv, TypeOK, GovernedInv
    <2>3. i.pc = "persist" => Cites(i.id, i.record)'
      <3>1. SUFFICES ASSUME i.pc = "persist" PROVE Cites(i.id, i.record)'
        OBVIOUS
      <3>2. i.id \in Sessions /\ i.record \in EvidenceBundle /\ GoodBundle(i.id, i.record)
            /\ Cites(i.id, i.record)
        BY <2>2, <3>1 DEF JobFits, GoodJob, GovernedJob, NoJob, At
      <3> QED
        BY <1>2, <1>8, <3>2, CitesLater
    <2>4. i.pc \in {"audit", "bundle"} /\ i.id \in Sessions /\ i.record.terminal =>
            governed'[i.id] # {}
      BY <1>8, <2>2 DEF GovernedJob
    <2>5. i.pc = "bundle" => i.record.terminal
      BY <2>2 DEF GovernedJob
    <2>6. job'[x] = i
      BY <1>6, <1>13, <2>1
    <2> QED
      BY <2>3, <2>4, <2>5, <2>6 DEF GovernedJob
  <1>14. \A x \in Callers : GovernedJob(job[x])'
    BY <1>6, <1>12, <1>13
  <1>15. ASSUME NEW s \in Sessions, evidence'[s] # None
         PROVE  Cites(s, evidence[s])'
    <2>1. PICK e : e = evidence[s]
      OBVIOUS
    <2>2. e \in EvidenceBundle /\ GoodBundle(s, e) /\ Cites(s, e) /\ evidence'[s] = e
      BY <1>4, <1>15, <2>1 DEF Inv, TypeOK, GovernedInv
    <2>3. Cites(s, e)'
      BY <1>2, <1>8, <2>2, CitesLater
    <2> QED
      BY <2>2, <2>3
  <1> QED
    BY <1>10, <1>11, <1>14, <1>15 DEF GovernedInv, Exists

(* The bundle of a session that ended has the release its deployment has.  *)
LEMMA BundleCites ==
  ASSUME Inv, GovernedInv, NEW c \in Callers, _persist_evidence_bundle(c)
  PROVE  Cites(job[c].id, BundleOf(job[c].record))
  <1>1. PICK j : j = job[c]
    OBVIOUS
  <1>2. j.pc = "bundle" /\ JobFits(j) /\ GoodJob(j) /\ GovernedJob(j)
    BY <1>1 DEF _persist_evidence_bundle, Inv, TypeOK, GovernedInv
  <1>3. j.id \in Sessions /\ j.record \in RunSession /\ j.record.terminal
    BY <1>2 DEF JobFits, GovernedJob, NoJob, At
  <1>4. PICK e : e = BundleOf(j.record)
    OBVIOUS
  <1>5. /\ e.blueprint = stored[j.record.deployment].blueprint
        /\ e.policy_packs = stored[stored[j.record.deployment].blueprint].snapshot.policy_packs
        /\ e.guardrails = stored[stored[j.record.deployment].blueprint].snapshot.guardrails
    BY <1>4 DEF BundleOf
  <1>6. stored[stored[j.id].deployment].blueprint \in governed[j.id]
    BY <1>2, <1>3 DEF GovernedJob, GovernedInv
  <1>7. j.id \in moved \/ j.record.deployment = stored[j.id].deployment
    BY <1>2, <1>3 DEF GoodJob, Keeps
  <1> QED
    BY <1>1, <1>4, <1>5, <1>6, <1>7 DEF Cites

LEMMA ContinuesKeepsGoverned ==
  ASSUME Inv, GovernedInv, NEW c \in Callers, Continues(c)
  PROVE  GovernedInv'
  <1>1. CASE save(c)
    BY <1>1, SaveKeepsGoverned
  <1>2. CASE _record_audit_event(c)
    <2>1. PICK j : j = job[c]
      OBVIOUS
    <2>2. PICK next : next = IF ClosesSession(c) THEN At("bundle", j.id, j.record) ELSE NoJob
      OBVIOUS
    <2>3. j.pc = "audit" /\ GovernedJob(j)
      BY <1>2, <2>1 DEF _record_audit_event, GovernedInv
    <2>4. GovernedJob(next)
      <3>1. CASE ClosesSession(c)
        <4>1. next.pc = "bundle" /\ next.id = j.id /\ next.record = j.record
          BY <2>2, <3>1, AtFields
        <4> QED
          BY <2>1, <2>3, <3>1, <4>1 DEF GovernedJob, ClosesSession
      <3>2. CASE ~ClosesSession(c)
        BY <2>2, <3>2, GovernedNoJob
      <3> QED
        BY <3>1, <3>2
    <2>5. /\ job' = [job EXCEPT ![c] = next] /\ stored' = stored /\ evidence' = evidence
          /\ history' = history
      BY <1>2, <2>1, <2>2 DEF _record_audit_event, GoesOn
    <2> QED
      BY <2>4, <2>5, GovernedJobStep
  <1>3. CASE _persist_evidence_bundle(c)
    <2>1. PICK e : e = BundleOf(job[c].record)
      OBVIOUS
    <2>2. PICK next : next = At("persist", job[c].id, e)
      OBVIOUS
    <2>3. Cites(job[c].id, e)
      BY <1>3, <2>1, BundleCites
    <2>4. GovernedJob(next)
      BY <2>2, <2>3, AtFields DEF GovernedJob
    <2>5. /\ job' = [job EXCEPT ![c] = next] /\ stored' = stored /\ evidence' = evidence
          /\ history' = history
      BY <1>3, <2>1, <2>2 DEF _persist_evidence_bundle, GoesOn
    <2> QED
      BY <2>4, <2>5, GovernedJobStep
  <1>4. CASE saveBundle(c)
    <2>1. PICK j : j = job[c]
      OBVIOUS
    <2>2. j.pc = "persist" /\ JobFits(j) /\ GovernedJob(j)
      BY <1>4, <2>1 DEF saveBundle, Inv, TypeOK, GovernedInv
    <2>3. j.id \in Sessions /\ j.record \in EvidenceBundle /\ Cites(j.id, j.record)
      BY <2>2 DEF JobFits, GovernedJob, NoJob, At
    <2>4. /\ job' = [job EXCEPT ![c] = NoJob] /\ stored' = stored /\ history' = history
          /\ evidence' = [evidence EXCEPT ![j.id] = j.record]
      BY <1>4, <2>1 DEF saveBundle, GoesOn
    <2> QED
      BY <2>3, <2>4, GovernedNoJob, GovernedJobStep
  <1>5. CASE Raises(c)
    <2>1. /\ job' = [job EXCEPT ![c] = NoJob] /\ stored' = stored /\ evidence' = evidence
          /\ history' = history
      BY <1>5 DEF Raises
    <2> QED
      BY <2>1, GovernedNoJob, GovernedJobStep
  <1> QED
    BY <1>1, <1>2, <1>3, <1>4, <1>5 DEF Continues

-----------------------------------------------------------------------------
(* A session that ended has its evidence, or a call that will leave it     *)

(* Steps that save no record and after which c's call leaves what it did.  *)
LEMMA BundledJobStep ==
  ASSUME Inv, BundledInv, NEW c \in Callers, NEW j, job' = [job EXCEPT ![c] = j],
         stored' = stored, faults' = faults,
         \A s \in Sessions : evidence[s] # None => evidence'[s] # None,
         \A s \in Sessions : Bundles(job[c], s) => Bundles(j, s) \/ evidence'[s] # None
  PROVE  BundledInv'
  <1>1. DOMAIN job = Callers
    BY DEF Inv, TypeOK
  <1>2. job'[c] = j /\ \A x \in Callers : x # c => job'[x] = job[x]
    BY <1>1
  <1>3. ASSUME faults = 0, NEW s \in Sessions, stored[s] # None, stored[s].terminal
        PROVE  evidence'[s] # None \/ \E x \in Callers : Bundles(job'[x], s)
    <2>1. evidence[s] # None \/ \E x \in Callers : Bundles(job[x], s)
      BY <1>3 DEF BundledInv, Exists
    <2>2. ASSUME NEW x \in Callers, Bundles(job[x], s)
          PROVE  evidence'[s] # None \/ \E y \in Callers : Bundles(job'[y], s)
      <3>1. CASE x = c
        BY <1>2, <2>2, <3>1
      <3>2. CASE x # c
        BY <1>2, <2>2, <3>2
      <3> QED
        BY <3>1, <3>2
    <2> QED
      BY <2>1, <2>2
  <1> QED
    BY <1>3 DEF BundledInv, Bundles, Exists

LEMMA BeginKeepsBundled ==
  ASSUME Inv, BundledInv, NEW c \in Callers, NEW id, NEW r, Begins(c, id, r)
  PROVE  BundledInv'
  <1>1. /\ job[c] = NoJob /\ job' = [job EXCEPT ![c] = At("save", id, r)]
        /\ stored' = stored /\ evidence' = evidence /\ faults' = faults
    BY DEF Begins
  <1>2. \A s \in Sessions : ~Bundles(job[c], s)
    BY <1>1 DEF Bundles, NoJob, At
  <1> QED
    BY <1>1, <1>2, BundledJobStep

LEMMA SaveKeepsBundled ==
  ASSUME Inv, BundledInv, NEW c \in Callers, save(c)
  PROVE  BundledInv'
  <1>1. PICK j : j = job[c]
    OBVIOUS
  <1>2. /\ j.id \in Ids /\ stored' = [stored EXCEPT ![j.id] = j.record] /\ DOMAIN stored = Ids
        /\ DOMAIN job = Callers
    BY <1>1, SaveExtends DEF Inv, TypeOK
  <1>3. PICK next : next = IF j.id \in ConnectorDefinitions THEN NoJob
                           ELSE At("audit", j.id, j.record)
    OBVIOUS
  <1>4. /\ job' = [job EXCEPT ![c] = next] /\ j.pc = "save" /\ evidence' = evidence
        /\ faults' = faults
    BY <1>1, <1>3 DEF save, GoesOn
  <1>5. job'[c] = next /\ \A x \in Callers : x # c => job'[x] = job[x]
    BY <1>2, <1>4
  <1>6. ASSUME faults = 0, NEW s \in Sessions, stored'[s] # None, stored'[s].terminal
        PROVE  evidence'[s] # None \/ \E x \in Callers : Bundles(job'[x], s)
    <2>1. s \in Ids /\ s \notin ConnectorDefinitions
      BY Disjoint DEF Ids
    <2>2. CASE s = j.id
      <3>1. next.pc = "audit" /\ next.id = s /\ next.record = stored'[s]
        BY <1>2, <1>3, <2>1, <2>2, AtFields
      <3>2. Bundles(next, s)
        BY <1>6, <3>1 DEF Bundles
      <3> QED
        BY <1>5, <3>2
    <2>3. CASE s # j.id
      <3>1. evidence[s] # None \/ \E x \in Callers : Bundles(job[x], s)
        BY <1>2, <1>6, <2>1, <2>3 DEF BundledInv, Exists
      <3>2. ~Bundles(job[c], s)
        BY <1>1, <1>4 DEF Bundles
      <3> QED
        BY <1>4, <1>5, <3>1, <3>2
    <2> QED
      BY <2>2, <2>3
  <1> QED
    BY <1>4, <1>6 DEF BundledInv, Bundles, Exists

LEMMA ContinuesKeepsBundled ==
  ASSUME Inv, BundledInv, NEW c \in Callers, Continues(c)
  PROVE  BundledInv'
  <1>1. CASE save(c)
    BY <1>1, SaveKeepsBundled
  <1>2. CASE _record_audit_event(c)
    <2>1. PICK j : j = job[c]
      OBVIOUS
    <2>2. PICK next : next = IF ClosesSession(c) THEN At("bundle", j.id, j.record)
                             ELSE NoJob
      OBVIOUS
    <2>3. /\ job' = [job EXCEPT ![c] = next] /\ stored' = stored /\ evidence' = evidence
          /\ faults' = faults /\ j.pc = "audit"
      BY <1>2, <2>1, <2>2 DEF _record_audit_event, GoesOn
    <2>4. ASSUME NEW s \in Sessions, Bundles(j, s)
          PROVE  Bundles(next, s)
      <3>1. next = At("bundle", j.id, j.record) /\ j.id = s
        BY <2>1, <2>2, <2>3, <2>4 DEF Bundles, ClosesSession
      <3> QED
        BY <3>1, AtFields DEF Bundles
    <2> QED
      BY <2>1, <2>3, <2>4, BundledJobStep
  <1>3. CASE _persist_evidence_bundle(c)
    <2>1. PICK e : e = BundleOf(job[c].record)
      OBVIOUS
    <2>2. PICK next : next = At("persist", job[c].id, e)
      OBVIOUS
    <2>3. /\ job' = [job EXCEPT ![c] = next] /\ stored' = stored /\ evidence' = evidence
          /\ faults' = faults
      BY <1>3, <2>1, <2>2 DEF _persist_evidence_bundle, GoesOn
    <2>4. \A s \in Sessions : Bundles(job[c], s) => Bundles(next, s)
      BY <2>2, AtFields DEF Bundles
    <2> QED
      BY <2>3, <2>4, BundledJobStep
  <1>4. CASE saveBundle(c)
    <2>1. PICK j : j = job[c]
      OBVIOUS
    <2>2. j.pc = "persist" /\ JobFits(j)
      BY <1>4, <2>1 DEF saveBundle, Inv, TypeOK
    <2>3. j.id \in Sessions /\ j.record # None
      BY <2>2, RegistryAssumption DEF JobFits, NoJob, At, RegistryAssumption
    <2>4. /\ job' = [job EXCEPT ![c] = NoJob] /\ stored' = stored /\ faults' = faults
          /\ evidence' = [evidence EXCEPT ![j.id] = j.record]
      BY <1>4, <2>1 DEF saveBundle, GoesOn
    <2>5. evidence \in [Sessions -> EvidenceBundle \cup {None}]
      BY DEF Inv, TypeOK
    <2>6. /\ evidence'[j.id] # None
          /\ \A s \in Sessions : evidence[s] # None => evidence'[s] # None
      BY <2>3, <2>4, <2>5
    <2>7. \A s \in Sessions : Bundles(j, s) => evidence'[s] # None
      BY <2>6 DEF Bundles
    <2> QED
      BY <2>1, <2>4, <2>6, <2>7, BundledJobStep
  <1>5. CASE Raises(c)
    <2>1. faults' = faults + 1 /\ faults \in Nat
      BY <1>5 DEF Raises, Inv, TypeOK
    <2>2. faults' # 0
      BY <2>1
    <2> QED
      BY <2>2 DEF BundledInv
  <1> QED
    BY <1>1, <1>2, <1>3, <1>4, <1>5 DEF Continues

-----------------------------------------------------------------------------
(* Every save has its audit event, or a call that will record it           *)

LEMMA OwingFinite ==
  ASSUME NEW id
  PROVE  IsFiniteSet(Owing(id)) /\ Cardinality(Owing(id)) \in Nat
  <1>1. IsFiniteSet(Callers)
    BY RegistryAssumption DEF RegistryAssumption
  <1>2. IsFiniteSet(Owing(id))
    BY <1>1, FS_Subset DEF Owing
  <1> QED
    BY <1>2, FS_CardinalityType

LEMMA TrailIsNat ==
  ASSUME Inv, NEW id \in Ids
  PROVE  Trail(id) \in Nat
  <1>1. audited[id] \in Nat
    BY DEF Inv, TypeOK
  <1> QED
    BY <1>1, OwingFinite DEF Trail

(* A call that neither owed an event nor owes one now.                     *)
LEMMA TrailStays ==
  ASSUME Inv, NEW c \in Callers, NEW j, job' = [job EXCEPT ![c] = j],
         job[c].pc # "audit", j.pc # "audit", audited' = audited, NEW id \in Ids
  PROVE  Trail(id)' = Trail(id)
  <1>1. DOMAIN job = Callers
    BY DEF Inv, TypeOK
  <1>2. job'[c] = j /\ \A x \in Callers : x # c => job'[x] = job[x]
    BY <1>1
  <1>3. \A x \in Callers : (job'[x].pc = "audit" /\ job'[x].id = id)
                             <=> (job[x].pc = "audit" /\ job[x].id = id)
    BY <1>2
  <1>4. Owing(id)' = Owing(id)
    BY <1>3 DEF Owing
  <1> QED
    BY <1>4 DEF Trail

(* Steps that save no record and leave the trail as it is.                 *)
LEMMA TrailJobStep ==
  ASSUME TrailInv, saved' = saved, faults' = faults, \A id \in Ids : Trail(id)' = Trail(id)
  PROVE  TrailInv'
  BY DEF TrailInv

LEMMA BeginKeepsTrail ==
  ASSUME Inv, TrailInv, NEW c \in Callers, NEW id, NEW r, Begins(c, id, r)
  PROVE  TrailInv'
  <1>1. PICK j : j = At("save", id, r)
    OBVIOUS
  <1>2. /\ job[c] = NoJob /\ job' = [job EXCEPT ![c] = j] /\ faults' = faults
        /\ audited' = audited /\ saved' = saved
    BY <1>1 DEF Begins, history
  <1>3. job[c].pc # "audit" /\ j.pc # "audit"
    BY <1>1, <1>2 DEF NoJob, At
  <1>4. \A i \in Ids : Trail(i)' = Trail(i)
    BY <1>2, <1>3, TrailStays
  <1> QED
    BY <1>2, <1>4, TrailJobStep

(* A call that now owes an event.                                          *)
LEMMA SaveOwes ==
  ASSUME Inv, NEW c \in Callers, NEW j, j.pc = "audit", job[c].pc # "audit",
         job' = [job EXCEPT ![c] = j], audited' = audited, NEW id \in Ids
  PROVE  Trail(id)' = IF id = j.id THEN Trail(id) + 1 ELSE Trail(id)
  <1>1. DOMAIN job = Callers
    BY DEF Inv, TypeOK
  <1>2. job'[c] = j /\ \A x \in Callers : x # c => job'[x] = job[x]
    BY <1>1
  <1>3. PICK owing : owing = Owing(id)
    OBVIOUS
  <1>4. IsFiniteSet(owing) /\ Cardinality(owing) \in Nat /\ audited[id] \in Nat
    BY <1>3, OwingFinite DEF Inv, TypeOK
  <1>5. CASE id = j.id
    <2>1. Owing(id)' = owing \cup {c} /\ c \notin owing
      BY <1>2, <1>3, <1>5 DEF Owing
    <2>2. Cardinality(owing \cup {c}) = Cardinality(owing) + 1
      BY <1>4, <2>1, FS_AddElement
    <2>3. Trail(id)' = audited[id] + Cardinality(owing \cup {c})
      BY <2>1 DEF Trail
    <2> QED
      BY <1>3, <1>4, <1>5, <2>2, <2>3 DEF Trail
  <1>6. CASE id # j.id
    <2>1. Owing(id)' = owing
      BY <1>2, <1>3, <1>6 DEF Owing
    <2> QED
      BY <1>3, <1>6, <2>1 DEF Trail
  <1> QED
    BY <1>5, <1>6

(* A call that records the event it owed.                                  *)
LEMMA AuditPays ==
  ASSUME Inv, NEW c \in Callers, NEW j, j.pc # "audit", job[c].pc = "audit",
         job[c].id \in Ids, job' = [job EXCEPT ![c] = j],
         audited' = [audited EXCEPT ![job[c].id] = audited[job[c].id] + 1], NEW id \in Ids
  PROVE  Trail(id)' = Trail(id)
  <1>1. DOMAIN job = Callers /\ audited \in [Ids -> Nat]
    BY DEF Inv, TypeOK
  <1>2. job'[c] = j /\ \A x \in Callers : x # c => job'[x] = job[x]
    BY <1>1
  <1>3. PICK owing : owing = Owing(id)
    OBVIOUS
  <1>4. IsFiniteSet(owing) /\ Cardinality(owing) \in Nat /\ audited[id] \in Nat
    BY <1>1, <1>3, OwingFinite
  <1>5. CASE id = job[c].id
    <2>1. Owing(id)' = owing \ {c} /\ c \in owing
      BY <1>2, <1>3, <1>5 DEF Owing
    <2>2. Cardinality(owing \ {c}) = Cardinality(owing) - 1
      BY <1>4, <2>1, FS_RemoveElement
    <2>3. audited'[id] = audited[id] + 1
      BY <1>1, <1>5
    <2>4. Trail(id)' = audited'[id] + Cardinality(owing \ {c})
      BY <2>1 DEF Trail
    <2> QED
      BY <1>3, <1>4, <2>2, <2>3, <2>4 DEF Trail
  <1>6. CASE id # job[c].id
    <2>1. Owing(id)' = owing
      BY <1>2, <1>3, <1>6 DEF Owing
    <2>2. audited'[id] = audited[id]
      BY <1>1, <1>6
    <2>3. Trail(id)' = audited'[id] + Cardinality(owing)
      BY <2>1 DEF Trail
    <2> QED
      BY <1>3, <2>2, <2>3 DEF Trail
  <1> QED
    BY <1>5, <1>6

(* A call that ends in a fault owes nothing any more.                      *)
LEMMA RaisesForgets ==
  ASSUME Inv, NEW c \in Callers, Raises(c), NEW id \in Ids
  PROVE  Trail(id)' = Trail(id) \/ Trail(id)' = Trail(id) - 1
  <1>1. DOMAIN job = Callers /\ job' = [job EXCEPT ![c] = NoJob] /\ audited' = audited
    BY DEF Inv, TypeOK, Raises
  <1>2. job'[c].pc # "audit" /\ \A x \in Callers : x # c => job'[x] = job[x]
    BY <1>1 DEF NoJob, At
  <1>3. PICK owing : owing = Owing(id)
    OBVIOUS
  <1>4. IsFiniteSet(owing) /\ Cardinality(owing) \in Nat /\ audited[id] \in Nat
    BY <1>3, OwingFinite DEF Inv, TypeOK
  <1>5. Owing(id)' = owing \ {c}
    BY <1>2, <1>3 DEF Owing
  <1>6. CASE c \in owing
    <2>1. Cardinality(owing \ {c}) = Cardinality(owing) - 1
      BY <1>4, <1>6, FS_RemoveElement
    <2> QED
      BY <1>1, <1>3, <1>4, <1>5, <2>1 DEF Trail
  <1>7. CASE c \notin owing
    <2>1. Owing(id)' = owing
      BY <1>5, <1>7
    <2> QED
      BY <1>1, <1>3, <2>1 DEF Trail
  <1> QED
    BY <1>6, <1>7

LEMMA SaveKeepsTrail ==
  ASSUME Inv, TrailInv, NEW c \in Callers, save(c)
  PROVE  TrailInv'
  <1>1. PICK j : j = job[c]
    OBVIOUS
  <1>2. PICK next : next = IF j.id \in ConnectorDefinitions THEN NoJob
                           ELSE At("audit", j.id, j.record)
    OBVIOUS
  <1>3. /\ job' = [job EXCEPT ![c] = next] /\ j.pc = "save" /\ audited' = audited
        /\ faults' = faults /\ saved' = [saved EXCEPT ![j.id] = saved[j.id] + 1]
    BY <1>1, <1>2 DEF save, Remember, GoesOn
  <1>4. j.id \in Ids /\ saved \in [Ids -> Nat] /\ faults \in Nat
    BY <1>1, SaveExtends DEF Inv, TypeOK
  <1>5. ASSUME NEW id \in Ids \ ConnectorDefinitions
        PROVE  Trail(id)' <= saved'[id] /\ saved'[id] <= Trail(id)' + faults
    <2>1. PICK t \in Nat : t = Trail(id)
      BY TrailIsNat
    <2>2. PICK n \in Nat : n = saved[id]
      BY <1>4
    <2>3. t <= n /\ n <= t + faults
      BY <2>1, <2>2 DEF TrailInv
    <2>4. CASE id = j.id
      <3>1. next.pc = "audit" /\ next.id = id
        BY <1>2, <2>4, AtFields
      <3>2. Trail(id)' = t + 1
        BY <1>1, <1>3, <2>1, <3>1, SaveOwes
      <3>3. saved'[id] = n + 1
        BY <1>3, <1>4, <2>2, <2>4
      <3> QED
        BY <1>4, <2>3, <3>2, <3>3
    <2>5. CASE id # j.id
      <3>1. saved'[id] = n
        BY <1>3, <1>4, <2>2, <2>5
      <3>2. Trail(id)' = t
        <4>1. CASE j.id \in ConnectorDefinitions
          <5>1. next.pc # "audit" /\ job[c].pc # "audit"
            BY <1>1, <1>2, <1>3, <4>1 DEF NoJob, At
          <5> QED
            BY <1>3, <2>1, <5>1, TrailStays
        <4>2. CASE j.id \notin ConnectorDefinitions
          <5>1. next.pc = "audit" /\ next.id = j.id /\ job[c].pc # "audit"
            BY <1>1, <1>2, <1>3, <4>2, AtFields
          <5> QED
            BY <1>3, <2>1, <2>5, <5>1, SaveOwes
        <4> QED
          BY <4>1, <4>2
      <3> QED
        BY <2>3, <3>1, <3>2
    <2> QED
      BY <2>4, <2>5
  <1> QED
    BY <1>3, <1>5 DEF TrailInv

LEMMA ContinuesKeepsTrail ==
  ASSUME Inv, TrailInv, NEW c \in Callers, Continues(c)
  PROVE  TrailInv'
  <1>1. CASE save(c)
    BY <1>1, SaveKeepsTrail
  <1>2. CASE _record_audit_event(c)
    <2>1. PICK next : next = IF ClosesSession(c) THEN At("bundle", job[c].id, job[c].record)
                             ELSE NoJob
      OBVIOUS
    <2>2. next.pc \in {"idle", "bundle"}
      BY <2>1, AtFields DEF NoJob
    <2>3. job[c].pc = "audit" /\ job[c].id \in Ids
      BY <1>2 DEF _record_audit_event, Inv, TypeOK, JobFits, NoJob, At
    <2>4. /\ job' = [job EXCEPT ![c] = next] /\ saved' = saved /\ faults' = faults
          /\ audited' = [audited EXCEPT ![job[c].id] = audited[job[c].id] + 1]
      BY <1>2, <2>1 DEF _record_audit_event, GoesOn, history
    <2>5. \A id \in Ids : Trail(id)' = Trail(id)
      BY <2>2, <2>3, <2>4, AuditPays
    <2> QED
      BY <2>4, <2>5, TrailJobStep
  <1>3. CASE _persist_evidence_bundle(c)
    <2>1. PICK e : e = BundleOf(job[c].record)
      OBVIOUS
    <2>2. PICK next : next = At("persist", job[c].id, e)
      OBVIOUS
    <2>3. /\ job' = [job EXCEPT ![c] = next] /\ saved' = saved /\ faults' = faults
          /\ audited' = audited /\ job[c].pc # "audit" /\ next.pc = "persist"
      BY <1>3, <2>1, <2>2, AtFields DEF _persist_evidence_bundle, GoesOn, history
    <2>4. \A id \in Ids : Trail(id)' = Trail(id)
      BY <2>3, TrailStays
    <2> QED
      BY <2>3, <2>4, TrailJobStep
  <1>4. CASE saveBundle(c)
    <2>1. PICK next : next = NoJob
      OBVIOUS
    <2>2. /\ job' = [job EXCEPT ![c] = next] /\ saved' = saved /\ faults' = faults
          /\ audited' = audited /\ job[c].pc # "audit" /\ next.pc = "idle"
      BY <1>4, <2>1 DEF saveBundle, GoesOn, history, NoJob, At
    <2>3. \A id \in Ids : Trail(id)' = Trail(id)
      BY <2>2, TrailStays
    <2> QED
      BY <2>2, <2>3, TrailJobStep
  <1>5. CASE Raises(c)
    <2>1. faults' = faults + 1 /\ saved' = saved
      BY <1>5 DEF Raises, history
    <2>2. faults \in Nat /\ saved \in [Ids -> Nat]
      BY DEF Inv, TypeOK
    <2>3. ASSUME NEW id \in Ids \ ConnectorDefinitions
          PROVE  Trail(id)' <= saved[id] /\ saved[id] <= Trail(id)' + (faults + 1)
      <3>1. PICK t \in Nat : t = Trail(id)
        BY TrailIsNat
      <3>2. PICK n \in Nat : n = saved[id]
        BY <2>2
      <3>3. t <= n /\ n <= t + faults
        BY <3>1, <3>2 DEF TrailInv
      <3>4. Trail(id)' = t \/ Trail(id)' = t - 1
        BY <1>5, <3>1, RaisesForgets
      <3> QED
        BY <2>2, <3>2, <3>3, <3>4
    <2> QED
      BY <2>1, <2>3 DEF TrailInv
  <1> QED
    BY <1>1, <1>2, <1>3, <1>4, <1>5 DEF Continues

-----------------------------------------------------------------------------
(* The theorems about them                                                 *)

EvidenceInv == Inv /\ GovernedInv /\ BundledInv /\ TrailInv

LEMMA InitEvidence == Init => EvidenceInv
  <1> SUFFICES ASSUME Init PROVE EvidenceInv
    OBVIOUS
  <1>1. Inv
    BY InitInv
  <1>2. /\ \A id \in Ids : ~Exists(id)
        /\ \A c \in Callers : job[c] = NoJob
        /\ \A s \in Sessions : evidence[s] = None
    BY DEF Init, Exists
  <1>3. Blueprints \cup Deployments \cup Sessions \subseteq Ids
    BY DEF Ids, Versioned
  <1>4. GovernedInv
    <2>1. \A s \in Sessions : governed[s] = {}
      BY DEF Init
    <2> QED
      BY <1>2, <1>3, <2>1, GovernedNoJob DEF GovernedInv
  <1>5. BundledInv
    BY <1>2, <1>3 DEF BundledInv
  <1>6. TrailInv
    <2>1. \A id \in Ids : audited[id] = 0 /\ saved[id] = 0 /\ Owing(id) = {}
      BY <1>2 DEF Init, Owing, NoJob, At
    <2>2. \A id \in Ids : Trail(id) = 0
      BY <2>1, FS_EmptySet DEF Trail
    <2>3. faults = 0
      BY DEF Init
    <2> QED
      BY <2>1, <2>2, <2>3 DEF TrailInv
  <1> QED
    BY <1>1, <1>4, <1>5, <1>6 DEF EvidenceInv

LEMMA NextEvidence ==
  ASSUME EvidenceInv, [Next]_vars
  PROVE  EvidenceInv'
  <1>1. Inv /\ GovernedInv /\ BundledInv /\ TrailInv /\ Inv'
    BY NextInv DEF EvidenceInv
  <1>2. ASSUME NEW c \in Callers, Registers(c) \/ Operates(c)
        PROVE  EvidenceInv'
    <2>1. PICK id : \E r : Begins(c, id, r)
      BY <1>2, SomethingBegins
    <2>2. PICK r : Begins(c, id, r)
      BY <2>1
    <2> QED
      BY <1>1, <2>2, BeginKeepsGoverned, BeginKeepsBundled, BeginKeepsTrail DEF EvidenceInv
  <1>3. ASSUME NEW c \in Callers, Continues(c)
        PROVE  EvidenceInv'
    BY <1>1, <1>3, ContinuesKeepsGoverned, ContinuesKeepsBundled, ContinuesKeepsTrail
       DEF EvidenceInv
  <1>4. ASSUME UNCHANGED vars
        PROVE  EvidenceInv'
    <2>1. GovernedInv'
      BY <1>1, <1>4 DEF vars, history, GovernedInv, GovernedJob, Cites, Exists
    <2>2. BundledInv'
      BY <1>1, <1>4 DEF vars, BundledInv, Bundles, Exists
    <2>3. TrailInv'
      BY <1>1, <1>4 DEF vars, history, TrailInv, Trail, Owing
    <2> QED
      BY <1>1, <2>1, <2>2, <2>3 DEF EvidenceInv
  <1> QED
    BY <1>2, <1>3, <1>4 DEF Next, Rest

LEMMA EvidenceInvariant == Spec => []EvidenceInv
  BY InitEvidence, NextEvidence, PTL DEF Spec

(* A session that ended has evidence once all calls are over and none      *)
(* failed, and evidence names a release its deployment had when it ended   *)
(* or later, with the packs and guardrails of that release.                *)
THEOREM EvidenceGoverned == Spec => []EvidenceNamesRulesInForce
  <1>1. ASSUME EvidenceInv
        PROVE  EvidenceNamesRulesInForce
    <2>1. ASSUME NEW s \in Sessions, AtRest, faults = 0, Exists(s), stored[s].terminal
          PROVE  evidence[s] # None
      <3>1. \A c \in Callers : ~Bundles(job[c], s)
        BY <2>1 DEF AtRest, Bundles, NoJob, At
      <3> QED
        BY <1>1, <2>1, <3>1 DEF EvidenceInv, BundledInv
    <2>2. ASSUME NEW s \in Sessions, evidence[s] # None
          PROVE  Cites(s, evidence[s])
      BY <1>1, <2>2 DEF EvidenceInv, GovernedInv
    <2> QED
      BY <2>1, <2>2 DEF EvidenceNamesRulesInForce, Cites
  <1> QED
    BY <1>1, EvidenceInvariant, PTL

(* However the calls interleave, once they are over every save of a record *)
(* other than a connector definition has its audit event, the saves that   *)
(* were lost to another's included; only a call that failed may leave one  *)
(* without.                                                                *)
THEOREM Audited == Spec => []AuditComplete
  <1>1. ASSUME EvidenceInv
        PROVE  AuditComplete
    <2>1. SUFFICES ASSUME AtRest, NEW id \in Ids \ ConnectorDefinitions
                   PROVE  audited[id] <= saved[id] /\ saved[id] <= audited[id] + faults
      BY DEF AuditComplete
    <2>2. Inv /\ TrailInv
      BY <1>1 DEF EvidenceInv
    <2>3. audited[id] \in Nat
      BY <2>2 DEF Inv, TypeOK
    <2>4. Owing(id) = {}
      BY <2>1 DEF AtRest, Owing, NoJob, At
    <2>5. Trail(id) = audited[id]
      BY <2>3, <2>4, FS_EmptySet DEF Trail
    <2> QED
      BY <2>2, <2>5 DEF TrailInv
  <1> QED
    BY <1>1, EvidenceInvariant, PTL

-----------------------------------------------------------------------------
(* The version the registry chooses                                        *)

(* Induction, for what a recursive function computes.                      *)
LEMMA LeastNat ==
  ASSUME NEW T, T \subseteq Nat, T # {}
  PROVE  \E x \in T : \A y \in T : ~(y < x)
  <1> DEFINE R == {ss \in Nat \X Nat : ss[1] < ss[2]}
  <1>1. IsWellFoundedOn(R, Nat)
    BY NatLessThanWellFounded DEF OpToRel
  <1>2. PICK x \in T : \A y \in T : ~(<<y, x>> \in R)
    <2> HIDE DEF R
    <2> QED
      BY <1>1, WFMin
  <1> QED
    BY <1>2

(* The digits of n, by a function f that has those of smaller numbers; and *)
(* a function that has the digits of the numbers up to m.                  *)
DigitsBy(f, n) == IF n < 10 THEN <<n>> ELSE Append(f[n \div 10], n % 10)

HasDigits(f, m) == f = [n \in 0..m |-> DigitsBy(f, n)]

LEMMA Quotient ==
  ASSUME NEW n \in Nat, ~(n < 10)
  PROVE  n \div 10 \in Nat /\ n \div 10 < n /\ n \div 10 \in 0..(n - 1)
  OBVIOUS

LEMMA HasDigitsAt ==
  ASSUME NEW f, NEW m, NEW n \in 0..m, HasDigits(f, m)
  PROVE  f[n] = DigitsBy(f, n)
  BY Zenon DEF HasDigits

LEMMA HasDigitsAgree ==
  ASSUME NEW f, NEW g, NEW m \in Nat, NEW k \in Nat, NEW n \in Nat, n <= m, n <= k,
         HasDigits(f, m), HasDigits(g, k)
  PROVE  f[n] = g[n]
  <1> DEFINE T == {i \in 0..n : f[i] # g[i]}
  <1>1. SUFFICES ASSUME f[n] # g[n] PROVE FALSE
    OBVIOUS
  <1>2. PICK i \in T : \A j \in T : ~(j < i)
    <2>1. T \subseteq Nat /\ n \in T
      BY <1>1
    <2> HIDE DEF T
    <2> QED
      BY <2>1, LeastNat
  <1>3. i \in 0..m /\ i \in 0..k /\ i \in Nat /\ f[i] # g[i]
    BY <1>2
  <1>4. f[i] = DigitsBy(f, i) /\ g[i] = DigitsBy(g, i)
    BY <1>3, HasDigitsAt
  <1>5. CASE i < 10
    BY <1>3, <1>4, <1>5 DEF DigitsBy
  <1>6. CASE ~(i < 10)
    <2>1. f[i \div 10] = g[i \div 10]
      BY <1>2, <1>3, <1>6, Quotient
    <2> QED
      BY <1>3, <1>4, <1>6, <2>1 DEF DigitsBy
  <1> QED
    BY <1>5, <1>6

LEMMA HasDigitsExists ==
  ASSUME NEW m \in Nat
  PROVE  \E f : HasDigits(f, m)
  <1> DEFINE T == {k \in Nat : ~ \E f : HasDigits(f, k)}
  <1>1. SUFFICES ASSUME T # {} PROVE FALSE
    OBVIOUS
  <1>2. PICK k \in T : \A j \in T : ~(j < k)
    <2>1. T \subseteq Nat
      OBVIOUS
    <2> HIDE DEF T
    <2> QED
      BY <1>1, <2>1, LeastNat
  <1>3. PICK g : k # 0 => HasDigits(g, k - 1)
    <2>1. CASE k = 0
      BY <2>1
    <2>2. CASE k # 0
      <3>1. k - 1 \in Nat /\ k - 1 \notin T
        BY <1>2, <2>2
      <3> QED
        BY <3>1
    <2> QED
      BY <2>1, <2>2
  <1> DEFINE f == [n \in 0..k |-> IF n = k THEN DigitsBy(g, k) ELSE g[n]]
  <1>4. ASSUME NEW n \in 0..k PROVE f[n] = DigitsBy(f, n)
    <2>1. n \in Nat /\ k \in Nat
      BY <1>2
    <2>2. ~(n < 10) => f[n \div 10] = g[n \div 10]
      <3> SUFFICES ASSUME ~(n < 10) PROVE f[n \div 10] = g[n \div 10]
        OBVIOUS
      <3>1. n \div 10 \in 0..k /\ n \div 10 # k
        BY <2>1, Quotient
      <3> QED
        BY <3>1
    <2>3. f[n] = DigitsBy(g, n)
      <3>1. CASE n = k
        BY <2>1, <3>1
      <3>2. CASE n # k
        <4>1. k # 0 /\ n \in 0..(k - 1) /\ f[n] = g[n]
          BY <2>1, <3>2
        <4> HIDE DEF f
        <4> QED
          BY <1>3, <4>1, HasDigitsAt
      <3> QED
        BY <3>1, <3>2
    <2> HIDE DEF f
    <2>4. CASE n < 10
      BY <2>3, <2>4 DEF DigitsBy
    <2>5. CASE ~(n < 10)
      BY <2>2, <2>3, <2>5 DEF DigitsBy
    <2> QED
      BY <2>4, <2>5
  <1>5. HasDigits(f, k)
    <2>1. f = [n \in 0..k |-> f[n]]
      OBVIOUS
    <2> HIDE DEF f
    <2> QED
      BY <1>4, <2>1, Zenon DEF HasDigits
  <1> QED
    BY <1>2, <1>5

LEMMA OneDigit ==
  ASSUME NEW n \in Nat, n < 10
  PROVE  Digits[n] = <<n>>
  <1> DEFINE f == [i \in Nat |-> (CHOOSE g : HasDigits(g, i))[i]]
  <1>1. ASSUME NEW i \in Nat PROVE f[i] = DigitsBy(f, i)
    <2>1. PICK g : g = CHOOSE h : HasDigits(h, i)
      OBVIOUS
    <2>2. HasDigits(g, i) /\ f[i] = g[i] /\ i \in 0..i
      BY <2>1, HasDigitsExists
    <2>3. g[i] = DigitsBy(g, i)
      BY <2>2, HasDigitsAt
    <2>4. CASE i < 10
      BY <2>2, <2>3, <2>4 DEF DigitsBy
    <2>5. CASE ~(i < 10)
      <3>1. PICK q \in Nat : q = i \div 10 /\ q <= i
        BY <2>5, Quotient
      <3>2. PICK h : h = CHOOSE x : HasDigits(x, q)
        OBVIOUS
      <3>3. HasDigits(h, q) /\ f[q] = h[q]
        BY <3>2, HasDigitsExists
      <3>4. q <= q
        OBVIOUS
      <3>5. g[q] = f[q]
        BY <2>2, <3>1, <3>3, <3>4, HasDigitsAgree
      <3> QED
        BY <2>2, <2>3, <2>5, <3>1, <3>5 DEF DigitsBy
    <2> QED
      BY <2>4, <2>5
  <1>2. f = [i \in Nat |-> DigitsBy(f, i)]
    <2>1. f = [i \in Nat |-> f[i]]
      OBVIOUS
    <2> HIDE DEF f
    <2> QED
      BY <1>1, <2>1, Zenon
  <1>3. Digits = CHOOSE h : h = [i \in Nat |-> DigitsBy(h, i)]
    BY Zenon DEF Digits, DigitsBy
  <1>4. Digits = [i \in Nat |-> DigitsBy(Digits, i)]
    <2> HIDE DEF f
    <2> QED
      BY <1>2, <1>3, Zenon
  <1>5. Digits[n] = DigitsBy(Digits, n)
    BY <1>4, Zenon
  <1> QED
    BY <1>5 DEF DigitsBy

(* Versions of one digit are in the order of numbers, and the next one is  *)
(* past them all.                                                          *)
LEMMA NextIsPast ==
  ASSUME NEW versions, versions \subseteq Nat, \A v \in versions : v < 10,
         NEW next \in increment_patch_version(versions)
  PROVE  \A v \in versions : v < next
  <1> SUFFICES ASSUME NEW v \in versions PROVE v < next
    OBVIOUS
  <1>1. PICK w \in Greatest(versions) : next = w + 1
    BY DEF increment_patch_version
  <1>2. w \in versions /\ (v = w \/ Before(v, w)) /\ v \in Nat /\ w \in Nat /\ v < 10 /\ w < 10
    BY <1>1 DEF Greatest
  <1>3. CASE Before(v, w)
    <2>1. PICK s, t : s = <<v>> /\ t = <<w>>
      OBVIOUS
    <2>2. s = Digits[v] /\ t = Digits[w]
      BY <1>2, <2>1, OneDigit
    <2>3. Len(s) = 1 /\ Len(t) = 1 /\ s[1] = v /\ t[1] = w
      BY <2>1
    <2>4. PICK k \in 1..Len(s) : s[k] < t[k]
      BY <1>3, <2>2, <2>3 DEF Before
    <2> QED
      BY <1>1, <1>2, <2>3, <2>4
  <1> QED
    BY <1>1, <1>2, <1>3

LEMMA VersionsAreNat ==
  ASSUME TypeOK, NEW kind, kind \in {ConnectorDefinitions, Guardrails}, NEW key
  PROVE  VersionsOf(kind, key) \subseteq Nat
  <1>1. ASSUME NEW id \in kind, stored[id] # None
        PROVE  stored[id].version \in Nat
    <2>1. id \in Ids /\ Fits(id, stored[id])
      BY <1>1 DEF TypeOK, Exists, Ids, Versioned
    <2> QED
      BY <2>1 DEF Fits, ConnectorDefinition, GuardrailDefinition
  <1> QED
    BY <1>1 DEF VersionsOf

(* Which handler has begun to save an automatic version.                   *)
LEMMA ChoosesStep ==
  ASSUME TypeOK, Next, NEW c \in Callers, job[c] = NoJob, job'[c].pc = "save",
         job'[c].id \in ConnectorDefinitions \cup Guardrails
  PROVE  register_connector_definition(c) \/ publish_guardrail_definition(c)
  <1>1. NoJob.pc = "idle" /\ job[c] = NoJob /\ DOMAIN job = Callers
    BY DEF NoJob, At, TypeOK
  <1>2. ASSUME NEW x \in Callers, x # c, Registers(x) \/ Operates(x) \/ Continues(x)
        PROVE  job'[c] = job[c]
    <2>1. ASSUME NEW j, job' = [job EXCEPT ![x] = j] PROVE job'[c] = job[c]
      BY <1>1, <1>2, <2>1
    <2>2. ASSUME NEW id, NEW r, Begins(x, id, r) PROVE job'[c] = job[c]
      BY <2>1, <2>2, Zenon DEF Begins
    <2>3. ASSUME NEW j, GoesOn(x, j) PROVE job'[c] = job[c]
      BY <2>1, <2>3, Zenon DEF GoesOn
    <2>4. CASE Registers(x)
      BY <2>2, <2>4, Zenon
      DEF Registers, register_tenant, register_connector_definition,
          create_credential_binding, create_connector_binding, publish_policy_pack,
          publish_guardrail_definition, register_agent_blueprint
    <2>5. CASE Operates(x)
      BY <2>2, <2>5, Zenon
      DEF Operates, deploy_agent, rollback_deployment_to_blueprint, start_run_session,
          complete_run_session
    <2>6. CASE Continues(x)
      BY <2>1, <2>3, <2>6, Zenon
      DEF Continues, save, _record_audit_event, _persist_evidence_bundle, saveBundle, Raises
    <2> QED
      BY <1>2, <2>4, <2>5, <2>6
  <1>3. ~Continues(c) /\ ~Rest
    BY <1>1 DEF Continues, save, _record_audit_event, _persist_evidence_bundle, saveBundle,
                Raises, Rest, vars
  <1>4. ASSUME NEW id, NEW r, Begins(c, id, r) PROVE job'[c].id = id
    BY <1>1, <1>4, AtFields DEF Begins
  <1>5. Registers(c) \/ Operates(c)
    BY <1>1, <1>2, <1>3 DEF Next
  <1>6. ASSUME NEW id \in Tenants \cup CredentialBindings \cup ConnectorBindings
                         \cup PolicyPacks \cup Blueprints \cup Deployments \cup Sessions,
               NEW r
        PROVE  ~Begins(c, id, r)
    BY <1>4, Disjoint
  <1>7. ~Operates(c)
    BY <1>6, Zenon DEF Operates, deploy_agent, rollback_deployment_to_blueprint,
                       start_run_session, complete_run_session
  <1>8. /\ ~register_tenant(c) /\ ~create_credential_binding(c)
        /\ ~create_connector_binding(c) /\ ~publish_policy_pack(c)
        /\ ~register_agent_blueprint(c)
    BY <1>6, Zenon DEF register_tenant, create_credential_binding, create_connector_binding,
                       publish_policy_pack, register_agent_blueprint
  <1> QED
    BY <1>5, <1>7, <1>8, Zenon DEF Registers

(* A version that the registry chooses for a connector definition or a     *)
(* guardrail is greater than every version its key has, as long as they    *)
(* are all of one digit, whatever other threads register meanwhile.        *)
THEOREM ChosenVersionsAreNew == Spec => NextVersionIsNew
  <1>1. ASSUME TypeOK, Next, NEW c \in Callers
        PROVE  ChoosesNewVersion(c)
    <2> SUFFICES ASSUME job[c] = NoJob, job'[c].pc = "save",
                        job'[c].id \in ConnectorDefinitions \cup Guardrails,
                        job'[c].record.automatic
                 PROVE  LET kind == IF job'[c].id \in Guardrails THEN Guardrails
                                    ELSE ConnectorDefinitions
                            versions == VersionsOf(kind, job'[c].record.key)
                        IN (\A v \in versions : v < 10) =>
                             \A v \in versions : v < job'[c].record.version
      BY DEF ChoosesNewVersion
    <2>1. PICK kind \in {ConnectorDefinitions, Guardrails} :
            \E id \in kind, key \in Keys, named \in Named \cup {None} :
              \E version \in VersionFor(kind, key, named) :
                Begins(c, id, [key |-> key, version |-> version, automatic |-> named = None])
      BY <1>1, ChoosesStep, Zenon
      DEF register_connector_definition, publish_guardrail_definition
    <2>2. PICK id \in kind, key \in Keys, named \in Named \cup {None} :
            \E version \in VersionFor(kind, key, named) :
              Begins(c, id, [key |-> key, version |-> version, automatic |-> named = None])
      BY <2>1
    <2>3. PICK version \in VersionFor(kind, key, named) :
            Begins(c, id, [key |-> key, version |-> version, automatic |-> named = None])
      BY <2>2
    <2>4. PICK r : r = [key |-> key, version |-> version, automatic |-> named = None]
      OBVIOUS
    <2>5. r.key = key /\ r.version = version /\ (r.automatic <=> named = None)
      BY <2>4
    <2>6. job'[c].id = id /\ job'[c].record = r
      BY <1>1, <2>3, <2>4, AtFields DEF Begins, TypeOK
    <2>7. kind = IF job'[c].id \in Guardrails THEN Guardrails ELSE ConnectorDefinitions
      BY <2>1, <2>6, Disjoint
    <2>8. version \in increment_patch_version(VersionsOf(kind, key))
      BY <2>5, <2>6 DEF VersionFor
    <2>9. VersionsOf(kind, key) \subseteq Nat
      BY <1>1, VersionsAreNat
    <2> QED
      BY <2>5, <2>6, <2>7, <2>8, <2>9, NextIsPast
  <1>2. TypeOK /\ [Next]_vars => [\A c \in Callers : ChoosesNewVersion(c)]_vars
    BY <1>1
  <1> QED
    BY <1>2, TypeCorrect, PTL DEF Spec, NextVersionIsNew

=============================================================================
