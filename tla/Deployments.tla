---------------------------- MODULE Deployments -----------------------------
(***************************************************************************)
(* Deployments of agent blueprints and their compliance records in the     *)
(* TypeScript control plane                                                *)
(* (typescript/packages/cip/src/services/cip-control-plane.ts): deploying, *)
(* status transitions with the activation gate of high-risk deployments,   *)
(* blueprint rollback, the compliance profile and artifacts, and what a    *)
(* run session takes from its deployment when it starts.                   *)
(*                                                                         *)
(* As in RunSessions, one action is what happens between two awaits, a     *)
(* call keeps what it has read, and a refused call is no step.  Reads of   *)
(* records that are never deleted (the deployment's existence, the         *)
(* blueprint) are part of the step before them.                            *)
(***************************************************************************)
EXTENDS Naturals, Sequences, FiniteSets

CONSTANTS
  Operators,    \* clients of the control plane, each awaiting one call at a time
  Deployments,  \* ids of deployments
  Blueprints,   \* released blueprints
  Kinds,        \* kinds of artifact a high-risk deployment needs (six in the code)
  Artifacts,    \* ids of compliance artifacts; no more can be made than these
  Runs,         \* ids of run sessions, likewise
  NoId,         \* "no such record"
  ReuseIds,     \* TRUE when clients may repeat an input.id they already used
  MaxCalls,     \* bound: calls started
  MaxFaults     \* bound: handlers aborted by a rejected await

ASSUME DeploymentsAssumption ==
  /\ NoId \notin Deployments \cup Blueprints \cup Artifacts \cup Runs
  /\ ReuseIds \in BOOLEAN
  /\ MaxCalls \in Nat
  /\ MaxFaults \in Nat

VARIABLES
  deployment,   \* deployments repository
  profiles,     \* complianceProfiles repository, per deployment, in order of insertion
  artifact,     \* complianceArtifacts repository
  run,          \* runSessions repository: what a session took from its deployment
  audits,       \* auditEvents repository, per deployment, in order of insertion
  held,         \* history: what each artifact id has ever been stored with
  call,         \* the call each operator has in flight
  calls,        \* calls started so far
  faults        \* handlers aborted so far

stores == <<deployment, profiles, artifact, run, audits, held>>
vars == <<deployment, profiles, artifact, run, audits, held, call, calls, faults>>

-----------------------------------------------------------------------------
(* Records                                                                 *)

DeploymentStatus ==
  {"provisioning", "active", "paused", "draining", "failed", "retired"}

DeploymentRecord ==
  [status: DeploymentStatus \cup {"none"}, blueprint: Blueprints \cup {NoId},
   revision: Nat]

NoDeployment == [status |-> "none", blueprint |-> NoId, revision |-> 0]

(* "none" is the tier of a deployment without a profile.                   *)
RiskTiers == {"limited", "high-risk"}

ComplianceProfile == [tier: RiskTiers, revision: Nat]

(* accepted: the artifact has the status its kind requires.                *)
ComplianceArtifact ==
  [deployment: Deployments \cup {NoId}, kind: Kinds \cup {NoId}, accepted: BOOLEAN]

NoArtifact == [deployment |-> NoId, kind |-> NoId, accepted |-> FALSE]

RunSession ==
  [deployment: Deployments \cup {NoId}, tier: RiskTiers \cup {"none"}]

NoRun == [deployment |-> NoId, tier |-> "none"]

(* from is the status the handler had read; status and blueprint are those *)
(* of the record it saved.                                                 *)
AuditEvent ==
  [action: {"created", "transitioned", "rollback", "profile", "artifact"},
   from: DeploymentStatus \cup {"none"},
   status: DeploymentStatus \cup {"none"}, blueprint: Blueprints \cup {NoId}]

NoAudit ==
  [action |-> "profile", from |-> "none", status |-> "none", blueprint |-> NoId]

Slip_RetiredRevives ==
  [provisioning |-> {"active", "failed", "retired"},
   active       |-> {"paused", "draining", "failed", "retired"},
   paused       |-> {"active", "failed", "retired"},
   draining     |-> {"paused", "failed", "retired"},
   failed       |-> {"provisioning", "retired"},
   retired      |-> {"provisioning"}]

allowedDeploymentTransitions ==
  [provisioning |-> {"active", "failed", "retired"},
   active       |-> {"paused", "draining", "failed", "retired"},
   paused       |-> {"active", "failed", "retired"},
   draining     |-> {"paused", "failed", "retired"},
   failed       |-> {"provisioning", "retired"},
   retired      |-> {}]

Call ==
  [pc: {"idle", "readProfile", "readArtifacts", "saveDeployment", "saveProfile",
        "saveArtifact", "readSnapshot", "saveRun", "audit"},
   deployment: Deployments \cup {NoId},
   record: DeploymentRecord,     \* the deployment it will save
   profile: ComplianceProfile \cup {NoId},  \* the profile it will save
   place: Nat,                   \* of the profile it replaces, 0 for none
   artifact: Artifacts \cup {NoId},
   content: ComplianceArtifact,  \* the artifact it will save
   run: Runs \cup {NoId},
   tier: RiskTiers \cup {"none"},  \* the tier it has read
   entry: AuditEvent]            \* the audit event it owes

Idle ==
  [pc |-> "idle", deployment |-> NoId, record |-> NoDeployment, profile |-> NoId,
   place |-> 0, artifact |-> NoId, content |-> NoArtifact, run |-> NoId,
   tier |-> "none", entry |-> NoAudit]

Init ==
  /\ deployment = [d \in Deployments |-> NoDeployment]
  /\ profiles = [d \in Deployments |-> <<>>]
  /\ artifact = [a \in Artifacts |-> NoArtifact]
  /\ held = [a \in Artifacts |-> {}]
  /\ run = [r \in Runs |-> NoRun]
  /\ audits = [d \in Deployments |-> <<>>]
  /\ call = [o \in Operators |-> Idle]
  /\ calls = 0
  /\ faults = 0

Exists(d) == deployment[d].status # "none"

Touched(d) == [deployment[d] EXCEPT !.revision = @ + 1]

Becomes(o, r) == call' = [call EXCEPT ![o] = r]

Begin(o, r) ==
  /\ call[o].pc = "idle"
  /\ calls < MaxCalls
  /\ calls' = calls + 1
  /\ Becomes(o, r)
  /\ UNCHANGED <<stores, faults>>

-----------------------------------------------------------------------------
(* Deployments                                                             *)

(* status: input.status, or "provisioning" when there is none.             *)
deployAgent(o) ==
  \E d \in Deployments, b \in Blueprints, status \in DeploymentStatus :
    /\ ReuseIds \/ (~Exists(d) /\ \A p \in Operators : call[p].deployment # d)
    /\ Begin(o, [Idle EXCEPT
         !.pc = "saveDeployment", !.deployment = d,
         !.record = [status |-> status, blueprint |-> b, revision |-> 1],
         !.entry = [action |-> "created", from |-> "none", status |-> status,
                    blueprint |-> b]])

Slip_NoGate(o) ==
  \E d \in Deployments :
    /\ Exists(d)
    /\ \E target \in allowedDeploymentTransitions[deployment[d].status] :
         LET record == [Touched(d) EXCEPT !.status = target]
         IN Begin(o, [Idle EXCEPT
              !.pc = "saveDeployment", !.deployment = d, !.record = record,
              !.entry = [action |-> "transitioned", from |-> deployment[d].status,
                         status |-> target, blueprint |-> record.blueprint]])

transitionDeployment(o) ==
  \E d \in Deployments :
    /\ Exists(d)
    /\ \E target \in allowedDeploymentTransitions[deployment[d].status] :
         LET record == [Touched(d) EXCEPT !.status = target]
         IN Begin(o, [Idle EXCEPT
              !.pc = IF target = "active" THEN "readProfile" ELSE "saveDeployment",
              !.deployment = d, !.record = record,
              !.entry = [action |-> "transitioned", from |-> deployment[d].status,
                         status |-> target, blueprint |-> record.blueprint]])

Slip_DefaultTier(d) ==
  IF profiles[d] = <<>> THEN "minimal" ELSE profiles[d][1].tier

(* getComplianceProfile: the first of the deployment's profiles.           *)
Tier(d) == IF profiles[d] = <<>> THEN "none" ELSE profiles[d][1].tier

(* The two reads of ensureDeploymentComplianceReady.                       *)
readProfile(o) ==
  /\ call[o].pc = "readProfile"
  /\ LET tier == Tier(call[o].deployment)
     IN Becomes(o, [call[o] EXCEPT
          !.pc = IF tier = "high-risk" THEN "readArtifacts" ELSE "saveDeployment",
          !.tier = tier])
  /\ UNCHANGED <<stores, calls, faults>>

Ready(d) ==
  \A kind \in Kinds : \E a \in Artifacts :
    artifact[a] = [deployment |-> d, kind |-> kind, accepted |-> TRUE]

Slip_ArtifactsUnread(o) ==
  /\ call[o].pc = "readArtifacts"
  /\ Becomes(o, [call[o] EXCEPT !.pc = "saveDeployment"])
  /\ UNCHANGED <<stores, calls, faults>>

readArtifacts(o) ==
  /\ call[o].pc = "readArtifacts"
  /\ Becomes(o, IF Ready(call[o].deployment)
                  THEN [call[o] EXCEPT !.pc = "saveDeployment"]
                  ELSE Idle)
  /\ UNCHANGED <<stores, calls, faults>>

Slip_StatusReset(o) ==
  \E d \in Deployments, b \in Blueprints :
    /\ Exists(d)
    /\ Begin(o, [Idle EXCEPT
         !.pc = "saveDeployment", !.deployment = d,
         !.record = [Touched(d) EXCEPT !.blueprint = b, !.status = "provisioning"],
         !.entry = [action |-> "rollback", from |-> deployment[d].status,
                    status |-> deployment[d].status, blueprint |-> b]])

(* Any released blueprint, and the status stays the one read.              *)
rollbackDeploymentToBlueprint(o) ==
  \E d \in Deployments, b \in Blueprints :
    /\ Exists(d)
    /\ Begin(o, [Idle EXCEPT
         !.pc = "saveDeployment", !.deployment = d,
         !.record = [Touched(d) EXCEPT !.blueprint = b],
         !.entry = [action |-> "rollback", from |-> deployment[d].status,
                    status |-> deployment[d].status, blueprint |-> b]])

Slip_Unaudited(o) ==
  /\ call[o].pc = "saveDeployment"
  /\ deployment' = [deployment EXCEPT ![call[o].deployment] = call[o].record]
  /\ Becomes(o, IF call[o].entry.action = "rollback" THEN Idle
                ELSE [call[o] EXCEPT !.pc = "audit"])
  /\ UNCHANGED <<profiles, artifact, run, audits, held, calls, faults>>

saveDeployment(o) ==
  /\ call[o].pc = "saveDeployment"
  /\ deployment' = [deployment EXCEPT ![call[o].deployment] = call[o].record]
  /\ Becomes(o, [call[o] EXCEPT !.pc = "audit"])
  /\ UNCHANGED <<profiles, artifact, run, audits, held, calls, faults>>

recordAuditEvent(o) ==
  /\ call[o].pc = "audit"
  /\ audits' = [audits EXCEPT ![call[o].deployment] = Append(@, call[o].entry)]
  /\ Becomes(o, Idle)
  /\ UNCHANGED <<deployment, profiles, artifact, run, held, calls, faults>>

-----------------------------------------------------------------------------
(* Compliance                                                              *)

Slip_AlwaysNew(o) ==
  \E d \in Deployments, tier \in RiskTiers :
    /\ Exists(d)
    /\ Begin(o, [Idle EXCEPT
         !.pc = "saveProfile", !.deployment = d,
         !.profile = [tier |-> tier, revision |-> 1],
         !.entry = [NoAudit EXCEPT !.action = "profile"]])

(* The first profile of the deployment is the one it replaces.  When there *)
(* is none it makes one with a fresh id.                                   *)
upsertComplianceProfile(o) ==
  \E d \in Deployments, tier \in RiskTiers :
    LET existing == profiles[d]
    IN /\ Exists(d)
       /\ Begin(o, [Idle EXCEPT
            !.pc = "saveProfile", !.deployment = d,
            !.profile = [tier |-> tier,
                         revision |-> IF existing = <<>> THEN 1
                                      ELSE existing[1].revision + 1],
            !.place = IF existing = <<>> THEN 0 ELSE 1,
            !.entry = [NoAudit EXCEPT !.action = "profile"]])

saveProfile(o) ==
  /\ call[o].pc = "saveProfile"
  /\ profiles' = [profiles EXCEPT ![call[o].deployment] =
                    IF call[o].place = 0 THEN Append(@, call[o].profile)
                    ELSE [@ EXCEPT ![call[o].place] = call[o].profile]]
  /\ Becomes(o, [call[o] EXCEPT !.pc = "audit"])
  /\ UNCHANGED <<deployment, artifact, run, audits, held, calls, faults>>

createComplianceArtifact(o) ==
  \E d \in Deployments, a \in Artifacts, kind \in Kinds, accepted \in BOOLEAN :
    /\ Exists(d)
    /\ ReuseIds \/ (artifact[a] = NoArtifact /\ \A p \in Operators : call[p].artifact # a)
    /\ Begin(o, [Idle EXCEPT
         !.pc = "saveArtifact", !.deployment = d, !.artifact = a,
         !.content = [deployment |-> d, kind |-> kind, accepted |-> accepted],
         !.entry = [NoAudit EXCEPT !.action = "artifact"]])

saveArtifact(o) ==
  /\ call[o].pc = "saveArtifact"
  /\ artifact' = [artifact EXCEPT ![call[o].artifact] = call[o].content]
  /\ held' = [held EXCEPT ![call[o].artifact] = @ \cup {call[o].content}]
  /\ Becomes(o, [call[o] EXCEPT !.pc = "audit"])
  /\ UNCHANGED <<deployment, profiles, run, audits, calls, faults>>

-----------------------------------------------------------------------------
(* Starting a run session: the deployment is read, then its profile, then  *)
(* the session is saved (RunSessions says how it goes on).                 *)

Slip_AnyDeployment(d) == Exists(d)

Startable(d) == deployment[d].status = "active"

startRunSession(o) ==
  \E d \in Deployments, r \in Runs :
    /\ Startable(d)
    /\ run[r] = NoRun /\ \A p \in Operators : call[p].run # r
    /\ Begin(o, [Idle EXCEPT !.pc = "readSnapshot", !.deployment = d, !.run = r])

readSnapshot(o) ==
  /\ call[o].pc = "readSnapshot"
  /\ Becomes(o, [call[o] EXCEPT !.pc = "saveRun", !.tier = Tier(call[o].deployment)])
  /\ UNCHANGED <<stores, calls, faults>>

saveRun(o) ==
  /\ call[o].pc = "saveRun"
  /\ run' = [run EXCEPT ![call[o].run] =
               [deployment |-> call[o].deployment, tier |-> call[o].tier]]
  /\ Becomes(o, Idle)
  /\ UNCHANGED <<deployment, profiles, artifact, audits, held, calls, faults>>

-----------------------------------------------------------------------------
Reject(o) ==
  /\ call[o].pc # "idle"
  /\ faults < MaxFaults
  /\ faults' = faults + 1
  /\ Becomes(o, Idle)
  /\ UNCHANGED <<stores, calls>>

Start(o) ==
  \/ deployAgent(o)
  \/ transitionDeployment(o)
  \/ rollbackDeploymentToBlueprint(o)
  \/ upsertComplianceProfile(o)
  \/ createComplianceArtifact(o)
  \/ startRunSession(o)

Continue(o) ==
  \/ readProfile(o)
  \/ readArtifacts(o)
  \/ saveDeployment(o)
  \/ saveProfile(o)
  \/ saveArtifact(o)
  \/ readSnapshot(o)
  \/ saveRun(o)
  \/ recordAuditEvent(o)

Rest ==
  /\ \A o \in Operators : call[o].pc = "idle"
  /\ UNCHANGED vars

Next ==
  \/ \E o \in Operators : Start(o) \/ Continue(o) \/ Reject(o)
  \/ Rest

Spec == Init /\ [][Next]_vars

=============================================================================
