----------------------- MODULE DeploymentsProperties ------------------------
(***************************************************************************)
(* What deployments promise: the properties the runs check.                *)
(***************************************************************************)
EXTENDS Deployments

(* Every repository and every call in flight holds what the code can put   *)
(* in it.                                                                  *)
TypeOK ==
  /\ deployment \in [Deployments -> DeploymentRecord]
  /\ profiles \in [Deployments -> Seq(ComplianceProfile)]
  /\ artifact \in [Artifacts -> ComplianceArtifact]
  /\ held \in [Artifacts -> SUBSET ComplianceArtifact]
  /\ run \in [Runs -> RunSession]
  /\ audits \in [Deployments -> Seq(AuditEvent)]
  /\ call \in [Operators -> Call]
  /\ calls \in Nat
  /\ faults \in Nat

AtRest == \A o \in Operators : call[o].pc = "idle"

-----------------------------------------------------------------------------
(* Under any interleaving of the operators                                 *)

(* The artifact of this kind that a high-risk deployment needs is there:   *)
(* or it was, and a client has recorded other contents under its id.       *)
WasReady(d, kind) ==
  LET needed == [deployment |-> d, kind |-> kind, accepted |-> TRUE]
  IN \E a \in Artifacts :
       needed \in held[a] /\ (artifact[a] = needed \/ held[a] # {needed})

(* An operator that saves an activation after it has read a high-risk      *)
(* profile saves it while every required artifact is there in the required *)
(* status, however late the save comes after the gate and whatever others  *)
(* have saved.  What may be gone by then is an artifact whose id a client  *)
(* repeated: createComplianceArtifact replaces what an input.id names.     *)
GatedActivation ==
  [][\A o \in Operators :
       /\ call[o].pc = "saveDeployment" /\ call'[o].pc = "audit"
       /\ call[o].entry.action = "transitioned" /\ call[o].record.status = "active"
       /\ call[o].tier = "high-risk"
       => \A kind \in Kinds : WasReady(call[o].deployment, kind)]_vars

DeploymentActions == {"created", "transitioned", "rollback"}

Count(d, actions) == Cardinality({i \in DOMAIN audits[d] : audits[d][i].action \in actions})

(* At rest, when no handler was aborted, the audit trail explains every    *)
(* deployment: some event records the status and blueprint it has, there   *)
(* is an event for each of its revisions, one for each of its artifacts,   *)
(* and one if it has a profile.                                            *)
AuditExplainsState ==
  AtRest /\ faults = 0 => \A d \in Deployments :
    Exists(d) =>
      /\ \E i \in DOMAIN audits[d] :
           /\ audits[d][i].action \in DeploymentActions
           /\ audits[d][i].status = deployment[d].status
           /\ audits[d][i].blueprint = deployment[d].blueprint
      /\ deployment[d].revision <= Count(d, DeploymentActions)
      /\ Cardinality({a \in Artifacts : artifact[a].deployment = d}) <= Count(d, {"artifact"})
      /\ profiles[d] # <<>> => Count(d, {"profile"}) > 0

-----------------------------------------------------------------------------
(* One operator, one call at a time                                        *)

(* A high-risk deployment becomes active by a transition only when every   *)
(* required artifact is there in the required status.                      *)
ActivationGate ==
  [][\A d \in Deployments :
       deployment'[d].status = "active" /\ deployment[d].status \notin {"none", "active"} =>
         Tier(d) # "high-risk" \/ Ready(d)]_vars

(* A retired deployment is never anything else again, whatever is called:  *)
(* a rollback changes its blueprint only.                                  *)
RetiredFinal ==
  [][\A d \in Deployments :
       deployment[d].status = "retired" => deployment'[d].status = "retired"]_vars

(* docs/eu-ai-act.md: a deployment has one compliance profile, so that the *)
(* one the gate and the sessions read is the one that was last upserted.   *)
OneProfile == \A d \in Deployments : Len(profiles[d]) <= 1

(* The places of the deployment events in the audit trail, and those of    *)
(* them that come right before place i.                                    *)
Chain(d) == {i \in DOMAIN audits[d] : audits[d][i].action \in DeploymentActions}

Before(d, i) == {j \in Chain(d) : j < i /\ \A k \in Chain(d) : k < i => k <= j}

(* The trail up to place i leaves the deployment with this status.         *)
Leaves(d, i, status) ==
  IF Before(d, i) = {} THEN status = "none"
  ELSE \A j \in Before(d, i) : audits[d][j].status = status

(* The deployment events of the trail chain from "none", each from the     *)
(* status the one before it left, and at rest the last has the status and  *)
(* the blueprint the deployment has.                                       *)
AuditChain ==
  \A d \in Deployments :
    LET end == Len(audits[d]) + 1
    IN /\ \A i \in Chain(d) : Leaves(d, i, audits[d][i].from)
       /\ AtRest => /\ Leaves(d, end, deployment[d].status)
                    /\ \A j \in Before(d, end) :
                         audits[d][j].blueprint = deployment[d].blueprint

(* A run session starts on a deployment that is active, with the profile   *)
(* the deployment has.                                                     *)
RunsOnActive ==
  [][\A r \in Runs :
       run'[r] # run[r] =>
         LET d == run'[r].deployment
         IN deployment[d].status = "active" /\ run'[r].tier = Tier(d)]_vars

(* What an operator who awaits each call may rely on: the gate, the final  *)
(* status, the start of runs, one profile and a trail that chains.         *)
OneOperator ==
  []OneProfile /\ []AuditChain /\ ActivationGate /\ RetiredFinal /\ RunsOnActive

=============================================================================
