------------------------- MODULE AtomicDeployments --------------------------
(***************************************************************************)
(* Deployments of the Python control plane                                 *)
(* (python/packages/cip/.../control_plane.py): each handler is a           *)
(* synchronous method, one step for a client on one thread.                *)
(***************************************************************************)
EXTENDS Naturals, Sequences

CONSTANTS
  Deployments, Blueprints, Kinds, Artifacts, Runs, NoId,
  ReuseIds      \* TRUE when clients may repeat a record_id they already used

VARIABLES
  deployment,   \* deployments repository
  tier,         \* the risk tier of each deployment's compliance profile
  artifact,     \* compliance_artifacts repository
  run,          \* run_sessions repository: what a session took from its deployment
  trail         \* each deployment's audit events: the Python control plane
                \* records none for profiles and artifacts

vars == <<deployment, tier, artifact, run, trail>>

Statuses == {"provisioning", "active", "paused", "draining", "failed", "retired"}

NoDeployment == [status |-> "none", blueprint |-> NoId, revision |-> 0]
NoArtifact == [deployment |-> NoId, kind |-> NoId, accepted |-> FALSE]
NoRun == [deployment |-> NoId, tier |-> "none"]

Init ==
  /\ deployment = [d \in Deployments |-> NoDeployment]
  /\ tier = [d \in Deployments |-> "none"]
  /\ artifact = [a \in Artifacts |-> NoArtifact]
  /\ run = [r \in Runs |-> NoRun]
  /\ trail = [d \in Deployments |-> <<>>]

ALLOWED_DEPLOYMENT_TRANSITIONS ==
  {<<"provisioning", "active">>, <<"active", "paused">>, <<"active", "draining">>,
   <<"paused", "active">>, <<"draining", "paused">>, <<"failed", "provisioning">>}
  \cup ((Statuses \ {"failed", "retired"}) \X {"failed"})
  \cup ((Statuses \ {"retired"}) \X {"retired"})

Exists(d) == deployment[d].status # "none"

(* Saves the deployment and audits it.                                     *)
Saves(d, record, action) ==
  /\ deployment' = [deployment EXCEPT ![d] = record]
  /\ trail' = [trail EXCEPT ![d] = Append(@,
       [action |-> action,
        from |-> IF action = "created" THEN "none" ELSE deployment[d].status,
        status |-> record.status, blueprint |-> record.blueprint])]
  /\ UNCHANGED <<tier, artifact, run>>

deploy_agent ==
  \E d \in Deployments, b \in Blueprints, status \in Statuses :
    /\ ReuseIds \/ ~Exists(d)
    /\ Saves(d, [status |-> status, blueprint |-> b, revision |-> 1], "created")

(* _ensure_deployment_compliance_ready                                     *)
ComplianceReady(d) ==
  tier[d] = "high-risk" =>
    \A kind \in Kinds : \E a \in Artifacts :
      artifact[a].deployment = d /\ artifact[a].kind = kind /\ artifact[a].accepted

transition_deployment ==
  \E d \in Deployments, target \in Statuses :
    /\ <<deployment[d].status, target>> \in ALLOWED_DEPLOYMENT_TRANSITIONS
    /\ target = "active" => ComplianceReady(d)
    /\ Saves(d, [deployment[d] EXCEPT !.status = target, !.revision = @ + 1],
             "transitioned")

rollback_deployment_to_blueprint ==
  \E d \in Deployments, b \in Blueprints :
    /\ Exists(d)
    /\ Saves(d, [deployment[d] EXCEPT !.blueprint = b, !.revision = @ + 1], "rollback")

upsert_compliance_profile ==
  \E d \in Deployments, t \in {"limited", "high-risk"} :
    /\ Exists(d)
    /\ tier' = [tier EXCEPT ![d] = t]
    /\ UNCHANGED <<deployment, artifact, run, trail>>

create_compliance_artifact ==
  \E d \in Deployments, a \in Artifacts, kind \in Kinds, accepted \in BOOLEAN :
    /\ Exists(d)
    /\ ReuseIds \/ artifact[a] = NoArtifact
    /\ artifact' = [artifact EXCEPT ![a] =
                      [deployment |-> d, kind |-> kind, accepted |-> accepted]]
    /\ UNCHANGED <<deployment, tier, run, trail>>

start_run_session ==
  \E d \in Deployments, r \in Runs :
    /\ deployment[d].status = "active"
    /\ run[r] = NoRun
    /\ run' = [run EXCEPT ![r] = [deployment |-> d, tier |-> tier[d]]]
    /\ UNCHANGED <<deployment, tier, artifact, trail>>

Next ==
  \/ deploy_agent
  \/ transition_deployment
  \/ rollback_deployment_to_blueprint
  \/ upsert_compliance_profile
  \/ create_compliance_artifact
  \/ start_run_session

Spec == Init /\ [][Next]_vars

=============================================================================
