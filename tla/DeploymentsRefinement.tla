----------------------- MODULE DeploymentsRefinement ------------------------
(***************************************************************************)
(* Driven by one operator that awaits each call before the next, the       *)
(* deployments of the TypeScript control plane behave as those of the      *)
(* Python control plane.  The state of the latter is what the repositories *)
(* will be when the call in flight has returned; a transition that the     *)
(* gate will refuse is no step.                                            *)
(***************************************************************************)
EXTENDS DeploymentsProperties

(* The gate will let the call pass.                                        *)
Accepted(r) ==
  /\ r.pc = "readProfile" /\ Tier(r.deployment) = "high-risk" => Ready(r.deployment)
  /\ r.pc = "readArtifacts" => Ready(r.deployment)

(* The records of the calls at one of these places that will go through.   *)
At(pcs) == {r \in {call[o] : o \in Operators} : r.pc \in pcs /\ Accepted(r)}

Saving == {"readProfile", "readArtifacts", "saveDeployment"}

WillBeDeployment ==
  [d \in Deployments |->
     IF \E r \in At(Saving) : r.deployment = d
       THEN (CHOOSE r \in At(Saving) : r.deployment = d).record
       ELSE deployment[d]]

WillBeTier ==
  [d \in Deployments |->
     IF \E r \in At({"saveProfile"}) : r.deployment = d
       THEN (CHOOSE r \in At({"saveProfile"}) : r.deployment = d).profile.tier
       ELSE Tier(d)]

WillBeArtifact ==
  [a \in Artifacts |->
     IF \E r \in At({"saveArtifact"}) : r.artifact = a
       THEN (CHOOSE r \in At({"saveArtifact"}) : r.artifact = a).content
       ELSE artifact[a]]

WillBeRun ==
  [i \in Runs |->
     IF \E r \in At({"readSnapshot", "saveRun"}) : r.run = i
       THEN LET r == CHOOSE r \in At({"readSnapshot", "saveRun"}) : r.run = i
            IN [deployment |-> r.deployment, tier |-> Tier(r.deployment)]
       ELSE run[i]]

(* The audit events of profiles and artifacts are the TypeScript control   *)
(* plane's own.  Kept(trail)[i] is what stays of the first i events.       *)
Keep(before, e) == IF e.action \in DeploymentActions THEN Append(before, e) ELSE before

Kept(trail) ==
  LET kept[i \in 0..Len(trail)] ==
        IF i = 0 THEN <<>> ELSE Keep(kept[i - 1], trail[i])
  IN kept

DeploymentEvents(trail) == Kept(trail)[Len(trail)]

WillBeTrail ==
  [d \in Deployments |->
     LET owed == {r \in At(Saving \cup {"audit"}) : r.deployment = d}
         all == IF owed = {} THEN audits[d]
                ELSE Append(audits[d], (CHOOSE r \in owed : TRUE).entry)
     IN DeploymentEvents(all)]

Python == INSTANCE AtomicDeployments WITH
  deployment <- WillBeDeployment,
  tier <- WillBeTier,
  artifact <- WillBeArtifact,
  run <- WillBeRun,
  trail <- WillBeTrail

(* Every step of the TypeScript control plane is one of the Python control *)
(* plane, or leaves what it will have done alone.                          *)
ImplementsPython == Python!Spec

=============================================================================
