--------------------------- MODULE MCDeployments ---------------------------
(* Small instances of Deployments.                                         *)
EXTENDS DeploymentsRefinement, TLC

(* Operators race from a deployment that has been created and audited, and *)
(* its compliance profile with it if it has one.                           *)
CreatedInit ==
  \E d \in Deployments, b \in Blueprints, status \in DeploymentStatus,
     tiers \in {<<>>, <<"high-risk">>} :
    /\ deployment = [e \in Deployments |->
         IF e = d THEN [status |-> status, blueprint |-> b, revision |-> 1]
                  ELSE NoDeployment]
    /\ audits = [e \in Deployments |->
         IF e = d THEN <<[action |-> "created", from |-> "none", status |-> status,
                          blueprint |-> b]>> \o [i \in DOMAIN tiers |-> NoAudit]
                  ELSE <<>>]
    /\ profiles = [e \in Deployments |->
         IF e = d THEN [i \in DOMAIN tiers |-> [tier |-> tiers[i], revision |-> 1]]
                  ELSE <<>>]
    /\ artifact = [a \in Artifacts |-> NoArtifact]
    /\ held = [a \in Artifacts |-> {}]
    /\ run = [r \in Runs |-> NoRun]
    /\ call = [o \in Operators |-> Idle]
    /\ calls = 0
    /\ faults = 0

CreatedSpec == CreatedInit /\ [][Next]_vars

Symmetry ==
  Permutations(Operators) \cup Permutations(Blueprints)
    \cup Permutations(Kinds) \cup Permutations(Artifacts)
=============================================================================
