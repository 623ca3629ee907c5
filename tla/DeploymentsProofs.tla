-------------------------- MODULE DeploymentsProofs --------------------------
(***************************************************************************)
(* Theorems about deployments, for every set of operators, deployments,    *)
(* blueprints, kinds and ids, and any number of calls.                     *)
(***************************************************************************)
EXTENDS DeploymentsRefinement, FiniteSetTheorems, SequenceTheorems, TLAPS

-----------------------------------------------------------------------------
(* The invariants                                                          *)

(* What the place of a call says of the rest of its record.                *)
GoodCall(r) ==
  /\ r \in Call
  /\ r.pc # "idle" => r.deployment \in Deployments
  /\ r.pc = "saveProfile" =>
       r.profile \in ComplianceProfile /\ r.place \in 0..Len(profiles[r.deployment])
  /\ r.pc = "saveArtifact" => r.artifact \in Artifacts
  /\ r.pc \in {"readSnapshot", "saveRun"} => r.run \in Runs

TypeInv == TypeOK /\ \A o \in Operators : GoodCall(call[o])

(* What is stored under the id of an artifact has been stored there.        *)
HeldInv == \A a \in Artifacts : artifact[a] # NoArtifact => artifact[a] \in held[a]

(* A call that is past the gate has found every artifact it asks for.      *)
PastGate(o) ==
  call[o].pc = "saveDeployment" /\ call[o].tier = "high-risk" =>
    \A kind \in Kinds : WasReady(call[o].deployment, kind)

GateInv == HeldInv /\ \A o \in Operators : PastGate(o)

(* What the only call in flight will save of its deployment: a new record, *)
(* one of the same status, or one of a status that may follow; and one     *)
(* that becomes active has passed the gate.                                *)
Saves(r) ==
  LET old == deployment[r.deployment].status
  IN /\ r.entry.action \in DeploymentActions
     /\ r.entry.from = old
     /\ r.entry.status = r.record.status /\ r.entry.blueprint = r.record.blueprint
     /\ \/ old \in {"none", r.record.status}
        \/ r.record.status \in allowedDeploymentTransitions[old]
     /\ r.pc = "saveDeployment" /\ r.record.status = "active" /\ old \notin {"none", "active"} =>
          Tier(r.deployment) # "high-risk" \/ Ready(r.deployment)

(* What a call is about to save is what its audit event will say.          *)
Promised(r) ==
  /\ r.pc \in Saving =>
       /\ r.entry.action \in DeploymentActions
       /\ r.entry.status = r.record.status
       /\ r.entry.blueprint = r.record.blueprint
  /\ r.pc = "saveProfile" => r.entry.action = "profile"
  /\ r.pc = "saveArtifact" =>
       r.entry.action = "artifact" /\ r.content.deployment = r.deployment

(* And what it starts with is at most one revision past what it has read.  *)
Fresh(r) ==
  /\ Promised(r)
  /\ r.pc \in Saving => r.record.revision <= deployment[r.deployment].revision + 1

(* The deployment is as the trail leaves it.                               *)
Explained(d) ==
  LET end == Len(audits[d]) + 1
  IN /\ Leaves(d, end, deployment[d].status)
     /\ \A j \in Before(d, end) : audits[d][j].blueprint = deployment[d].blueprint

(* The deployment event a call owes, after the save it is about.           *)
Owed(r) == r.pc = "audit" /\ r.entry.action \in DeploymentActions

OnlyCall(r) ==
  /\ r.pc \in Saving => Saves(r)
  /\ r.pc = "saveProfile" =>
       /\ r.entry.action = "profile"
       /\ r.place = 0 => profiles[r.deployment] = <<>>
  /\ r.pc = "saveArtifact" => r.entry.action = "artifact"
  /\ r.pc \in {"readSnapshot", "saveRun"} => deployment[r.deployment].status = "active"
  /\ r.pc = "saveRun" => r.tier = Tier(r.deployment)
  /\ Owed(r) =>
       /\ r.entry.status = deployment[r.deployment].status
       /\ r.entry.blueprint = deployment[r.deployment].blueprint
       /\ Leaves(r.deployment, Len(audits[r.deployment]) + 1, r.entry.from)

(* With one operator there is one call in flight, and what it read is what *)
(* is there.                                                               *)
SingleInv(o) ==
  /\ faults = 0
  /\ OneProfile
  /\ OnlyCall(call[o])
  /\ \A d \in Deployments :
       /\ \A i \in Chain(d) : Leaves(d, i, audits[d][i].from)
       /\ ~(Owed(call[o]) /\ call[o].deployment = d) => Explained(d)

-----------------------------------------------------------------------------
(* Types                                                                   *)

LEMMA RecordTypes ==
  /\ NoDeployment \in DeploymentRecord /\ NoArtifact \in ComplianceArtifact
  /\ NoRun \in RunSession /\ NoAudit \in AuditEvent
  BY DEF NoDeployment, DeploymentRecord, NoArtifact, ComplianceArtifact, NoRun, RunSession,
         NoAudit, AuditEvent

LEMMA IdleType == Idle \in Call /\ GoodCall(Idle)
  BY RecordTypes DEF Idle, Call, GoodCall

LEMMA BecomesType ==
  ASSUME TypeInv, NEW o \in Operators, NEW r, GoodCall(r), Becomes(o, r),
         UNCHANGED profiles
  PROVE  call' \in [Operators -> Call] /\ \A p \in Operators : GoodCall(call[p])'
  <1>1. call' = [call EXCEPT ![o] = r] /\ r \in Call /\ call \in [Operators -> Call]
    BY DEF Becomes, GoodCall, TypeInv, TypeOK
  <1>2. ASSUME NEW p \in Operators PROVE GoodCall(call[p])'
    <2>1. call'[p] = r \/ call'[p] = call[p]
      BY <1>1
    <2> QED
      BY <2>1 DEF GoodCall, TypeInv
  <1> QED
    BY <1>1, <1>2

LEMMA BeginType ==
  ASSUME TypeInv, NEW o \in Operators, NEW r, GoodCall(r), Begin(o, r)
  PROVE  TypeInv'
  <1>1. UNCHANGED <<deployment, profiles, artifact, run, audits, held, faults>> /\ calls' \in Nat
    BY DEF Begin, stores, TypeInv, TypeOK
  <1> QED
    BY <1>1, BecomesType DEF Begin, TypeInv, TypeOK

LEMMA StatusTypes ==
  /\ DeploymentStatus \subseteq DeploymentStatus \cup {"none"}
  /\ \A old \in DeploymentStatus :
       allowedDeploymentTransitions[old] \subseteq DeploymentStatus
  BY DEF DeploymentStatus, allowedDeploymentTransitions

LEMMA TouchedType ==
  ASSUME TypeInv, NEW d \in Deployments
  PROVE  /\ Touched(d) \in DeploymentRecord
         /\ \A status \in DeploymentStatus :
              /\ [Touched(d) EXCEPT !.status = status] \in DeploymentRecord
              /\ [Touched(d) EXCEPT !.status = status].status = status
              /\ [Touched(d) EXCEPT !.status = status].revision = deployment[d].revision + 1
         /\ \A b \in Blueprints :
              /\ [Touched(d) EXCEPT !.blueprint = b] \in DeploymentRecord
              /\ [Touched(d) EXCEPT !.blueprint = b].status = deployment[d].status
              /\ [Touched(d) EXCEPT !.blueprint = b].blueprint = b
              /\ [Touched(d) EXCEPT !.blueprint = b].revision = deployment[d].revision + 1
         /\ deployment[d].revision \in Nat
  <1>1. deployment[d] \in DeploymentRecord
    BY DEF TypeInv, TypeOK
  <1>2. deployment[d].revision + 1 \in Nat
    BY <1>1 DEF DeploymentRecord
  <1>3. Touched(d) = [status |-> deployment[d].status, blueprint |-> deployment[d].blueprint,
                      revision |-> deployment[d].revision + 1]
    BY <1>1 DEF Touched, DeploymentRecord
  <1> QED
    BY <1>1, <1>2, <1>3 DEF DeploymentRecord

(* How a call starts: with a record for its place that has read no tier,   *)
(* and, when no id is repeated, that is about to save what it may.         *)
Starts(o, r) ==
  /\ Begin(o, r) /\ GoodCall(r)
  /\ r.pc \in {"readProfile", "saveDeployment", "saveProfile", "saveArtifact", "readSnapshot"}
  /\ r.tier = "none"
  /\ Fresh(r)
  /\ ~ReuseIds => OnlyCall(r)

LEMMA StartShape ==
  ASSUME TypeInv, NEW o \in Operators, Start(o)
  PROVE  \E r : Starts(o, r)
  <1>1. CASE deployAgent(o)
    <2>1. PICK d \in Deployments, b \in Blueprints, status \in DeploymentStatus :
            /\ ReuseIds \/ ~Exists(d)
            /\ Begin(o, [Idle EXCEPT
                 !.pc = "saveDeployment", !.deployment = d,
                 !.record = [status |-> status, blueprint |-> b, revision |-> 1],
                 !.entry = [action |-> "created", from |-> "none", status |-> status,
                            blueprint |-> b]])
      BY <1>1 DEF deployAgent
    <2> DEFINE record == [status |-> status, blueprint |-> b, revision |-> 1]
               entry == [action |-> "created", from |-> "none", status |-> status,
                         blueprint |-> b]
               r == [Idle EXCEPT !.pc = "saveDeployment", !.deployment = d,
                                 !.record = record, !.entry = entry]
    <2>2. record \in DeploymentRecord /\ entry \in AuditEvent
      BY DEF DeploymentRecord, AuditEvent
    <2>3. /\ r.pc = "saveDeployment" /\ r.deployment = d /\ r.record = record
          /\ r.entry = entry /\ r.tier = "none"
      BY DEF Idle
    <2>4. r \in Call
      BY <2>2, IdleType DEF Call
    <2>5. GoodCall(r)
      BY <2>3, <2>4 DEF GoodCall
    <2>6. ~ReuseIds => deployment[d].status = "none"
      BY <2>1 DEF Exists
    <2>7. ~ReuseIds => OnlyCall(r)
      BY <2>3, <2>6 DEF OnlyCall, Saves, Saving, Owed, DeploymentActions
    <2>8. /\ entry.action \in DeploymentActions /\ entry.status = record.status
          /\ entry.blueprint = record.blueprint /\ record.revision = 1
      BY DEF DeploymentActions
    <2>9. deployment[d].revision \in Nat
      BY TouchedType
    <2> HIDE DEF record, entry
    <2>10. Begin(o, r)
      BY <2>1 DEF record, entry
    <2> HIDE DEF r
    <2>11. Fresh(r)
      BY <2>3, <2>8, <2>9 DEF Fresh, Promised
    <2> QED
      BY <2>3, <2>5, <2>7, <2>10, <2>11 DEF Starts
  <1>2. CASE transitionDeployment(o)
    <2>1. PICK d \in Deployments : Exists(d) /\
            \E target \in allowedDeploymentTransitions[deployment[d].status] :
              Begin(o, [Idle EXCEPT
                !.pc = IF target = "active" THEN "readProfile" ELSE "saveDeployment",
                !.deployment = d, !.record = [Touched(d) EXCEPT !.status = target],
                !.entry = [action |-> "transitioned", from |-> deployment[d].status,
                           status |-> target,
                           blueprint |-> [Touched(d) EXCEPT !.status = target].blueprint]])
      BY <1>2 DEF transitionDeployment
    <2>2. PICK target \in allowedDeploymentTransitions[deployment[d].status] :
            Begin(o, [Idle EXCEPT
                !.pc = IF target = "active" THEN "readProfile" ELSE "saveDeployment",
                !.deployment = d, !.record = [Touched(d) EXCEPT !.status = target],
                !.entry = [action |-> "transitioned", from |-> deployment[d].status,
                           status |-> target,
                           blueprint |-> [Touched(d) EXCEPT !.status = target].blueprint]])
      BY <2>1
    <2> DEFINE record == [Touched(d) EXCEPT !.status = target]
               entry == [action |-> "transitioned", from |-> deployment[d].status,
                         status |-> target, blueprint |-> record.blueprint]
               pc == IF target = "active" THEN "readProfile" ELSE "saveDeployment"
               r == [Idle EXCEPT !.pc = pc, !.deployment = d, !.record = record,
                                 !.entry = entry]
    <2>3. deployment[d].status \in DeploymentStatus /\ target \in DeploymentStatus
      BY <2>1, StatusTypes DEF TypeInv, TypeOK, DeploymentRecord, Exists
    <2>4. /\ record \in DeploymentRecord /\ record.status = target
          /\ record.revision = deployment[d].revision + 1 /\ deployment[d].revision \in Nat
      BY <2>3, TouchedType
    <2> HIDE DEF record
    <2>5. entry \in AuditEvent
      BY <2>3, <2>4 DEF AuditEvent, DeploymentRecord
    <2>6. /\ r.pc = pc /\ r.deployment = d /\ r.record = record
          /\ r.entry = entry /\ r.tier = "none"
      BY DEF Idle
    <2>7. r \in Call
      BY <2>4, <2>5, IdleType DEF Call
    <2>8. GoodCall(r)
      BY <2>6, <2>7 DEF GoodCall
    <2>9. OnlyCall(r)
      <3>1. /\ r.entry.action \in DeploymentActions /\ r.entry.from = deployment[d].status
            /\ r.entry.status = record.status /\ r.entry.blueprint = record.blueprint
        BY <2>4, <2>6 DEF DeploymentActions
      <3>2. /\ r.record.status \in allowedDeploymentTransitions[deployment[r.deployment].status]
            /\ r.pc = "saveDeployment" => r.record.status # "active"
            /\ r.pc \in {"readProfile", "saveDeployment"}
        BY <2>4, <2>6
      <3> QED
        BY <2>6, <3>1, <3>2 DEF OnlyCall, Saves, Saving, Owed
    <2>10. Begin(o, r)
      BY <2>2 DEF record
    <2>11. /\ r.pc \in {"readProfile", "saveDeployment"}
           /\ entry.action \in DeploymentActions /\ entry.status = record.status
           /\ entry.blueprint = record.blueprint
      BY <2>4, <2>6 DEF DeploymentActions
    <2> HIDE DEF r, entry
    <2>12. Fresh(r)
      BY <2>4, <2>6, <2>11 DEF Fresh, Promised
    <2> QED
      BY <2>6, <2>8, <2>9, <2>10, <2>11, <2>12 DEF Starts
  <1>3. CASE rollbackDeploymentToBlueprint(o)
    <2>1. PICK d \in Deployments, b \in Blueprints :
            /\ Exists(d)
            /\ Begin(o, [Idle EXCEPT
                 !.pc = "saveDeployment", !.deployment = d,
                 !.record = [Touched(d) EXCEPT !.blueprint = b],
                 !.entry = [action |-> "rollback", from |-> deployment[d].status,
                            status |-> deployment[d].status, blueprint |-> b]])
      BY <1>3 DEF rollbackDeploymentToBlueprint
    <2> DEFINE record == [Touched(d) EXCEPT !.blueprint = b]
               entry == [action |-> "rollback", from |-> deployment[d].status,
                         status |-> deployment[d].status, blueprint |-> b]
               r == [Idle EXCEPT !.pc = "saveDeployment", !.deployment = d,
                                 !.record = record, !.entry = entry]
    <2>2. /\ record \in DeploymentRecord /\ record.status = deployment[d].status
          /\ record.blueprint = b /\ record.revision = deployment[d].revision + 1
          /\ deployment[d].revision \in Nat
      BY TouchedType
    <2> HIDE DEF record
    <2>3. entry \in AuditEvent
      BY DEF AuditEvent, TypeInv, TypeOK, DeploymentRecord
    <2>4. /\ r.pc = "saveDeployment" /\ r.deployment = d /\ r.record = record
          /\ r.entry = entry /\ r.tier = "none"
      BY DEF Idle
    <2>5. r \in Call
      BY <2>2, <2>3, IdleType DEF Call
    <2>6. GoodCall(r)
      BY <2>4, <2>5 DEF GoodCall
    <2>7. OnlyCall(r)
      BY <2>2, <2>4 DEF OnlyCall, Saves, Saving, Owed, DeploymentActions
    <2>8. Begin(o, r)
      BY <2>1 DEF record
    <2>9. /\ entry.action \in DeploymentActions /\ entry.status = record.status
          /\ entry.blueprint = record.blueprint
      BY <2>2 DEF DeploymentActions
    <2> HIDE DEF r, entry
    <2>10. Fresh(r)
      BY <2>2, <2>4, <2>9 DEF Fresh, Promised
    <2> QED
      BY <2>4, <2>6, <2>7, <2>8, <2>10 DEF Starts
  <1>4. CASE upsertComplianceProfile(o)
    <2>1. PICK d \in Deployments, tier \in RiskTiers :
            Begin(o, [Idle EXCEPT
              !.pc = "saveProfile", !.deployment = d,
              !.profile = [tier |-> tier,
                           revision |-> IF profiles[d] = <<>> THEN 1
                                        ELSE profiles[d][1].revision + 1],
              !.place = IF profiles[d] = <<>> THEN 0 ELSE 1,
              !.entry = [NoAudit EXCEPT !.action = "profile"]])
      BY <1>4 DEF upsertComplianceProfile
    <2> DEFINE revision == IF profiles[d] = <<>> THEN 1 ELSE profiles[d][1].revision + 1
               profile == [tier |-> tier, revision |-> revision]
               place == IF profiles[d] = <<>> THEN 0 ELSE 1
               entry == [NoAudit EXCEPT !.action = "profile"]
               r == [Idle EXCEPT !.pc = "saveProfile", !.deployment = d,
                                 !.profile = profile, !.place = place, !.entry = entry]
    <2>2. profiles[d] \in Seq(ComplianceProfile) /\ Len(profiles[d]) \in Nat
      BY LenProperties DEF TypeInv, TypeOK
    <2>3. profiles[d] # <<>> => Len(profiles[d]) >= 1 /\ profiles[d][1] \in ComplianceProfile
      BY <2>2, EmptySeq, ElementOfSeq
    <2>4. profile \in ComplianceProfile /\ place \in 0..Len(profiles[d]) /\ place \in Nat
      BY <2>2, <2>3 DEF ComplianceProfile
    <2>5. entry \in AuditEvent /\ entry.action = "profile"
      BY DEF NoAudit, AuditEvent
    <2> HIDE DEF profile, place, entry
    <2>6. /\ r.pc = "saveProfile" /\ r.deployment = d /\ r.profile = profile
          /\ r.place = place /\ r.entry = entry /\ r.tier = "none"
      BY DEF Idle
    <2>7. r \in Call
      BY <2>4, <2>5, IdleType DEF Call
    <2>8. GoodCall(r)
      BY <2>4, <2>6, <2>7 DEF GoodCall
    <2>9. place = 0 => profiles[d] = <<>>
      BY DEF place
    <2>10. OnlyCall(r)
      BY <2>5, <2>6, <2>9 DEF OnlyCall, Saving, Owed
    <2>11. Begin(o, r)
      BY <2>1 DEF profile, place, entry
    <2> HIDE DEF r
    <2>12. Fresh(r)
      BY <2>5, <2>6 DEF Fresh, Promised, Saving
    <2> QED
      BY <2>6, <2>8, <2>10, <2>11, <2>12 DEF Starts
  <1>5. CASE createComplianceArtifact(o)
    <2>1. PICK d \in Deployments, a \in Artifacts, kind \in Kinds, accepted \in BOOLEAN :
            Begin(o, [Idle EXCEPT
              !.pc = "saveArtifact", !.deployment = d, !.artifact = a,
              !.content = [deployment |-> d, kind |-> kind, accepted |-> accepted],
              !.entry = [NoAudit EXCEPT !.action = "artifact"]])
      BY <1>5 DEF createComplianceArtifact
    <2> DEFINE content == [deployment |-> d, kind |-> kind, accepted |-> accepted]
               entry == [NoAudit EXCEPT !.action = "artifact"]
               r == [Idle EXCEPT !.pc = "saveArtifact", !.deployment = d, !.artifact = a,
                                 !.content = content, !.entry = entry]
    <2>2. content \in ComplianceArtifact /\ content.deployment = d
      BY DEF ComplianceArtifact
    <2>3. entry \in AuditEvent /\ entry.action = "artifact"
      BY DEF NoAudit, AuditEvent
    <2> HIDE DEF content, entry
    <2>4. /\ r.pc = "saveArtifact" /\ r.deployment = d /\ r.artifact = a
          /\ r.content = content /\ r.entry = entry /\ r.tier = "none"
      BY DEF Idle
    <2>5. r \in Call
      BY <2>2, <2>3, IdleType DEF Call
    <2>6. GoodCall(r)
      BY <2>4, <2>5 DEF GoodCall
    <2>7. OnlyCall(r)
      BY <2>3, <2>4 DEF OnlyCall, Saving, Owed
    <2>8. Begin(o, r)
      BY <2>1 DEF content, entry
    <2> HIDE DEF r
    <2>9. Fresh(r)
      BY <2>2, <2>3, <2>4 DEF Fresh, Promised, Saving
    <2> QED
      BY <2>1, <2>4, <2>6, <2>7, <2>8, <2>9 DEF Starts
  <1>6. CASE startRunSession(o)
    <2>1. PICK d \in Deployments, x \in Runs :
            /\ deployment[d].status = "active"
            /\ Begin(o, [Idle EXCEPT !.pc = "readSnapshot", !.deployment = d, !.run = x])
      BY <1>6 DEF startRunSession, Startable
    <2> DEFINE r == [Idle EXCEPT !.pc = "readSnapshot", !.deployment = d, !.run = x]
    <2>2. /\ r.pc = "readSnapshot" /\ r.deployment = d /\ r.run = x
          /\ r.tier = "none"
      BY DEF Idle
    <2>3. r \in Call
      BY IdleType DEF Call
    <2>4. GoodCall(r)
      BY <2>2, <2>3 DEF GoodCall
    <2>5. OnlyCall(r)
      BY <2>1, <2>2 DEF OnlyCall, Saving, Owed
    <2>6. Begin(o, r)
      BY <2>1
    <2> HIDE DEF r
    <2>7. Fresh(r)
      BY <2>2 DEF Fresh, Promised, Saving
    <2> QED
      BY <2>2, <2>4, <2>5, <2>6, <2>7 DEF Starts
  <1> QED
    BY <1>1, <1>2, <1>3, <1>4, <1>5, <1>6 DEF Start

LEMMA InitType == Init => TypeInv
  <1> SUFFICES ASSUME Init PROVE TypeInv
    OBVIOUS
  <1>1. /\ deployment \in [Deployments -> DeploymentRecord]
        /\ artifact \in [Artifacts -> ComplianceArtifact] /\ run \in [Runs -> RunSession]
        /\ held \in [Artifacts -> SUBSET ComplianceArtifact]
    BY RecordTypes, Zenon DEF Init
  <1>2. /\ profiles \in [Deployments -> Seq(ComplianceProfile)]
        /\ audits \in [Deployments -> Seq(AuditEvent)]
    BY DEF Init
  <1>3. call \in [Operators -> Call] /\ \A o \in Operators : GoodCall(call[o])
    BY IdleType, Zenon DEF Init
  <1>4. calls \in Nat /\ faults \in Nat
    BY DEF Init
  <1> QED
    BY <1>1, <1>2, <1>3, <1>4 DEF TypeInv, TypeOK

(* The call goes on at another place, with another tier.                   *)
LEMMA MovedType ==
  ASSUME TypeInv, NEW o \in Operators, NEW tier \in RiskTiers \cup {"none"},
         NEW pc \in {"readArtifacts", "saveDeployment", "audit", "saveRun"},
         call[o].pc # "idle", pc = "saveRun" => call[o].run \in Runs
  PROVE  /\ GoodCall([call[o] EXCEPT !.pc = pc])
         /\ GoodCall([call[o] EXCEPT !.pc = pc, !.tier = tier])
  <1>1. call[o] \in Call /\ call[o].deployment \in Deployments
    BY DEF TypeInv, GoodCall
  <1> QED
    BY <1>1 DEF GoodCall, Call

LEMMA TierType ==
  ASSUME TypeInv, NEW d \in Deployments
  PROVE  Tier(d) \in RiskTiers \cup {"none"}
  <1>1. profiles[d] \in Seq(ComplianceProfile)
    BY DEF TypeInv, TypeOK
  <1>2. CASE profiles[d] # <<>>
    <2>1. Len(profiles[d]) \in Nat \ {0}
      BY <1>1, <1>2, EmptySeq
    <2>2. profiles[d][1] \in ComplianceProfile
      BY <1>1, <2>1, ElementOfSeq
    <2> QED
      BY <1>2, <2>2 DEF Tier, ComplianceProfile
  <1> QED
    BY <1>2 DEF Tier

(* What saving a profile makes of the profiles of its deployment.          *)
LEMMA SavedProfiles ==
  ASSUME TypeInv, NEW o \in Operators, saveProfile(o)
  PROVE  LET d == call[o].deployment
             old == profiles[d]
             place == call[o].place
         IN /\ d \in Deployments
            /\ profiles' \in [Deployments -> Seq(ComplianceProfile)]
            /\ \A e \in Deployments \ {d} : profiles'[e] = profiles[e]
            /\ Len(profiles'[d]) = IF place = 0 THEN Len(old) + 1 ELSE Len(old)
            /\ Len(old) \in Nat
  <1> DEFINE d == call[o].deployment
             old == profiles[d]
             place == call[o].place
             new == IF place = 0 THEN Append(old, call[o].profile)
                    ELSE [old EXCEPT ![place] = call[o].profile]
  <1>1. /\ d \in Deployments /\ call[o].profile \in ComplianceProfile
        /\ place \in 0..Len(old) /\ old \in Seq(ComplianceProfile)
        /\ profiles \in [Deployments -> Seq(ComplianceProfile)]
    BY DEF TypeInv, TypeOK, GoodCall, saveProfile
  <1>2. Len(old) \in Nat
    BY <1>1, LenProperties
  <1>3. /\ new \in Seq(ComplianceProfile)
        /\ Len(new) = IF place = 0 THEN Len(old) + 1 ELSE Len(old)
    <2>1. CASE place = 0
      BY <1>1, <2>1, AppendProperties
    <2>2. CASE place # 0
      <3>1. place \in 1..Len(old)
        BY <1>1, <1>2, <2>2
      <3> QED
        BY <1>1, <2>2, <3>1, ExceptSeq
    <2> QED
      BY <2>1, <2>2
  <1>4. profiles' = [profiles EXCEPT ![d] = new]
    BY DEF saveProfile
  <1> HIDE DEF new
  <1> QED
    BY <1>1, <1>2, <1>3, <1>4

LEMMA ContinueType ==
  ASSUME TypeInv, NEW o \in Operators, Continue(o)
  PROVE  TypeInv'
  <1> DEFINE d == call[o].deployment
  <1>1. CASE readProfile(o)
    <2>1. d \in Deployments /\ Tier(d) \in RiskTiers \cup {"none"}
      BY <1>1, TierType DEF readProfile, TypeInv, GoodCall
    <2>2. PICK pc \in {"readArtifacts", "saveDeployment"} :
            Becomes(o, [call[o] EXCEPT !.pc = pc, !.tier = Tier(d)])
      BY <1>1 DEF readProfile
    <2>3. GoodCall([call[o] EXCEPT !.pc = pc, !.tier = Tier(d)])
      BY <1>1, <2>1, MovedType DEF readProfile
    <2> QED
      BY <1>1, <2>2, <2>3, BecomesType DEF readProfile, stores, TypeInv, TypeOK
  <1>2. CASE readArtifacts(o)
    <2>1. GoodCall([call[o] EXCEPT !.pc = "saveDeployment"])
      BY <1>2, MovedType DEF readArtifacts
    <2>2. PICK r : GoodCall(r) /\ Becomes(o, r)
      BY <1>2, <2>1, IdleType DEF readArtifacts
    <2> QED
      BY <1>2, <2>2, BecomesType DEF readArtifacts, stores, TypeInv, TypeOK
  <1>3. CASE saveDeployment(o)
    <2>1. d \in Deployments /\ call[o].record \in DeploymentRecord
      BY <1>3 DEF saveDeployment, TypeInv, GoodCall, Call
    <2>2. deployment' \in [Deployments -> DeploymentRecord]
      BY <1>3, <2>1 DEF saveDeployment, TypeInv, TypeOK
    <2>3. GoodCall([call[o] EXCEPT !.pc = "audit"])
      BY <1>3, MovedType DEF saveDeployment
    <2> QED
      BY <1>3, <2>2, <2>3, BecomesType DEF saveDeployment, TypeInv, TypeOK
  <1>4. CASE saveProfile(o)
    <2>1. /\ profiles' \in [Deployments -> Seq(ComplianceProfile)]
          /\ \A e \in Deployments : /\ Len(profiles[e]) \in Nat /\ Len(profiles'[e]) \in Nat
                                    /\ Len(profiles[e]) <= Len(profiles'[e])
      <3>1. \A e \in Deployments : Len(profiles[e]) \in Nat
        BY LenProperties DEF TypeInv, TypeOK
      <3> QED
        BY <1>4, <3>1, SavedProfiles
    <2>2. GoodCall([call[o] EXCEPT !.pc = "audit"])
      BY <1>4, MovedType DEF saveProfile
    <2>3. call' = [call EXCEPT ![o] = [call[o] EXCEPT !.pc = "audit"]]
      BY <1>4 DEF saveProfile, Becomes
    <2>4. \A p \in Operators : call'[p] = call[p] \/ call'[p] = [call[o] EXCEPT !.pc = "audit"]
      BY <2>3 DEF TypeInv, TypeOK
    <2>5. [call[o] EXCEPT !.pc = "audit"].pc = "audit"
      BY DEF TypeInv, TypeOK, Call
    <2>6. call' \in [Operators -> Call]
      BY <2>2, <2>3 DEF TypeInv, TypeOK, GoodCall
    <2>7. ASSUME NEW p \in Operators PROVE GoodCall(call[p])'
      <3>1. /\ call'[p] \in Call
            /\ call'[p].pc # "idle" => call'[p].deployment \in Deployments
        BY <2>2, <2>4, <2>6 DEF TypeInv, GoodCall
      <3>2. CASE call'[p] = call[p]
        <4>1. ASSUME call[p].pc = "saveProfile"
              PROVE  /\ call[p].profile \in ComplianceProfile
                     /\ call[p].place \in 0..Len(profiles'[call[p].deployment])
          <5>1. /\ call[p].deployment \in Deployments /\ call[p].profile \in ComplianceProfile
                /\ call[p].place \in 0..Len(profiles[call[p].deployment])
            BY <4>1 DEF TypeInv, GoodCall
          <5> QED
            BY <2>1, <5>1
        <4> QED
          BY <3>1, <3>2, <4>1 DEF TypeInv, GoodCall
      <3>3. CASE call'[p] = [call[o] EXCEPT !.pc = "audit"]
        BY <2>5, <3>1, <3>3 DEF GoodCall
      <3> QED
        BY <2>4, <3>2, <3>3
    <2> QED
      BY <1>4, <2>1, <2>6, <2>7 DEF saveProfile, TypeInv, TypeOK
  <1>5. CASE saveArtifact(o)
    <2>1. call[o].artifact \in Artifacts /\ call[o].content \in ComplianceArtifact
      BY <1>5 DEF saveArtifact, TypeInv, GoodCall, Call
    <2>2. /\ artifact' \in [Artifacts -> ComplianceArtifact]
          /\ held' \in [Artifacts -> SUBSET ComplianceArtifact]
      BY <1>5, <2>1 DEF saveArtifact, TypeInv, TypeOK
    <2>3. GoodCall([call[o] EXCEPT !.pc = "audit"])
      BY <1>5, MovedType DEF saveArtifact
    <2> QED
      BY <1>5, <2>2, <2>3, BecomesType DEF saveArtifact, TypeInv, TypeOK
  <1>6. CASE readSnapshot(o)
    <2>1. /\ d \in Deployments /\ Tier(d) \in RiskTiers \cup {"none"}
          /\ call[o].run \in Runs
      BY <1>6, TierType DEF readSnapshot, TypeInv, GoodCall
    <2>2. GoodCall([call[o] EXCEPT !.pc = "saveRun", !.tier = Tier(d)])
      BY <1>6, <2>1, MovedType DEF readSnapshot
    <2> QED
      BY <1>6, <2>2, BecomesType DEF readSnapshot, stores, TypeInv, TypeOK
  <1>7. CASE saveRun(o)
    <2>1. [deployment |-> d, tier |-> call[o].tier] \in RunSession
      BY DEF TypeInv, TypeOK, Call, RunSession
    <2>2. run' \in [Runs -> RunSession]
      BY <1>7, <2>1 DEF saveRun, TypeInv, TypeOK
    <2> QED
      BY <1>7, <2>2, IdleType, BecomesType DEF saveRun, TypeInv, TypeOK
  <1>8. CASE recordAuditEvent(o)
    <2>1. d \in Deployments /\ call[o].entry \in AuditEvent /\ audits[d] \in Seq(AuditEvent)
      BY <1>8 DEF recordAuditEvent, TypeInv, TypeOK, GoodCall, Call
    <2>2. Append(audits[d], call[o].entry) \in Seq(AuditEvent)
      BY <2>1, AppendProperties
    <2>3. audits' \in [Deployments -> Seq(AuditEvent)]
      BY <1>8, <2>2 DEF recordAuditEvent, TypeInv, TypeOK
    <2> QED
      BY <1>8, <2>3, IdleType, BecomesType DEF recordAuditEvent, TypeInv, TypeOK
  <1> QED
    BY <1>1, <1>2, <1>3, <1>4, <1>5, <1>6, <1>7, <1>8 DEF Continue

LEMMA NextType == TypeInv /\ [Next]_vars => TypeInv'
  <1> SUFFICES ASSUME TypeInv, [Next]_vars PROVE TypeInv'
    OBVIOUS
  <1>1. ASSUME NEW o \in Operators, Start(o) PROVE TypeInv'
    BY <1>1, StartShape, BeginType DEF Starts
  <1>2. ASSUME NEW o \in Operators, Reject(o) PROVE TypeInv'
    BY <1>2, IdleType, BecomesType DEF Reject, stores, TypeInv, TypeOK
  <1>3. ASSUME UNCHANGED vars PROVE TypeInv'
    BY <1>3 DEF vars, TypeInv, TypeOK, GoodCall
  <1> QED
    BY <1>1, <1>2, <1>3, ContinueType DEF Next, Rest

LEMMA TypeInvariant == Spec => []TypeInv
  BY InitType, NextType, PTL DEF Spec

(* Every repository and every call in flight keeps its type, whatever      *)
(* interleaves and whichever handlers are aborted.                         *)
THEOREM TypeCorrect == Spec => []TypeOK
  <1>1. TypeInv => TypeOK
    BY DEF TypeInv
  <1> QED
    BY <1>1, TypeInvariant, PTL

-----------------------------------------------------------------------------
(* The gate, under any interleaving                                        *)

(* An artifact is stored under its id, and stays among what was.            *)
HeldGrows ==
  \A a \in Artifacts :
    /\ held[a] \subseteq held'[a]
    /\ artifact'[a] = artifact[a] \/ artifact'[a] \in held'[a]

LEMMA HeldStep ==
  ASSUME TypeInv, Next
  PROVE  HeldGrows
  <1>1. ASSUME UNCHANGED <<artifact, held>> PROVE HeldGrows
    BY <1>1 DEF HeldGrows
  <1>2. ASSUME NEW o \in Operators, Start(o) PROVE HeldGrows
    BY <1>1, <1>2, StartShape DEF Starts, Begin, stores
  <1>3. ASSUME NEW o \in Operators, saveArtifact(o) PROVE HeldGrows
    BY <1>3 DEF saveArtifact, HeldGrows, TypeInv, TypeOK
  <1>4. ASSUME NEW o \in Operators, Continue(o) \/ Reject(o), ~saveArtifact(o)
        PROVE  HeldGrows
    <2>1. UNCHANGED <<artifact, held>>
      BY <1>4 DEF Continue, readProfile, readArtifacts, saveDeployment, saveProfile,
                  readSnapshot, saveRun, recordAuditEvent, Reject, stores
    <2> QED
      BY <1>1, <2>1
  <1>5. ASSUME UNCHANGED vars PROVE HeldGrows
    BY <1>1, <1>5 DEF vars
  <1> QED
    BY <1>2, <1>3, <1>4, <1>5 DEF Next, Rest

(* What was ready stays so: an artifact goes only when another is stored   *)
(* under its id.                                                           *)
LEMMA WasReadyKept ==
  ASSUME HeldGrows, NEW d \in Deployments, NEW kind \in Kinds, WasReady(d, kind)
  PROVE  WasReady(d, kind)'
  <1> DEFINE needed == [deployment |-> d, kind |-> kind, accepted |-> TRUE]
  <1>1. PICK a \in Artifacts :
          needed \in held[a] /\ (artifact[a] = needed \/ held[a] # {needed})
    BY DEF WasReady
  <1>2. needed \in held'[a] /\ held[a] \subseteq held'[a]
    BY <1>1 DEF HeldGrows
  <1>3. artifact'[a] = needed \/ held'[a] # {needed}
    <2>1. CASE held[a] # {needed}
      BY <1>1, <1>2, <2>1
    <2>2. CASE artifact[a] = needed
      BY <1>2, <2>2 DEF HeldGrows
    <2> QED
      BY <1>1, <2>1, <2>2
  <1> HIDE DEF needed
  <1>4. \E e \in Artifacts : needed \in held'[e] /\ (artifact'[e] = needed \/ held'[e] # {needed})
    BY <1>2, <1>3
  <1> QED
    BY <1>4 DEF WasReady, needed

LEMMA ReadyWas ==
  ASSUME HeldInv, NEW d \in Deployments, Ready(d), NEW kind \in Kinds
  PROVE  WasReady(d, kind)
  <1>1. PICK a \in Artifacts :
          artifact[a] = [deployment |-> d, kind |-> kind, accepted |-> TRUE]
    BY DEF Ready
  <1>2. artifact[a] # NoArtifact
    <2>1. NoArtifact.deployment = NoId /\ artifact[a].deployment = d
      BY <1>1 DEF NoArtifact
    <2> QED
      BY <2>1, DeploymentsAssumption DEF DeploymentsAssumption
  <1> QED
    BY <1>1, <1>2 DEF HeldInv, WasReady

LEMMA HeldKept ==
  ASSUME HeldInv, HeldGrows
  PROVE  HeldInv'
  BY DEF HeldInv, HeldGrows

(* What a call found ready when it passed the gate stays so for it.        *)
LEMMA GateOfOthers ==
  ASSUME TypeInv, GateInv, HeldGrows, NEW o \in Operators, call'[o] = call[o]
  PROVE  PastGate(o)'
  <1> SUFFICES ASSUME call[o].pc = "saveDeployment", call[o].tier = "high-risk",
                      NEW kind \in Kinds
               PROVE  WasReady(call[o].deployment, kind)'
    BY DEF PastGate
  <1>1. call[o].deployment \in Deployments /\ WasReady(call[o].deployment, kind)
    BY DEF GateInv, PastGate, TypeInv, GoodCall
  <1>2. ASSUME NEW d \in Deployments, WasReady(d, kind) PROVE WasReady(d, kind)'
    BY <1>2, WasReadyKept
  <1>3. \A d \in Deployments : WasReady(d, kind) => WasReady(d, kind)'
    BY <1>2
  <1> QED
    BY <1>1, <1>3 DEF WasReady

LEMMA StartGate ==
  ASSUME TypeInv, GateInv, HeldGrows, NEW o \in Operators, Start(o)
  PROVE  GateInv'
  <1>1. PICK r : Starts(o, r)
    BY StartShape
  <1>2. call'[o] = r /\ \A p \in Operators \ {o} : call'[p] = call[p]
    BY <1>1 DEF Starts, Begin, Becomes, stores, TypeInv, TypeOK
  <1>3. PastGate(o)'
    BY <1>1, <1>2 DEF Starts, PastGate
  <1> QED
    BY <1>2, <1>3, GateOfOthers, HeldKept DEF GateInv

(* Of the other steps of a call only two lead to the save of a deployment. *)
LEMMA ContinueShape ==
  ASSUME TypeInv, NEW o \in Operators, Continue(o) \/ Reject(o)
  PROVE  /\ \A p \in Operators \ {o} : call'[p] = call[p]
         /\ call'[o].pc = "saveDeployment" => readProfile(o) \/ readArtifacts(o)
  <1> DEFINE Others == \A p \in Operators \ {o} : call'[p] = call[p]
             Moved(pc) == Others /\ call'[o].pc = pc
  <1>1. ASSUME Becomes(o, Idle) PROVE Moved("idle")
    BY <1>1 DEF Becomes, Idle, TypeInv, TypeOK
  <1>2. ASSUME NEW pc, Becomes(o, [call[o] EXCEPT !.pc = pc]) PROVE Moved(pc)
    BY <1>2 DEF Becomes, TypeInv, TypeOK, Call
  <1>3. ASSUME NEW pc, NEW tier, Becomes(o, [call[o] EXCEPT !.pc = pc, !.tier = tier])
        PROVE  Moved(pc)
    BY <1>3 DEF Becomes, TypeInv, TypeOK, Call
  <1>4. CASE saveDeployment(o) \/ saveProfile(o) \/ saveArtifact(o)
    <2>1. Moved("audit")
      BY <1>2, <1>4, Zenon DEF saveDeployment, saveProfile, saveArtifact
    <2> QED
      BY <2>1
  <1>5. CASE readProfile(o)
    <2>1. PICK pc \in {"readArtifacts", "saveDeployment"} :
            Becomes(o, [call[o] EXCEPT !.pc = pc, !.tier = Tier(call[o].deployment)])
      BY <1>5 DEF readProfile
    <2>2. Moved(pc)
      BY <1>3, <2>1, Zenon
    <2> QED
      BY <1>5, <2>2
  <1>6. CASE readArtifacts(o)
    <2>1. Moved("saveDeployment") \/ Moved("idle")
      BY <1>1, <1>2, <1>6, Zenon DEF readArtifacts
    <2> QED
      BY <1>6, <2>1
  <1>7. CASE readSnapshot(o)
    <2>1. Moved("saveRun")
      BY <1>3, <1>7, Zenon DEF readSnapshot
    <2> QED
      BY <2>1
  <1>8. CASE saveRun(o) \/ recordAuditEvent(o) \/ Reject(o)
    <2>1. Moved("idle")
      BY <1>1, <1>8, Zenon DEF saveRun, recordAuditEvent, Reject
    <2> QED
      BY <2>1
  <1> QED
    BY <1>4, <1>5, <1>6, <1>7, <1>8 DEF Continue

LEMMA ContinueGate ==
  ASSUME TypeInv, GateInv, HeldGrows, NEW o \in Operators, Continue(o) \/ Reject(o)
  PROVE  GateInv'
  <1>4. PastGate(o)'
    <2>1. CASE readProfile(o)
      <3>1. Tier(call[o].deployment) # "high-risk" =>
              call' = [call EXCEPT ![o] = [call[o] EXCEPT !.pc = "saveDeployment",
                                                          !.tier = Tier(call[o].deployment)]]
        BY <2>1 DEF readProfile, Becomes
      <3>2. Tier(call[o].deployment) = "high-risk" =>
              call' = [call EXCEPT ![o] = [call[o] EXCEPT !.pc = "readArtifacts",
                                                          !.tier = Tier(call[o].deployment)]]
        BY <2>1 DEF readProfile, Becomes
      <3> QED
        BY <3>1, <3>2 DEF PastGate, TypeInv, TypeOK, Call
    <2>2. CASE readArtifacts(o)
      <3>1. UNCHANGED <<artifact, held>> /\ call[o].deployment \in Deployments
        BY <2>2 DEF readArtifacts, stores, TypeInv, GoodCall
      <3>2. CASE Ready(call[o].deployment)
        <4>1. call'[o].deployment = call[o].deployment
          BY <2>2, <3>2 DEF readArtifacts, Becomes, TypeInv, TypeOK, Call
        <4>2. \A kind \in Kinds : WasReady(call[o].deployment, kind)
          BY <3>1, <3>2, ReadyWas DEF GateInv
        <4> QED
          BY <3>1, <4>1, <4>2 DEF PastGate, WasReady
      <3>3. CASE ~Ready(call[o].deployment)
        BY <2>2, <3>3 DEF readArtifacts, Becomes, PastGate, Idle, TypeInv, TypeOK
      <3> QED
        BY <3>2, <3>3
    <2> QED
      BY <2>1, <2>2, ContinueShape DEF PastGate
  <1> QED
    BY <1>4, ContinueShape, GateOfOthers, HeldKept DEF GateInv

LEMMA GateStep == TypeInv /\ GateInv /\ [Next]_vars => GateInv'
  <1> SUFFICES ASSUME TypeInv, GateInv, [Next]_vars PROVE GateInv'
    OBVIOUS
  <1>1. CASE UNCHANGED vars
    BY <1>1 DEF vars, GateInv, HeldInv, PastGate, WasReady
  <1> QED
    BY <1>1, HeldStep, StartGate, ContinueGate DEF Next, Rest

(* An operator that found a high-risk profile saves an activation only     *)
(* while every required artifact is there (readArtifacts, saveDeployment), *)
(* whatever the others do between the gate and the save, unless a client   *)
(* has recorded other contents under the id of one of them.                *)
THEOREM ActivationIsGated == Spec => GatedActivation
  <1>1. Init => GateInv
    BY DEF Init, GateInv, HeldInv, PastGate, Idle
  <1>2. GateInv /\ [Next]_vars => [\A o \in Operators :
           /\ call[o].pc = "saveDeployment" /\ call'[o].pc = "audit"
           /\ call[o].entry.action = "transitioned" /\ call[o].record.status = "active"
           /\ call[o].tier = "high-risk"
           => \A kind \in Kinds : WasReady(call[o].deployment, kind)]_vars
    BY DEF GateInv, PastGate
  <1> QED
    BY <1>1, <1>2, GateStep, TypeInvariant, PTL DEF Spec, GatedActivation

-----------------------------------------------------------------------------
(* One operator                                                            *)

(* The trail of a deployment whose audit events are left alone.            *)
LEMMA TrailFrame ==
  ASSUME NEW d \in Deployments, audits'[d] = audits[d]
  PROVE  /\ Chain(d)' = Chain(d)
         /\ \A i : Before(d, i)' = Before(d, i)
         /\ \A i, status : Leaves(d, i, status)' <=> Leaves(d, i, status)
         /\ deployment'[d] = deployment[d] => (Explained(d)' <=> Explained(d))
  <1>1. Chain(d)' = Chain(d)
    BY DEF Chain
  <1>2. \A i : Before(d, i)' = Before(d, i)
    BY <1>1, Zenon DEF Before
  <1>3. \A i, status : Leaves(d, i, status)' <=> Leaves(d, i, status)
    BY <1>2 DEF Leaves
  <1>4. Len(audits'[d]) = Len(audits[d])
    OBVIOUS
  <1>5. deployment'[d] = deployment[d] => (Explained(d)' <=> Explained(d))
    BY <1>2, <1>3, <1>4 DEF Explained
  <1> QED
    BY <1>1, <1>2, <1>3, <1>5

(* The trail of a deployment after one more event, x at place end.         *)
Grows(d, x, end) ==
  /\ end \in Nat /\ Len(audits'[d]) = end /\ audits'[d][end] = x
  /\ \A i \in Chain(d) : i < end /\ audits'[d][i] = audits[d][i]
  /\ Chain(d)' = Chain(d) \cup (IF x.action \in DeploymentActions THEN {end} ELSE {})
  /\ \A i \in 1..end : Before(d, i)' = Before(d, i)
  /\ \A i \in 1..end : \A status : Leaves(d, i, status)' <=> Leaves(d, i, status)
  /\ Before(d, end + 1)' =
       (IF x.action \in DeploymentActions THEN {end} ELSE Before(d, end))

LEMMA TrailAppend ==
  ASSUME NEW d \in Deployments, NEW e \in AuditEvent, NEW end,
         audits[d] \in Seq(AuditEvent), audits'[d] = Append(audits[d], e),
         end = Len(audits[d]) + 1
  PROVE  Grows(d, e, end)
  <1>1. /\ end \in Nat /\ DOMAIN audits[d] = 1..(end - 1)
        /\ Len(audits[d]) \in Nat /\ Len(audits'[d]) = end /\ audits'[d] \in Seq(AuditEvent)
        /\ audits'[d][end] = e
        /\ \A i \in 1..(end - 1) : audits'[d][i] = audits[d][i]
    BY LenProperties, AppendProperties
  <1>2. DOMAIN audits'[d] = 1..end
    BY <1>1, LenProperties
  <1>3. Chain(d) \subseteq 1..(end - 1)
    BY <1>1 DEF Chain
  <1>4. Chain(d)' = Chain(d) \cup IF e.action \in DeploymentActions THEN {end} ELSE {}
    BY <1>1, <1>2 DEF Chain
  <1>5. ASSUME NEW i \in 1..end PROVE Before(d, i)' = Before(d, i)
    BY <1>1, <1>3, <1>4 DEF Before
  <1>6. ASSUME NEW i \in 1..end, NEW status
        PROVE  Leaves(d, i, status)' <=> Leaves(d, i, status)
    <2>1. Before(d, i) \subseteq Chain(d)
      BY DEF Before
    <2> QED
      BY <1>1, <1>3, <1>5, <2>1 DEF Leaves
  <1>7. Before(d, end + 1)' = IF e.action \in DeploymentActions THEN {end} ELSE Before(d, end)
    BY <1>1, <1>3, <1>4 DEF Before
  <1> QED
    BY <1>1, <1>3, <1>4, <1>5, <1>6, <1>7 DEF Grows

(* A call that does not touch the trail, nor what it explains.             *)
LEMMA SingleFrame ==
  ASSUME TypeInv, NEW o \in Operators, SingleInv(o), faults' = faults, OneProfile',
         OnlyCall(call[o])', ~Owed(call[o]), ~Owed(call'[o]),
         UNCHANGED <<audits, deployment>>
  PROVE  SingleInv(o)'
  <1>1. ASSUME NEW d \in Deployments
        PROVE  (\A i \in Chain(d) : Leaves(d, i, audits[d][i].from))' /\ Explained(d)'
    BY TrailFrame DEF SingleInv
  <1> QED
    BY <1>1 DEF SingleInv

LEMMA StartSingle ==
  ASSUME TypeInv, NEW o \in Operators, SingleInv(o), ~ReuseIds, Start(o)
  PROVE  SingleInv(o)'
  <1>1. PICK r : Starts(o, r)
    BY StartShape
  <1>2. /\ call'[o] = r /\ call[o].pc = "idle"
        /\ UNCHANGED <<deployment, profiles, artifact, run, audits, faults>>
    BY <1>1 DEF Starts, Begin, Becomes, stores, TypeInv, TypeOK
  <1>3. r.pc # "audit" /\ OnlyCall(r)
    BY <1>1 DEF Starts
  <1>4. OnlyCall(call[o])'
    BY <1>2, <1>3 DEF OnlyCall, Owed, Saves, Tier, Ready
  <1>5. OneProfile' /\ ~Owed(call[o]) /\ ~Owed(call'[o])
    BY <1>2, <1>3 DEF SingleInv, OneProfile, Owed
  <1> QED
    BY <1>2, <1>4, <1>5, SingleFrame

LEMMA SaveSingle ==
  ASSUME TypeInv, NEW o \in Operators, SingleInv(o), saveDeployment(o)
  PROVE  SingleInv(o)'
  <1> DEFINE d == call[o].deployment
  <1>1. /\ d \in Deployments /\ Saves(call[o]) /\ ~Owed(call[o])
        /\ UNCHANGED <<profiles, audits, faults>>
        /\ deployment'[d] = call[o].record
        /\ \A e \in Deployments \ {d} : deployment'[e] = deployment[e]
    BY DEF saveDeployment, SingleInv, OnlyCall, Owed, Saving, TypeInv, TypeOK, GoodCall
  <1>2. /\ call'[o].pc = "audit" /\ call'[o].deployment = d /\ call'[o].entry = call[o].entry
    BY DEF saveDeployment, Becomes, TypeInv, TypeOK, Call
  <1>3. ASSUME NEW e \in Deployments
        PROVE  /\ (\A i \in Chain(e) : Leaves(e, i, audits[e][i].from))'
               /\ e # d => Explained(e)'
               /\ Leaves(e, Len(audits[e]) + 1, deployment[e].status)
               /\ \A status : Leaves(e, Len(audits[e]) + 1, status) =>
                                Leaves(e, Len(audits[e]) + 1, status)'
    BY <1>1, TrailFrame DEF SingleInv, Explained
  <1>4. OnlyCall(call[o])'
    <2>1. /\ call[o].entry.action \in DeploymentActions
          /\ call[o].entry.from = deployment[d].status
          /\ call[o].entry.status = deployment'[d].status
          /\ call[o].entry.blueprint = deployment'[d].blueprint
      BY <1>1 DEF Saves
    <2>2. Leaves(d, Len(audits[d]) + 1, call[o].entry.from)'
      <3>1. PICK status : status = call[o].entry.from
        OBVIOUS
      <3>2. Leaves(d, Len(audits[d]) + 1, status)
        BY <1>1, <1>3, <2>1, <3>1
      <3>3. \A e \in Deployments : e = d => Leaves(e, Len(audits[e]) + 1, status)'
        BY <1>1, <1>3, <3>2
      <3> QED
        BY <1>1, <1>2, <3>1, <3>3 DEF Leaves, Before, Chain
    <2> QED
      BY <1>2, <2>1, <2>2 DEF OnlyCall, Saving, Owed
  <1>5. OneProfile'
    BY <1>1 DEF SingleInv, OneProfile
  <1>6. \A e \in Deployments : ~(Owed(call[o]) /\ call[o].deployment = e)' => e # d
    BY <1>1, <1>2 DEF Owed, Saves
  <1>7. faults' = 0
    BY <1>1 DEF SingleInv
  <1> QED
    BY <1>3, <1>4, <1>5, <1>6, <1>7 DEF SingleInv

LEMMA AuditSingle ==
  ASSUME TypeInv, NEW o \in Operators, SingleInv(o), recordAuditEvent(o)
  PROVE  SingleInv(o)'
  <1> DEFINE d == call[o].deployment
             entry == call[o].entry
  <1>1. /\ d \in Deployments /\ entry \in AuditEvent /\ audits[d] \in Seq(AuditEvent)
        /\ audits'[d] = Append(audits[d], entry)
        /\ \A e \in Deployments \ {d} : audits'[e] = audits[e]
        /\ call'[o] = Idle /\ UNCHANGED <<deployment, profiles, faults>>
    BY DEF recordAuditEvent, Becomes, TypeInv, TypeOK, GoodCall, Call
  <1>2. ASSUME NEW e \in Deployments \ {d}
        PROVE  (\A i \in Chain(e) : Leaves(e, i, audits[e][i].from))' /\ Explained(e)'
    BY <1>1, TrailFrame DEF SingleInv
  <1>3. ASSUME NEW e \in Deployments, e = d
        PROVE  (\A i \in Chain(e) : Leaves(e, i, audits[e][i].from))' /\ Explained(e)'
    <2>0. PICK end, x : end = Len(audits[e]) + 1 /\ x = entry
      OBVIOUS
    <2> DEFINE added == x.action \in DeploymentActions
    <2>10. x \in AuditEvent /\ audits[e] \in Seq(AuditEvent) /\ audits'[e] = Append(audits[e], x)
      BY <1>1, <1>3, <2>0
    <2>1. /\ end \in Nat /\ Len(audits'[e]) = end /\ audits'[e][end] = x
          /\ \A i \in Chain(e) : i < end /\ audits'[e][i] = audits[e][i]
          /\ Chain(e)' = Chain(e) \cup IF added THEN {end} ELSE {}
          /\ \A i \in 1..end : Before(e, i)' = Before(e, i)
          /\ \A i \in 1..end : \A status : Leaves(e, i, status)' <=> Leaves(e, i, status)
          /\ Before(e, end + 1)' = IF added THEN {end} ELSE Before(e, end)
      <3>1. Grows(e, x, end)
        BY <2>0, <2>10, TrailAppend
      <3> QED
        BY <3>1 DEF Grows
    <2>2. Chain(e) \subseteq 1..(end - 1)
      <3>1. Len(audits[e]) \in Nat /\ DOMAIN audits[e] = 1..Len(audits[e])
        BY <1>1, <1>3, LenProperties
      <3> QED
        BY <2>0, <3>1 DEF Chain
    <2>3. \A i \in Chain(e) : Leaves(e, i, audits[e][i].from)
      BY DEF SingleInv
    <2>4. IF added
            THEN /\ x.status = deployment[e].status /\ x.blueprint = deployment[e].blueprint
                 /\ Leaves(e, end, x.from)
            ELSE Explained(e)
      <3>1. call[o].pc = "audit" /\ call[o].deployment = e /\ call[o].entry = x
        BY <1>3, <2>0 DEF recordAuditEvent
      <3>2. added <=> Owed(call[o])
        BY <3>1 DEF Owed
      <3>3. CASE added
        BY <2>0, <3>1, <3>2, <3>3 DEF SingleInv, OnlyCall
      <3>4. CASE ~added
        BY <3>2, <3>4 DEF SingleInv
      <3> QED
        BY <3>3, <3>4
    <2>5. Len(audits'[e]) + 1 = end + 1 /\ end \in 1..end
      BY <2>0, <2>1, <2>10, LenProperties
    <2> HIDE DEF added
    <2>6. ASSUME NEW i, NEW from, i \in Chain(e)', from = audits'[e][i].from
          PROVE  Leaves(e, i, from)'
      <3>1. CASE i \in Chain(e)
        <4>1. i \in 1..end /\ from = audits[e][i].from /\ Leaves(e, i, audits[e][i].from)
          BY <2>1, <2>2, <2>3, <2>6, <3>1
        <4> QED
          BY <2>1, <4>1
      <3>2. CASE i \notin Chain(e)
        <4>1. i = end /\ added /\ from = x.from
          BY <2>1, <2>6, <3>2
        <4> QED
          BY <2>1, <2>4, <2>5, <4>1
      <3> QED
        BY <3>1, <3>2
    <2>7. Explained(e)'
      <3>1. CASE added
        <4>1. Before(e, end + 1)' = {end} /\ audits'[e][end] = x
          BY <2>1, <3>1
        <4> QED
          BY <1>1, <2>4, <2>5, <3>1, <4>1 DEF Explained, Leaves
      <3>2. CASE ~added
        <4>1. Before(e, end + 1)' = Before(e, end)
          BY <2>1, <3>2
        <4>2. \A j \in Before(e, end) : audits'[e][j] = audits[e][j]
          BY <2>1 DEF Before
        <4>3. Explained(e) /\ end = Len(audits[e]) + 1
          BY <2>0, <2>4, <3>2
        <4> QED
          BY <1>1, <2>5, <4>1, <4>2, <4>3 DEF Explained, Leaves
      <3> QED
        BY <3>1, <3>2
    <2>8. \A i \in Chain(e)' : Leaves(e, i, audits[e][i].from)'
      <3>1. \A i \in Chain(e)' : \A from : from = audits'[e][i].from => Leaves(e, i, from)'
        BY <2>6
      <3> QED
        BY <3>1 DEF Leaves
    <2> QED
      BY <2>7, <2>8
  <1>4. OnlyCall(call[o])' /\ ~Owed(call[o])'
    BY <1>1 DEF OnlyCall, Owed, Idle, Saving
  <1>5. OneProfile' /\ faults' = 0
    BY <1>1 DEF SingleInv, OneProfile
  <1> QED
    BY <1>2, <1>3, <1>4, <1>5 DEF SingleInv

(* The steps that touch neither the deployment nor the trail.              *)
LEMMA QuietSingle ==
  ASSUME TypeInv, NEW o \in Operators, SingleInv(o),
         readProfile(o) \/ readArtifacts(o) \/ saveProfile(o) \/ saveArtifact(o)
           \/ readSnapshot(o) \/ saveRun(o)
  PROVE  SingleInv(o)'
  <1>1. /\ UNCHANGED <<deployment, audits, faults>> /\ ~Owed(call[o])
        /\ OnlyCall(call[o]) /\ call[o] \in Call /\ call \in [Operators -> Call]
    BY DEF readProfile, readArtifacts, saveProfile, saveArtifact, readSnapshot, saveRun,
           stores, SingleInv, Owed, TypeInv, TypeOK
  <1>2. CASE readProfile(o)
    <2>1. /\ call'[o].deployment = call[o].deployment /\ call'[o].entry = call[o].entry
          /\ call'[o].record = call[o].record
          /\ call'[o].pc = IF Tier(call[o].deployment) = "high-risk" THEN "readArtifacts"
                           ELSE "saveDeployment"
          /\ UNCHANGED <<profiles, artifact>>
      BY <1>1, <1>2 DEF readProfile, Becomes, Call, stores
    <2>2. OnlyCall(call[o])'
      BY <1>1, <1>2, <2>1 DEF readProfile, OnlyCall, Saving, Saves, Owed, Tier, Ready
    <2> QED
      BY <1>1, <2>1, <2>2, SingleFrame DEF Owed, SingleInv, OneProfile
  <1>3. CASE readArtifacts(o)
    <2>1. \/ call'[o] = Idle
          \/ /\ call'[o].deployment = call[o].deployment /\ call'[o].entry = call[o].entry
             /\ call'[o].record = call[o].record
             /\ call'[o].pc = "saveDeployment" /\ Ready(call[o].deployment)
      BY <1>1, <1>3 DEF readArtifacts, Becomes, Call
    <2>2. UNCHANGED <<profiles, artifact>>
      BY <1>3 DEF readArtifacts, stores
    <2>3. OnlyCall(call[o])'
      BY <1>1, <1>3, <2>1, <2>2 DEF readArtifacts, OnlyCall, Saving, Saves, Owed, Tier, Ready,
                                     Idle
    <2> QED
      BY <1>1, <2>1, <2>2, <2>3, SingleFrame DEF Owed, SingleInv, OneProfile, Idle
  <1>4. CASE saveProfile(o)
    <2>1. /\ call'[o].pc = "audit" /\ call'[o].entry.action = "profile"
      BY <1>1, <1>4 DEF saveProfile, Becomes, Call, OnlyCall
    <2>2. ~Owed(call'[o]) /\ OnlyCall(call[o])'
      BY <2>1 DEF Owed, OnlyCall, Saving, DeploymentActions
    <2>3. OneProfile'
      <3>1. call[o].place = 0 => Len(profiles[call[o].deployment]) = 0
        BY <1>1, <1>4 DEF saveProfile, OnlyCall
      <3> QED
        BY <1>4, <3>1, SavedProfiles DEF SingleInv, OneProfile
    <2> QED
      BY <1>1, <2>2, <2>3, SingleFrame
  <1>5. CASE saveArtifact(o)
    <2>1. /\ call'[o].pc = "audit" /\ call'[o].entry.action = "artifact"
          /\ UNCHANGED profiles
      BY <1>1, <1>5 DEF saveArtifact, Becomes, Call, OnlyCall
    <2>2. ~Owed(call'[o]) /\ OnlyCall(call[o])'
      BY <2>1 DEF Owed, OnlyCall, Saving, DeploymentActions
    <2> QED
      BY <1>1, <2>1, <2>2, SingleFrame DEF SingleInv, OneProfile
  <1>6. CASE readSnapshot(o)
    <2>1. /\ call'[o].pc = "saveRun" /\ call'[o].deployment = call[o].deployment
          /\ call'[o].tier = Tier(call[o].deployment)
          /\ UNCHANGED profiles
      BY <1>1, <1>6 DEF readSnapshot, Becomes, Call, stores
    <2>2. OnlyCall(call[o])'
      BY <1>1, <1>6, <2>1 DEF readSnapshot, OnlyCall, Owed, Saving, Tier
    <2> QED
      BY <1>1, <2>1, <2>2, SingleFrame DEF SingleInv, OneProfile, Owed
  <1>7. CASE saveRun(o)
    <2>1. call'[o] = Idle /\ UNCHANGED profiles
      BY <1>1, <1>7 DEF saveRun, Becomes
    <2>2. ~Owed(call'[o]) /\ OnlyCall(call[o])'
      BY <2>1 DEF Owed, OnlyCall, Saving, Idle
    <2> QED
      BY <1>1, <2>1, <2>2, SingleFrame DEF SingleInv, OneProfile
  <1> QED
    BY <1>2, <1>3, <1>4, <1>5, <1>6, <1>7

LEMMA SingleStep ==
  ASSUME TypeInv, NEW o \in Operators, Operators = {o}, SingleInv(o), ~ReuseIds,
         MaxFaults = 0, [Next]_vars
  PROVE  SingleInv(o)'
  <1>1. CASE UNCHANGED vars
    <2>1. UNCHANGED <<deployment, profiles, artifact, audits, faults, call>>
      BY <1>1 DEF vars
    <2>2. \A d : \A i : Before(d, i)' = Before(d, i)
      BY <2>1, Zenon DEF Before, Chain
    <2>3. \A d : \A i, status : Leaves(d, i, status)' <=> Leaves(d, i, status)
      BY <2>1, <2>2 DEF Leaves
    <2>4. \A d : Explained(d)' <=> Explained(d)
      BY <2>1, <2>2, <2>3 DEF Explained
    <2>5. OnlyCall(call[o])'
      BY <2>1, <2>3 DEF SingleInv, OnlyCall, Owed, Saves, Saving, Tier, Ready
    <2> QED
      BY <2>1, <2>3, <2>4, <2>5 DEF SingleInv, OneProfile, Owed, Chain
  <1>2. ~Reject(o)
    BY DEF Reject, SingleInv
  <1> QED
    BY <1>1, <1>2, StartSingle, SaveSingle, AuditSingle, QuietSingle DEF Next, Rest, Continue

LEMMA InitSingle ==
  ASSUME Init, NEW o \in Operators
  PROVE  SingleInv(o)
  <1>1. \A d \in Deployments : audits[d] = <<>> /\ profiles[d] = <<>>
    BY DEF Init
  <1>2. \A d \in Deployments : Chain(d) = {}
    BY <1>1 DEF Chain
  <1>3. \A d \in Deployments : \A i : Before(d, i) = {}
    BY <1>2 DEF Before
  <1>4. \A d \in Deployments : deployment[d].status = "none"
    BY DEF Init, NoDeployment
  <1>5. \A d \in Deployments : Explained(d)
    BY <1>3, <1>4 DEF Explained, Leaves
  <1>6. OnlyCall(call[o]) /\ OneProfile
    BY <1>1 DEF Init, OnlyCall, Owed, Saving, Idle, OneProfile
  <1> QED
    BY <1>2, <1>5, <1>6 DEF SingleInv, Init

(* What the steps of the only operator do to the deployments and the runs. *)
LEMMA SingleActions ==
  ASSUME TypeInv, NEW o \in Operators, Operators = {o}, SingleInv(o), ~ReuseIds, Next
  PROVE  /\ \A d \in Deployments :
              deployment'[d] # deployment[d] =>
                LET old == deployment[d].status
                    new == deployment'[d].status
                IN /\ old \in {"none", new} \/ new \in allowedDeploymentTransitions[old]
                   /\ new = "active" /\ old \notin {"none", "active"} =>
                        Tier(d) # "high-risk" \/ Ready(d)
         /\ \A r \in Runs :
              run'[r] # run[r] =>
                LET d == run'[r].deployment
                IN deployment[d].status = "active" /\ run'[r].tier = Tier(d)
  <1> DEFINE d == call[o].deployment
  <1>1. CASE saveDeployment(o)
    <2>1. /\ d \in Deployments /\ Saves(call[o]) /\ call[o].pc = "saveDeployment"
          /\ deployment' = [deployment EXCEPT ![d] = call[o].record]
          /\ UNCHANGED run
      BY <1>1 DEF saveDeployment, SingleInv, OnlyCall, Saving, TypeInv, GoodCall
    <2>2. \A e \in Deployments : deployment'[e] # deployment[e] =>
            e = d /\ deployment'[e] = call[o].record
      BY <2>1 DEF TypeInv, TypeOK
    <2> QED
      BY <2>1, <2>2 DEF Saves
  <1>2. CASE saveRun(o)
    <2>1. /\ deployment[d].status = "active" /\ call[o].tier = Tier(d)
          /\ run' = [run EXCEPT ![call[o].run] = [deployment |-> d, tier |-> call[o].tier]]
          /\ UNCHANGED deployment
      BY <1>2 DEF saveRun, SingleInv, OnlyCall
    <2>2. \A r \in Runs : run'[r] # run[r] =>
            run'[r] = [deployment |-> d, tier |-> call[o].tier]
      BY <2>1 DEF TypeInv, TypeOK
    <2>3. [deployment |-> d, tier |-> call[o].tier].deployment = d
          /\ [deployment |-> d, tier |-> call[o].tier].tier = call[o].tier
      OBVIOUS
    <2> QED
      BY <2>1, <2>2, <2>3
  <1>3. CASE Start(o)
    <2>1. UNCHANGED <<deployment, run>>
      BY <1>3, StartShape DEF Starts, Begin, stores
    <2> QED
      BY <2>1
  <1>4. CASE \/ readProfile(o) \/ readArtifacts(o) \/ saveProfile(o) \/ saveArtifact(o)
             \/ readSnapshot(o) \/ recordAuditEvent(o) \/ Reject(o) \/ Rest
    <2>1. UNCHANGED <<deployment, run>>
      BY <1>4 DEF readProfile, readArtifacts, saveProfile, saveArtifact, readSnapshot,
                  recordAuditEvent, Reject, Rest, stores, vars
    <2> QED
      BY <2>1
  <1> QED
    BY <1>1, <1>2, <1>3, <1>4 DEF Next, Continue

LEMMA SingleInvariant ==
  ASSUME NEW o \in Operators, Operators = {o}, ~ReuseIds, MaxFaults = 0
  PROVE  Spec => []SingleInv(o)
  <1>1. Init => SingleInv(o)
    BY InitSingle
  <1>2. TypeInv /\ SingleInv(o) /\ [Next]_vars => SingleInv(o)'
    BY SingleStep
  <1> QED
    BY <1>1, <1>2, TypeInvariant, PTL DEF Spec

(* An operator that awaits each of its calls, repeats no id and sees none  *)
(* of them aborted finds one profile per deployment, a trail that chains,  *)
(* a gate that cannot be passed, a final retirement and runs on active     *)
(* deployments under the profile they have.                                *)
THEOREM OneOperatorHolds ==
  ASSUME NEW o \in Operators, Operators = {o}, ~ReuseIds, MaxFaults = 0
  PROVE  Spec => OneOperator
  <1>1. SingleInv(o) => OneProfile /\ AuditChain
    <2> SUFFICES ASSUME SingleInv(o) PROVE OneProfile /\ AuditChain
      OBVIOUS
    <2>1. AtRest => ~Owed(call[o])
      BY DEF AtRest, Owed
    <2> QED
      BY <2>1 DEF SingleInv, AuditChain, Explained
  <1>2. TypeInv /\ SingleInv(o) /\ [Next]_vars =>
          [\A d \in Deployments :
             deployment'[d].status = "active" /\ deployment[d].status \notin {"none", "active"} =>
               Tier(d) # "high-risk" \/ Ready(d)]_vars
    BY SingleActions
  <1>3. TypeInv /\ SingleInv(o) /\ [Next]_vars =>
          [\A d \in Deployments :
             deployment[d].status = "retired" => deployment'[d].status = "retired"]_vars
    BY SingleActions DEF allowedDeploymentTransitions
  <1>4. TypeInv /\ SingleInv(o) /\ [Next]_vars =>
          [\A r \in Runs :
             run'[r] # run[r] =>
               LET d == run'[r].deployment
               IN deployment[d].status = "active" /\ run'[r].tier = Tier(d)]_vars
    BY SingleActions
  <1> QED
    BY <1>1, <1>2, <1>3, <1>4, TypeInvariant, SingleInvariant, PTL
    DEF Spec, OneOperator, ActivationGate, RetiredFinal, RunsOnActive

-----------------------------------------------------------------------------
(* The audit trail explains every deployment, under any interleaving       *)

(* The calls that have saved what their audit event is about.              *)
Pays(r, d, actions) == r.pc = "audit" /\ r.deployment = d /\ r.entry.action \in actions

Unaudited(d, actions) == {o \in Operators : Pays(call[o], d, actions)}

(* The audit events there are, and those that are on their way.            *)
Total(d, actions) == Count(d, actions) + Cardinality(Unaudited(d, actions))

(* An audit event about the deployment as it is.                           *)
Describes(entry, d) ==
  /\ entry.action \in DeploymentActions
  /\ entry.status = deployment[d].status
  /\ entry.blueprint = deployment[d].blueprint

Audited == {DeploymentActions, {"artifact"}, {"profile"}}

Made(d) == {a \in Artifacts : artifact[a].deployment = d}

(* A save counts at once, by the event its call owes, so no total is ever  *)
(* less than it was: a record read before others' saves is at most one     *)
(* revision past what is accounted for whenever it is saved.               *)
Accounted(d) ==
  /\ \A actions \in Audited : IsFiniteSet(Unaudited(d, actions))
  /\ Exists(d) =>
       \/ \E i \in DOMAIN audits[d] : Describes(audits[d][i], d)
       \/ \E o \in Unaudited(d, DeploymentActions) : Describes(call[o].entry, d)
  /\ deployment[d].revision <= Total(d, DeploymentActions)
  /\ \A o \in Operators : call[o].pc \in Saving /\ call[o].deployment = d =>
       call[o].record.revision <= Total(d, DeploymentActions) + 1
  /\ IsFiniteSet(Made(d)) /\ Cardinality(Made(d)) <= Total(d, {"artifact"})
  /\ profiles[d] # <<>> => Total(d, {"profile"}) > 0

AccountInv ==
  /\ \A o \in Operators : Promised(call[o])
  /\ faults = 0 => \A d \in Deployments : Accounted(d)

LEMMA CountType ==
  ASSUME TypeInv, NEW d \in Deployments, NEW actions
  PROVE  /\ Count(d, actions) \in Nat
         /\ IsFiniteSet({i \in DOMAIN audits[d] : audits[d][i].action \in actions})
         /\ audits[d] \in Seq(AuditEvent) /\ Len(audits[d]) \in Nat
         /\ DOMAIN audits[d] = 1..Len(audits[d])
  <1>1. audits[d] \in Seq(AuditEvent)
    BY DEF TypeInv, TypeOK
  <1>2. Len(audits[d]) \in Nat /\ DOMAIN audits[d] = 1..Len(audits[d])
    BY <1>1, LenProperties
  <1>3. IsFiniteSet({i \in DOMAIN audits[d] : audits[d][i].action \in actions})
    <2>1. IsFiniteSet(1..Len(audits[d]))
      <3>1. PICK n \in Nat : n = Len(audits[d])
        BY <1>2
      <3>2. IsFiniteSet(1..n)
        BY <3>1, FS_Interval
      <3> QED
        BY <3>1, <3>2
    <2>2. {i \in DOMAIN audits[d] : audits[d][i].action \in actions} \in SUBSET (1..Len(audits[d]))
      BY <1>2
    <2> QED
      BY <2>1, <2>2, FS_Subset
  <1>4. Cardinality({i \in DOMAIN audits[d] : audits[d][i].action \in actions}) \in Nat
    BY <1>3, FS_CardinalityType
  <1>5. Count(d, actions) \in Nat
    BY <1>4 DEF Count
  <1> QED
    BY <1>1, <1>2, <1>3, <1>5

LEMMA AuditCounts ==
  ASSUME TypeInv, NEW o \in Operators, recordAuditEvent(o), NEW d \in Deployments, NEW actions
  PROVE  Count(d, actions)' = IF d = call[o].deployment /\ call[o].entry.action \in actions
                                THEN Count(d, actions) + 1 ELSE Count(d, actions)
  <1> DEFINE e == call[o].deployment
             y == call[o].entry
             places == {i \in DOMAIN audits[d] : audits[d][i].action \in actions}
  <1>1. /\ audits' = [audits EXCEPT ![e] = Append(audits[e], y)]
        /\ y \in AuditEvent /\ e \in Deployments /\ audits \in [Deployments -> Seq(AuditEvent)]
    BY DEF recordAuditEvent, TypeInv, TypeOK, GoodCall, Call
  <1>2. CASE d # e
    BY <1>1, <1>2 DEF Count
  <1>3. CASE d = e
    <2> DEFINE n == Len(audits[d])
               new == Append(audits[d], y)
    <2>1. /\ audits[d] \in Seq(AuditEvent) /\ n \in Nat
          /\ DOMAIN audits[d] = 1..n /\ IsFiniteSet(places)
          /\ Count(d, actions) = Cardinality(places)
      BY CountType DEF Count
    <2>2. /\ DOMAIN new = 1..(n + 1) /\ \A i \in 1..n : new[i] = audits[d][i]
          /\ new[n + 1] = y
      BY <1>1, <2>1, AppendProperties, LenProperties
    <2>3. Count(d, actions)' = Cardinality({i \in DOMAIN new : new[i].action \in actions})
      BY <1>1, <1>3 DEF Count
    <2> HIDE DEF new
    <2>4. CASE y.action \in actions
      <3>1. {i \in DOMAIN new : new[i].action \in actions} = places \cup {n + 1}
            /\ n + 1 \notin places
        BY <2>1, <2>2, <2>4
      <3> HIDE DEF places
      <3>2. Cardinality(places \cup {n + 1}) = Cardinality(places) + 1
        BY <2>1, <3>1, FS_AddElement
      <3> QED
        BY <1>3, <2>1, <2>3, <2>4, <3>1, <3>2
    <2>5. CASE y.action \notin actions
      <3>1. {i \in DOMAIN new : new[i].action \in actions} = places
        BY <2>1, <2>2, <2>5
      <3> QED
        BY <2>1, <2>3, <2>5, <3>1
    <2> QED
      BY <2>4, <2>5
  <1> QED
    BY <1>2, <1>3

(* What a step makes of a call.                                            *)
SaveStep(o) == saveDeployment(o) \/ saveProfile(o) \/ saveArtifact(o)
ReadStep(o) == readProfile(o) \/ readArtifacts(o) \/ readSnapshot(o) \/ saveRun(o)

LEMMA StepCall ==
  ASSUME TypeInv, NEW o \in Operators, Start(o) \/ Continue(o)
  PROVE  /\ \A p \in Operators \ {o} : call'[p] = call[p]
         /\ Start(o) =>
              /\ call[o].pc = "idle" /\ call'[o].pc # "audit"
              /\ UNCHANGED <<deployment, profiles, artifact, audits, faults>>
         /\ ReadStep(o) =>
              /\ call[o].pc # "audit" /\ call'[o].pc # "audit"
              /\ UNCHANGED <<deployment, profiles, artifact, audits, faults>>
              /\ call'[o].pc \notin {"saveProfile", "saveArtifact"}
              /\ call'[o].pc \in Saving =>
                   /\ call[o].pc \in Saving
                   /\ call'[o].deployment = call[o].deployment
                   /\ call'[o].record = call[o].record /\ call'[o].entry = call[o].entry
         /\ SaveStep(o) =>
              /\ call[o].pc # "audit" /\ call'[o].pc = "audit"
              /\ call'[o].deployment = call[o].deployment /\ call'[o].entry = call[o].entry
              /\ UNCHANGED <<audits, faults>>
         /\ recordAuditEvent(o) =>
              /\ call[o].pc = "audit" /\ call'[o] = Idle
              /\ UNCHANGED <<deployment, profiles, artifact, faults>>
  <1>1. call \in [Operators -> Call] /\ call[o] \in Call
    BY DEF TypeInv, TypeOK
  <1>2. ASSUME NEW r, Becomes(o, r)
        PROVE  call'[o] = r /\ \A p \in Operators \ {o} : call'[p] = call[p]
    BY <1>1, <1>2 DEF Becomes
  <1> DEFINE Others == \A p \in Operators \ {o} : call'[p] = call[p]
             Moved(pc) == /\ Others /\ call'[o].pc = pc
                          /\ call'[o].deployment = call[o].deployment
                          /\ call'[o].record = call[o].record /\ call'[o].entry = call[o].entry
  <1>3. ASSUME NEW pc, Becomes(o, [call[o] EXCEPT !.pc = pc]) PROVE Moved(pc)
    BY <1>1, <1>3 DEF Becomes, Call
  <1>4. ASSUME NEW pc, NEW tier, Becomes(o, [call[o] EXCEPT !.pc = pc, !.tier = tier])
        PROVE  Moved(pc)
    BY <1>1, <1>4 DEF Becomes, Call
  <1>5. ASSUME Start(o)
        PROVE  /\ Others /\ call[o].pc = "idle" /\ call'[o].pc # "audit"
               /\ UNCHANGED <<deployment, profiles, artifact, audits, faults>>
    <2>1. PICK r : Starts(o, r)
      BY <1>5, StartShape
    <2> QED
      BY <1>2, <2>1 DEF Starts, Begin, stores
  <1>6. ASSUME SaveStep(o)
        PROVE  Moved("audit") /\ call[o].pc # "audit" /\ UNCHANGED <<audits, faults>>
    BY <1>3, <1>6, Zenon DEF SaveStep, saveDeployment, saveProfile, saveArtifact
  <1>7. ASSUME recordAuditEvent(o)
        PROVE  /\ Others /\ call[o].pc = "audit" /\ call'[o] = Idle
               /\ UNCHANGED <<deployment, profiles, artifact, faults>>
    BY <1>2, <1>7 DEF recordAuditEvent
  <1>8. ASSUME ReadStep(o)
        PROVE  /\ Others /\ call[o].pc # "audit"
               /\ UNCHANGED <<deployment, profiles, artifact, audits, faults>>
               /\ \/ call'[o] = Idle \/ Moved("saveRun")
                  \/ call[o].pc \in Saving /\ (Moved("readArtifacts") \/ Moved("saveDeployment"))
    <2>1. /\ call[o].pc \in {"readProfile", "readArtifacts", "readSnapshot", "saveRun"}
          /\ UNCHANGED <<deployment, profiles, artifact, audits, faults>>
      BY <1>8 DEF ReadStep, readProfile, readArtifacts, readSnapshot, saveRun, stores
    <2>2. CASE readProfile(o)
      <3>1. PICK pc \in {"readArtifacts", "saveDeployment"} :
              Becomes(o, [call[o] EXCEPT !.pc = pc, !.tier = Tier(call[o].deployment)])
        BY <2>2 DEF readProfile
      <3>2. Moved(pc) /\ call[o].pc \in Saving
        BY <1>4, <2>2, <3>1 DEF readProfile, Saving
      <3>3. CASE pc = "readArtifacts"
        BY <2>1, <3>2, <3>3
      <3>4. CASE pc = "saveDeployment"
        BY <2>1, <3>2, <3>4
      <3> QED
        BY <3>1, <3>3, <3>4
    <2>3. CASE readArtifacts(o)
      <3>1. (Moved("saveDeployment") \/ call'[o] = Idle) /\ Others /\ call[o].pc \in Saving
        BY <1>2, <1>3, <2>3 DEF readArtifacts, Saving
      <3> QED
        BY <2>1, <3>1
    <2>4. CASE readSnapshot(o)
      <3>1. Moved("saveRun")
        BY <1>4, <2>4 DEF readSnapshot
      <3> QED
        BY <2>1, <3>1
    <2>5. CASE saveRun(o)
      BY <1>2, <2>1, <2>5 DEF saveRun
    <2> QED
      BY <1>8, <2>2, <2>3, <2>4, <2>5 DEF ReadStep
  <1>9. Others
    BY <1>5, <1>6, <1>7, <1>8 DEF Continue, SaveStep, ReadStep
  <1>10. Idle.pc = "idle"
    BY DEF Idle
  <1> QED
    BY <1>5, <1>6, <1>7, <1>8, <1>9, <1>10 DEF Saving

(* No step that is not a fault leaves a total less, and a save adds to the *)
(* total of what its audit event is about.                                 *)
LEMMA TotalStep ==
  ASSUME TypeInv, NEW o \in Operators, Start(o) \/ Continue(o),
         NEW d \in Deployments, NEW actions, IsFiniteSet(Unaudited(d, actions))
  PROVE  /\ IsFiniteSet(Unaudited(d, actions))'
         /\ Total(d, actions) \in Nat /\ Total(d, actions)' \in Nat
         /\ Total(d, actions)' =
              IF SaveStep(o) /\ call[o].deployment = d /\ call[o].entry.action \in actions
                THEN Total(d, actions) + 1 ELSE Total(d, actions)
  <1>1. PICK P, n : P = Unaudited(d, actions) /\ n = Count(d, actions)
    OBVIOUS
  <1>2. IsFiniteSet(P) /\ Cardinality(P) \in Nat /\ n \in Nat /\ Total(d, actions) = n + Cardinality(P)
    BY <1>1, CountType, FS_CardinalityType DEF Total
  <1>3. Unaudited(d, actions)' = {p \in Operators : Pays(call'[p], d, actions)}
    BY DEF Unaudited, Pays
  <1>4. P = {p \in Operators : Pays(call[p], d, actions)}
    BY <1>1 DEF Unaudited
  <1>5. CASE recordAuditEvent(o)
    <2>1. /\ call'[o] = Idle /\ \A p \in Operators \ {o} : call'[p] = call[p]
          /\ call[o].pc = "audit" /\ ~SaveStep(o)
      BY <1>5, StepCall DEF SaveStep, saveDeployment, saveProfile, saveArtifact
    <2>2. Unaudited(d, actions)' = P \ {o}
      BY <1>3, <1>4, <2>1 DEF Pays, Idle
    <2>3. CASE Pays(call[o], d, actions)
      <3>1. o \in P /\ Count(d, actions)' = n + 1
        BY <1>1, <1>4, <1>5, <2>3, AuditCounts DEF Pays
      <3>2. IsFiniteSet(P \ {o}) /\ Cardinality(P \ {o}) = Cardinality(P) - 1
        BY <1>2, <3>1, FS_RemoveElement
      <3>3. Total(d, actions)' = (n + 1) + (Cardinality(P) - 1)
        BY <2>2, <3>1, <3>2 DEF Total
      <3> QED
        BY <1>2, <2>1, <2>2, <3>2, <3>3
    <2>4. CASE ~Pays(call[o], d, actions)
      <3>1. Unaudited(d, actions)' = P /\ Count(d, actions)' = n
        BY <1>1, <1>4, <1>5, <2>1, <2>2, <2>4, AuditCounts DEF Pays
      <3>2. Total(d, actions)' = n + Cardinality(P)
        BY <3>1 DEF Total
      <3> QED
        BY <1>2, <2>1, <3>1, <3>2
    <2> QED
      BY <2>3, <2>4
  <1>6. CASE ~recordAuditEvent(o)
    <2>1. /\ UNCHANGED audits /\ ~Pays(call[o], d, actions)
          /\ \A p \in Operators \ {o} : call'[p] = call[p]
          /\ ~SaveStep(o) => call'[o].pc # "audit"
          /\ SaveStep(o) => /\ call'[o].pc = "audit"
                          /\ call'[o].deployment = call[o].deployment
                          /\ call'[o].entry = call[o].entry
      BY <1>6, StepCall DEF Continue, SaveStep, ReadStep, Pays
    <2>2. Count(d, actions)' = n
      BY <1>1, <2>1 DEF Count
    <2>3. CASE SaveStep(o) /\ call[o].deployment = d /\ call[o].entry.action \in actions
      <3>1. Unaudited(d, actions)' = P \cup {o} /\ o \notin P
        BY <1>3, <1>4, <2>1, <2>3 DEF Pays
      <3>2. IsFiniteSet(P \cup {o}) /\ Cardinality(P \cup {o}) = Cardinality(P) + 1
        BY <1>2, <3>1, FS_AddElement
      <3>3. Total(d, actions)' = n + (Cardinality(P) + 1)
        BY <2>2, <3>1, <3>2 DEF Total
      <3> QED
        BY <1>2, <2>3, <3>1, <3>2, <3>3
    <2>4. CASE ~(SaveStep(o) /\ call[o].deployment = d /\ call[o].entry.action \in actions)
      <3>1. Unaudited(d, actions)' = P
        BY <1>3, <1>4, <2>1, <2>4 DEF Pays
      <3>2. Total(d, actions)' = n + Cardinality(P)
        BY <2>2, <3>1 DEF Total
      <3> QED
        BY <1>2, <2>4, <3>1, <3>2
    <2> QED
      BY <2>3, <2>4
  <1> QED
    BY <1>5, <1>6

LEMMA PromiseKept ==
  ASSUME TypeInv, NEW o \in Operators, Promised(call[o]), Start(o) \/ Continue(o) \/ Reject(o)
  PROVE  Promised(call'[o]) /\ \A p \in Operators \ {o} : call'[p] = call[p]
  <1>1. Promised(Idle)
    BY DEF Promised, Idle, Saving
  <1>2. CASE Start(o)
    <2>1. PICK r : Starts(o, r)
      BY <1>2, StartShape
    <2>2. call'[o] = r /\ \A p \in Operators \ {o} : call'[p] = call[p]
      BY <2>1 DEF Starts, Begin, Becomes, TypeInv, TypeOK
    <2> QED
      BY <2>1, <2>2 DEF Starts, Fresh
  <1>3. CASE Reject(o)
    BY <1>1, <1>3 DEF Reject, Becomes, TypeInv, TypeOK
  <1>4. CASE recordAuditEvent(o)
    BY <1>1, <1>4, StepCall DEF Continue
  <1>5. CASE SaveStep(o)
    BY <1>5, StepCall DEF Continue, SaveStep, Promised, Saving
  <1>6. CASE ReadStep(o)
    BY <1>6, StepCall DEF Continue, ReadStep, Promised
  <1> QED
    BY <1>2, <1>3, <1>4, <1>5, <1>6 DEF Continue, SaveStep, ReadStep

(* What a step that is not a fault leaves of the stores of a deployment.   *)
LEMMA StoreStep ==
  ASSUME TypeInv, AccountInv, NEW o \in Operators, Start(o) \/ Continue(o), NEW d \in Deployments
  PROVE  /\ \/ deployment'[d] = deployment[d]
            \/ /\ saveDeployment(o) /\ SaveStep(o) /\ call[o].deployment = d
               /\ call[o].pc \in Saving /\ call[o].entry.action \in DeploymentActions
               /\ deployment'[d] = call[o].record
         /\ \/ profiles'[d] = profiles[d]
            \/ SaveStep(o) /\ call[o].deployment = d /\ call[o].entry.action \in {"profile"}
         /\ \/ UNCHANGED artifact
            \/ /\ SaveStep(o) /\ call[o].entry.action \in {"artifact"}
               /\ call[o].content.deployment = call[o].deployment
               /\ artifact' = [artifact EXCEPT ![call[o].artifact] = call[o].content]
         /\ \/ audits'[d] = audits[d]
            \/ /\ recordAuditEvent(o) /\ call[o].deployment = d
               /\ audits'[d] = Append(audits[d], call[o].entry)
  <1>1. Promised(call[o])
    BY DEF AccountInv
  <1>2. CASE Start(o)
    BY <1>2, StepCall
  <1>3. CASE ReadStep(o)
    BY <1>3, StepCall DEF Continue, ReadStep
  <1>4. CASE saveDeployment(o)
    BY <1>1, <1>4 DEF saveDeployment, SaveStep, Promised, Saving, TypeInv, TypeOK
  <1>5. CASE saveProfile(o)
    BY <1>1, <1>5 DEF saveProfile, SaveStep, Promised, TypeInv, TypeOK
  <1>6. CASE saveArtifact(o)
    BY <1>1, <1>6 DEF saveArtifact, SaveStep, Promised, TypeInv, TypeOK
  <1>7. CASE recordAuditEvent(o)
    BY <1>7 DEF recordAuditEvent, TypeInv, TypeOK
  <1> QED
    BY <1>2, <1>3, <1>4, <1>5, <1>6, <1>7 DEF Continue, ReadStep

LEMMA DescribedStep ==
  ASSUME TypeInv, AccountInv, faults = 0, NEW o \in Operators, Start(o) \/ Continue(o),
         NEW d \in Deployments, Exists(d)'
  PROVE  \/ \E i \in DOMAIN audits'[d] : Describes(audits[d][i], d)'
         \/ \E p \in Operators : Pays(call[p], d, DeploymentActions)' /\ Describes(call[p].entry, d)'
  <1>1. CASE /\ saveDeployment(o) /\ SaveStep(o) /\ call[o].deployment = d
             /\ call[o].entry.action \in DeploymentActions
             /\ deployment'[d] = call[o].record
    <2>1. /\ call'[o].pc = "audit" /\ call'[o].deployment = d /\ call'[o].entry = call[o].entry
          /\ call[o].entry.status = call[o].record.status
          /\ call[o].entry.blueprint = call[o].record.blueprint
      BY <1>1, StepCall DEF AccountInv, Promised, Saving, saveDeployment
    <2> QED
      BY <1>1, <2>1 DEF Pays, Describes
  <1>2. CASE deployment'[d] = deployment[d]
    <2>1. \A entry : Describes(entry, d) =>
            /\ entry.action \in DeploymentActions /\ entry.status = deployment'[d].status
            /\ entry.blueprint = deployment'[d].blueprint
      BY <1>2 DEF Describes
    <2>2. CASE \E i \in DOMAIN audits[d] : Describes(audits[d][i], d)
      <3>1. PICK i \in DOMAIN audits[d] : Describes(audits[d][i], d)
        BY <2>2
      <3>2. /\ DOMAIN audits[d] = 1..Len(audits[d]) /\ Len(audits[d]) \in Nat
            /\ audits[d] \in Seq(AuditEvent) /\ call[o].entry \in AuditEvent
        BY CountType DEF TypeInv, TypeOK, Call
      <3>3. i \in DOMAIN audits'[d] /\ audits'[d][i] = audits[d][i]
        BY <3>1, <3>2, StoreStep, AppendProperties
      <3> QED
        BY <2>1, <3>1, <3>3 DEF Describes
    <2>3. CASE \E p \in Unaudited(d, DeploymentActions) : Describes(call[p].entry, d)
      <3>1. PICK p \in Operators : Pays(call[p], d, DeploymentActions) /\ Describes(call[p].entry, d)
        BY <2>3 DEF Unaudited
      <3>2. CASE p # o
        <4>1. call'[p] = call[p]
          BY <3>1, <3>2, StepCall
        <4> QED
          BY <2>1, <3>1, <4>1 DEF Pays, Describes
      <3>3. CASE p = o
        <4>1. recordAuditEvent(o) /\ call[o].deployment = d
          BY <3>1, <3>3, StepCall DEF Pays, Continue, SaveStep, ReadStep
        <4>2. audits'[d] = Append(audits[d], call[o].entry)
          BY <4>1 DEF recordAuditEvent, TypeInv, TypeOK
        <4>3. audits[d] \in Seq(AuditEvent) /\ Len(audits[d]) \in Nat /\ call[o].entry \in AuditEvent
          BY CountType DEF TypeInv, TypeOK, Call
        <4>4. /\ Len(audits[d]) + 1 \in DOMAIN audits'[d]
              /\ audits'[d][Len(audits[d]) + 1] = call[o].entry
          BY <4>2, <4>3, AppendProperties, LenProperties
        <4> QED
          BY <2>1, <3>1, <3>3, <4>4 DEF Describes
      <3> QED
        BY <3>2, <3>3
    <2>4. Exists(d)
      BY <1>2 DEF Exists
    <2> QED
      BY <2>2, <2>3, <2>4 DEF AccountInv, Accounted
  <1> QED
    BY <1>1, <1>2, StoreStep

LEMMA AccountedStep ==
  ASSUME TypeInv, TypeInv', AccountInv, faults = 0, NEW o \in Operators, Start(o) \/ Continue(o),
         NEW d \in Deployments
  PROVE  Accounted(d)'
  <1> DEFINE total(actions) == Total(d, actions)
             saves(actions) ==
               SaveStep(o) /\ call[o].deployment = d /\ call[o].entry.action \in actions
  <1>1. Accounted(d) /\ Promised(call[o])
    BY DEF AccountInv
  <1>2. ASSUME NEW actions \in Audited
        PROVE  /\ IsFiniteSet(Unaudited(d, actions))'
               /\ total(actions) \in Nat /\ total(actions)' \in Nat
               /\ total(actions) <= total(actions)'
               /\ saves(actions) => total(actions)' = total(actions) + 1
    <2>1. IsFiniteSet(Unaudited(d, actions))
      BY <1>1 DEF Accounted
    <2> QED
      BY <2>1, TotalStep
  <1>3. DeploymentActions \in Audited /\ {"artifact"} \in Audited /\ {"profile"} \in Audited
    BY DEF Audited
  <1> HIDE DEF total
  <1>4. Exists(d)' =>
          \/ \E i \in DOMAIN audits'[d] : Describes(audits[d][i], d)'
          \/ \E p \in Unaudited(d, DeploymentActions)' : Describes(call[p].entry, d)'
    BY DescribedStep DEF Unaudited
  <1>5. deployment'[d].revision <= total(DeploymentActions)'
    <2>1. deployment[d].revision \in Nat /\ deployment'[d].revision \in Nat
      BY DEF TypeInv, TypeOK, DeploymentRecord
    <2>2. deployment[d].revision <= total(DeploymentActions)
      BY <1>1 DEF Accounted, total
    <2>3. call[o].pc \in Saving /\ call[o].deployment = d =>
            call[o].record.revision <= total(DeploymentActions) + 1
      BY <1>1 DEF Accounted, total
    <2> QED
      BY <1>2, <1>3, <2>1, <2>2, <2>3, StoreStep
  <1>6. ASSUME NEW p \in Operators, call'[p].pc \in Saving, call'[p].deployment = d
        PROVE  call'[p].record.revision <= total(DeploymentActions)' + 1
    <2>1. /\ deployment[d].revision \in Nat /\ deployment[d].revision <= total(DeploymentActions)
          /\ call'[p].record.revision \in Nat
      BY <1>1 DEF Accounted, total, TypeInv, TypeOK, DeploymentRecord, Call
    <2>2. CASE \/ p # o \/ ReadStep(o)
      <3>1. /\ call'[p].record = call[p].record /\ call[p].pc \in Saving
            /\ call[p].deployment = d
        BY <1>6, <2>2, StepCall
      <3>2. call[p].record.revision <= total(DeploymentActions) + 1
        BY <1>1, <3>1 DEF Accounted, total
      <3> QED
        BY <1>2, <1>3, <2>1, <3>1, <3>2
    <2>3. CASE p = o /\ Start(o)
      <3>1. PICK r : Starts(o, r)
        BY <2>3, StartShape
      <3>2. call'[o] = r /\ Fresh(r)
        BY <3>1 DEF Starts, Begin, Becomes, TypeInv, TypeOK
      <3>3. call'[p].record.revision <= deployment[d].revision + 1
        BY <1>6, <2>3, <3>2 DEF Fresh
      <3> QED
        BY <1>2, <1>3, <2>1, <3>3
    <2>4. CASE p = o /\ (SaveStep(o) \/ recordAuditEvent(o))
      BY <1>6, <2>4, StepCall DEF Saving, Idle
    <2> QED
      BY <2>2, <2>3, <2>4 DEF Continue, SaveStep, ReadStep
  <1>7. IsFiniteSet(Made(d))' /\ Cardinality(Made(d))' <= total({"artifact"})'
    <2>1. PICK S, a : S = Made(d) /\ a = call[o].artifact
      OBVIOUS
    <2>2. IsFiniteSet(S) /\ Cardinality(S) <= total({"artifact"}) /\ Cardinality(S) \in Nat
      BY <1>1, <2>1, FS_CardinalityType DEF Accounted, total
    <2>3. CASE UNCHANGED artifact
      <3>1. Made(d)' = S
        BY <2>1, <2>3 DEF Made
      <3> QED
        BY <1>2, <1>3, <2>2, <3>1
    <2>4. CASE /\ SaveStep(o) /\ call[o].entry.action \in {"artifact"}
               /\ call[o].content.deployment = call[o].deployment
               /\ artifact' = [artifact EXCEPT ![call[o].artifact] = call[o].content]
      <3>1. CASE call[o].deployment = d
        <4>1. PICK T : T = Made(d)'
          OBVIOUS
        <4>2. T \in SUBSET (S \cup {a})
          BY <2>1, <2>4, <4>1 DEF Made, TypeInv, TypeOK
        <4>3. /\ IsFiniteSet(S \cup {a}) /\ Cardinality(S \cup {a}) \in Nat
              /\ Cardinality(S \cup {a}) <= Cardinality(S) + 1
          <5>1. IsFiniteSet(S \cup {a}) /\ Cardinality(S \cup {a}) =
                  IF a \in S THEN Cardinality(S) ELSE Cardinality(S) + 1
            BY <2>2, FS_AddElement
          <5> QED
            BY <2>2, <5>1
        <4>4. /\ IsFiniteSet(T) /\ Cardinality(T) \in Nat
              /\ Cardinality(T) <= Cardinality(S \cup {a})
          BY <4>2, <4>3, FS_Subset, FS_CardinalityType
        <4>5. total({"artifact"})' = total({"artifact"}) + 1
          BY <1>2, <1>3, <2>4, <3>1
        <4>6. Cardinality(T) <= total({"artifact"}) + 1
          BY <1>2, <1>3, <2>2, <4>3, <4>4
        <4> QED
          BY <4>1, <4>4, <4>5, <4>6
      <3>2. CASE call[o].deployment # d
        <4>1. PICK T : T = Made(d)'
          OBVIOUS
        <4>2. T \in SUBSET S
          BY <2>1, <2>4, <3>2, <4>1 DEF Made, TypeInv, TypeOK
        <4>3. /\ IsFiniteSet(T) /\ Cardinality(T) \in Nat
              /\ Cardinality(T) <= Cardinality(S)
          BY <2>2, <4>2, FS_Subset, FS_CardinalityType
        <4> QED
          BY <1>2, <1>3, <2>2, <4>1, <4>3
      <3> QED
        BY <3>1, <3>2
    <2> QED
      BY <2>3, <2>4, StoreStep
  <1>8. profiles'[d] # <<>> => total({"profile"})' > 0
    <2>1. profiles[d] # <<>> => total({"profile"}) > 0
      BY <1>1 DEF Accounted, total
    <2> QED
      BY <1>2, <1>3, <2>1, StoreStep
  <1> QED
    BY <1>2, <1>4, <1>5, <1>6, <1>7, <1>8 DEF Accounted, total

LEMMA InitAccount == Init => AccountInv
  <1> SUFFICES ASSUME Init PROVE AccountInv
    OBVIOUS
  <1>1. \A o \in Operators : call[o] = Idle
    BY DEF Init
  <1>2. ASSUME NEW o \in Operators PROVE Promised(call[o])
    BY <1>1 DEF Promised, Idle, Saving
  <1>3. ASSUME NEW d \in Deployments PROVE Accounted(d)
    <2>1. ASSUME NEW actions PROVE Unaudited(d, actions) = {}
      BY <1>1 DEF Unaudited, Pays, Idle
    <2>2. ASSUME NEW actions PROVE Count(d, actions) = 0
      <3>1. {i \in DOMAIN audits[d] : audits[d][i].action \in actions} = {}
        BY DEF Init
      <3> QED
        BY <3>1, FS_EmptySet DEF Count
    <2>3. ASSUME NEW actions PROVE IsFiniteSet(Unaudited(d, actions)) /\ Total(d, actions) = 0
      BY <2>1, <2>2, FS_EmptySet DEF Total
    <2>4. deployment[d].revision = 0 /\ ~Exists(d) /\ profiles[d] = <<>>
      BY DEF Init, Exists, NoDeployment
    <2>5. \A o \in Operators : call[o].pc \notin Saving
      BY <1>1 DEF Idle, Saving
    <2>6. Made(d) = {}
      BY DeploymentsAssumption DEF Made, Init, NoArtifact
    <2>7. IsFiniteSet(Made(d)) /\ Cardinality(Made(d)) = 0
      BY <2>6, FS_EmptySet
    <2> QED
      BY <2>3, <2>4, <2>5, <2>7 DEF Accounted
  <1> QED
    BY <1>2, <1>3 DEF AccountInv

LEMMA AccountStep == TypeInv /\ AccountInv /\ [Next]_vars => AccountInv'
  <1> SUFFICES ASSUME TypeInv, AccountInv, [Next]_vars PROVE AccountInv'
    OBVIOUS
  <1>1. CASE UNCHANGED vars
    <2>1. \A o \in Operators : Promised(call[o])'
      BY <1>1 DEF vars, AccountInv, Promised
    <2>2. \A d \in Deployments : Accounted(d) => Accounted(d)'
      BY <1>1 DEF vars, Accounted, Unaudited, Pays, Describes, Exists, Total, Count, Made
    <2> QED
      BY <1>1, <2>1, <2>2 DEF vars, AccountInv
  <1>2. ASSUME NEW o \in Operators, Start(o) \/ Continue(o) \/ Reject(o) PROVE AccountInv'
    <2>1. \A p \in Operators : Promised(call[p])'
      BY <1>2, PromiseKept DEF AccountInv, Promised
    <2>2. CASE Reject(o)
      <3>1. faults' # 0
        BY <2>2 DEF Reject, TypeInv, TypeOK
      <3> QED
        BY <2>1, <3>1 DEF AccountInv
    <2>3. CASE Start(o) \/ Continue(o)
      <3>1. TypeInv' /\ UNCHANGED faults
        BY <2>3, NextType, StepCall DEF Next, Continue, SaveStep, ReadStep
      <3> QED
        BY <2>1, <2>3, <3>1, AccountedStep DEF AccountInv
    <2> QED
      BY <1>2, <2>2, <2>3
  <1> QED
    BY <1>1, <1>2 DEF Next, Rest

LEMMA AccountInvariant == Spec => []AccountInv
  BY InitAccount, AccountStep, TypeInvariant, PTL DEF Spec

(* Whatever the operators do at once and whichever ids they repeat: at     *)
(* rest, when no handler was aborted, the audit trail of a deployment      *)
(* names the status and blueprint it has and accounts for each of its      *)
(* revisions, for each of its artifacts and for its profile.               *)
THEOREM AuditTrailExplains == Spec => []AuditExplainsState
  <1>1. TypeInv /\ AccountInv => AuditExplainsState
    <2> SUFFICES ASSUME TypeInv, AccountInv, AtRest, faults = 0, NEW d \in Deployments, Exists(d)
                 PROVE  /\ \E i \in DOMAIN audits[d] : Describes(audits[d][i], d)
                        /\ deployment[d].revision <= Count(d, DeploymentActions)
                        /\ Cardinality(Made(d)) <= Count(d, {"artifact"})
                        /\ profiles[d] # <<>> => Count(d, {"profile"}) > 0
      BY DEF AuditExplainsState, Describes, Made
    <2>1. ASSUME NEW actions PROVE Unaudited(d, actions) = {}
      BY DEF AtRest, Unaudited, Pays
    <2>2. ASSUME NEW actions PROVE Total(d, actions) = Count(d, actions)
      <3>1. Cardinality(Unaudited(d, actions)) = 0
        BY <2>1, FS_EmptySet
      <3>2. Count(d, actions) \in Nat
        BY CountType
      <3> QED
        BY <3>1, <3>2 DEF Total
    <2>3. /\ Total(d, DeploymentActions) = Count(d, DeploymentActions)
          /\ Total(d, {"artifact"}) = Count(d, {"artifact"})
          /\ Total(d, {"profile"}) = Count(d, {"profile"})
          /\ Unaudited(d, DeploymentActions) = {}
      BY <2>1, <2>2
    <2>4. Accounted(d)
      BY DEF AccountInv
    <2> QED
      BY <2>3, <2>4 DEF Accounted
  <1> QED
    BY <1>1, TypeInvariant, AccountInvariant, PTL

-----------------------------------------------------------------------------
(* The deployment events of a trail                                        *)

(* Induction, for facts about what a recursive function computes.          *)
LEMMA LeastNat ==
  ASSUME NEW T, T \subseteq Nat, T # {}
  PROVE  \E x \in T : \A y \in T : ~(y < x)
  <1> DEFINE R == {ss \in Nat \X Nat : ss[1] < ss[2]}
  <1>1. IsWellFoundedOn(R, Nat)
    BY NatLessThanWellFounded DEF OpToRel
  <1>2. PICK x \in T : \A y \in T : ~(<<y, x>> \in R)
    <2> HIDE DEF R
    <2> QED
      BY <1>1, WFMin
  <1> QED
    BY <1>2

(* What f has kept of each beginning of the trail. *)
Keeps(f, trail, n) ==
  f = [i \in 0..n |-> IF i = 0 THEN <<>> ELSE Keep(f[i - 1], trail[i])]

LEMMA KeepsAt ==
  ASSUME NEW f, NEW trail, NEW n, NEW i \in 0..n, Keeps(f, trail, n)
  PROVE  f[i] = IF i = 0 THEN <<>> ELSE Keep(f[i - 1], trail[i])
  BY Zenon DEF Keeps

LEMMA KeepsExists ==
  ASSUME NEW trail, NEW n \in Nat
  PROVE  \E f : Keeps(f, trail, n)
  <1> DEFINE T == {m \in Nat : ~ \E f : Keeps(f, trail, m)}
  <1>1. SUFFICES ASSUME T # {} PROVE FALSE
    OBVIOUS
  <1>2. PICK m \in T : \A k \in T : ~(k < m)
    <2>1. T \subseteq Nat
      OBVIOUS
    <2> HIDE DEF T
    <2> QED
      BY <1>1, <2>1, LeastNat
  <1>3. CASE m = 0
    <2> DEFINE f == [i \in 0..0 |-> <<>>]
    <2>1. Keeps(f, trail, 0)
      BY DEF Keeps
    <2> QED
      BY <1>2, <1>3, <2>1
  <1>4. CASE m # 0
    <2>1. m \in Nat /\ m - 1 \in Nat /\ m - 1 \notin T
      BY <1>2, <1>4
    <2>2. PICK g : Keeps(g, trail, m - 1)
      BY <2>1
    <2> DEFINE f == [i \in 0..m |-> IF i = m THEN Keep(g[m - 1], trail[m]) ELSE g[i]]
    <2>3. ASSUME NEW i \in 0..m
          PROVE  f[i] = IF i = 0 THEN <<>> ELSE Keep(f[i - 1], trail[i])
      <3>1. CASE i = m
        <4>1. m - 1 \in 0..m /\ m - 1 # m
          BY <2>1
        <4> QED
          BY <1>4, <3>1, <4>1
      <3>2. CASE i # m
        <4>1. i \in 0..(m - 1) /\ f[i] = g[i]
          BY <2>1, <3>2
        <4>2. g[i] = IF i = 0 THEN <<>> ELSE Keep(g[i - 1], trail[i])
          BY <2>2, <4>1, Zenon DEF Keeps
        <4>3. i # 0 => f[i - 1] = g[i - 1]
          BY <2>1, <3>2
        <4> QED
          BY <4>1, <4>2, <4>3
      <3> QED
        BY <3>1, <3>2
    <2>4. Keeps(f, trail, m)
      <3>1. f = [i \in 0..m |-> f[i]]
        OBVIOUS
      <3> HIDE DEF f
      <3> QED
        BY <2>3, <3>1, Zenon DEF Keeps
    <2> QED
      BY <1>2, <2>4
  <1> QED
    BY <1>3, <1>4

LEMMA KeptKeeps ==
  ASSUME NEW trail, Len(trail) \in Nat
  PROVE  Keeps(Kept(trail), trail, Len(trail))
  <1>1. Kept(trail) = CHOOSE f : Keeps(f, trail, Len(trail))
    BY Zenon DEF Kept, Keeps
  <1>2. PICK f : Keeps(f, trail, Len(trail))
    BY KeepsExists
  <1> QED
    BY <1>1, <1>2, Zenon

LEMMA KeepsAgree ==
  ASSUME NEW t, NEW u, NEW n \in Nat, NEW m \in Nat, n <= m, NEW f, NEW g,
         Keeps(f, t, n), Keeps(g, u, m), \A i \in 1..n : t[i] = u[i]
  PROVE  f[n] = g[n]
  <1> DEFINE T == {i \in 0..n : f[i] # g[i]}
  <1>1. SUFFICES ASSUME f[n] # g[n] PROVE FALSE
    OBVIOUS
  <1>2. PICK i \in T : \A k \in T : ~(k < i)
    <2>1. T \subseteq Nat /\ n \in T
      BY <1>1
    <2> HIDE DEF T
    <2> QED
      BY <2>1, LeastNat
  <1>3. i \in 0..n /\ i \in 0..m /\ f[i] # g[i]
    BY <1>2
  <1>4. /\ f[i] = IF i = 0 THEN <<>> ELSE Keep(f[i - 1], t[i])
        /\ g[i] = IF i = 0 THEN <<>> ELSE Keep(g[i - 1], u[i])
    BY <1>3, Zenon DEF Keeps
  <1>5. i # 0 => f[i - 1] = g[i - 1] /\ t[i] = u[i]
    BY <1>2, <1>3
  <1> QED
    BY <1>3, <1>4, <1>5

(* The deployment events of the empty trail, and of one with one more event. *)
LEMMA KeptEvents ==
  /\ DeploymentEvents(<<>>) = <<>>
  /\ \A S : \A trail \in Seq(S) : \A e \in S :
       DeploymentEvents(Append(trail, e)) = Keep(DeploymentEvents(trail), e)
  <1>1. DeploymentEvents(<<>>) = <<>>
    <2>1. Len(<<>>) = 0 /\ 0 \in 0..0
      OBVIOUS
    <2>2. Keeps(Kept(<<>>), <<>>, 0)
      BY <2>1, KeptKeeps
    <2> QED
      BY <2>1, <2>2 DEF DeploymentEvents, Keeps
  <1>2. ASSUME NEW S, NEW trail \in Seq(S), NEW e \in S
        PROVE  DeploymentEvents(Append(trail, e)) = Keep(DeploymentEvents(trail), e)
    <2>1. PICK n, longer : n = Len(trail) /\ longer = Append(trail, e)
      OBVIOUS
    <2>2. /\ n \in Nat /\ Len(longer) = n + 1 /\ longer[n + 1] = e
          /\ \A i \in 1..n : trail[i] = longer[i]
      BY <2>1, LenProperties, AppendProperties
    <2>3. PICK m \in Nat : m = n + 1
      BY <2>2
    <2>4. Keeps(Kept(trail), trail, n) /\ Keeps(Kept(longer), longer, m)
      BY <2>1, <2>2, <2>3, KeptKeeps
    <2>5. Kept(trail)[n] = Kept(longer)[n]
      BY <2>2, <2>3, <2>4, KeepsAgree
    <2>6. Kept(longer)[m] = Keep(Kept(longer)[n], e)
      <3>1. m \in 0..m /\ m # 0 /\ m - 1 = n /\ longer[m] = e
        BY <2>2, <2>3
      <3>2. PICK f : f = Kept(longer)
        OBVIOUS
      <3>3. Keeps(f, longer, m)
        BY <2>4, <3>2
      <3>4. m \in 0..m
        BY <3>1
      <3>5. f[m] = IF m = 0 THEN <<>> ELSE Keep(f[m - 1], longer[m])
        BY <3>3, <3>4, KeepsAt
      <3> QED
        BY <3>1, <3>2, <3>5
    <2> QED
      BY <2>1, <2>2, <2>3, <2>5, <2>6 DEF DeploymentEvents
  <1> QED
    BY <1>1, <1>2

-----------------------------------------------------------------------------
(* What one operator does is what the Python control plane does            *)

(* The call will save its deployment, or has and will audit it.            *)
Commits(r) == r.pc \in Saving /\ Accepted(r)

Audits(r) == (Commits(r) \/ r.pc = "audit") /\ r.entry.action \in DeploymentActions

Tiers == [d \in Deployments |-> Tier(d)]
Events == [d \in Deployments |-> DeploymentEvents(audits[d])]

(* The state of the Python control plane, when r is the only call.         *)
DeploymentBy(r) ==
  IF Commits(r) THEN [deployment EXCEPT ![r.deployment] = r.record] ELSE deployment
TierBy(r) ==
  IF r.pc = "saveProfile" THEN [Tiers EXCEPT ![r.deployment] = r.profile.tier] ELSE Tiers
ArtifactBy(r) ==
  IF r.pc = "saveArtifact" THEN [artifact EXCEPT ![r.artifact] = r.content] ELSE artifact
RunBy(r) ==
  IF r.pc \in {"readSnapshot", "saveRun"}
    THEN [run EXCEPT ![r.run] = [deployment |-> r.deployment, tier |-> Tier(r.deployment)]]
    ELSE run
TrailBy(r) ==
  IF Audits(r) THEN [Events EXCEPT ![r.deployment] = Append(@, r.entry)] ELSE Events

Mapped(r) ==
  /\ WillBeDeployment = DeploymentBy(r) /\ WillBeTier = TierBy(r)
  /\ WillBeArtifact = ArtifactBy(r) /\ WillBeRun = RunBy(r)
  /\ WillBeTrail = TrailBy(r)

LEMMA Mapping ==
  ASSUME NEW o \in Operators, Operators = {o}, TypeInv
  PROVE  Mapped(call[o])
  <1>1. PICK r : r = call[o]
    OBVIOUS
  <1>2. \A pcs : At(pcs) = IF r.pc \in pcs /\ Accepted(r) THEN {r} ELSE {}
    BY <1>1 DEF At
  <1>3. GoodCall(r) /\ r.entry \in AuditEvent
    BY <1>1 DEF TypeInv, GoodCall, Call
  <1>4. WillBeDeployment = DeploymentBy(r)
    <2>1. WillBeDeployment =
            [d \in Deployments |->
               IF Commits(r) /\ r.deployment = d THEN r.record ELSE deployment[d]]
      BY <1>2 DEF WillBeDeployment, Commits
    <2> QED
      BY <1>3, <2>1 DEF DeploymentBy, TypeInv, TypeOK
  <1>5. WillBeTier = TierBy(r)
    <2>1. WillBeTier =
            [d \in Deployments |->
               IF r.pc = "saveProfile" /\ r.deployment = d THEN r.profile.tier ELSE Tier(d)]
      BY <1>2 DEF WillBeTier, Accepted
    <2> QED
      BY <2>1 DEF TierBy, Tiers
  <1>6. WillBeArtifact = ArtifactBy(r)
    <2>1. WillBeArtifact =
            [a \in Artifacts |->
               IF r.pc = "saveArtifact" /\ r.artifact = a THEN r.content ELSE artifact[a]]
      BY <1>2 DEF WillBeArtifact, Accepted
    <2> QED
      BY <2>1 DEF ArtifactBy, TypeInv, TypeOK
  <1>7. WillBeRun = RunBy(r)
    <2>1. WillBeRun =
            [i \in Runs |->
               IF r.pc \in {"readSnapshot", "saveRun"} /\ r.run = i
                 THEN [deployment |-> r.deployment, tier |-> Tier(r.deployment)]
                 ELSE run[i]]
      BY <1>2 DEF WillBeRun, Accepted
    <2> QED
      BY <2>1 DEF RunBy, TypeInv, TypeOK
  <1>8. WillBeTrail = TrailBy(r)
    <2> DEFINE Adds == Commits(r) \/ r.pc = "audit"
    <2>1. WillBeTrail =
            [d \in Deployments |->
               DeploymentEvents(
                 IF Adds /\ r.deployment = d THEN Append(audits[d], r.entry) ELSE audits[d])]
      BY <1>2 DEF WillBeTrail, Commits, Accepted, Saving
    <2>2. ASSUME NEW d \in Deployments
          PROVE  DeploymentEvents(Append(audits[d], r.entry)) =
                   Keep(DeploymentEvents(audits[d]), r.entry)
      BY <1>3, KeptEvents DEF TypeInv, TypeOK
    <2>3. WillBeTrail =
            [d \in Deployments |->
               IF Audits(r) /\ r.deployment = d THEN Append(Events[d], r.entry) ELSE Events[d]]
      <3>1. CASE r.entry.action \in DeploymentActions
        <4>1. /\ Audits(r) <=> Adds
              /\ \A d \in Deployments :
                   DeploymentEvents(Append(audits[d], r.entry)) = Append(Events[d], r.entry)
          BY <2>2, <3>1 DEF Audits, Events, Keep
        <4> QED
          BY <2>1, <4>1 DEF Events
      <3>2. CASE r.entry.action \notin DeploymentActions
        <4>1. /\ ~Audits(r)
              /\ \A d \in Deployments :
                   DeploymentEvents(Append(audits[d], r.entry)) = Events[d]
          BY <2>2, <3>2 DEF Audits, Events, Keep
        <4> QED
          BY <2>1, <4>1 DEF Events
      <3> QED
        BY <3>1, <3>2
    <2> QED
      BY <2>3 DEF TrailBy, Events
  <1> QED
    BY <1>1, <1>4, <1>5, <1>6, <1>7, <1>8 DEF Mapped

LEMMA MappingNext ==
  ASSUME NEW o \in Operators, Operators = {o}
  PROVE  TypeInv' => Mapped(call[o])'
  <1>1. TypeInv => Mapped(call[o])
    BY Mapping
  <1> QED
    BY <1>1, PTL

LEMMA MappedAfter ==
  ASSUME NEW o \in Operators, Operators = {o}, TypeInv', NEW r, r = call'[o], UNCHANGED stores
  PROVE  /\ WillBeDeployment' = DeploymentBy(r) /\ WillBeTier' = TierBy(r)
         /\ WillBeArtifact' = ArtifactBy(r) /\ WillBeRun' = RunBy(r)
         /\ WillBeTrail' = TrailBy(r)
  <1>1. Mapped(call[o])'
    BY MappingNext
  <1>2. /\ Tiers' = Tiers /\ Events' = Events /\ \A d : Tier(d)' = Tier(d)
        /\ UNCHANGED <<deployment, artifact, run>>
        /\ Commits(call[o])' <=> Commits(r)
        /\ Audits(call[o])' <=> Audits(r)
    BY DEF Tiers, Events, Tier, stores, Commits, Audits, Accepted, Ready
  <1> QED
    BY <1>1, <1>2 DEF Mapped, DeploymentBy, TierBy, ArtifactBy, RunBy, TrailBy

(* What a call that starts will do.                                        *)
LEMMA StartMaps ==
  ASSUME NEW o \in Operators, Operators = {o}, TypeInv, TypeInv', NEW r, Starts(o, r)
  PROVE  /\ r = call'[o]
         /\ WillBeDeployment = deployment /\ WillBeTier = Tiers /\ WillBeArtifact = artifact
         /\ WillBeRun = run /\ WillBeTrail = Events
         /\ WillBeDeployment' = DeploymentBy(r) /\ WillBeTier' = TierBy(r)
         /\ WillBeArtifact' = ArtifactBy(r) /\ WillBeRun' = RunBy(r)
         /\ WillBeTrail' = TrailBy(r)
  <1>1. /\ r = call'[o] /\ call[o].pc = "idle" /\ UNCHANGED stores
    BY DEF Starts, Begin, Becomes, TypeInv, TypeOK
  <1>2. Mapped(call[o])
    BY Mapping
  <1>3. ~Commits(call[o]) /\ ~Audits(call[o])
    BY <1>1 DEF Commits, Audits, Saving
  <1> QED
    BY <1>1, <1>2, <1>3, MappedAfter
    DEF Mapped, DeploymentBy, TierBy, ArtifactBy, RunBy, TrailBy

(* A read leaves what the call will do as it is.                           *)
LEMMA ReadMaps ==
  ASSUME NEW o \in Operators, Operators = {o}, TypeInv, TypeInv',
         readProfile(o) \/ readArtifacts(o) \/ readSnapshot(o)
  PROVE  UNCHANGED Python!vars
  <1>1. PICK r, s : r = call[o] /\ s = call'[o]
    OBVIOUS
  <1>2. UNCHANGED stores /\ r \in Call /\ call \in [Operators -> Call]
    BY <1>1 DEF readProfile, readArtifacts, readSnapshot, TypeInv, TypeOK
  <1>3. Mapped(r)
    BY <1>1, Mapping
  <1>4. /\ DeploymentBy(s) = DeploymentBy(r) /\ TierBy(s) = TierBy(r)
        /\ ArtifactBy(s) = ArtifactBy(r) /\ RunBy(s) = RunBy(r) /\ TrailBy(s) = TrailBy(r)
    <2>1. CASE readProfile(o)
      <3>1. /\ s = [r EXCEPT !.pc = IF Tier(r.deployment) = "high-risk" THEN "readArtifacts"
                                   ELSE "saveDeployment",
                             !.tier = Tier(r.deployment)]
            /\ r.pc = "readProfile"
        BY <1>1, <1>2, <2>1 DEF readProfile, Becomes
      <3>2. /\ s.pc = IF Tier(r.deployment) = "high-risk" THEN "readArtifacts"
                      ELSE "saveDeployment"
            /\ s.deployment = r.deployment /\ s.record = r.record /\ s.entry = r.entry
        BY <1>2, <3>1 DEF Call
      <3>3. (Commits(s) <=> Commits(r)) /\ (Audits(s) <=> Audits(r))
        BY <3>1, <3>2 DEF Commits, Audits, Accepted, Saving
      <3> QED
        BY <3>1, <3>2, <3>3 DEF DeploymentBy, TierBy, ArtifactBy, RunBy, TrailBy
    <2>2. CASE readArtifacts(o) /\ Ready(r.deployment)
      <3>1. s = [r EXCEPT !.pc = "saveDeployment"] /\ r.pc = "readArtifacts"
        BY <1>1, <1>2, <2>2 DEF readArtifacts, Becomes
      <3>2. /\ s.pc = "saveDeployment"
            /\ s.deployment = r.deployment /\ s.record = r.record /\ s.entry = r.entry
        BY <1>2, <3>1 DEF Call
      <3>3. (Commits(s) <=> Commits(r)) /\ (Audits(s) <=> Audits(r))
        BY <2>2, <3>1, <3>2 DEF Commits, Audits, Accepted, Saving
      <3> QED
        BY <3>1, <3>2, <3>3 DEF DeploymentBy, TierBy, ArtifactBy, RunBy, TrailBy
    <2>3. CASE readArtifacts(o) /\ ~Ready(r.deployment)
      <3>1. s = Idle /\ r.pc = "readArtifacts"
        BY <1>1, <1>2, <2>3 DEF readArtifacts, Becomes
      <3>2. s.pc = "idle" /\ ~Commits(s) /\ ~Audits(s) /\ ~Commits(r) /\ ~Audits(r)
        BY <2>3, <3>1 DEF Commits, Audits, Accepted, Saving, Idle
      <3> QED
        BY <3>1, <3>2 DEF DeploymentBy, TierBy, ArtifactBy, RunBy, TrailBy
    <2>4. CASE readSnapshot(o)
      <3>1. s = [r EXCEPT !.pc = "saveRun", !.tier = Tier(r.deployment)]
            /\ r.pc = "readSnapshot"
        BY <1>1, <1>2, <2>4 DEF readSnapshot, Becomes
      <3>2. s.pc = "saveRun" /\ s.deployment = r.deployment /\ s.run = r.run
        BY <1>2, <3>1 DEF Call
      <3>3. ~Commits(s) /\ ~Audits(s) /\ ~Commits(r) /\ ~Audits(r)
        BY <3>1, <3>2 DEF Commits, Audits, Saving
      <3> QED
        BY <3>1, <3>2, <3>3 DEF DeploymentBy, TierBy, ArtifactBy, RunBy, TrailBy
    <2> QED
      BY <2>1, <2>2, <2>3, <2>4
  <1>5. /\ WillBeDeployment' = DeploymentBy(s) /\ WillBeTier' = TierBy(s)
        /\ WillBeArtifact' = ArtifactBy(s) /\ WillBeRun' = RunBy(s)
        /\ WillBeTrail' = TrailBy(s)
    BY <1>1, <1>2, MappedAfter
  <1> QED
    BY <1>3, <1>4, <1>5 DEF Mapped, Python!vars

(* A save, or the audit event after it, makes true what the call was about *)
(* to do.                                                                  *)
LEMMA SaveMaps ==
  ASSUME NEW o \in Operators, Operators = {o}, TypeInv, TypeInv', SingleInv(o),
         SaveStep(o) \/ saveRun(o) \/ recordAuditEvent(o)
  PROVE  UNCHANGED Python!vars
  <1>1. PICK r, s : r = call[o] /\ s = call'[o]
    OBVIOUS
  <1>2. /\ r \in Call /\ call \in [Operators -> Call] /\ GoodCall(r) /\ OnlyCall(r)
        /\ Mapped(r) /\ Mapped(call[o])'
    BY <1>1, Mapping, MappingNext DEF TypeInv, TypeOK, SingleInv
  <1>3. ASSUME s = [r EXCEPT !.pc = "audit"]
        PROVE  s.pc = "audit" /\ s.deployment = r.deployment /\ s.entry = r.entry
    BY <1>2, <1>3 DEF Call
  <1>4. s.pc \in {"audit", "idle"} =>
          /\ WillBeDeployment' = deployment' /\ WillBeTier' = Tiers'
          /\ WillBeArtifact' = artifact' /\ WillBeRun' = run'
          /\ WillBeTrail' = IF s.pc = "audit" /\ s.entry.action \in DeploymentActions
                              THEN [Events' EXCEPT ![s.deployment] = Append(@, s.entry)]
                              ELSE Events'
    BY <1>1, <1>2 DEF Mapped, DeploymentBy, TierBy, ArtifactBy, RunBy, TrailBy, Commits,
                      Audits, Saving
  <1>5. UNCHANGED profiles => Tiers' = Tiers
    BY DEF Tiers, Tier
  <1>6. UNCHANGED audits => Events' = Events
    BY DEF Events
  <1>7. CASE saveDeployment(o)
    <2>1. /\ r.pc = "saveDeployment" /\ s = [r EXCEPT !.pc = "audit"]
          /\ deployment' = [deployment EXCEPT ![r.deployment] = r.record]
          /\ UNCHANGED <<profiles, artifact, run, audits>>
      BY <1>1, <1>2, <1>7 DEF saveDeployment, Becomes
    <2>2. Commits(r) /\ (Audits(r) <=> r.entry.action \in DeploymentActions)
      BY <2>1 DEF Commits, Audits, Accepted, Saving
    <2> QED
      BY <1>2, <1>3, <1>4, <1>5, <1>6, <2>1, <2>2
      DEF Mapped, DeploymentBy, TierBy, ArtifactBy, RunBy, TrailBy, Python!vars
  <1>8. CASE saveProfile(o)
    <2>1. /\ r.pc = "saveProfile" /\ s = [r EXCEPT !.pc = "audit"]
          /\ profiles' = [profiles EXCEPT ![r.deployment] =
                            IF r.place = 0 THEN Append(@, r.profile)
                            ELSE [@ EXCEPT ![r.place] = r.profile]]
          /\ UNCHANGED <<deployment, artifact, run, audits>>
      BY <1>1, <1>2, <1>8 DEF saveProfile, Becomes
    <2>2. ~Commits(r) /\ ~Audits(r) /\ r.entry.action \notin DeploymentActions
      BY <1>2, <2>1 DEF Commits, Audits, Saving, OnlyCall, DeploymentActions
    <2>3. Tiers' = [Tiers EXCEPT ![r.deployment] = r.profile.tier]
      <3> DEFINE before == profiles[r.deployment]
      <3>1. /\ r.deployment \in Deployments /\ r.profile \in ComplianceProfile
            /\ r.place \in 0..Len(before) /\ (r.place = 0 => before = <<>>)
            /\ Len(before) <= 1 /\ before \in Seq(ComplianceProfile)
        BY <1>2, <2>1 DEF GoodCall, OnlyCall, SingleInv, OneProfile, TypeInv, TypeOK
      <3>2. profiles'[r.deployment] # <<>> /\ profiles'[r.deployment][1] = r.profile
        <4>1. profiles'[r.deployment] = IF r.place = 0 THEN Append(before, r.profile)
                                        ELSE [before EXCEPT ![r.place] = r.profile]
          BY <2>1, <3>1 DEF TypeInv, TypeOK
        <4>2. CASE r.place = 0
          <5>1. before = <<>> /\ profiles'[r.deployment] = Append(before, r.profile)
            BY <3>1, <4>1, <4>2
          <5> QED
            BY <5>1
        <4>3. CASE r.place # 0
          <5>1. r.place = 1 /\ Len(before) = 1
            <6>1. PICK n \in Nat : n = Len(before)
              BY <3>1, LenProperties
            <6>2. r.place \in 0..n /\ n <= 1
              BY <3>1, <6>1, Zenon
            <6>3. r.place = 1 /\ n = 1
              BY <4>3, <6>2
            <6> QED
              BY <6>1, <6>3
          <5>2. profiles'[r.deployment] = [before EXCEPT ![1] = r.profile]
            BY <4>1, <5>1
          <5>3. profiles'[r.deployment] \in Seq(ComplianceProfile)
                  /\ Len(profiles'[r.deployment]) = 1 /\ profiles'[r.deployment][1] = r.profile
            BY <3>1, <5>1, <5>2, ExceptSeq
          <5> QED
            BY <5>3
        <4> QED
          BY <4>2, <4>3
      <3>3. \A d \in Deployments \ {r.deployment} : Tier(d)' = Tier(d)
        BY <2>1, <3>1 DEF Tier, TypeInv, TypeOK
      <3>4. \A d \in Deployments : d = r.deployment => Tier(d)' = r.profile.tier
        BY <3>2 DEF Tier
      <3> QED
        BY <3>3, <3>4 DEF Tiers
    <2> QED
      BY <1>2, <1>3, <1>4, <1>6, <2>1, <2>2, <2>3
      DEF Mapped, DeploymentBy, TierBy, ArtifactBy, RunBy, TrailBy, Python!vars
  <1>9. CASE saveArtifact(o)
    <2>1. /\ r.pc = "saveArtifact" /\ s = [r EXCEPT !.pc = "audit"]
          /\ artifact' = [artifact EXCEPT ![r.artifact] = r.content]
          /\ UNCHANGED <<deployment, profiles, run, audits>>
      BY <1>1, <1>2, <1>9 DEF saveArtifact, Becomes
    <2>2. ~Commits(r) /\ ~Audits(r) /\ r.entry.action \notin DeploymentActions
      BY <1>2, <2>1 DEF Commits, Audits, Saving, OnlyCall, DeploymentActions
    <2> QED
      BY <1>2, <1>3, <1>4, <1>5, <1>6, <2>1, <2>2
      DEF Mapped, DeploymentBy, TierBy, ArtifactBy, RunBy, TrailBy, Python!vars
  <1>10. CASE saveRun(o)
    <2>1. /\ r.pc = "saveRun" /\ s.pc = "idle" /\ r.tier = Tier(r.deployment)
          /\ run' = [run EXCEPT ![r.run] = [deployment |-> r.deployment, tier |-> r.tier]]
          /\ UNCHANGED <<deployment, profiles, artifact, audits>>
      BY <1>1, <1>2, <1>10 DEF saveRun, Becomes, Idle, OnlyCall
    <2>2. ~Commits(r) /\ ~Audits(r)
      BY <2>1 DEF Commits, Audits, Saving
    <2> QED
      BY <1>2, <1>4, <1>5, <1>6, <2>1, <2>2
      DEF Mapped, DeploymentBy, TierBy, ArtifactBy, RunBy, TrailBy, Python!vars
  <1>11. CASE recordAuditEvent(o)
    <2>1. /\ r.pc = "audit" /\ s.pc = "idle" /\ r.deployment \in Deployments
          /\ r.entry \in AuditEvent
          /\ audits' = [audits EXCEPT ![r.deployment] = Append(@, r.entry)]
          /\ UNCHANGED <<deployment, profiles, artifact, run>>
      BY <1>1, <1>2, <1>11 DEF recordAuditEvent, Becomes, Idle, GoodCall, Call
    <2>2. ~Commits(r) /\ (Audits(r) <=> r.entry.action \in DeploymentActions)
      BY <2>1 DEF Commits, Audits, Saving
    <2>3. Events' = IF Audits(r) THEN [Events EXCEPT ![r.deployment] = Append(@, r.entry)]
                    ELSE Events
      <3>1. /\ audits'[r.deployment] = Append(audits[r.deployment], r.entry)
            /\ \A d \in Deployments \ {r.deployment} : audits'[d] = audits[d]
        BY <2>1 DEF TypeInv, TypeOK
      <3>2. DeploymentEvents(audits'[r.deployment]) =
              Keep(DeploymentEvents(audits[r.deployment]), r.entry)
        BY <2>1, <3>1, KeptEvents DEF TypeInv, TypeOK
      <3>3. \A d \in Deployments : Events'[d] =
              IF d = r.deployment /\ Audits(r) THEN Append(Events[d], r.entry) ELSE Events[d]
        BY <2>1, <2>2, <3>1, <3>2 DEF Events, Keep
      <3> QED
        BY <3>3 DEF Events
    <2> QED
      BY <1>2, <1>4, <1>5, <2>1, <2>2, <2>3
      DEF Mapped, DeploymentBy, TierBy, ArtifactBy, RunBy, TrailBy, Python!vars
  <1> QED
    BY <1>7, <1>8, <1>9, <1>10, <1>11 DEF SaveStep

(* A call that starts and will save its deployment saves and audits it.    *)
LEMMA CommitMaps ==
  ASSUME NEW o \in Operators, Operators = {o}, TypeInv, TypeInv', ~ReuseIds,
         NEW r, Starts(o, r), Commits(r), r.entry.action = "created" => r.entry.from = "none"
  PROVE  Python!Saves(r.deployment, r.record, r.entry.action)
  <1>1. /\ r.entry \in AuditEvent /\ r.deployment \in Deployments /\ r.pc \in Saving
        /\ Saves(r)
    BY DEF Starts, GoodCall, Call, Commits, OnlyCall, Saving
  <1>2. Audits(r)
    BY <1>1 DEF Audits, Saves
  <1>3. r.entry = [action |-> r.entry.action,
                   from |-> IF r.entry.action = "created" THEN "none"
                            ELSE deployment[r.deployment].status,
                   status |-> r.record.status, blueprint |-> r.record.blueprint]
    BY <1>1 DEF AuditEvent, Saves
  <1>4. r.pc \notin {"saveProfile", "saveArtifact", "readSnapshot", "saveRun"}
    BY <1>1 DEF Saving
  <1>5. /\ WillBeDeployment = deployment /\ WillBeTier = Tiers /\ WillBeArtifact = artifact
        /\ WillBeRun = run /\ WillBeTrail = Events
        /\ WillBeDeployment' = [deployment EXCEPT ![r.deployment] = r.record]
        /\ WillBeTier' = Tiers /\ WillBeArtifact' = artifact /\ WillBeRun' = run
        /\ WillBeTrail' = [Events EXCEPT ![r.deployment] = Append(@, r.entry)]
    BY <1>2, <1>4, StartMaps DEF DeploymentBy, TierBy, ArtifactBy, RunBy, TrailBy
  <1> QED
    BY <1>3, <1>5 DEF Python!Saves

(* A call that starts is a step of the Python control plane, unless the    *)
(* gate will refuse it.                                                    *)
LEMMA StartImplements ==
  ASSUME NEW o \in Operators, Operators = {o}, TypeInv, TypeInv', ~ReuseIds, Start(o)
  PROVE  [Python!Next]_(Python!vars)
  <1>1. PICK r : Starts(o, r)
    BY StartShape
  <1>2. /\ r = call'[o]
        /\ WillBeDeployment = deployment /\ WillBeTier = Tiers /\ WillBeArtifact = artifact
        /\ WillBeRun = run /\ WillBeTrail = Events
        /\ WillBeDeployment' = DeploymentBy(r) /\ WillBeTier' = TierBy(r)
        /\ WillBeArtifact' = ArtifactBy(r) /\ WillBeRun' = RunBy(r)
        /\ WillBeTrail' = TrailBy(r)
    BY <1>1, StartMaps
  <1>3. r \in Call /\ r.entry \in AuditEvent /\ GoodCall(r)
    BY <1>1 DEF Starts, GoodCall, Call
  <1>4. ASSUME NEW x, Begin(o, x) PROVE r = x
    BY <1>2, <1>4 DEF Begin, Becomes, TypeInv, TypeOK
  <1>5. \A d \in Deployments : Exists(d) <=> Python!Exists(d)
    BY <1>2 DEF Exists, Python!Exists
  <1>6. ASSUME r.pc \notin Saving
        PROVE  DeploymentBy(r) = deployment /\ TrailBy(r) = Events
    BY <1>1, <1>6 DEF Starts, DeploymentBy, TrailBy, Commits, Audits
  <1>7. CASE deployAgent(o)
    <2>1. PICK d \in Deployments, b \in Blueprints, status \in DeploymentStatus :
            /\ ReuseIds \/ ~Exists(d)
            /\ r = [Idle EXCEPT
                 !.pc = "saveDeployment", !.deployment = d,
                 !.record = [status |-> status, blueprint |-> b, revision |-> 1],
                 !.entry = [action |-> "created", from |-> "none", status |-> status,
                            blueprint |-> b]]
      BY <1>4, <1>7, Zenon DEF deployAgent
    <2>2. /\ r.pc = "saveDeployment" /\ r.deployment = d
          /\ r.record = [status |-> status, blueprint |-> b, revision |-> 1]
          /\ r.entry.action = "created" /\ r.entry.from = "none"
      BY <2>1 DEF Idle
    <2>3. Commits(r)
      BY <2>2 DEF Commits, Accepted, Saving
    <2>4. Python!Saves(d, [status |-> status, blueprint |-> b, revision |-> 1], "created")
      BY <1>1, <2>2, <2>3, CommitMaps
    <2>5. Python!deploy_agent
      BY <1>5, <2>1, <2>4 DEF Python!deploy_agent, Python!Statuses, DeploymentStatus
    <2> QED
      BY <2>5 DEF Python!Next
  <1>8. CASE transitionDeployment(o)
    <2>0. PICK d \in Deployments :
            /\ Exists(d)
            /\ \E target \in allowedDeploymentTransitions[deployment[d].status] :
                 LET record == [Touched(d) EXCEPT !.status = target]
                 IN Begin(o, [Idle EXCEPT
                      !.pc = IF target = "active" THEN "readProfile" ELSE "saveDeployment",
                      !.deployment = d, !.record = record,
                      !.entry = [action |-> "transitioned", from |-> deployment[d].status,
                                 status |-> target, blueprint |-> record.blueprint]])
      BY <1>8 DEF transitionDeployment
    <2>1. PICK target \in allowedDeploymentTransitions[deployment[d].status] :
            r = [Idle EXCEPT
                  !.pc = IF target = "active" THEN "readProfile" ELSE "saveDeployment",
                  !.deployment = d, !.record = [Touched(d) EXCEPT !.status = target],
                  !.entry = [action |-> "transitioned", from |-> deployment[d].status,
                             status |-> target,
                             blueprint |-> [Touched(d) EXCEPT !.status = target].blueprint]]
      BY <1>4, <2>0, Zenon
    <2>2. /\ r.pc = IF target = "active" THEN "readProfile" ELSE "saveDeployment"
          /\ r.deployment = d /\ r.record = [Touched(d) EXCEPT !.status = target]
          /\ r.entry.action = "transitioned"
      BY <2>1 DEF Idle
    <2>3. CASE ~Commits(r)
      <3>1. r.pc = "readProfile" /\ ~Audits(r)
        BY <2>2, <2>3 DEF Commits, Accepted, Saving, Audits
      <3> QED
        BY <1>2, <2>3, <3>1
        DEF DeploymentBy, TierBy, ArtifactBy, RunBy, TrailBy, Python!vars
    <2>4. CASE Commits(r)
      <3>1. Python!Saves(d, r.record, "transitioned")
        BY <1>1, <2>2, <2>4, CommitMaps
      <3>2. deployment[d].status \in DeploymentStatus /\ target \in DeploymentStatus
            /\ <<deployment[d].status, target>> \in Python!ALLOWED_DEPLOYMENT_TRANSITIONS
        <4>1. deployment[d].status \in DeploymentStatus
          BY <2>0 DEF Exists, TypeInv, TypeOK, DeploymentRecord
        <4>2. PICK old \in DeploymentStatus : old = deployment[d].status
          BY <4>1
        <4>3. target \in allowedDeploymentTransitions[old]
          BY <4>2
        <4>4. target \in DeploymentStatus
              /\ <<old, target>> \in Python!ALLOWED_DEPLOYMENT_TRANSITIONS
          BY <4>3 DEF allowedDeploymentTransitions, DeploymentStatus,
                      Python!ALLOWED_DEPLOYMENT_TRANSITIONS, Python!Statuses
        <4> QED
          BY <4>1, <4>2, <4>4
      <3>3. target = "active" => Python!ComplianceReady(d)
        <4> SUFFICES ASSUME target = "active", Tier(d) = "high-risk", NEW kind \in Kinds
                     PROVE  \E a \in Artifacts :
                              /\ artifact[a].deployment = d /\ artifact[a].kind = kind
                              /\ artifact[a].accepted
          BY <1>2 DEF Python!ComplianceReady, Tiers
        <4>1. Ready(d)
          BY <2>2, <2>4 DEF Commits, Accepted
        <4>2. PICK a \in Artifacts :
                artifact[a] = [deployment |-> d, kind |-> kind, accepted |-> TRUE]
          BY <4>1 DEF Ready
        <4> QED
          BY <4>2
      <3>4. r.record = [WillBeDeployment[d] EXCEPT !.status = target, !.revision = @ + 1]
        <4>1. deployment[d] \in DeploymentRecord
          BY DEF TypeInv, TypeOK
        <4> QED
          BY <1>2, <2>2, <4>1 DEF Touched, DeploymentRecord
      <3>5. /\ target \in Python!Statuses
            /\ <<WillBeDeployment[d].status, target>> \in Python!ALLOWED_DEPLOYMENT_TRANSITIONS
        BY <1>2, <3>2 DEF Python!Statuses, DeploymentStatus
      <3>6. Python!transition_deployment
        BY <3>1, <3>3, <3>4, <3>5, Zenon DEF Python!transition_deployment
      <3> QED
        BY <3>6 DEF Python!Next
    <2> QED
      BY <2>3, <2>4
  <1>9. CASE rollbackDeploymentToBlueprint(o)
    <2>1. PICK d \in Deployments, b \in Blueprints :
            /\ Exists(d)
            /\ r = [Idle EXCEPT
                 !.pc = "saveDeployment", !.deployment = d,
                 !.record = [Touched(d) EXCEPT !.blueprint = b],
                 !.entry = [action |-> "rollback", from |-> deployment[d].status,
                            status |-> deployment[d].status, blueprint |-> b]]
      BY <1>4, <1>9, Zenon DEF rollbackDeploymentToBlueprint
    <2>2. /\ r.pc = "saveDeployment" /\ r.deployment = d
          /\ r.record = [Touched(d) EXCEPT !.blueprint = b] /\ r.entry.action = "rollback"
      BY <2>1 DEF Idle
    <2>3. Commits(r)
      BY <2>2 DEF Commits, Accepted, Saving
    <2>4. Python!Saves(d, r.record, "rollback")
      BY <1>1, <2>2, <2>3, CommitMaps
    <2>5. r.record = [WillBeDeployment[d] EXCEPT !.blueprint = b, !.revision = @ + 1]
      <3>1. deployment[d] \in DeploymentRecord
        BY DEF TypeInv, TypeOK
      <3> QED
        BY <1>2, <2>2, <3>1 DEF Touched, DeploymentRecord
    <2>6. Python!rollback_deployment_to_blueprint
      BY <1>5, <2>1, <2>4, <2>5 DEF Python!rollback_deployment_to_blueprint
    <2> QED
      BY <2>6 DEF Python!Next
  <1>10. CASE upsertComplianceProfile(o)
    <2>1. PICK d \in Deployments, tier \in RiskTiers :
            /\ Exists(d) /\ r.pc = "saveProfile" /\ r.deployment = d /\ r.profile.tier = tier
      <3>1. PICK d \in Deployments, tier \in RiskTiers :
              /\ Exists(d)
              /\ r = [Idle EXCEPT
                   !.pc = "saveProfile", !.deployment = d,
                   !.profile = [tier |-> tier,
                                revision |-> IF profiles[d] = <<>> THEN 1
                                             ELSE profiles[d][1].revision + 1],
                   !.place = IF profiles[d] = <<>> THEN 0 ELSE 1,
                   !.entry = [NoAudit EXCEPT !.action = "profile"]]
        BY <1>4, <1>10, Zenon DEF upsertComplianceProfile
      <3> QED
        BY <3>1 DEF Idle
    <2>2. /\ WillBeTier' = [Tiers EXCEPT ![d] = tier]
          /\ WillBeDeployment' = deployment /\ WillBeTrail' = Events
          /\ WillBeArtifact' = artifact /\ WillBeRun' = run
      BY <1>2, <1>6, <2>1 DEF TierBy, ArtifactBy, RunBy, Saving
    <2>3. Python!upsert_compliance_profile
      BY <1>2, <1>5, <2>1, <2>2 DEF Python!upsert_compliance_profile, RiskTiers
    <2> QED
      BY <2>3 DEF Python!Next
  <1>11. CASE createComplianceArtifact(o)
    <2>1. PICK d \in Deployments, a \in Artifacts, kind \in Kinds, accepted \in BOOLEAN :
            /\ Exists(d)
            /\ artifact[a] = NoArtifact
            /\ r = [Idle EXCEPT
                 !.pc = "saveArtifact", !.deployment = d, !.artifact = a,
                 !.content = [deployment |-> d, kind |-> kind, accepted |-> accepted],
                 !.entry = [NoAudit EXCEPT !.action = "artifact"]]
      BY <1>4, <1>11, Zenon DEF createComplianceArtifact
    <2>2. /\ r.pc = "saveArtifact" /\ r.artifact = a
          /\ r.content = [deployment |-> d, kind |-> kind, accepted |-> accepted]
      BY <2>1 DEF Idle
    <2>3. /\ WillBeArtifact' = [artifact EXCEPT ![a] = [deployment |-> d, kind |-> kind,
                                                      accepted |-> accepted]]
          /\ WillBeDeployment' = deployment /\ WillBeTrail' = Events
          /\ WillBeTier' = Tiers /\ WillBeRun' = run
      BY <1>2, <1>6, <2>2 DEF TierBy, ArtifactBy, RunBy, Saving
    <2>4. Python!Exists(d) /\ WillBeArtifact[a] = Python!NoArtifact
      BY <1>2, <1>5, <2>1 DEF Python!NoArtifact, NoArtifact
    <2>5. Python!create_compliance_artifact
      BY <1>2, <2>3, <2>4, Zenon DEF Python!create_compliance_artifact
    <2> QED
      BY <2>5 DEF Python!Next
  <1>12. CASE startRunSession(o)
    <2>1. PICK d \in Deployments, i \in Runs :
            /\ Startable(d) /\ run[i] = NoRun
            /\ r = [Idle EXCEPT !.pc = "readSnapshot", !.deployment = d, !.run = i]
      BY <1>4, <1>12, Zenon DEF startRunSession
    <2>2. r.pc = "readSnapshot" /\ r.deployment = d /\ r.run = i
      BY <2>1 DEF Idle
    <2>3. /\ WillBeRun' = [run EXCEPT ![i] = [deployment |-> d, tier |-> Tiers[d]]]
          /\ WillBeDeployment' = deployment /\ WillBeTrail' = Events
          /\ WillBeTier' = Tiers /\ WillBeArtifact' = artifact
      BY <1>2, <1>6, <2>2 DEF TierBy, ArtifactBy, RunBy, Saving, Tiers
    <2>4. Python!start_run_session
      BY <1>2, <2>1, <2>3 DEF Python!start_run_session, Python!NoRun, NoRun, Startable
    <2> QED
      BY <2>4 DEF Python!Next
  <1> QED
    BY <1>7, <1>8, <1>9, <1>10, <1>11, <1>12 DEF Start

LEMMA InitImplements ==
  ASSUME NEW o \in Operators, Operators = {o}, Init
  PROVE  Python!Init
  <1>1. TypeInv
    BY InitType
  <1>2. Mapped(call[o])
    BY <1>1, Mapping
  <1>3. call[o].pc = "idle"
    BY DEF Init, Idle
  <1>4. /\ WillBeDeployment = deployment /\ WillBeTier = Tiers /\ WillBeArtifact = artifact
        /\ WillBeRun = run /\ WillBeTrail = Events
    BY <1>2, <1>3 DEF Mapped, DeploymentBy, TierBy, ArtifactBy, RunBy, TrailBy, Commits,
                      Audits, Saving
  <1>5. Tiers = [d \in Deployments |-> "none"] /\ Events = [d \in Deployments |-> <<>>]
    BY KeptEvents DEF Init, Tiers, Tier, Events
  <1> QED
    BY <1>4, <1>5 DEF Init, Python!Init, Python!NoDeployment, NoDeployment,
                      Python!NoArtifact, NoArtifact, Python!NoRun, NoRun

LEMMA StepImplements ==
  ASSUME NEW o \in Operators, Operators = {o}, ~ReuseIds, MaxFaults = 0,
         TypeInv, TypeInv', SingleInv(o), [Next]_vars
  PROVE  [Python!Next]_(Python!vars)
  <1>1. CASE UNCHANGED vars
    <2>1. Mapped(call[o]) /\ Mapped(call[o])'
      BY Mapping, MappingNext
    <2>2. call'[o] = call[o] /\ UNCHANGED stores
      BY <1>1 DEF vars, stores
    <2>3. UNCHANGED Python!vars
      <3>1. PICK r : r = call[o]
        OBVIOUS
      <3> QED
        BY <2>1, <2>2, <3>1, MappedAfter DEF Mapped, Python!vars
    <2> QED
      BY <2>3
  <1>2. ~Reject(o)
    BY DEF Reject, SingleInv
  <1> QED
    BY <1>1, <1>2, StartImplements, ReadMaps, SaveMaps
    DEF Next, Rest, Continue, SaveStep

(* Driven by one operator who awaits each call before the next, the        *)
(* TypeScript control plane does step by step what the Python control      *)
(* plane's synchronous handlers do: the same deployments, tiers, artifacts *)
(* and runs, and a trail with the same deployment events.                  *)
THEOREM DeploymentsImplementPython ==
  ASSUME NEW o \in Operators, Operators = {o}, ~ReuseIds, MaxFaults = 0
  PROVE  Spec => ImplementsPython
  <1>1. Init => Python!Init
    BY InitImplements
  <1>2. TypeInv /\ TypeInv' /\ SingleInv(o) /\ [Next]_vars => [Python!Next]_(Python!vars)
    BY StepImplements
  <1>3. Spec => []SingleInv(o)
    BY SingleInvariant
  <1> QED
    BY <1>1, <1>2, <1>3, TypeInvariant, PTL DEF Spec, ImplementsPython, Python!Spec

=============================================================================
