------------------------- MODULE RunSessionsProofs -------------------------
(***************************************************************************)
(* Theorems about run sessions, for every set of callers, sessions and     *)
(* ids, every profile and every batch.                                     *)
(***************************************************************************)
EXTENDS RunSessionsRefinement, FiniteSetTheorems, SequenceTheorems, TLAPS

-----------------------------------------------------------------------------
(* Types                                                                   *)

LEMMA IdleType == Idle \in Call /\ CallConsistent(Idle)
  BY DEF Idle, Call, NoSession, RunSession, NoProfile, ComplianceProfile,
         EvidenceBundle, Effects, RunEventTypes, AuditActions, CallConsistent, Terminal

LEMMA BecomesType ==
  ASSUME TypeInv, NEW c \in Callers, NEW r \in Call, CallConsistent(r), Becomes(c, r)
  PROVE  call' \in [Callers -> Call] /\ \A d \in Callers : CallConsistent(call'[d])
  BY DEF TypeInv, TypeOK, Becomes

(* A call that starts, with a well-formed record, keeps the types.         *)
LEMMA BeginType ==
  ASSUME TypeInv, NEW c \in Callers, NEW r \in Call, CallConsistent(r), Begin(c, r)
  PROVE  TypeInv'
  BY DEF TypeInv, TypeOK, Begin, Becomes, stores, CallConsistent

LEMMA OwingType ==
  ASSUME NEW s \in Sessions, NEW todo \in Seq(Effects), todo # <<>>
  PROVE  Owing(s, todo) \in Call /\ CallConsistent(Owing(s, todo))
  BY IdleType DEF Owing, Call, CallConsistent, Idle

(* So does a call that has done the first of its effects, whatever it did  *)
(* to the streams.                                                         *)
LEMMA AfterEffectType ==
  ASSUME TypeInv, NEW c \in Callers, call[c].pc # "idle", AfterEffect(c)
  PROVE  call' \in [Callers -> Call] /\ \A d \in Callers : CallConsistent(call'[d])
  <1>1. call[c].todo \in Seq(Effects) /\ call[c].todo # <<>> /\ call[c].session \in Sessions
    BY DEF TypeInv, TypeOK, Call, CallConsistent
  <1>2. Tail(call[c].todo) \in Seq(Effects)
    BY <1>1, HeadTailProperties
  <1>3. CASE Tail(call[c].todo) = <<>>
    BY <1>3, IdleType, BecomesType DEF AfterEffect
  <1>4. CASE Tail(call[c].todo) # <<>>
    BY <1>1, <1>2, <1>4, OwingType, BecomesType DEF AfterEffect
  <1> QED
    BY <1>3, <1>4

(* The lists of effects that depend on what is saved.                      *)
LEMMA EffectsType ==
  /\ \A status : CompletionEffects(status) \in Seq(Effects) \ {<<>>}
  /\ \A approved : ResolutionEffects(approved) \in Seq(Effects) \ {<<>>}
  /\ \A acknowledged : DisclosureEffects(acknowledged) \in Seq(Effects) \ {<<>>}
  <1>1. /\ RunEventTypes \subseteq Effects /\ "bundle" \in Effects
        /\ {"session.completed", "approval.resolved", "disclosure.recorded"} \subseteq Effects
    BY DEF Effects, AuditActions
  <1>2. {"run_completed", "run_failed", "approval_resolved:approved",
         "approval_resolved:rejected", "disclosure_presented",
         "disclosure_acknowledged"} \subseteq Effects
    BY <1>1 DEF RunEventTypes
  <1>3. ASSUME NEW status PROVE CompletionEffects(status) \in Seq(Effects) \ {<<>>}
    BY <1>1, <1>2 DEF CompletionEffects
  <1>4. ASSUME NEW approved PROVE ResolutionEffects(approved) \in Seq(Effects) \ {<<>>}
    BY <1>1, <1>2 DEF ResolutionEffects
  <1>5. ASSUME NEW acknowledged
        PROVE  DisclosureEffects(acknowledged) \in Seq(Effects) \ {<<>>}
    BY <1>1, <1>2 DEF DisclosureEffects
  <1> QED
    BY <1>3, <1>4, <1>5

(* A record of the session a caller has read, with another status.         *)
LEMMA TouchedType ==
  ASSUME TypeInv, NEW s \in Sessions,
         NEW status \in {"running", "waiting-human", "completed", "failed"}
  PROVE  /\ Touched(s, status) \in RunSession
         /\ Touched(s, status).status = status
         /\ Touched(s, status).profile = session[s].profile
  <1>1. session[s] \in RunSession
    BY DEF TypeInv, TypeOK
  <1>2. session[s].revision + 1 \in Nat
    BY <1>1 DEF RunSession
  <1>3. /\ status \in {"none", "running", "waiting-human"} \cup Terminal
        /\ NoId \in Approvals \cup {NoId}
    BY DEF Terminal
  <1>4. Touched(s, status) = [session[s] EXCEPT !.status = status, !.currentApproval = NoId,
                                                !.revision = session[s].revision + 1]
    BY Zenon DEF Touched
  <1> QED
    BY <1>1, <1>2, <1>3, <1>4, Zenon DEF RunSession

LEMMA InitType == Init => TypeInv
  <1> SUFFICES ASSUME Init PROVE TypeInv
    OBVIOUS
  <1>1. NoSession \in RunSession /\ NoApproval \in ApprovalRequest /\ NoEvidence \in Evidence
    BY DEF NoSession, NoApproval, NoEvidence, RunSession, ApprovalRequest, Evidence,
           NoProfile, ComplianceProfile
  <1>2. session \in [Sessions -> RunSession] /\ approval \in [Approvals -> ApprovalRequest]
    BY <1>1, Zenon DEF Init
  <1>3. disclosure \in [Disclosures -> Evidence] /\ review \in [Reviews -> Evidence]
    BY <1>1, Zenon DEF Init
  <1>4. /\ events \in [Sessions -> Seq(RunEvent)]
        /\ audits \in [Sessions -> Seq(AuditActions)]
        /\ bundles \in [Sessions -> Seq(EvidenceBundle)]
    BY DEF Init
  <1>5. call \in [Callers -> Call] /\ \A c \in Callers : CallConsistent(call[c])
    BY IdleType, Zenon DEF Init
  <1>6. \A a \in Approvals : approval[a].status = "none"
    BY DEF Init, NoApproval
  <1>7. calls \in Nat /\ faults \in Nat
    BY DEF Init
  <1> QED
    BY <1>2, <1>3, <1>4, <1>5, <1>6, <1>7 DEF TypeInv, TypeOK

(* Every call starts with a well-formed record: it names a session, owes   *)
(* an effect, and names the kind of record it is about to save.            *)
LEMMA StartType ==
  ASSUME TypeInv, NEW c \in Callers, Start(c)
  PROVE  TypeInv'
  <1>1. CASE startRunSession(c)
    <2> DEFINE r(s, p) ==
          [Idle EXCEPT !.pc = "saveSession", !.session = s,
                       !.record = StartedSession(p),
                       !.todo = <<"run_started", "session.started">>]
    <2> PICK s \in Sessions, p \in Profiles :
           Begin(c, r(s, p))
      BY <1>1, Zenon DEF startRunSession
    <2>1. StartedSession(p) \in RunSession
      BY RunSessionsAssumption DEF StartedSession, RunSession
    <2>2. <<"run_started", "session.started">> \in Seq(Effects)
      BY DEF Effects, RunEventTypes, AuditActions
    <2>3. r(s, p) \in Call
      BY <2>1, <2>2, IdleType, Zenon DEF Call
    <2>4. CallConsistent(r(s, p))
      BY <2>1, <2>2, IdleType DEF Idle, CallConsistent
    <2> HIDE DEF r
    <2> QED
      BY <2>3, <2>4, BeginType
  <1>2. CASE completeRunSession(c)
    <2> DEFINE r(s, status) ==
          [Idle EXCEPT !.pc = "disclosures", !.session = s,
                       !.record = Touched(s, status),
                       !.todo = CompletionEffects(status)]
    <2> PICK s \in Sessions, status \in Terminal :
           Begin(c, r(s, status))
      BY <1>2, Zenon DEF completeRunSession
    <2>1. Touched(s, status) \in RunSession
      BY TouchedType DEF Terminal
    <2>2. CompletionEffects(status) \in Seq(Effects) /\ CompletionEffects(status) # <<>>
      BY EffectsType
    <2>3. r(s, status) \in Call
      BY <2>1, <2>2, IdleType, Zenon DEF Call
    <2>4. CallConsistent(r(s, status))
      BY <2>1, <2>2, IdleType DEF Idle, CallConsistent
    <2> HIDE DEF r
    <2> QED
      BY <2>3, <2>4, BeginType
  <1>3. CASE requestHumanApproval(c)
    <2> DEFINE r(s, a) ==
          [Idle EXCEPT !.pc = "saveRequest", !.session = s, !.id = a,
                       !.record = [Touched(s, "waiting-human") EXCEPT !.currentApproval = a],
                       !.todo = <<"approval_requested", "approval.requested">>]
    <2> PICK s \in Sessions, a \in Approvals :
           Begin(c, r(s, a))
      BY <1>3, Zenon DEF requestHumanApproval
    <2>1. [Touched(s, "waiting-human") EXCEPT !.currentApproval = a] \in RunSession
      <3>1. Touched(s, "waiting-human") \in RunSession
        BY TouchedType
      <3> QED
        BY <3>1, Zenon DEF RunSession
    <2>2. <<"approval_requested", "approval.requested">> \in Seq(Effects)
      BY DEF Effects, RunEventTypes, AuditActions
    <2>3. r(s, a) \in Call
      BY <2>1, <2>2, IdleType, Zenon DEF Call
    <2>4. CallConsistent(r(s, a))
      BY <2>1, <2>2, IdleType DEF Idle, CallConsistent
    <2> HIDE DEF r
    <2> QED
      BY <2>3, <2>4, BeginType
  <1>4. CASE resolveApprovalRequest(c)
    <2> DEFINE r(a, approved) ==
          [Idle EXCEPT !.pc = "saveResolution", !.session = approval[a].session,
                       !.id = a, !.outcome = approved,
                       !.todo = ResolutionEffects(approved)]
    <2> PICK a \in Approvals, approved \in BOOLEAN :
           CanResolve(a) /\ Begin(c, r(a, approved))
      BY <1>4, Zenon DEF resolveApprovalRequest
    <2>1. approval[a].session \in Sessions
      BY DEF CanResolve, TypeInv
    <2>2. ResolutionEffects(approved) \in Seq(Effects) /\ ResolutionEffects(approved) # <<>>
      BY EffectsType
    <2>3. r(a, approved) \in Call
      BY <2>1, <2>2, IdleType, Zenon DEF Call
    <2>4. CallConsistent(r(a, approved))
      BY <2>1, <2>2, IdleType DEF Idle, CallConsistent
    <2> HIDE DEF r
    <2> QED
      BY <2>3, <2>4, BeginType
  <1>5. CASE recordDisclosure(c)
    <2> DEFINE r(s, d, acknowledged) ==
          [Idle EXCEPT !.pc = "saveDisclosure", !.session = s,
                       !.id = d, !.outcome = acknowledged,
                       !.todo = DisclosureEffects(acknowledged)]
    <2> PICK s \in Sessions, d \in Disclosures, acknowledged \in BOOLEAN :
           Begin(c, r(s, d, acknowledged))
      BY <1>5, Zenon DEF recordDisclosure
    <2>2. /\ DisclosureEffects(acknowledged) \in Seq(Effects)
          /\ DisclosureEffects(acknowledged) # <<>>
      BY EffectsType
    <2>3. r(s, d, acknowledged) \in Call
      BY <2>2, IdleType, Zenon DEF Call
    <2>4. CallConsistent(r(s, d, acknowledged))
      BY <2>2, IdleType DEF Idle, CallConsistent
    <2> HIDE DEF r
    <2> QED
      BY <2>3, <2>4, BeginType
  <1>6. CASE recordHumanReview(c)
    <2> DEFINE r(s, v, approved) ==
          [Idle EXCEPT !.pc = "saveReview", !.session = s,
                       !.id = v, !.outcome = approved,
                       !.todo = <<"human_review_completed", "human_review.recorded">>]
    <2> PICK s \in Sessions, v \in Reviews, approved \in BOOLEAN :
           Begin(c, r(s, v, approved))
      BY <1>6, Zenon DEF recordHumanReview
    <2>2. <<"human_review_completed", "human_review.recorded">> \in Seq(Effects)
      BY DEF Effects, RunEventTypes, AuditActions
    <2>3. r(s, v, approved) \in Call
      BY <2>2, IdleType, Zenon DEF Call
    <2>4. CallConsistent(r(s, v, approved))
      BY <2>2, IdleType DEF Idle, CallConsistent
    <2> HIDE DEF r
    <2> QED
      BY <2>3, <2>4, BeginType
  <1>7. CASE enqueueEvents(c)
    <2> PICK s \in Sessions, batch \in Batches : batch # <<>> /\ Begin(c, Owing(s, batch))
      BY <1>7 DEF enqueueEvents
    <2>1. batch \in Seq(Effects)
      BY RunSessionsAssumption DEF Effects
    <2>2. Owing(s, batch) \in Call /\ CallConsistent(Owing(s, batch))
      BY <2>1, OwingType
    <2> QED
      BY <2>2, BeginType
  <1> QED
    BY <1>1, <1>2, <1>3, <1>4, <1>5, <1>6, <1>7 DEF Start

(* No step of a call in flight leaves the types, whatever the others do.   *)
LEMMA ContinueType ==
  ASSUME TypeInv, NEW c \in Callers, Continue(c)
  PROVE  TypeInv'
  <1>1. /\ call[c] \in Call /\ CallConsistent(call[c])
        /\ call[c].record \in RunSession
        /\ call[c].todo \in Seq(Effects)
        /\ call[c].outcome \in BOOLEAN
        /\ call[c].count \in Nat
        /\ call[c].bundle \in EvidenceBundle
    BY DEF TypeInv, TypeOK, Call
  <1>2. ASSUME call[c].pc # "idle"
        PROVE  /\ call[c].session \in Sessions /\ call[c].todo # <<>>
               /\ Owing(call[c].session, call[c].todo) \in Call
               /\ CallConsistent(Owing(call[c].session, call[c].todo))
    BY <1>1, <1>2, OwingType DEF CallConsistent
  <1>3. CASE checkDisclosures(c)
    <2> DEFINE r == [call[c] EXCEPT !.pc = "reviews"]
    <2>1. r \in Call
      BY <1>1, Zenon DEF Call
    <2>2. CallConsistent(r)
      BY <1>1, <1>3 DEF checkDisclosures, CallConsistent, Call
    <2> HIDE DEF r
    <2>3. call' \in [Callers -> Call] /\ \A d \in Callers : CallConsistent(call'[d])
      <3>1. Becomes(c, r) \/ Becomes(c, Idle)
        BY <1>3 DEF checkDisclosures, r
      <3> QED
        BY <2>1, <2>2, <3>1, IdleType, BecomesType
    <2> QED
      BY <1>3, <2>3 DEF checkDisclosures, stores, TypeInv, TypeOK
  <1>4. CASE checkReviews(c)
    <2> DEFINE r == [call[c] EXCEPT !.pc = "saveSession"]
    <2>1. r \in Call
      BY <1>1, Zenon DEF Call
    <2>2. CallConsistent(r)
      BY <1>1, <1>4 DEF checkReviews, CallConsistent, Call
    <2> HIDE DEF r
    <2>3. call' \in [Callers -> Call] /\ \A d \in Callers : CallConsistent(call'[d])
      <3>1. Becomes(c, r) \/ Becomes(c, Idle)
        BY <1>4 DEF checkReviews, r
      <3> QED
        BY <2>1, <2>2, <3>1, IdleType, BecomesType
    <2> QED
      BY <1>4, <2>3 DEF checkReviews, stores, TypeInv, TypeOK
  <1>5. CASE saveSession(c)
    <2>1. call' \in [Callers -> Call] /\ \A d \in Callers : CallConsistent(call'[d])
      BY <1>2, <1>5, BecomesType DEF saveSession
    <2>2. session' \in [Sessions -> RunSession]
      BY <1>1, <1>5 DEF saveSession, TypeInv, TypeOK
    <2> QED
      BY <1>5, <2>1, <2>2 DEF saveSession, TypeInv, TypeOK
  <1>6. CASE saveRequest(c)
    <2> DEFINE r == [call[c] EXCEPT !.pc = "saveSession"]
               a == [status |-> "pending", session |-> call[c].session]
    <2>1. r \in Call
      BY <1>1, Zenon DEF Call
    <2>2. CallConsistent(r)
      BY <1>1, <1>6 DEF saveRequest, CallConsistent, Call
    <2>3. call' \in [Callers -> Call] /\ \A d \in Callers : CallConsistent(call'[d])
      BY <1>6, <2>1, <2>2, BecomesType DEF saveRequest
    <2>4. a \in ApprovalRequest /\ a.session \in Sessions
      BY <1>2, <1>6 DEF saveRequest, ApprovalRequest
    <2> HIDE DEF a
    <2>5. approval' = [approval EXCEPT ![call[c].id] = a]
      BY <1>6 DEF saveRequest, a
    <2>6. /\ approval' \in [Approvals -> ApprovalRequest]
          /\ \A b \in Approvals :
               approval'[b].status # "none" => approval'[b].session \in Sessions
      BY <2>4, <2>5 DEF TypeInv, TypeOK
    <2> QED
      BY <1>6, <2>3, <2>6 DEF saveRequest, TypeInv, TypeOK
  <1>7. CASE saveResolution(c)
    <2> DEFINE r == [call[c] EXCEPT !.pc = "reread"]
               a == [status |-> IF call[c].outcome THEN "approved" ELSE "rejected",
                     session |-> call[c].session]
    <2>1. r \in Call
      BY <1>1, Zenon DEF Call
    <2>2. CallConsistent(r)
      BY <1>1, <1>7 DEF saveResolution, CallConsistent, Call
    <2>3. call' \in [Callers -> Call] /\ \A d \in Callers : CallConsistent(call'[d])
      BY <1>7, <2>1, <2>2, BecomesType DEF saveResolution
    <2>4. a \in ApprovalRequest /\ a.session \in Sessions
      BY <1>2, <1>7 DEF saveResolution, ApprovalRequest
    <2> HIDE DEF a
    <2>5. approval' = [approval EXCEPT ![call[c].id] = a]
      BY <1>7 DEF saveResolution, a
    <2>6. /\ approval' \in [Approvals -> ApprovalRequest]
          /\ \A b \in Approvals :
               approval'[b].status # "none" => approval'[b].session \in Sessions
      BY <2>4, <2>5 DEF TypeInv, TypeOK
    <2> QED
      BY <1>7, <2>3, <2>6 DEF saveResolution, TypeInv, TypeOK
  <1>8. CASE rereadSession(c)
    <2> DEFINE status == IF call[c].outcome THEN "running" ELSE "failed"
               r == [call[c] EXCEPT !.pc = "saveSession",
                                    !.record = Touched(call[c].session, status)]
    <2>1. Touched(call[c].session, status) \in RunSession
      BY <1>2, <1>8, TouchedType DEF rereadSession
    <2>2. r \in Call
      BY <1>1, <2>1, Zenon DEF Call
    <2>3. CallConsistent(r)
      BY <1>1, <1>8 DEF rereadSession, CallConsistent, Call
    <2>4. Becomes(c, r)
      BY <1>8 DEF rereadSession
    <2> HIDE DEF r
    <2>5. call' \in [Callers -> Call] /\ \A d \in Callers : CallConsistent(call'[d])
      BY <2>2, <2>3, <2>4, BecomesType
    <2> QED
      BY <1>8, <2>5 DEF rereadSession, stores, TypeInv, TypeOK
  <1>9. CASE saveDisclosure(c)
    <2>1. call' \in [Callers -> Call] /\ \A d \in Callers : CallConsistent(call'[d])
      BY <1>2, <1>9, BecomesType DEF saveDisclosure
    <2>2. disclosure' \in [Disclosures -> Evidence]
      BY <1>1, <1>2, <1>9 DEF saveDisclosure, TypeInv, TypeOK, Evidence
    <2> QED
      BY <1>9, <2>1, <2>2 DEF saveDisclosure, TypeInv, TypeOK
  <1>10. CASE saveReview(c)
    <2>1. call' \in [Callers -> Call] /\ \A d \in Callers : CallConsistent(call'[d])
      BY <1>2, <1>10, BecomesType DEF saveReview
    <2>2. review' \in [Reviews -> Evidence]
      BY <1>1, <1>2, <1>10 DEF saveReview, TypeInv, TypeOK, Evidence
    <2> QED
      BY <1>10, <2>1, <2>2 DEF saveReview, TypeInv, TypeOK
  <1>11. CASE countRunEvents(c)
    <2> DEFINE r == [call[c] EXCEPT !.pc = "append",
                                    !.count = Len(events[call[c].session])]
    <2>1. Len(events[call[c].session]) \in Nat
      BY <1>2, <1>11 DEF countRunEvents, TypeInv, TypeOK
    <2>2. r \in Call
      BY <1>1, <2>1, Zenon DEF Call
    <2>3. CallConsistent(r)
      BY <1>1, <1>11 DEF countRunEvents, CallConsistent, Call
    <2>4. Becomes(c, r)
      BY <1>11 DEF countRunEvents
    <2> HIDE DEF r
    <2>5. call' \in [Callers -> Call] /\ \A d \in Callers : CallConsistent(call'[d])
      BY <2>2, <2>3, <2>4, BecomesType
    <2> QED
      BY <1>11, <2>5 DEF countRunEvents, stores, TypeInv, TypeOK
  <1>12. CASE readRunEvents(c)
    <2> DEFINE r == [call[c] EXCEPT !.pc = "trailAudits",
                                    !.bundle.runEvents = Len(events[call[c].session])]
    <2>1. [call[c].bundle EXCEPT !.runEvents = Len(events[call[c].session])] \in EvidenceBundle
      <3>1. Len(events[call[c].session]) \in Nat
        BY <1>2, <1>12 DEF readRunEvents, TypeInv, TypeOK
      <3> QED
        BY <1>1, <3>1, Zenon DEF EvidenceBundle
    <2>2. r \in Call
      BY <1>1, <2>1, Zenon DEF Call
    <2>3. CallConsistent(r)
      BY <1>1, <1>12 DEF readRunEvents, CallConsistent, Call
    <2>4. Becomes(c, r)
      BY <1>12 DEF readRunEvents
    <2> HIDE DEF r
    <2>5. call' \in [Callers -> Call] /\ \A d \in Callers : CallConsistent(call'[d])
      BY <2>2, <2>3, <2>4, BecomesType
    <2> QED
      BY <1>12, <2>5 DEF readRunEvents, stores, TypeInv, TypeOK
  <1>13. CASE readAuditEvents(c)
    <2> DEFINE r == [call[c] EXCEPT !.pc = "trailExisting",
                                    !.bundle.auditEvents = Len(audits[call[c].session])]
    <2>1. [call[c].bundle EXCEPT !.auditEvents = Len(audits[call[c].session])] \in EvidenceBundle
      <3>1. Len(audits[call[c].session]) \in Nat
        BY <1>2, <1>13 DEF readAuditEvents, TypeInv, TypeOK
      <3> QED
        BY <1>1, <3>1, Zenon DEF EvidenceBundle
    <2>2. r \in Call
      BY <1>1, <2>1, Zenon DEF Call
    <2>3. CallConsistent(r)
      BY <1>1, <1>13 DEF readAuditEvents, CallConsistent, Call
    <2>4. Becomes(c, r)
      BY <1>13 DEF readAuditEvents
    <2> HIDE DEF r
    <2>5. call' \in [Callers -> Call] /\ \A d \in Callers : CallConsistent(call'[d])
      BY <2>2, <2>3, <2>4, BecomesType
    <2> QED
      BY <1>13, <2>5 DEF readAuditEvents, stores, TypeInv, TypeOK
  <1>14. CASE readExistingBundle(c)
    <2> DEFINE r == [call[c] EXCEPT !.pc = "saveBundle",
                                    !.existing = IF bundles[call[c].session] = <<>>
                                                   THEN 0 ELSE 1]
    <2>1. (IF bundles[call[c].session] = <<>> THEN 0 ELSE 1) \in Nat
      OBVIOUS
    <2>2. r \in Call
      BY <1>1, <2>1, Zenon DEF Call
    <2>3. CallConsistent(r)
      BY <1>1, <1>14 DEF readExistingBundle, CallConsistent, Call
    <2>4. Becomes(c, r)
      BY <1>14 DEF readExistingBundle
    <2> HIDE DEF r
    <2>5. call' \in [Callers -> Call] /\ \A d \in Callers : CallConsistent(call'[d])
      BY <2>2, <2>3, <2>4, BecomesType
    <2> QED
      BY <1>14, <2>5 DEF readExistingBundle, stores, TypeInv, TypeOK
  <1>15. CASE appendRunEvent(c)
    <2> DEFINE e == [type |-> Head(call[c].todo), sequence |-> call[c].count + 1, by |-> c]
    <2>1. call' \in [Callers -> Call] /\ \A d \in Callers : CallConsistent(call'[d])
      BY <1>15, AfterEffectType DEF appendRunEvent
    <2>2. e \in RunEvent
      BY <1>1, <1>15 DEF appendRunEvent, RunEvent, CallConsistent
    <2>3. events' \in [Sessions -> Seq(RunEvent)]
      BY <1>2, <1>15, <2>2, AppendProperties DEF appendRunEvent, TypeInv, TypeOK
    <2> QED
      BY <1>15, <2>1, <2>3 DEF appendRunEvent, TypeInv, TypeOK
  <1>16. CASE recordAuditEvent(c)
    <2>1. call' \in [Callers -> Call] /\ \A d \in Callers : CallConsistent(call'[d])
      BY <1>16, AfterEffectType DEF recordAuditEvent
    <2>2. audits' \in [Sessions -> Seq(AuditActions)]
      BY <1>2, <1>16, AppendProperties DEF recordAuditEvent, TypeInv, TypeOK
    <2> QED
      BY <1>16, <2>1, <2>2 DEF recordAuditEvent, TypeInv, TypeOK
  <1>17. CASE persistEvidenceBundle(c)
    <2>1. call' \in [Callers -> Call] /\ \A d \in Callers : CallConsistent(call'[d])
      BY <1>17, AfterEffectType DEF persistEvidenceBundle
    <2> DEFINE old == bundles[call[c].session]
    <2>2. old \in Seq(EvidenceBundle)
      BY <1>2, <1>17 DEF persistEvidenceBundle, TypeInv, TypeOK
    <2>3. /\ Append(old, call[c].bundle) \in Seq(EvidenceBundle)
          /\ [old EXCEPT ![call[c].existing] = call[c].bundle] \in Seq(EvidenceBundle)
      <3>1. old \in [1..Len(old) -> EvidenceBundle] /\ Len(old) \in Nat
        BY <2>2
      <3>2. [old EXCEPT ![call[c].existing] = call[c].bundle] \in [1..Len(old) -> EvidenceBundle]
        BY <1>1, <3>1
      <3> QED
        BY <1>1, <2>2, <3>1, <3>2, AppendProperties, SeqDef
    <2>4. bundles' \in [Sessions -> Seq(EvidenceBundle)]
      BY <1>17, <2>3 DEF persistEvidenceBundle, TypeInv, TypeOK
    <2> QED
      BY <1>17, <2>1, <2>4 DEF persistEvidenceBundle, TypeInv, TypeOK
  <1> QED
    BY <1>3, <1>4, <1>5, <1>6, <1>7, <1>8, <1>9, <1>10, <1>11, <1>12, <1>13,
       <1>14, <1>15, <1>16, <1>17 DEF Continue

LEMMA RejectType ==
  ASSUME TypeInv, NEW c \in Callers, Reject(c)
  PROVE  TypeInv'
  <1>1. call' \in [Callers -> Call] /\ \A d \in Callers : CallConsistent(call'[d])
    BY IdleType, BecomesType DEF Reject
  <1> QED
    BY <1>1 DEF Reject, stores, TypeInv, TypeOK

LEMMA NextType == TypeInv /\ [Next]_vars => TypeInv'
  <1> SUFFICES ASSUME TypeInv, [Next]_vars PROVE TypeInv'
    OBVIOUS
  <1>1. CASE UNCHANGED vars
    BY <1>1 DEF vars, TypeInv, TypeOK
  <1>2. CASE Rest
    BY <1>2 DEF Rest, vars, TypeInv, TypeOK
  <1>3. ASSUME NEW c \in Callers, Start(c) \/ Continue(c) \/ Reject(c) PROVE TypeInv'
    BY <1>3, StartType, ContinueType, RejectType
  <1> QED
    BY <1>1, <1>2, <1>3 DEF Next

LEMMA TypeInvariant == Spec => []TypeInv
  <1>1. Init => TypeInv
    BY InitType
  <1>2. TypeInv /\ [Next]_vars => TypeInv'
    BY NextType
  <1> QED
    BY <1>1, <1>2, PTL DEF Spec

(* Whatever the callers do and however their awaits interleave or fail,    *)
(* the repositories hold records of their types.                           *)
THEOREM TypeCorrect == Spec => []TypeOK
  <1>1. TypeInv => TypeOK
    BY DEF TypeInv
  <1> QED
    BY <1>1, TypeInvariant, PTL

-----------------------------------------------------------------------------
(* A waiting session names its request                                     *)

(* A stored request is never removed, nor moved to another session.        *)
RequestsKept ==
  \A a \in Approvals : approval[a].status # "none" =>
    approval'[a].status # "none" /\ approval'[a].session = approval[a].session

(* A step of a caller that makes no request: what it leaves in its call    *)
(* and, if it saves a session, in the session, is all there is to check.   *)
LEMMA RequestFrame ==
  ASSUME TypeInv, RequestInv, NEW c \in Callers, NEW r,
         UNCHANGED approval, Becomes(c, r), CallRequest(r), r.pc # "saveRequest",
         \A s \in Sessions :
           session'[s].status = "waiting-human" =>
             \/ session'[s] = session[s]
             \/ NamesRequest(session'[s], s)
  PROVE  RequestInv'
  <1>1. \A d \in Callers : call'[d] = IF d = c THEN r ELSE call[d]
    BY DEF Becomes, TypeInv, TypeOK
  <1>2. \A d \in Callers : CallRequest(call'[d])
    BY <1>1 DEF RequestInv
  <1>3. \A d \in Callers : CallRequest(call[d])'
    BY <1>2 DEF CallRequest, NamesRequest
  <1>4. WaitingNamesRequest'
    BY DEF RequestInv, WaitingNamesRequest, NamesRequest
  <1> QED
    BY <1>1, <1>3, <1>4 DEF RequestInv

LEMMA StartRequest ==
  ASSUME TypeInv, RequestInv, NEW c \in Callers, Start(c)
  PROVE  RequestInv'
  <1>1. ASSUME NEW r, Begin(c, r), CallRequest(r), r.pc # "saveRequest"
        PROVE  RequestInv'
    <2>1. UNCHANGED approval /\ Becomes(c, r)
      BY <1>1 DEF Begin, stores
    <2>2. \A s \in Sessions : session'[s] = session[s]
      BY <1>1 DEF Begin, stores
    <2> QED
      BY <1>1, <2>1, <2>2, RequestFrame
  <1>2. CASE startRunSession(c)
    <2> DEFINE r(s, p) == [Idle EXCEPT !.pc = "saveSession", !.session = s,
                                       !.record = StartedSession(p),
                                       !.todo = <<"run_started", "session.started">>]
    <2>1. PICK s \in Sessions, p \in Profiles : Begin(c, r(s, p))
      BY <1>2, Zenon DEF startRunSession
    <2>2. CallRequest(r(s, p)) /\ r(s, p).pc # "saveRequest"
      BY DEF CallRequest, Idle, StartedSession
    <2> QED
      BY <1>1, <2>1, <2>2
  <1>3. CASE completeRunSession(c)
    <2> DEFINE r(s, status) == [Idle EXCEPT !.pc = "disclosures", !.session = s,
                                            !.record = Touched(s, status),
                                            !.todo = CompletionEffects(status)]
    <2>1. PICK s \in Sessions, status \in Terminal : Begin(c, r(s, status))
      BY <1>3, Zenon DEF completeRunSession
    <2>2. Touched(s, status).status # "waiting-human"
      BY TouchedType DEF Terminal
    <2>3. CallRequest(r(s, status)) /\ r(s, status).pc # "saveRequest"
      BY <2>2 DEF CallRequest, Idle
    <2> QED
      BY <1>1, <2>1, <2>3
  <1>4. CASE requestHumanApproval(c)
    <2> DEFINE r(s, a) == [Idle EXCEPT
                 !.pc = "saveRequest", !.session = s, !.id = a,
                 !.record = [Touched(s, "waiting-human") EXCEPT !.currentApproval = a],
                 !.todo = <<"approval_requested", "approval.requested">>]
    <2>1. PICK s \in Sessions, a \in Approvals :
            approval[a] = NoApproval /\ Unclaimed(a) /\ Begin(c, r(s, a))
      BY <1>4, Zenon DEF requestHumanApproval
    <2>2. /\ r(s, a).pc = "saveRequest" /\ r(s, a).id = a
          /\ r(s, a).record.currentApproval = a
      <3>1. Touched(s, "waiting-human") \in RunSession
        BY TouchedType
      <3> QED
        BY <3>1 DEF Idle, RunSession
    <2>3. CallRequest(r(s, a))
      BY <2>1, <2>2 DEF CallRequest
    <2> HIDE DEF r
    <2>4. /\ UNCHANGED <<approval, session>>
          /\ \A d \in Callers : call'[d] = IF d = c THEN r(s, a) ELSE call[d]
      BY <2>1 DEF Begin, Becomes, stores, TypeInv, TypeOK
    <2>5. \A d \in Callers : CallRequest(call'[d])
      BY <2>3, <2>4 DEF RequestInv
    <2>6. \A d \in Callers : CallRequest(call[d])'
      BY <2>4, <2>5 DEF CallRequest, NamesRequest
    <2>7. WaitingNamesRequest'
      BY <2>4 DEF RequestInv, WaitingNamesRequest, NamesRequest
    <2>8. ASSUME NEW d \in Callers, NEW e \in Callers, d # e,
                 call'[d].pc = "saveRequest", call'[e].pc = "saveRequest"
          PROVE  call'[d].id # call'[e].id
      BY <2>1, <2>2, <2>4, <2>8 DEF RequestInv, Unclaimed
    <2> QED
      BY <2>6, <2>7, <2>8 DEF RequestInv
  <1>5. CASE resolveApprovalRequest(c)
    <2> DEFINE r(a, approved) == [Idle EXCEPT !.pc = "saveResolution",
                                              !.session = approval[a].session,
                                              !.id = a, !.outcome = approved,
                                              !.todo = ResolutionEffects(approved)]
    <2>1. PICK a \in Approvals, approved \in BOOLEAN :
            CanResolve(a) /\ Begin(c, r(a, approved))
      BY <1>5, Zenon DEF resolveApprovalRequest
    <2>2. CallRequest(r(a, approved)) /\ r(a, approved).pc # "saveRequest"
      BY <2>1 DEF CallRequest, Idle, CanResolve
    <2> QED
      BY <1>1, <2>1, <2>2
  <1>6. CASE recordDisclosure(c)
    <2> DEFINE r(s, d, acknowledged) == [Idle EXCEPT
                 !.pc = "saveDisclosure", !.session = s,
                 !.id = d, !.outcome = acknowledged,
                 !.todo = DisclosureEffects(acknowledged)]
    <2>1. PICK s \in Sessions, d \in Disclosures, acknowledged \in BOOLEAN :
            Begin(c, r(s, d, acknowledged))
      BY <1>6, Zenon DEF recordDisclosure
    <2>2. CallRequest(r(s, d, acknowledged)) /\ r(s, d, acknowledged).pc # "saveRequest"
      BY DEF CallRequest, Idle
    <2> QED
      BY <1>1, <2>1, <2>2
  <1>7. CASE recordHumanReview(c)
    <2> DEFINE r(s, v, approved) == [Idle EXCEPT
                 !.pc = "saveReview", !.session = s,
                 !.id = v, !.outcome = approved,
                 !.todo = <<"human_review_completed", "human_review.recorded">>]
    <2>1. PICK s \in Sessions, v \in Reviews, approved \in BOOLEAN :
            Begin(c, r(s, v, approved))
      BY <1>7, Zenon DEF recordHumanReview
    <2>2. CallRequest(r(s, v, approved)) /\ r(s, v, approved).pc # "saveRequest"
      BY DEF CallRequest, Idle
    <2> QED
      BY <1>1, <2>1, <2>2
  <1>8. CASE enqueueEvents(c)
    <2>1. PICK s \in Sessions, batch \in Batches : Begin(c, Owing(s, batch))
      BY <1>8 DEF enqueueEvents
    <2>2. CallRequest(Owing(s, batch)) /\ Owing(s, batch).pc # "saveRequest"
      BY DEF CallRequest, Owing, Idle
    <2> QED
      BY <1>1, <2>1, <2>2
  <1> QED
    BY <1>2, <1>3, <1>4, <1>5, <1>6, <1>7, <1>8 DEF Start

LEMMA ContinueRequest ==
  ASSUME TypeInv, RequestInv, NEW c \in Callers, Continue(c) \/ Reject(c)
  PROVE  RequestInv'
  <1>1. CallRequest(call[c]) /\ call[c] \in Call /\ CallConsistent(call[c])
    BY DEF RequestInv, TypeInv, TypeOK
  <1>2. ASSUME NEW r, UNCHANGED <<approval, session>>, Becomes(c, r),
               CallRequest(r), r.pc # "saveRequest"
        PROVE  RequestInv'
    BY <1>2, RequestFrame
  <1>3. /\ CallRequest(Idle) /\ Idle.pc # "saveRequest"
        /\ \A s, todo : CallRequest(Owing(s, todo)) /\ Owing(s, todo).pc # "saveRequest"
    BY DEF CallRequest, Idle, Owing
  <1>4. CASE checkDisclosures(c)
    <2> DEFINE r == [call[c] EXCEPT !.pc = "reviews"]
    <2>1. CallRequest(r) /\ r.pc # "saveRequest"
      BY <1>1, <1>4 DEF checkDisclosures, CallRequest, Call
    <2> HIDE DEF r
    <2>2. Becomes(c, r) \/ Becomes(c, Idle)
      BY <1>4 DEF checkDisclosures, r
    <2> QED
      BY <1>2, <1>3, <1>4, <2>1, <2>2 DEF checkDisclosures, stores
  <1>5. CASE checkReviews(c)
    <2> DEFINE r == [call[c] EXCEPT !.pc = "saveSession"]
    <2>1. CallRequest(r) /\ r.pc # "saveRequest"
      BY <1>1, <1>5 DEF checkReviews, CallRequest, Call
    <2> HIDE DEF r
    <2>2. Becomes(c, r) \/ Becomes(c, Idle)
      BY <1>5 DEF checkReviews, r
    <2> QED
      BY <1>2, <1>3, <1>5, <2>1, <2>2 DEF checkReviews, stores
  <1>6. CASE saveSession(c)
    <2>1. \A s \in Sessions : \/ session'[s] = session[s]
                              \/ s = call[c].session /\ session'[s] = call[c].record
      BY <1>6 DEF saveSession, TypeInv, TypeOK
    <2>2. \A s \in Sessions : session'[s].status = "waiting-human" =>
            session'[s] = session[s] \/ NamesRequest(session'[s], s)
      BY <1>1, <1>6, <2>1 DEF saveSession, CallRequest
    <2> QED
      BY <1>3, <1>6, <2>2, RequestFrame DEF saveSession
  <1>7. CASE rereadSession(c)
    <2> DEFINE status == IF call[c].outcome THEN "running" ELSE "failed"
               r == [call[c] EXCEPT !.pc = "saveSession",
                                    !.record = Touched(call[c].session, status)]
    <2>1. call[c].session \in Sessions
      BY <1>1, <1>7 DEF rereadSession, CallConsistent
    <2>2. Touched(call[c].session, status).status # "waiting-human"
      BY <2>1, TouchedType
    <2>3. CallRequest(r) /\ r.pc # "saveRequest"
      BY <1>1, <2>2 DEF CallRequest, Call
    <2>4. Becomes(c, r)
      BY <1>7 DEF rereadSession
    <2> HIDE DEF r
    <2> QED
      BY <1>2, <1>7, <2>3, <2>4 DEF rereadSession, stores
  <1>8. CASE saveRequest(c)
    <2> DEFINE r == [call[c] EXCEPT !.pc = "saveSession"]
    <2>1. call[c].id \in Approvals /\ call[c].session \in Sessions
      BY <1>1, <1>8 DEF saveRequest, CallConsistent
    <2>2. approval[call[c].id] = NoApproval /\ call[c].record.currentApproval = call[c].id
      BY <1>1, <1>8 DEF saveRequest, CallRequest
    <2>3. approval' = [approval EXCEPT ![call[c].id] =
                         [status |-> "pending", session |-> call[c].session]]
      BY <1>8 DEF saveRequest
    <2>4. /\ \A a \in Approvals : a # call[c].id => approval'[a] = approval[a]
          /\ approval'[call[c].id].status # "none"
          /\ approval'[call[c].id].session = call[c].session
      BY <2>1, <2>3 DEF TypeInv, TypeOK
    <2>5. RequestsKept
      BY <2>2, <2>4 DEF RequestsKept, NoApproval
    <2>6. \A d \in Callers : call'[d] = IF d = c THEN r ELSE call[d]
      BY <1>8 DEF saveRequest, Becomes, TypeInv, TypeOK
    <2>7. CallRequest(call[c])'
      <3>1. /\ call'[c].pc = "saveSession" /\ call'[c].record = call[c].record
            /\ call'[c].session = call[c].session
        BY <1>1, <2>6 DEF Call
      <3> QED
        BY <2>1, <2>2, <2>4, <3>1 DEF CallRequest, NamesRequest
    <2>8. ASSUME NEW d \in Callers, d # c
          PROVE  CallRequest(call[d])'
      <3>1. call'[d] = call[d] /\ CallRequest(call[d])
        BY <2>6, <2>8 DEF RequestInv
      <3>2. call[d].pc = "saveRequest" => call[d].id \in Approvals /\ call[d].id # call[c].id
        BY <1>8, <2>8 DEF RequestInv, saveRequest, TypeInv, CallConsistent
      <3>3. call[d].pc = "saveResolution" => call[d].id \in Approvals
        BY DEF TypeInv, CallConsistent
      <3> QED
        BY <2>4, <2>5, <3>1, <3>2, <3>3 DEF CallRequest, NamesRequest, RequestsKept
    <2>9. WaitingNamesRequest'
      BY <1>8, <2>5 DEF saveRequest, RequestInv, WaitingNamesRequest, NamesRequest, RequestsKept
    <2>10. r.pc # "saveRequest"
      BY <1>1 DEF Call
    <2> HIDE DEF r
    <2> QED
      BY <2>6, <2>7, <2>8, <2>9, <2>10 DEF RequestInv
  <1>9. CASE saveResolution(c)
    <2> DEFINE status == IF call[c].outcome THEN "approved" ELSE "rejected"
               r == [call[c] EXCEPT !.pc = "reread"]
    <2>1. call[c].id \in Approvals
      BY <1>1, <1>9 DEF saveResolution, CallConsistent
    <2>2. approval[call[c].id].status # "none" /\ approval[call[c].id].session = call[c].session
      BY <1>1, <1>9 DEF saveResolution, CallRequest
    <2>3. approval' = [approval EXCEPT ![call[c].id] =
                         [status |-> status, session |-> call[c].session]]
      BY <1>9 DEF saveResolution
    <2>4. /\ \A a \in Approvals : a # call[c].id => approval'[a] = approval[a]
          /\ approval'[call[c].id].status # "none"
          /\ approval'[call[c].id].session = call[c].session
      BY <2>1, <2>3 DEF TypeInv, TypeOK
    <2>5. RequestsKept
      BY <2>2, <2>4 DEF RequestsKept
    <2>6. \A d \in Callers : call'[d] = IF d = c THEN r ELSE call[d]
      BY <1>9 DEF saveResolution, Becomes, TypeInv, TypeOK
    <2>7. r.pc = "reread"
      BY <1>1 DEF Call
    <2>8. CallRequest(call[c])'
      BY <2>6, <2>7 DEF CallRequest
    <2>9. ASSUME NEW d \in Callers, d # c
          PROVE  CallRequest(call[d])'
      <3>1. call'[d] = call[d] /\ CallRequest(call[d])
        BY <2>6, <2>9 DEF RequestInv
      <3>2. call[d].pc = "saveRequest" => call[d].id \in Approvals /\ call[d].id # call[c].id
        BY <2>2, <3>1 DEF RequestInv, TypeInv, CallConsistent, CallRequest, NoApproval
      <3>3. call[d].pc = "saveResolution" => call[d].id \in Approvals
        BY DEF TypeInv, CallConsistent
      <3> QED
        BY <2>4, <2>5, <3>1, <3>2, <3>3 DEF CallRequest, NamesRequest, RequestsKept
    <2>10. WaitingNamesRequest'
      BY <1>9, <2>5 DEF saveResolution, RequestInv, WaitingNamesRequest, NamesRequest, RequestsKept
    <2> HIDE DEF r
    <2> QED
      BY <2>6, <2>7, <2>8, <2>9, <2>10 DEF RequestInv
  <1>10. CASE saveDisclosure(c) \/ saveReview(c)
    BY <1>2, <1>3, <1>10 DEF saveDisclosure, saveReview
  <1>11. CASE countRunEvents(c)
    <2> DEFINE r == [call[c] EXCEPT !.pc = "append",
                                    !.count = Len(events[call[c].session])]
    <2>1. CallRequest(r) /\ r.pc # "saveRequest"
      BY <1>1 DEF CallRequest, Call
    <2>2. Becomes(c, r)
      BY <1>11 DEF countRunEvents
    <2> HIDE DEF r
    <2> QED
      BY <1>2, <1>11, <2>1, <2>2 DEF countRunEvents, stores
  <1>12. CASE readRunEvents(c)
    <2> DEFINE r == [call[c] EXCEPT !.pc = "trailAudits",
                                    !.bundle.runEvents = Len(events[call[c].session])]
    <2>1. CallRequest(r) /\ r.pc # "saveRequest"
      BY <1>1 DEF CallRequest, Call
    <2>2. Becomes(c, r)
      BY <1>12 DEF readRunEvents
    <2> HIDE DEF r
    <2> QED
      BY <1>2, <1>12, <2>1, <2>2 DEF readRunEvents, stores
  <1>13. CASE readAuditEvents(c)
    <2> DEFINE r == [call[c] EXCEPT !.pc = "trailExisting",
                                    !.bundle.auditEvents = Len(audits[call[c].session])]
    <2>1. CallRequest(r) /\ r.pc # "saveRequest"
      BY <1>1 DEF CallRequest, Call
    <2>2. Becomes(c, r)
      BY <1>13 DEF readAuditEvents
    <2> HIDE DEF r
    <2> QED
      BY <1>2, <1>13, <2>1, <2>2 DEF readAuditEvents, stores
  <1>14. CASE readExistingBundle(c)
    <2> DEFINE r == [call[c] EXCEPT !.pc = "saveBundle",
                                    !.existing = IF bundles[call[c].session] = <<>>
                                                   THEN 0 ELSE 1]
    <2>1. CallRequest(r) /\ r.pc # "saveRequest"
      BY <1>1 DEF CallRequest, Call
    <2>2. Becomes(c, r)
      BY <1>14 DEF readExistingBundle
    <2> HIDE DEF r
    <2> QED
      BY <1>2, <1>14, <2>1, <2>2 DEF readExistingBundle, stores
  <1>15. CASE appendRunEvent(c) \/ recordAuditEvent(c) \/ persistEvidenceBundle(c)
    <2>1. AfterEffect(c) /\ UNCHANGED <<approval, session>>
      BY <1>15 DEF appendRunEvent, recordAuditEvent, persistEvidenceBundle
    <2>2. \/ Becomes(c, Idle)
          \/ Becomes(c, Owing(call[c].session, Tail(call[c].todo)))
      BY <2>1 DEF AfterEffect
    <2> QED
      BY <1>2, <1>3, <2>1, <2>2
  <1>16. CASE Reject(c)
    BY <1>2, <1>3, <1>16 DEF Reject, stores
  <1> QED
    BY <1>4, <1>5, <1>6, <1>7, <1>8, <1>9, <1>10, <1>11, <1>12, <1>13,
       <1>14, <1>15, <1>16 DEF Continue

LEMMA RequestInvariant == Spec => []RequestInv
  <1>1. Init => RequestInv
    BY DEF Init, RequestInv, CallRequest, Idle, WaitingNamesRequest, NoSession
  <1>2. TypeInv /\ RequestInv /\ [Next]_vars => RequestInv'
    <2> SUFFICES ASSUME TypeInv, RequestInv, [Next]_vars PROVE RequestInv'
      OBVIOUS
    <2>1. CASE UNCHANGED vars \/ Rest
      BY <2>1 DEF vars, Rest, RequestInv, CallRequest, NamesRequest, WaitingNamesRequest
    <2>2. ASSUME NEW c \in Callers, Start(c) \/ Continue(c) \/ Reject(c) PROVE RequestInv'
      BY <2>2, StartRequest, ContinueRequest
    <2> QED
      BY <2>1, <2>2 DEF Next
  <1> QED
    BY <1>1, <1>2, TypeInvariant, PTL DEF Spec

(* A session that waits for a human names a stored request of its own,     *)
(* whatever the callers do and wherever their handlers are aborted.        *)
THEOREM WaitingSessionsNameTheirRequest == Spec => []WaitingNamesRequest
  <1>1. RequestInv => WaitingNamesRequest
    BY DEF RequestInv
  <1> QED
    BY <1>1, RequestInvariant, PTL

-----------------------------------------------------------------------------
(* Each caller's events keep its order                                     *)

(* Which steps leave their caller about to store an event, a disclosure or *)
(* a review, and which store one.                                          *)
StoresNothing(r) == r.pc \notin {"append", "saveDisclosure", "saveReview"}

LEMMA StepShape ==
  ASSUME TypeInv, NEW c \in Callers, Start(c) \/ Continue(c) \/ Reject(c)
  PROVE  /\ \A d \in Callers \ {c} : call'[d] = call[d]
         /\ call'[c].pc = "append" => countRunEvents(c)
         /\ call'[c].pc = "saveDisclosure" => recordDisclosure(c)
         /\ call'[c].pc = "saveReview" => recordHumanReview(c)
         /\ events' # events => appendRunEvent(c)
         /\ disclosure' # disclosure => saveDisclosure(c)
         /\ review' # review => saveReview(c)
  <1>1. ASSUME NEW r, Becomes(c, r)
        PROVE  call'[c] = r /\ \A d \in Callers \ {c} : call'[d] = call[d]
    BY <1>1 DEF Becomes, TypeInv, TypeOK
  <1>2. /\ StoresNothing(Idle)
        /\ \A s, todo : StoresNothing(Owing(s, todo))
        /\ \A pc : [call[c] EXCEPT !.pc = pc].pc = pc
    BY DEF StoresNothing, Idle, Owing, TypeInv, TypeOK, Call
  <1>3. CASE Start(c)
    <2>1. ASSUME NEW r, Begin(c, r)
          PROVE  /\ call'[c] = r /\ \A d \in Callers \ {c} : call'[d] = call[d]
                 /\ UNCHANGED <<events, disclosure, review>>
      BY <1>1, <2>1 DEF Begin, stores
    <2> DEFINE Silent == /\ StoresNothing(call'[c])
                         /\ \A d \in Callers \ {c} : call'[d] = call[d]
                         /\ UNCHANGED <<events, disclosure, review>>
    <2>2. ASSUME NEW r, Begin(c, r), StoresNothing(r) PROVE Silent
      BY <2>1, <2>2
    <2> HIDE DEF Silent
    <2>3. ASSUME startRunSession(c) PROVE Silent
      BY <2>2, <2>3 DEF startRunSession, Idle, StoresNothing
    <2>4. ASSUME completeRunSession(c) PROVE Silent
      BY <2>2, <2>4 DEF completeRunSession, Idle, StoresNothing
    <2>5. ASSUME requestHumanApproval(c) PROVE Silent
      BY <2>2, <2>5 DEF requestHumanApproval, Idle, StoresNothing
    <2>6. ASSUME resolveApprovalRequest(c) PROVE Silent
      BY <2>2, <2>6 DEF resolveApprovalRequest, Idle, StoresNothing
    <2>7. ASSUME enqueueEvents(c) PROVE Silent
      BY <2>2, <2>7 DEF enqueueEvents, Owing, Idle, StoresNothing
    <2> DEFINE Storing(pc) == /\ call'[c].pc = pc
                              /\ \A d \in Callers \ {c} : call'[d] = call[d]
                              /\ UNCHANGED <<events, disclosure, review>>
    <2>8. ASSUME NEW pc, NEW r, Begin(c, r), r.pc = pc PROVE Storing(pc)
      BY <2>1, <2>8
    <2> HIDE DEF Storing
    <2>9. ASSUME recordDisclosure(c) PROVE Storing("saveDisclosure")
      <3>1. ASSUME NEW r, Begin(c, r), r.pc = "saveDisclosure" PROVE Storing("saveDisclosure")
        BY <2>8, <3>1
      <3> QED
        BY <2>9, <3>1 DEF recordDisclosure, Idle
    <2>10. ASSUME recordHumanReview(c) PROVE Storing("saveReview")
      <3>1. ASSUME NEW r, Begin(c, r), r.pc = "saveReview" PROVE Storing("saveReview")
        BY <2>8, <3>1
      <3> QED
        BY <2>10, <3>1 DEF recordHumanReview, Idle
    <2> QED
      BY <1>3, <2>3, <2>4, <2>5, <2>6, <2>7, <2>9, <2>10 DEF Start, Silent, Storing,
                                                                    StoresNothing
  <1>4. CASE appendRunEvent(c) \/ recordAuditEvent(c) \/ persistEvidenceBundle(c)
    <2>1. \/ Becomes(c, Idle)
          \/ Becomes(c, Owing(call[c].session, Tail(call[c].todo)))
      BY <1>4 DEF appendRunEvent, recordAuditEvent, persistEvidenceBundle, AfterEffect
    <2>2. /\ events' # events => appendRunEvent(c)
          /\ UNCHANGED <<disclosure, review>>
      BY <1>4 DEF appendRunEvent, recordAuditEvent, persistEvidenceBundle
    <2> QED
      BY <1>1, <1>2, <2>1, <2>2 DEF StoresNothing
  <1>5. CASE saveSession(c) \/ saveDisclosure(c) \/ saveReview(c)
    <2>1. Becomes(c, Owing(call[c].session, call[c].todo))
      BY <1>5 DEF saveSession, saveDisclosure, saveReview
    <2>2. /\ UNCHANGED events
          /\ disclosure' # disclosure => saveDisclosure(c)
          /\ review' # review => saveReview(c)
      BY <1>5 DEF saveSession, saveDisclosure, saveReview
    <2> QED
      BY <1>1, <1>2, <2>1, <2>2 DEF StoresNothing
  <1>6. CASE checkDisclosures(c) \/ checkReviews(c) \/ saveRequest(c) \/ saveResolution(c) \/ Reject(c)
    <2>1. /\ \/ Becomes(c, Idle)
             \/ \E pc \in {"reviews", "saveSession", "reread"} :
                  Becomes(c, [call[c] EXCEPT !.pc = pc])
          /\ UNCHANGED <<events, disclosure, review>>
      BY <1>6 DEF checkDisclosures, checkReviews, saveRequest, saveResolution, Reject, stores
    <2> QED
      BY <1>1, <1>2, <2>1 DEF StoresNothing
  <1>7. CASE rereadSession(c) \/ readRunEvents(c)
    <2>1. /\ \A record : [call[c] EXCEPT !.pc = "saveSession", !.record = record].pc
                           = "saveSession"
          /\ \A n : [call[c] EXCEPT !.pc = "trailAudits", !.bundle.runEvents = n].pc
                      = "trailAudits"
      BY DEF TypeInv, TypeOK, Call
    <2>2. \E r : Becomes(c, r) /\ r.pc \in {"saveSession", "trailAudits"}
      <3>1. CASE rereadSession(c)
        BY <2>1, <3>1 DEF rereadSession
      <3>2. CASE readRunEvents(c)
        BY <2>1, <3>2 DEF readRunEvents
      <3> QED
        BY <1>7, <3>1, <3>2
    <2>3. UNCHANGED <<events, disclosure, review>>
      BY <1>7 DEF rereadSession, readRunEvents, stores
    <2> QED
      BY <1>1, <2>2, <2>3
  <1>8. CASE readAuditEvents(c) \/ readExistingBundle(c)
    <2>1. /\ \A n : [call[c] EXCEPT !.pc = "trailExisting", !.bundle.auditEvents = n].pc
                      = "trailExisting"
          /\ \A n : [call[c] EXCEPT !.pc = "saveBundle", !.existing = n].pc = "saveBundle"
      BY DEF TypeInv, TypeOK, Call
    <2> QED
      BY <1>1, <1>8, <2>1 DEF readAuditEvents, readExistingBundle, stores
  <1>9. CASE countRunEvents(c)
    <2>1. \A n : [call[c] EXCEPT !.pc = "append", !.count = n].pc = "append"
      BY DEF TypeInv, TypeOK, Call
    <2> QED
      BY <1>1, <1>9, <2>1 DEF countRunEvents, stores
  <1> QED
    BY <1>3, <1>4, <1>5, <1>6, <1>7, <1>8, <1>9 DEF Continue

(* The events of a session, by place.                                      *)
LEMMA EventsType ==
  ASSUME TypeInv, NEW s \in Sessions
  PROVE  /\ events[s] \in Seq(RunEvent)
         /\ Len(events[s]) \in Nat
         /\ DOMAIN events[s] = 1..Len(events[s])
         /\ \A i \in 1..Len(events[s]) : events[s][i].sequence \in Nat
  <1>1. events[s] \in Seq(RunEvent)
    BY DEF TypeInv, TypeOK
  <1>2. Len(events[s]) \in Nat /\ DOMAIN events[s] = 1..Len(events[s])
    BY <1>1, LenProperties
  <1>3. ASSUME NEW i \in 1..Len(events[s]) PROVE events[s][i].sequence \in Nat
    <2>1. events[s][i] \in RunEvent
      BY <1>1, ElementOfSeq
    <2> QED
      BY <2>1 DEF RunEvent
  <1> QED
    BY <1>1, <1>2, <1>3

LEMMA AppendOrder ==
  ASSUME TypeInv, OrderInv, NEW c \in Callers, appendRunEvent(c),
         \A d \in Callers \ {c} : call'[d] = call[d],
         call'[c].pc # "append"
  PROVE  OrderInv'
  <1> DEFINE s == call[c].session
             e == [type |-> Head(call[c].todo), sequence |-> call[c].count + 1, by |-> c]
  <1>1. /\ s \in Sessions /\ call[c].count \in Nat
        /\ call[c].count <= Len(events[s])
        /\ \A i \in DOMAIN events[s] :
             events[s][i].by = c => events[s][i].sequence <= call[c].count
    BY DEF appendRunEvent, TypeInv, TypeOK, CallConsistent, Call, OrderInv
  <1>2. /\ events[s] \in Seq(RunEvent)
        /\ \A t \in Sessions : /\ Len(events[t]) \in Nat
                               /\ DOMAIN events[t] = 1..Len(events[t])
                               /\ \A i \in 1..Len(events[t]) : events[t][i].sequence \in Nat
    BY <1>1, EventsType
  <1>3. /\ events'[s] = Append(events[s], e)
        /\ \A t \in Sessions \ {s} : events'[t] = events[t]
    BY <1>1 DEF appendRunEvent, TypeInv, TypeOK
  <1> DEFINE n == Len(events[s])
  <1>4. n \in Nat /\ n = Len(events[s]) /\ DOMAIN events[s] = 1..n
    BY <1>1, <1>2
  <1>5. /\ DOMAIN events'[s] = 1..(n + 1)
        /\ Len(events'[s]) = n + 1
        /\ \A i \in 1..n : events'[s][i] = events[s][i]
        /\ events'[s][n + 1].sequence = call[c].count + 1
        /\ events'[s][n + 1].by = c
    BY <1>1, <1>2, <1>3, <1>4, AppendProperties
  <1>6. \A i \in 1..n : events[s][i].sequence \in Nat
    BY <1>1, <1>2
  <1> HIDE DEF n, e, s
  <1>7. ASSUME NEW t \in Sessions, NEW i \in DOMAIN events'[t]
        PROVE  events'[t][i].sequence <= i
    <2>1. CASE t # s
      BY <1>3, <2>1 DEF OrderInv
    <2>2. CASE t = s /\ i # n + 1
      <3>1. i \in 1..n
        BY <1>4, <1>5, <2>2
      <3> QED
        BY <1>1, <1>4, <1>5, <2>2, <3>1 DEF OrderInv
    <2>3. CASE t = s /\ i = n + 1
      BY <1>1, <1>4, <1>5, <2>3
    <2> QED
      BY <2>1, <2>2, <2>3
  <1>8. ASSUME NEW d \in Callers, call'[d].pc = "append"
        PROVE  /\ call'[d].count <= Len(events'[call'[d].session])
               /\ \A i \in DOMAIN events'[call'[d].session] :
                    events'[call'[d].session][i].by = d =>
                      events'[call'[d].session][i].sequence <= call'[d].count
    <2>1. d # c /\ call'[d] = call[d]
      BY <1>8
    <2>2. call[d].session \in Sessions /\ call[d].count \in Nat
      BY <1>8, <2>1 DEF TypeInv, TypeOK, CallConsistent, Call
    <2>3. /\ call[d].count <= Len(events[call[d].session])
          /\ \A i \in DOMAIN events[call[d].session] :
               events[call[d].session][i].by = d =>
                 events[call[d].session][i].sequence <= call[d].count
      BY <1>8, <2>1 DEF OrderInv
    <2>4. CASE call[d].session # s
      <3>1. events'[call[d].session] = events[call[d].session]
        BY <1>3, <2>2, <2>4
      <3> QED
        BY <2>1, <2>3, <3>1
    <2>5. CASE call[d].session = s
      <3>1. /\ call[d].count <= n
            /\ \A i \in 1..n : events[s][i].by = d => events[s][i].sequence <= call[d].count
        BY <1>4, <2>3, <2>5
      <3>2. call[d].count <= n + 1
        BY <1>4, <2>2, <3>1
      <3>3. \A i \in 1..(n + 1) : events'[s][i].by = d => events'[s][i].sequence <= call[d].count
        BY <1>4, <1>5, <2>1, <3>1
      <3> QED
        BY <1>5, <2>1, <2>5, <3>2, <3>3
    <2> QED
      BY <2>4, <2>5
  <1>9. ProducerOrder'
    <2> SUFFICES ASSUME NEW t \in Sessions, NEW i \in DOMAIN events'[t],
                        NEW j \in DOMAIN events'[t],
                        i < j, events'[t][i].by = events'[t][j].by
                 PROVE  events'[t][i].sequence < events'[t][j].sequence
      BY DEF ProducerOrder
    <2>1. CASE t # s
      BY <1>3, <2>1 DEF OrderInv, ProducerOrder
    <2>2. CASE t = s /\ j # n + 1
      <3>1. i \in 1..n /\ j \in 1..n
        BY <1>4, <1>5, <2>2
      <3>2. events'[s][i] = events[s][i] /\ events'[s][j] = events[s][j]
        BY <1>5, <3>1
      <3> QED
        BY <1>1, <1>4, <2>2, <3>1, <3>2 DEF OrderInv, ProducerOrder
    <2>3. CASE t = s /\ j = n + 1
      <3>1. i \in 1..n
        BY <1>4, <1>5, <2>3
      <3>2. events'[s][i] = events[s][i] /\ events[s][i].by = c
        BY <1>5, <2>3, <3>1
      <3>3. events[s][i].sequence <= call[c].count /\ events[s][i].sequence \in Nat
        BY <1>1, <1>4, <1>6, <3>1, <3>2
      <3> QED
        BY <1>1, <1>5, <2>3, <3>2, <3>3
    <2> QED
      BY <2>1, <2>2, <2>3
  <1> QED
    BY <1>7, <1>8, <1>9 DEF OrderInv

LEMMA CountOrder ==
  ASSUME TypeInv, OrderInv, NEW c \in Callers, countRunEvents(c)
  PROVE  OrderInv'
  <1> DEFINE s == call[c].session
  <1>1. s \in Sessions /\ call[c] \in Call
    BY DEF countRunEvents, TypeInv, TypeOK, CallConsistent
  <1>2. /\ UNCHANGED events
        /\ \A d \in Callers : call'[d] =
             IF d = c THEN [call[c] EXCEPT !.pc = "append", !.count = Len(events[s])]
                      ELSE call[d]
    BY DEF countRunEvents, stores, Becomes, TypeInv, TypeOK
  <1>3. call'[c].session = s /\ call'[c].count = Len(events[s])
    BY <1>1, <1>2 DEF Call
  <1>4. /\ Len(events[s]) \in Nat
        /\ DOMAIN events[s] = 1..Len(events[s])
        /\ \A i \in DOMAIN events[s] : events[s][i].sequence \in Nat
    BY <1>1, EventsType
  <1>5. \A i \in DOMAIN events[s] : events[s][i].sequence <= Len(events[s])
    BY <1>1, <1>4 DEF OrderInv
  <1>6. ASSUME NEW d \in Callers, call'[d].pc = "append"
        PROVE  /\ call'[d].count <= Len(events[call'[d].session])
               /\ \A i \in DOMAIN events[call'[d].session] :
                    events[call'[d].session][i].by = d =>
                      events[call'[d].session][i].sequence <= call'[d].count
    <2>1. CASE d = c
      BY <1>3, <1>4, <1>5, <2>1
    <2>2. CASE d # c
      BY <1>2, <1>6, <2>2 DEF OrderInv
    <2> QED
      BY <2>1, <2>2
  <1>7. ProducerOrder'
    BY <1>2 DEF OrderInv, ProducerOrder
  <1> QED
    BY <1>2, <1>6, <1>7 DEF OrderInv

(* The events one caller causes in a session have sequence numbers in the  *)
(* order it causes them, whatever the others append in between.            *)
THEOREM EventsKeepProducerOrder == Spec => []ProducerOrder
  <1>1. Init => OrderInv
    BY DEF Init, OrderInv, ProducerOrder, Idle
  <1>2. TypeInv /\ OrderInv /\ [Next]_vars => OrderInv'
    <2> SUFFICES ASSUME TypeInv, OrderInv, [Next]_vars PROVE OrderInv'
      OBVIOUS
    <2>1. CASE UNCHANGED vars \/ Rest
      BY <2>1 DEF vars, Rest, OrderInv, ProducerOrder
    <2>2. ASSUME NEW c \in Callers, Start(c) \/ Continue(c) \/ Reject(c) PROVE OrderInv'
      <3>1. CASE countRunEvents(c)
        BY <3>1, CountOrder
      <3>2. CASE appendRunEvent(c)
        <4>1. ~countRunEvents(c)
          BY <3>2 DEF appendRunEvent, countRunEvents
        <4> QED
          BY <2>2, <3>2, <4>1, StepShape, AppendOrder
      <3>3. CASE ~countRunEvents(c) /\ ~appendRunEvent(c)
        BY <2>2, <3>3, StepShape DEF OrderInv, ProducerOrder
      <3> QED
        BY <3>1, <3>2, <3>3
    <2> QED
      BY <2>1, <2>2 DEF Next
  <1>3. OrderInv => ProducerOrder
    BY DEF OrderInv
  <1> QED
    BY <1>1, <1>2, <1>3, TypeInvariant, PTL DEF Spec

-----------------------------------------------------------------------------
(* The completion gate, when no client repeats an input.id                 *)

(* A stored disclosure or review stays what it is.                         *)
EvidenceKept ==
  /\ \A d \in Disclosures : disclosure[d] # NoEvidence => disclosure'[d] = disclosure[d]
  /\ \A v \in Reviews : review[v] # NoEvidence => review'[v] = review[v]

LEMMA StepKeepsEvidence ==
  ASSUME TypeInv, EvidenceInv, NEW c \in Callers, Start(c) \/ Continue(c) \/ Reject(c)
  PROVE  EvidenceKept
  <1>1. CASE saveDisclosure(c)
    <2>1. /\ disclosure[call[c].id] = NoEvidence
          /\ \A d \in Disclosures : d # call[c].id => disclosure'[d] = disclosure[d]
      BY <1>1 DEF saveDisclosure, EvidenceInv, TypeInv, TypeOK
    <2> QED
      BY <1>1, <2>1 DEF saveDisclosure, EvidenceKept
  <1>2. CASE saveReview(c)
    <2>1. /\ review[call[c].id] = NoEvidence
          /\ \A v \in Reviews : v # call[c].id => review'[v] = review[v]
      BY <1>2 DEF saveReview, EvidenceInv, TypeInv, TypeOK
    <2> QED
      BY <1>2, <2>1 DEF saveReview, EvidenceKept
  <1>3. CASE ~saveDisclosure(c) /\ ~saveReview(c)
    BY <1>3, StepShape DEF EvidenceKept
  <1> QED
    BY <1>1, <1>2, <1>3

(* The id of a record that a caller starts to make is free.                *)
LEMMA FreshEvidence ==
  ASSUME ~ReuseIds, TypeInv, NEW c \in Callers
  PROVE  /\ recordDisclosure(c) =>
              /\ disclosure[call'[c].id] = NoEvidence /\ Unclaimed(call'[c].id)
              /\ UNCHANGED <<disclosure, review>>
         /\ recordHumanReview(c) =>
              /\ review[call'[c].id] = NoEvidence /\ Unclaimed(call'[c].id)
              /\ UNCHANGED <<disclosure, review>>
  <1>1. ASSUME NEW r, Begin(c, r)
        PROVE  call'[c] = r /\ UNCHANGED <<disclosure, review>>
    BY <1>1 DEF Begin, Becomes, stores, TypeInv, TypeOK
  <1>2. ASSUME recordDisclosure(c)
        PROVE  /\ disclosure[call'[c].id] = NoEvidence /\ Unclaimed(call'[c].id)
               /\ UNCHANGED <<disclosure, review>>
    <2> DEFINE r(s, x, acknowledged) ==
                 [Idle EXCEPT !.pc = "saveDisclosure", !.session = s,
                 !.id = x, !.outcome = acknowledged,
                 !.todo = DisclosureEffects(acknowledged)]
    <2>1. PICK s \in Sessions, x \in Disclosures, acknowledged \in BOOLEAN :
            /\ disclosure[x] = NoEvidence /\ Unclaimed(x)
            /\ Begin(c, r(s, x, acknowledged))
      BY <1>2, Zenon DEF recordDisclosure
    <2>2. r(s, x, acknowledged).id = x
      BY DEF Idle
    <2> HIDE DEF r
    <2>3. call'[c].id = x /\ UNCHANGED <<disclosure, review>>
      BY <1>1, <2>1, <2>2
    <2> QED
      BY <2>1, <2>3
  <1>3. ASSUME recordHumanReview(c)
        PROVE  /\ review[call'[c].id] = NoEvidence /\ Unclaimed(call'[c].id)
               /\ UNCHANGED <<disclosure, review>>
    <2> DEFINE r(s, x, approved) ==
                 [Idle EXCEPT !.pc = "saveReview", !.session = s,
                 !.id = x, !.outcome = approved,
                 !.todo = <<"human_review_completed",
                 "human_review.recorded">>]
    <2>1. PICK s \in Sessions, x \in Reviews, approved \in BOOLEAN :
            /\ review[x] = NoEvidence /\ Unclaimed(x)
            /\ Begin(c, r(s, x, approved))
      BY <1>3, Zenon DEF recordHumanReview
    <2>2. r(s, x, approved).id = x
      BY DEF Idle
    <2> HIDE DEF r
    <2>3. call'[c].id = x /\ UNCHANGED <<disclosure, review>>
      BY <1>1, <2>1, <2>2
    <2> QED
      BY <2>1, <2>3
  <1> QED
    BY <1>2, <1>3

LEMMA StepEvidence ==
  ASSUME ~ReuseIds, TypeInv, EvidenceInv,
         NEW c \in Callers, Start(c) \/ Continue(c) \/ Reject(c)
  PROVE  EvidenceInv'
  <1>1. ASSUME NEW d \in Callers, call'[d].pc = "saveDisclosure"
        PROVE  /\ disclosure'[call'[d].id] = NoEvidence
               /\ \A e \in Callers \ {d} :
                    call'[e].pc = "saveDisclosure" => call'[e].id # call'[d].id
    <2>1. CASE d = c
      BY <1>1, <2>1, StepShape, FreshEvidence DEF Unclaimed
    <2>2. CASE d # c
      <3>1. /\ call'[d] = call[d] /\ call[d].id \in Disclosures
            /\ disclosure[call[d].id] = NoEvidence
            /\ \A e \in Callers \ {d} :
                 call[e].pc = "saveDisclosure" => call[e].id # call[d].id
        BY <1>1, <2>2, StepShape DEF EvidenceInv, TypeInv, CallConsistent
      <3>2. disclosure'[call[d].id] = NoEvidence
        <4>1. CASE saveDisclosure(c)
          BY <2>2, <3>1, <4>1 DEF saveDisclosure, TypeInv, TypeOK
        <4>2. CASE ~saveDisclosure(c)
          BY <3>1, <4>2, StepShape
        <4> QED
          BY <4>1, <4>2
      <3>3. call'[c].pc = "saveDisclosure" => call'[c].id # call[d].id
        BY StepShape, FreshEvidence DEF Unclaimed
      <3> QED
        BY <3>1, <3>2, <3>3, StepShape
    <2> QED
      BY <2>1, <2>2
  <1>2. ASSUME NEW d \in Callers, call'[d].pc = "saveReview"
        PROVE  /\ review'[call'[d].id] = NoEvidence
               /\ \A e \in Callers \ {d} :
                    call'[e].pc = "saveReview" => call'[e].id # call'[d].id
    <2>1. CASE d = c
      BY <1>2, <2>1, StepShape, FreshEvidence DEF Unclaimed
    <2>2. CASE d # c
      <3>1. /\ call'[d] = call[d] /\ call[d].id \in Reviews
            /\ review[call[d].id] = NoEvidence
            /\ \A e \in Callers \ {d} :
                 call[e].pc = "saveReview" => call[e].id # call[d].id
        BY <1>2, <2>2, StepShape DEF EvidenceInv, TypeInv, CallConsistent
      <3>2. review'[call[d].id] = NoEvidence
        <4>1. CASE saveReview(c)
          BY <2>2, <3>1, <4>1 DEF saveReview, TypeInv, TypeOK
        <4>2. CASE ~saveReview(c)
          BY <3>1, <4>2, StepShape
        <4> QED
          BY <4>1, <4>2
      <3>3. call'[c].pc = "saveReview" => call'[c].id # call[d].id
        BY StepShape, FreshEvidence DEF Unclaimed
      <3> QED
        BY <3>1, <3>2, <3>3, StepShape
    <2> QED
      BY <2>1, <2>2
  <1> QED
    BY <1>1, <1>2 DEF EvidenceInv

(* What the gate has found stays found.                                    *)
LEMMA MetKept ==
  ASSUME EvidenceKept, NEW s \in Sessions, NEW p \in ComplianceProfile
  PROVE  /\ DisclosureMet(s, p) => DisclosureMet(s, p)'
         /\ ReviewsMet(s, p) => ReviewsMet(s, p)'
  <1>1. s # NoId
    BY RunSessionsAssumption
  <1>2. \A o \in BOOLEAN : [session |-> s, outcome |-> o] # NoEvidence
    BY <1>1 DEF NoEvidence
  <1>3. DisclosureMet(s, p) => DisclosureMet(s, p)'
    <2>1. \A d \in Disclosures : disclosure[d].session = s => disclosure'[d] = disclosure[d]
      BY <1>1 DEF EvidenceKept, NoEvidence
    <2>2. \A d \in Disclosures : disclosure[d] = [session |-> s, outcome |-> TRUE] =>
            disclosure'[d] = disclosure[d]
      BY <1>2 DEF EvidenceKept
    <2> QED
      BY <2>1, <2>2 DEF DisclosureMet
  <1>4. ReviewsMet(s, p) => ReviewsMet(s, p)'
    <2> DEFINE approved == {v \in Reviews : review[v] = [session |-> s, outcome |-> TRUE]}
               later == {v \in Reviews : review'[v] = [session |-> s, outcome |-> TRUE]}
    <2>1. approved \subseteq later
      BY <1>2 DEF EvidenceKept
    <2>2. IsFiniteSet(later)
      BY RunSessionsAssumption, FS_Subset
    <2>3. Cardinality(approved) <= Cardinality(later)
      BY <2>1, <2>2, FS_Subset
    <2>4. /\ Cardinality(approved) \in Nat
          /\ Cardinality(later) \in Nat
          /\ p.reviewers \in Nat
      BY <2>1, <2>2, FS_Subset, FS_CardinalityType DEF ComplianceProfile
    <2> HIDE DEF approved, later
    <2>5. p.reviewers <= Cardinality(approved) => p.reviewers <= Cardinality(later)
      BY <2>3, <2>4
    <2> QED
      BY <2>5 DEF ReviewsMet, approved, later
  <1> QED
    BY <1>3, <1>4

(* The caller whose step it is knows what CallGate says of its place.      *)
LEMMA StepGate ==
  ASSUME TypeInv, GateInv, NEW c \in Callers, Start(c) \/ Continue(c) \/ Reject(c)
  PROVE  CallGate(call'[c])
  <1>1. ASSUME NEW r, Becomes(c, r) PROVE call'[c] = r
    BY <1>1 DEF Becomes, TypeInv, TypeOK
  <1>2. ASSUME NEW r, Becomes(c, r), r.pc \notin {"reviews", "saveSession", "saveRequest"}
        PROVE  CallGate(call'[c])
    BY <1>1, <1>2 DEF CallGate
  <1>3. ASSUME NEW r, Becomes(c, r), r.record.status # "completed"
        PROVE  CallGate(call'[c])
    BY <1>1, <1>3 DEF CallGate
  <1>4. call[c] \in Call /\ CallGate(call[c])
    BY DEF GateInv, TypeInv, TypeOK
  <1>5. CASE Start(c)
    <2>1. ASSUME NEW r, Begin(c, r), r.pc \notin {"reviews", "saveSession", "saveRequest"}
          PROVE  CallGate(call'[c])
      BY <1>2, <2>1 DEF Begin
    <2>2. ASSUME NEW r, Begin(c, r), r.record.status # "completed"
          PROVE  CallGate(call'[c])
      BY <1>3, <2>2 DEF Begin
    <2>3. CASE startRunSession(c)
      BY <2>2, <2>3 DEF startRunSession, Idle, StartedSession
    <2>4. CASE completeRunSession(c)
      BY <2>1, <2>4 DEF completeRunSession, Idle
    <2>5. CASE requestHumanApproval(c)
      <3> DEFINE rec(s, a) == [Touched(s, "waiting-human") EXCEPT !.currentApproval = a]
      <3>1. \A s \in Sessions, a \in Approvals : rec(s, a).status # "completed"
        BY TouchedType DEF RunSession
      <3> HIDE DEF rec
      <3>2. PICK s \in Sessions, a \in Approvals :
              Begin(c, [Idle EXCEPT !.pc = "saveRequest", !.session = s, !.id = a,
                                    !.record = rec(s, a),
                                    !.todo = <<"approval_requested", "approval.requested">>])
        BY <2>5, Zenon DEF requestHumanApproval, rec
      <3> QED
        BY <2>2, <3>1, <3>2 DEF Idle
    <2>6. CASE resolveApprovalRequest(c)
      BY <2>1, <2>6 DEF resolveApprovalRequest, Idle
    <2>7. CASE recordDisclosure(c)
      BY <2>1, <2>7 DEF recordDisclosure, Idle
    <2>8. CASE recordHumanReview(c)
      BY <2>1, <2>8 DEF recordHumanReview, Idle
    <2>9. CASE enqueueEvents(c)
      BY <2>1, <2>9 DEF enqueueEvents, Owing, Idle
    <2> QED
      BY <1>5, <2>3, <2>4, <2>5, <2>6, <2>7, <2>8, <2>9 DEF Start
  <1>6. CASE saveSession(c) \/ saveDisclosure(c) \/ saveReview(c)
          \/ appendRunEvent(c) \/ recordAuditEvent(c) \/ persistEvidenceBundle(c)
          \/ Reject(c)
    <2>1. \/ Becomes(c, Idle)
          \/ \E todo : Becomes(c, Owing(call[c].session, todo))
      BY <1>6 DEF saveSession, saveDisclosure, saveReview, appendRunEvent,
                  recordAuditEvent, persistEvidenceBundle, Reject, AfterEffect
    <2> QED
      BY <1>2, <2>1, Zenon DEF Owing, Idle
  <1>7. CASE checkDisclosures(c)
    <2> DEFINE r == [call[c] EXCEPT !.pc = "reviews"]
    <2>1. /\ r.pc = "reviews" /\ r.record = call[c].record /\ r.session = call[c].session
      BY <1>4 DEF Call
    <2> HIDE DEF r
    <2>2. Becomes(c, Idle) \/ (Becomes(c, r) /\ DisclosureMet(r.session, r.record.profile))
      BY <1>7, <2>1 DEF checkDisclosures, r
    <2>3. DisclosureMet(r.session, r.record.profile) => CallGate(r)
      BY <2>1 DEF CallGate
    <2>4. Idle.pc = "idle"
      BY DEF Idle
    <2> QED
      BY <1>1, <1>2, <2>2, <2>3, <2>4
  <1>8. CASE checkReviews(c)
    <2> DEFINE r == [call[c] EXCEPT !.pc = "saveSession"]
    <2>1. /\ r.pc = "saveSession" /\ r.record = call[c].record /\ r.session = call[c].session
      BY <1>4 DEF Call
    <2> HIDE DEF r
    <2>2. Becomes(c, Idle) \/ (Becomes(c, r) /\ ReviewsMet(r.session, r.record.profile))
      BY <1>8, <2>1 DEF checkReviews, r
    <2>3. ReviewsMet(r.session, r.record.profile) => CallGate(r)
      BY <1>4, <1>8, <2>1 DEF CallGate, checkReviews
    <2>4. Idle.pc = "idle"
      BY DEF Idle
    <2> QED
      BY <1>1, <1>2, <2>2, <2>3, <2>4
  <1>9. CASE saveRequest(c)
    <2>1. [call[c] EXCEPT !.pc = "saveSession"].record.status # "completed"
      BY <1>4, <1>9 DEF saveRequest, Call, CallGate
    <2> QED
      BY <1>3, <1>9, <2>1 DEF saveRequest
  <1>10. CASE saveResolution(c)
    <2>1. [call[c] EXCEPT !.pc = "reread"].pc = "reread"
      BY <1>4 DEF Call
    <2> QED
      BY <1>2, <1>10, <2>1 DEF saveResolution
  <1>11. CASE rereadSession(c)
    <2> DEFINE status == IF call[c].outcome THEN "running" ELSE "failed"
               record == Touched(call[c].session, status)
               r == [call[c] EXCEPT !.pc = "saveSession", !.record = record]
    <2>1. record.status # "completed"
      BY <1>11, TouchedType DEF rereadSession, TypeInv, CallConsistent
    <2>2. Becomes(c, r)
      BY <1>11 DEF rereadSession
    <2> HIDE DEF record
    <2>3. r.record = record
      BY <1>4 DEF Call
    <2> HIDE DEF r
    <2> QED
      BY <1>3, <2>1, <2>2, <2>3
  <1>12. CASE countRunEvents(c) \/ readRunEvents(c)
    <2>1. /\ \A n : [call[c] EXCEPT !.pc = "append", !.count = n].pc = "append"
          /\ \A n : [call[c] EXCEPT !.pc = "trailAudits", !.bundle.runEvents = n].pc
                      = "trailAudits"
      BY <1>4 DEF Call
    <2> QED
      BY <1>2, <1>12, <2>1 DEF countRunEvents, readRunEvents
  <1>13. CASE readAuditEvents(c) \/ readExistingBundle(c)
    <2>1. /\ \A n : [call[c] EXCEPT !.pc = "trailExisting", !.bundle.auditEvents = n].pc
                      = "trailExisting"
          /\ \A n : [call[c] EXCEPT !.pc = "saveBundle", !.existing = n].pc = "saveBundle"
      BY <1>4 DEF Call
    <2> QED
      BY <1>2, <1>13, <2>1 DEF readAuditEvents, readExistingBundle
  <1> QED
    BY <1>5, <1>6, <1>7, <1>8, <1>9, <1>10, <1>11, <1>12, <1>13 DEF Continue

(* Only saveSession changes a session, and only the one its call names.    *)
LEMMA SessionShape ==
  ASSUME TypeInv, NEW c \in Callers, Start(c) \/ Continue(c) \/ Reject(c),
         NEW s \in Sessions, session'[s] # session[s]
  PROVE  /\ saveSession(c) /\ s = call[c].session
         /\ session'[s] = call[c].record
  <1>1. saveSession(c)
    <2>1. CASE Start(c)
      <3>1. \A r : Begin(c, r) => UNCHANGED session
        BY DEF Begin, stores
      <3> QED
        BY <2>1, <3>1, Zenon DEF Start, startRunSession, completeRunSession, requestHumanApproval,
              resolveApprovalRequest, recordDisclosure, recordHumanReview, enqueueEvents
    <2>2. CASE Continue(c) \/ Reject(c)
      BY <2>2, Zenon DEF Continue, Reject, stores, checkDisclosures, checkReviews, saveRequest,
              saveResolution, rereadSession, saveDisclosure, saveReview, countRunEvents,
              appendRunEvent, recordAuditEvent, readRunEvents, readAuditEvents,
              readExistingBundle, persistEvidenceBundle
    <2> QED
      BY <2>1, <2>2
  <1> QED
    BY <1>1 DEF saveSession, TypeInv, TypeOK

LEMMA GateStep ==
  ASSUME TypeInv, TypeInv', GateInv, EvidenceKept,
         NEW c \in Callers, Start(c) \/ Continue(c) \/ Reject(c)
  PROVE  GateInv'
  <1>1. ASSUME NEW d \in Callers PROVE CallGate(call[d])'
    <2>1. CallGate(call'[d])
      BY StepGate, StepShape DEF GateInv
    <2>2. CASE call'[d].pc \notin {"reviews", "saveSession"}
      BY <2>1, <2>2 DEF CallGate
    <2>3. CASE call'[d].pc \in {"reviews", "saveSession"}
      <3>1. call'[d].session \in Sessions /\ call'[d].record.profile \in ComplianceProfile
        BY <2>3 DEF TypeInv, TypeOK, CallConsistent, Call, RunSession
      <3>2. PICK s \in Sessions, p \in ComplianceProfile :
              s = call'[d].session /\ p = call'[d].record.profile
        BY <3>1
      <3>3. /\ DisclosureMet(s, p) => DisclosureMet(s, p)'
            /\ ReviewsMet(s, p) => ReviewsMet(s, p)'
        BY MetKept
      <3>4. call'[d].record.status = "completed" =>
              /\ call'[d].pc # "saveRequest"
              /\ DisclosureMet(s, p)'
              /\ call'[d].pc = "saveSession" => ReviewsMet(s, p)'
        BY <2>1, <2>3, <3>2, <3>3 DEF CallGate
      <3> QED
        BY <3>2, <3>4 DEF CallGate, DisclosureMet, ReviewsMet
    <2> QED
      BY <2>2, <2>3
  <1>2. ASSUME NEW s \in Sessions, session'[s].status = "completed"
        PROVE  /\ DisclosureMet(s, session[s].profile)'
               /\ ReviewsMet(s, session[s].profile)'
    <2>1. session'[s].profile \in ComplianceProfile
      BY DEF TypeInv, TypeOK, RunSession
    <2> DEFINE p == session'[s].profile
    <2>2. DisclosureMet(s, p) /\ ReviewsMet(s, p)
      <3>1. CASE session'[s] = session[s]
        BY <1>2, <3>1 DEF GateInv, CompletionGate
      <3>2. CASE session'[s] # session[s]
        BY <1>2, <3>2, SessionShape DEF GateInv, CallGate, saveSession
      <3> QED
        BY <3>1, <3>2
    <2> QED
      BY <2>1, <2>2, MetKept
  <1> QED
    BY <1>1, <1>2 DEF GateInv, CompletionGate

(* A session is completed only with what its profile requires, however the *)
(* gate's reads, the save and the other callers' saves interleave, as long *)
(* as no client repeats an input.id and so replaces what the gate has seen.*)
THEOREM CompletionIsGated ==
  ASSUME ~ReuseIds
  PROVE  Spec => []CompletionGate
  <1>1. Init => EvidenceInv /\ GateInv
    BY DEF Init, EvidenceInv, GateInv, CallGate, CompletionGate, Idle, NoSession
  <1>2. TypeInv /\ TypeInv' /\ EvidenceInv /\ GateInv /\ [Next]_vars
          => EvidenceInv' /\ GateInv'
    <2> SUFFICES ASSUME TypeInv, TypeInv', EvidenceInv, GateInv, [Next]_vars
                 PROVE  EvidenceInv' /\ GateInv'
      OBVIOUS
    <2>1. CASE UNCHANGED vars \/ Rest
      <3>1. UNCHANGED vars
        BY <2>1 DEF Rest
      <3>2. EvidenceInv'
        BY <3>1 DEF vars, EvidenceInv
      <3>3. GateInv'
        BY <3>1 DEF vars, GateInv, CallGate, CompletionGate, DisclosureMet, ReviewsMet
      <3> QED
        BY <3>2, <3>3
    <2>2. ASSUME NEW c \in Callers, Start(c) \/ Continue(c) \/ Reject(c)
          PROVE  EvidenceInv' /\ GateInv'
      BY <2>2, StepKeepsEvidence, StepEvidence, GateStep
    <2> QED
      BY <2>1, <2>2 DEF Next
  <1>3. GateInv => CompletionGate
    BY DEF GateInv
  <1> QED
    BY <1>1, <1>2, <1>3, TypeInvariant, PTL DEF Spec

-----------------------------------------------------------------------------
(* The profile a session was started under, when no client repeats an id   *)

LEMMA TouchedFields ==
  ASSUME TypeInv, NEW s \in Sessions, NEW status
  PROVE  /\ Touched(s, status).status = status
         /\ Touched(s, status).revision = session[s].revision + 1
         /\ Touched(s, status).profile = session[s].profile
  BY Zenon DEF Touched, TypeInv, TypeOK, RunSession

(* A session stays there and keeps its profile; the one that changes is    *)
(* the one its caller's call is about.                                     *)
LEMMA SessionsKept ==
  ASSUME TypeInv, SnapshotInv, NEW c \in Callers, Start(c) \/ Continue(c) \/ Reject(c)
  PROVE  \A s \in Sessions :
           /\ Exists(s) => Exists(s)' /\ session'[s].profile = session[s].profile
           /\ session'[s] # session[s] => s = call[c].session /\ Exists(s)'
  <1> SUFFICES ASSUME NEW s \in Sessions, session'[s] # session[s]
               PROVE  /\ s = call[c].session /\ Exists(s)'
                      /\ Exists(s) => session'[s].profile = session[s].profile
    BY DEF Exists
  <1>1. saveSession(c) /\ s = call[c].session /\ session'[s] = call[c].record
    BY SessionShape
  <1> QED
    BY <1>1 DEF SnapshotInv, CallSnapshot, saveSession, Exists

(* A caller that starts a call is about a session that is there, or starts *)
(* one that no other call is about.                                        *)
LEMMA StartSnapshot ==
  ASSUME ~ReuseIds, TypeInv, SnapshotInv, NEW c \in Callers, Start(c)
  PROVE  /\ CallSnapshot(call'[c])
         /\ Exists(call'[c].session) \/ \A d \in Callers : call[d].session # call'[c].session
  <1> DEFINE Fits == /\ CallSnapshot(call'[c])
                     /\ \/ Exists(call'[c].session)
                        \/ \A d \in Callers : call[d].session # call'[c].session
  <1>1. ASSUME NEW r, Begin(c, r) PROVE call'[c] = r
    BY <1>1 DEF Begin, Becomes, TypeInv, TypeOK
  <1>2. ASSUME NEW r, NEW s \in Sessions, Begin(c, r), Exists(s), r.session = s,
               r.pc \notin {"disclosures", "reviews", "saveRequest", "saveSession"}
        PROVE  Fits
    BY <1>1, <1>2 DEF CallSnapshot
  <1>3. ASSUME NEW r, NEW s \in Sessions, Begin(c, r), Exists(s), r.session = s,
               r.record.status # "none", r.record.profile = session[s].profile
        PROVE  Fits
    BY <1>1, <1>3 DEF CallSnapshot
  <1>4. ASSUME NEW r, NEW s \in Sessions, Begin(c, r), r.session = s,
               ~Exists(s), \A d \in Callers : call[d].session # s,
               r.pc = "saveSession", r.record.status # "none"
        PROVE  Fits
    BY <1>1, <1>4 DEF CallSnapshot
  <1> SUFFICES Fits
    OBVIOUS
  <1> HIDE DEF Fits
  <1>5. CASE startRunSession(c)
    BY <1>4, <1>5 DEF startRunSession, Idle, StartedSession
  <1>6. CASE completeRunSession(c)
    <2> DEFINE r(s, status) ==
                 [Idle EXCEPT !.pc = "disclosures", !.session = s,
                 !.record = Touched(s, status),
                 !.todo = CompletionEffects(status)]
    <2>1. PICK s \in Sessions, status \in Terminal : Exists(s) /\ Begin(c, r(s, status))
      BY <1>6, Zenon DEF completeRunSession, CanComplete
    <2>2. r(s, status).session = s /\ r(s, status).record = Touched(s, status)
      BY DEF Idle
    <2> HIDE DEF r
    <2> QED
      BY <1>3, <2>1, <2>2, TouchedFields DEF Terminal
  <1>7. CASE requestHumanApproval(c)
    <2> DEFINE rec(s, a) == [Touched(s, "waiting-human") EXCEPT !.currentApproval = a]
               r(s, a) == [Idle EXCEPT !.pc = "saveRequest", !.session = s, !.id = a,
                                       !.record = rec(s, a),
                                       !.todo = <<"approval_requested", "approval.requested">>]
    <2>1. PICK s \in Sessions, a \in Approvals : Exists(s) /\ Begin(c, r(s, a))
      BY <1>7, Zenon DEF requestHumanApproval, CanRequestApproval, Exists
    <2>2. rec(s, a).status = "waiting-human" /\ rec(s, a).profile = session[s].profile
      BY TouchedFields, TouchedType DEF RunSession
    <2> HIDE DEF rec
    <2>3. r(s, a).session = s /\ r(s, a).record = rec(s, a)
      BY DEF Idle
    <2> HIDE DEF r
    <2> QED
      BY <1>3, <2>1, <2>2, <2>3
  <1>8. CASE recordDisclosure(c)
    BY <1>2, <1>8 DEF recordDisclosure, Idle
  <1>9. CASE recordHumanReview(c)
    BY <1>2, <1>9 DEF recordHumanReview, Idle
  <1>10. CASE enqueueEvents(c)
    BY <1>2, <1>10 DEF enqueueEvents, Owing, Idle
  <1>11. CASE resolveApprovalRequest(c)
    <2>1. \A a \in Approvals : CanResolve(a) =>
            approval[a].session \in Sessions /\ Exists(approval[a].session)
      BY DEF CanResolve, SnapshotInv, TypeInv
    <2> QED
      BY <1>2, <1>11, <2>1 DEF resolveApprovalRequest, Idle
  <1> QED
    BY <1>5, <1>6, <1>7, <1>8, <1>9, <1>10, <1>11 DEF Start

(* A call that goes on stays about its session.                            *)
LEMMA ContinueSnapshot ==
  ASSUME TypeInv, SnapshotInv, NEW c \in Callers, Continue(c) \/ Reject(c), ~saveSession(c)
  PROVE  /\ CallSnapshot(call'[c])
         /\ \/ call'[c] = Idle
            \/ call'[c].session = call[c].session /\ call[c].pc # "idle"
  <1> DEFINE Fits == /\ CallSnapshot(call'[c])
                     /\ \/ call'[c] = Idle
                        \/ call'[c].session = call[c].session /\ call[c].pc # "idle"
             s == call[c].session
  <1>1. ASSUME NEW r, Becomes(c, r) PROVE call'[c] = r
    BY <1>1 DEF Becomes, TypeInv, TypeOK
  <1>2. Becomes(c, Idle) => Fits
    BY <1>1 DEF CallSnapshot, Idle
  <1>3. call[c] \in Call
    BY DEF TypeInv, TypeOK
  <1>4. call[c].pc \notin {"idle", "saveSession"} => Exists(s) /\ s \in Sessions
    BY DEF SnapshotInv, CallSnapshot, TypeInv, CallConsistent
  <1>5. ASSUME NEW r, Becomes(c, r), r.session = s,
               call[c].pc \notin {"idle", "saveSession"},
               r.pc \notin {"disclosures", "reviews", "saveRequest", "saveSession"}
        PROVE  Fits
    BY <1>1, <1>4, <1>5 DEF CallSnapshot
  <1>6. ASSUME NEW r, Becomes(c, r), r.session = s,
               call[c].pc \notin {"idle", "saveSession"},
               r.record.status # "none", r.record.profile = session[s].profile
        PROVE  Fits
    BY <1>1, <1>4, <1>6 DEF CallSnapshot
  <1>7. call[c].pc \in {"disclosures", "reviews", "saveRequest"} =>
          call[c].record.status # "none" /\ call[c].record.profile = session[s].profile
    BY <1>4 DEF SnapshotInv, CallSnapshot
  <1> SUFFICES Fits
    OBVIOUS
  <1> HIDE DEF Fits
  <1>8. CASE saveDisclosure(c) \/ saveReview(c) \/ appendRunEvent(c)
          \/ recordAuditEvent(c) \/ persistEvidenceBundle(c) \/ Reject(c)
    <2>1. \/ Becomes(c, Idle)
          \/ /\ call[c].pc \notin {"idle", "saveSession"}
             /\ \E todo : Becomes(c, Owing(s, todo))
      BY <1>8 DEF saveDisclosure, saveReview, appendRunEvent, recordAuditEvent,
                  persistEvidenceBundle, Reject, AfterEffect
    <2>2. \A todo : Owing(s, todo).session = s /\ Owing(s, todo).pc = "effects"
      BY DEF Owing, Idle
    <2> QED
      BY <1>2, <1>5, <2>1, <2>2
  <1>9. CASE checkDisclosures(c) \/ checkReviews(c) \/ saveRequest(c)
    <2>1. \/ Becomes(c, Idle)
          \/ \E pc : Becomes(c, [call[c] EXCEPT !.pc = pc])
      BY <1>9 DEF checkDisclosures, checkReviews, saveRequest
    <2>2. call[c].pc \in {"disclosures", "reviews", "saveRequest"}
      BY <1>9 DEF checkDisclosures, checkReviews, saveRequest
    <2>3. ASSUME NEW pc, Becomes(c, [call[c] EXCEPT !.pc = pc]) PROVE Fits
      <3> DEFINE r == [call[c] EXCEPT !.pc = pc]
      <3>1. r.session = s /\ r.record = call[c].record
        BY <1>3 DEF Call
      <3>2. Becomes(c, r)
        BY <2>3
      <3> HIDE DEF r
      <3> QED
        BY <1>6, <1>7, <2>2, <3>1, <3>2
    <2> QED
      BY <1>2, <2>1, <2>3
  <1>10. CASE rereadSession(c)
    <2> DEFINE status == IF call[c].outcome THEN "running" ELSE "failed"
               record == Touched(s, status)
               r == [call[c] EXCEPT !.pc = "saveSession", !.record = record]
    <2>1. record.status # "none" /\ record.profile = session[s].profile
      BY <1>4, <1>10, TouchedFields DEF rereadSession
    <2>2. Becomes(c, r) /\ call[c].pc = "reread"
      BY <1>10 DEF rereadSession
    <2> HIDE DEF record
    <2>3. r.record = record /\ r.session = s
      BY <1>3 DEF Call
    <2> HIDE DEF r
    <2> QED
      BY <1>6, <2>1, <2>2, <2>3
  <1>11. ASSUME NEW r, Becomes(c, r), r.session = s, call[c].pc \notin {"idle", "saveSession"},
                r.pc \in {"reread", "append", "trailAudits", "trailExisting", "saveBundle"}
         PROVE  Fits
    BY <1>5, <1>11
  <1>12. CASE saveResolution(c) \/ countRunEvents(c)
    <2>1. /\ [call[c] EXCEPT !.pc = "reread"].pc = "reread"
          /\ [call[c] EXCEPT !.pc = "reread"].session = s
          /\ \A n : /\ [call[c] EXCEPT !.pc = "append", !.count = n].pc = "append"
                    /\ [call[c] EXCEPT !.pc = "append", !.count = n].session = s
      BY <1>3 DEF Call
    <2> QED
      BY <1>11, <1>12, <2>1 DEF saveResolution, countRunEvents
  <1>13. CASE readRunEvents(c) \/ readAuditEvents(c)
    <2> DEFINE runs(n) == [call[c] EXCEPT !.pc = "trailAudits", !.bundle.runEvents = n]
               trail(n) == [call[c] EXCEPT !.pc = "trailExisting", !.bundle.auditEvents = n]
    <2>1. \A n : /\ runs(n).pc = "trailAudits" /\ runs(n).session = s
                /\ trail(n).pc = "trailExisting" /\ trail(n).session = s
      BY <1>3 DEF Call
    <2>2. /\ \E n : Becomes(c, runs(n)) \/ Becomes(c, trail(n))
          /\ call[c].pc \notin {"idle", "saveSession"}
      BY <1>13, Zenon DEF readRunEvents, readAuditEvents
    <2> HIDE DEF runs, trail
    <2> QED
      BY <1>11, <2>1, <2>2
  <1>14. CASE readExistingBundle(c)
    <2>1. \A n : /\ [call[c] EXCEPT !.pc = "saveBundle", !.existing = n].pc = "saveBundle"
                /\ [call[c] EXCEPT !.pc = "saveBundle", !.existing = n].session = s
      BY <1>3 DEF Call
    <2> QED
      BY <1>11, <1>14, <2>1, Zenon DEF readExistingBundle
  <1> QED
    BY <1>8, <1>9, <1>10, <1>11, <1>12, <1>13, <1>14 DEF Continue

(* Who changes sessions and requests.                                      *)
LEMMA SessionFrame ==
  ASSUME NEW c \in Callers, Start(c) \/ Continue(c) \/ Reject(c)
  PROVE  /\ UNCHANGED session \/ saveSession(c)
         /\ UNCHANGED approval \/ saveRequest(c) \/ saveResolution(c)
  <1>1. CASE Start(c)
    <2>1. \A r : Begin(c, r) => UNCHANGED <<session, approval>>
      BY DEF Begin, stores
    <2> QED
      BY <1>1, <2>1, Zenon DEF Start, startRunSession, completeRunSession, requestHumanApproval,
            resolveApprovalRequest, recordDisclosure, recordHumanReview, enqueueEvents
  <1>2. CASE Continue(c) \/ Reject(c)
    BY <1>2, Zenon DEF Continue, Reject, stores, checkDisclosures, checkReviews, saveSession,
            saveRequest, saveResolution, rereadSession, saveDisclosure, saveReview,
            countRunEvents, appendRunEvent, recordAuditEvent, readRunEvents,
            readAuditEvents, readExistingBundle, persistEvidenceBundle
  <1> QED
    BY <1>1, <1>2

(* No step leaves a call about another session than CallSnapshot allows.   *)
LEMMA StepSnapshot ==
  ASSUME ~ReuseIds, TypeInv, TypeInv', SnapshotInv,
         NEW c \in Callers, Start(c) \/ Continue(c) \/ Reject(c)
  PROVE  SnapshotInv'
  <1>1. /\ \A d \in Callers \ {c} : call'[d] = call[d]
        /\ \A d \in Callers : call'[d].pc # "idle" => call'[d].session \in Sessions
        /\ \A d \in Callers : call[d].pc # "idle" => call[d].session \in Sessions
    BY StepShape DEF TypeInv, CallConsistent
  <1>2. \A s \in Sessions :
          /\ Exists(s) => session'[s].status # "none" /\ session'[s].profile = session[s].profile
          /\ session'[s] # session[s] => s = call[c].session /\ session'[s].status # "none"
    BY SessionsKept DEF Exists
  <1>3. \A a \in Approvals : approval'[a].status # "none" => session'[approval'[a].session].status # "none"
    <2>1. CASE UNCHANGED approval
      BY <1>2, <2>1 DEF SnapshotInv, TypeInv
    <2>2. CASE saveRequest(c) \/ saveResolution(c)
      <3>1. Exists(call[c].session) /\ call[c].session \in Sessions
        BY <1>1, <2>2 DEF SnapshotInv, CallSnapshot, saveRequest, saveResolution
      <3>2. \A a \in Approvals : approval'[a] = approval[a]
                                \/ approval'[a].session = call[c].session
        BY <2>2 DEF saveRequest, saveResolution, TypeInv, TypeOK
      <3> QED
        BY <1>2, <3>1, <3>2 DEF SnapshotInv, TypeInv
    <2> QED
      BY <2>1, <2>2, SessionFrame
  <1>4. /\ CallSnapshot(call[c])'
        /\ \/ call'[c] = Idle
           \/ call'[c].session = call[c].session /\ call[c].pc # "idle"
           \/ session'[call'[c].session].status # "none"
           \/ \A d \in Callers : call[d].session # call'[c].session
    <2>1. CASE saveSession(c)
      <3>1. call[c].record.status # "none" /\ call[c].session \in Sessions
        BY <1>1, <2>1 DEF SnapshotInv, CallSnapshot, saveSession
      <3>2. session'[call[c].session] = call[c].record
        BY <2>1, <3>1 DEF saveSession, TypeInv, TypeOK
      <3>3. call'[c] = Owing(call[c].session, call[c].todo)
        BY <2>1 DEF saveSession, Becomes, TypeInv, TypeOK
      <3>4. call'[c].session = call[c].session /\ call'[c].pc = "effects"
        BY <3>3 DEF Owing, Idle
      <3> QED
        <4>1. session'[call'[c].session].status # "none"
          BY <3>1, <3>2, <3>4
        <4> QED
          BY <3>4, <4>1 DEF Exists, CallSnapshot
    <2>2. CASE ~saveSession(c)
      <3>1. UNCHANGED session
        BY <2>2, SessionFrame
      <3>2. CallSnapshot(call'[c]) => CallSnapshot(call[c])'
        BY <3>1 DEF CallSnapshot, Exists
      <3> QED
        BY <2>2, <3>1, <3>2, StartSnapshot, ContinueSnapshot DEF Exists
    <2> QED
      BY <2>1, <2>2
  <1>5. ASSUME NEW d \in Callers PROVE CallSnapshot(call[d])'
    <2>1. CASE d = c
      BY <1>4, <2>1
    <2>2. CASE d # c
      <3>1. call'[d] = call[d] /\ CallSnapshot(call[d])
        BY <1>1, <2>2 DEF SnapshotInv
      <3>2. CASE session'[call[d].session] = session[call[d].session]
        BY <3>1, <3>2 DEF CallSnapshot, Exists
      <3>3. CASE session'[call[d].session] # session[call[d].session] /\ call[d].pc # "idle"
        <4>1. call[d].session = call[c].session /\ call[d].session \in Sessions
          BY <1>1, <1>2, <3>3
        <4>2. saveSession(c)
          BY <3>3, SessionFrame
        <4>3. Exists(call[d].session)
          BY <2>2, <4>1, <4>2 DEF SnapshotInv, saveSession
        <4> QED
          BY <1>2, <3>1, <4>1, <4>3 DEF CallSnapshot, Exists
      <3> QED
        BY <3>1, <3>2, <3>3 DEF CallSnapshot
    <2> QED
      BY <2>1, <2>2
  <1>6. ASSUME NEW d \in Callers, NEW e \in Callers, d # e, call'[d].pc # "idle",
               session'[call'[d].session].status = "none", call'[e].session = call'[d].session
        PROVE  FALSE
    <2>1. call'[d].session \in Sessions /\ ~Exists(call'[d].session)
      BY <1>1, <1>2, <1>6
    <2>2. CASE d = c
      BY <1>1, <1>4, <1>6, <2>1, <2>2 DEF SnapshotInv, Idle
    <2>3. CASE e = c
      BY <1>1, <1>4, <1>6, <2>1, <2>3, RunSessionsAssumption DEF SnapshotInv, Idle
    <2>4. CASE d # c /\ e # c
      BY <1>1, <1>6, <2>1, <2>4 DEF SnapshotInv
    <2> QED
      BY <2>2, <2>3, <2>4
  <1> QED
    BY <1>3, <1>5, <1>6 DEF SnapshotInv, Exists

LEMMA SnapshotInvariant ==
  ASSUME ~ReuseIds
  PROVE  Spec => []SnapshotInv
  <1>1. Init => SnapshotInv
    BY DEF Init, SnapshotInv, CallSnapshot, NoApproval, Idle
  <1>2. TypeInv /\ TypeInv' /\ SnapshotInv /\ [Next]_vars => SnapshotInv'
    <2> SUFFICES ASSUME TypeInv, TypeInv', SnapshotInv, [Next]_vars
                 PROVE  SnapshotInv'
      OBVIOUS
    <2>1. CASE UNCHANGED vars \/ Rest
      BY <2>1 DEF Rest, vars, SnapshotInv, CallSnapshot, Exists
    <2>2. ASSUME NEW c \in Callers, Start(c) \/ Continue(c) \/ Reject(c)
          PROVE  SnapshotInv'
      BY <2>2, StepSnapshot
    <2> QED
      BY <2>1, <2>2 DEF Next
  <1> QED
    BY <1>1, <1>2, TypeInvariant, PTL DEF Spec

(* The profile a session was started under is the one every later record   *)
(* of it has: what any caller read before an await and saves after it, the *)
(* record of a completion included.                                        *)
THEOREM ProfileSnapshotIsKept ==
  ASSUME ~ReuseIds
  PROVE  Spec => ProfileSnapshotKept
  <1>1. TypeInv /\ SnapshotInv /\ [Next]_vars =>
          [~ReuseIds => \A s \in Sessions :
             Exists(s) => session'[s].profile = session[s].profile]_vars
    BY SessionsKept DEF Next, Rest
  <1> QED
    BY <1>1, TypeInvariant, SnapshotInvariant, PTL DEF Spec, ProfileSnapshotKept

-----------------------------------------------------------------------------
(* Bundles list a closing event                                            *)

(* One of the first n events of the session closes it.                     *)
Lists(s, n) ==
  n \in 0..Len(events[s]) /\ \E i \in 1..n : events[s][i].type \in Closing

Closed(s) == \E n \in Nat : Lists(s, n)

(* In a list of effects a closing event comes before the bundle.           *)
ClosesFirst(todo) ==
  \A i \in DOMAIN todo : todo[i] = "bundle" => \E j \in 1..(i - 1) : todo[j] \in Closing

(* A call that owes a bundle has closed the session or will do so before,  *)
(* and one that makes a bundle has listed a closing event.                 *)
CallBundle(r) ==
  r.pc # "idle" =>
    /\ Closed(r.session) \/ ClosesFirst(r.todo)
    /\ r.pc \in {"trailAudits", "trailExisting", "saveBundle"} =>
         Lists(r.session, r.bundle.runEvents)

BundleInv ==
  /\ \A c \in Callers : CallBundle(call[c])
  /\ \A s \in Sessions : \A b \in DOMAIN bundles[s] : Lists(s, bundles[s][b].runEvents)

(* Streams are only appended to, and a step changes one call.              *)
Grown(s) == events'[s] = events[s] \/ \E e \in RunEvent : events'[s] = Append(events[s], e)

LEMMA ListsKept ==
  ASSUME TypeInv, NEW s \in Sessions, Grown(s)
  PROVE  /\ \A n : Lists(s, n) => Lists(s, n)'
         /\ Closed(s) => Closed(s)'
  <1>1. ASSUME NEW n, Lists(s, n) PROVE Lists(s, n)'
    <2>1. /\ Len(events[s]) \in Nat /\ Len(events[s]) <= Len(events'[s])
          /\ Len(events'[s]) \in Nat
          /\ \A i \in 1..Len(events[s]) : events'[s][i] = events[s][i]
      <3>1. CASE events'[s] = events[s]
        BY <3>1, EventsType
      <3>2. CASE \E e \in RunEvent : events'[s] = Append(events[s], e)
        BY <3>2, EventsType, AppendProperties
      <3> QED
        BY <3>1, <3>2 DEF Grown
    <2>2. n \in 0..Len(events[s]) /\ \E i \in 1..n : events[s][i].type \in Closing
      BY <1>1 DEF Lists
    <2>3. n \in 0..Len(events'[s]) /\ \E i \in 1..n : events'[s][i].type \in Closing
      BY <2>1, <2>2
    <2> QED
      BY <2>3 DEF Lists
  <1> QED
    BY <1>1 DEF Closed

LEMMA EventsGrow ==
  ASSUME TypeInv, NEW c \in Callers, Start(c) \/ Continue(c) \/ Reject(c), NEW s \in Sessions
  PROVE  Grown(s)
  <1>1. CASE appendRunEvent(c)
    <2> DEFINE e == [type |-> Head(call[c].todo), sequence |-> call[c].count + 1, by |-> c]
    <2>1. /\ events' = [events EXCEPT ![call[c].session] = Append(events[call[c].session], e)]
          /\ e \in RunEvent
      BY <1>1 DEF appendRunEvent, TypeInv, TypeOK, Call, CallConsistent, RunEvent
    <2> HIDE DEF e
    <2> QED
      BY <2>1 DEF TypeInv, TypeOK, Grown
  <1> QED
    BY <1>1, StepShape DEF Grown

(* The lists the handlers begin with.                                      *)
LEMMA StartTodo ==
  ASSUME TypeInv, NEW c \in Callers, Start(c)
  PROVE  /\ ClosesFirst(call'[c].todo)
         /\ call'[c].pc \notin {"trailAudits", "trailExisting", "saveBundle"}
         /\ UNCHANGED bundles
  <1> DEFINE Good(r) == /\ ClosesFirst(r.todo)
                        /\ r.pc \notin {"trailAudits", "trailExisting", "saveBundle"}
  <1>1. ASSUME NEW r, Begin(c, r), Good(r)
        PROVE  Good(call'[c]) /\ UNCHANGED bundles
    BY <1>1 DEF Begin, Becomes, TypeInv, TypeOK, stores
  <1>2. /\ \A status : ClosesFirst(CompletionEffects(status))
        /\ \A approved : ClosesFirst(ResolutionEffects(approved))
        /\ \A acknowledged : ClosesFirst(DisclosureEffects(acknowledged))
        /\ ClosesFirst(<<"run_started", "session.started">>)
        /\ ClosesFirst(<<"approval_requested", "approval.requested">>)
        /\ ClosesFirst(<<"human_review_completed", "human_review.recorded">>)
    BY DEF ClosesFirst, Closing, CompletionEffects, ResolutionEffects, DisclosureEffects
  <1>3. CASE startRunSession(c)
    <2>1. PICK s, record :
            Begin(c, [Idle EXCEPT !.pc = "saveSession", !.session = s, !.record = record,
                                  !.todo = <<"run_started", "session.started">>])
      BY <1>3, Zenon DEF startRunSession
    <2> QED
      BY <1>1, <1>2, <2>1 DEF Idle
  <1>4. CASE completeRunSession(c)
    <2>1. PICK s, record, status :
            Begin(c, [Idle EXCEPT !.pc = "disclosures", !.session = s, !.record = record,
                                  !.todo = CompletionEffects(status)])
      BY <1>4, Zenon DEF completeRunSession
    <2> QED
      BY <1>1, <1>2, <2>1 DEF Idle
  <1>5. CASE requestHumanApproval(c)
    <2>1. PICK s, a, record :
            Begin(c, [Idle EXCEPT !.pc = "saveRequest", !.session = s, !.id = a,
                                  !.record = record,
                                  !.todo = <<"approval_requested", "approval.requested">>])
      BY <1>5, Zenon DEF requestHumanApproval
    <2> QED
      BY <1>1, <1>2, <2>1 DEF Idle
  <1>6. CASE resolveApprovalRequest(c)
    <2>1. PICK s, a, approved :
            Begin(c, [Idle EXCEPT !.pc = "saveResolution", !.session = s, !.id = a,
                                  !.outcome = approved, !.todo = ResolutionEffects(approved)])
      BY <1>6, Zenon DEF resolveApprovalRequest
    <2> QED
      BY <1>1, <1>2, <2>1 DEF Idle
  <1>7. CASE recordDisclosure(c)
    <2>1. PICK s, d, acknowledged :
            Begin(c, [Idle EXCEPT !.pc = "saveDisclosure", !.session = s, !.id = d,
                                  !.outcome = acknowledged,
                                  !.todo = DisclosureEffects(acknowledged)])
      BY <1>7, Zenon DEF recordDisclosure
    <2> QED
      BY <1>1, <1>2, <2>1 DEF Idle
  <1>8. CASE recordHumanReview(c)
    <2>1. PICK s, r, approved :
            Begin(c, [Idle EXCEPT !.pc = "saveReview", !.session = s, !.id = r,
                                  !.outcome = approved,
                                  !.todo = <<"human_review_completed", "human_review.recorded">>])
      BY <1>8, Zenon DEF recordHumanReview
    <2> QED
      BY <1>1, <1>2, <2>1 DEF Idle
  <1>9. CASE enqueueEvents(c)
    <2>1. PICK s \in Sessions, batch \in Batches : Begin(c, Owing(s, batch))
      BY <1>9 DEF enqueueEvents
    <2>2. batch \in Seq(RunEventTypes \cup AuditActions)
      BY <2>1, RunSessionsAssumption DEF RunSessionsAssumption
    <2>3. ASSUME NEW i \in DOMAIN batch PROVE batch[i] # "bundle"
      <3>1. i \in 1..Len(batch)
        BY <2>2, LenProperties
      <3>2. batch[i] \in RunEventTypes \cup AuditActions
        BY <2>2, <3>1, ElementOfSeq
      <3> QED
        BY <3>2 DEF RunEventTypes, AuditActions
    <2>4. ClosesFirst(batch)
      BY <2>3 DEF ClosesFirst
    <2> QED
      BY <1>1, <2>1, <2>4 DEF Owing, Idle
  <1> QED
    BY <1>3, <1>4, <1>5, <1>6, <1>7, <1>8, <1>9 DEF Start

(* What the other steps make of the list of effects.                       *)
LEMMA ContinueTodo ==
  ASSUME TypeInv, NEW c \in Callers, Continue(c) \/ Reject(c), call'[c].pc # "idle"
  PROVE  /\ call[c].pc # "idle" /\ call'[c].session = call[c].session
         /\ \/ call'[c].todo = call[c].todo
            \/ /\ call'[c].todo = Tail(call[c].todo) /\ call'[c].pc = "effects"
               /\ appendRunEvent(c) \/ recordAuditEvent(c) \/ persistEvidenceBundle(c)
         /\ call'[c].pc = "trailAudits" => readRunEvents(c)
         /\ call'[c].pc \in {"trailExisting", "saveBundle"} =>
              /\ call[c].pc \in {"trailAudits", "trailExisting"}
              /\ call'[c].bundle.runEvents = call[c].bundle.runEvents
  <1>1. call[c] \in Call /\ call \in [Callers -> Call]
    BY DEF TypeInv, TypeOK
  <1> DEFINE Kept(pc) == /\ call'[c].pc = pc /\ call'[c].session = call[c].session
                         /\ call'[c].todo = call[c].todo
  <1>2. ASSUME NEW r, Becomes(c, r) PROVE call'[c] = r
    BY <1>1, <1>2 DEF Becomes
  <1>3. CASE appendRunEvent(c) \/ recordAuditEvent(c) \/ persistEvidenceBundle(c)
    <2>1. /\ call[c].pc # "idle"
          /\ \/ Becomes(c, Idle)
             \/ Becomes(c, Owing(call[c].session, Tail(call[c].todo)))
      BY <1>3 DEF appendRunEvent, recordAuditEvent, persistEvidenceBundle, AfterEffect
    <2>2. call'[c] = Owing(call[c].session, Tail(call[c].todo))
      BY <1>2, <2>1 DEF Idle
    <2> QED
      BY <1>3, <2>1, <2>2 DEF Owing, Idle
  <1>4. CASE saveSession(c) \/ saveDisclosure(c) \/ saveReview(c)
    <2>1. call[c].pc # "idle" /\ Becomes(c, Owing(call[c].session, call[c].todo))
      BY <1>4 DEF saveSession, saveDisclosure, saveReview
    <2>2. call'[c] = Owing(call[c].session, call[c].todo)
      BY <1>2, <2>1
    <2> QED
      BY <2>1, <2>2 DEF Owing, Idle
  <1>5. CASE checkDisclosures(c) \/ checkReviews(c) \/ saveRequest(c) \/ saveResolution(c)
    <2>1. /\ call[c].pc # "idle"
          /\ \/ Becomes(c, Idle)
             \/ \E pc \in {"reviews", "saveSession", "reread"} :
                  Becomes(c, [call[c] EXCEPT !.pc = pc])
      BY <1>5 DEF checkDisclosures, checkReviews, saveRequest, saveResolution
    <2>2. PICK pc \in {"reviews", "saveSession", "reread"} :
            call'[c] = [call[c] EXCEPT !.pc = pc]
      BY <1>2, <2>1 DEF Idle
    <2>3. Kept(pc)
      BY <1>1, <2>2 DEF Call
    <2> QED
      BY <2>1, <2>3
  <1>6. CASE rereadSession(c)
    <2>1. PICK record : Becomes(c, [call[c] EXCEPT !.pc = "saveSession", !.record = record])
      BY <1>6, Zenon DEF rereadSession
    <2>2. Kept("saveSession")
      BY <1>1, <1>2, <2>1 DEF Call
    <2> QED
      BY <1>6, <2>2 DEF rereadSession
  <1>7. CASE countRunEvents(c)
    <2>1. PICK n : Becomes(c, [call[c] EXCEPT !.pc = "append", !.count = n])
      BY <1>7, Zenon DEF countRunEvents
    <2>2. Kept("append")
      BY <1>1, <1>2, <2>1 DEF Call
    <2> QED
      BY <1>7, <2>2 DEF countRunEvents
  <1>8. CASE readRunEvents(c)
    <2>1. PICK n : Becomes(c, [call[c] EXCEPT !.pc = "trailAudits", !.bundle.runEvents = n])
      BY <1>8, Zenon DEF readRunEvents
    <2>2. Kept("trailAudits")
      BY <1>1, <1>2, <2>1 DEF Call
    <2> QED
      BY <1>8, <2>2 DEF readRunEvents
  <1>9. CASE readAuditEvents(c)
    <2>1. PICK n : Becomes(c, [call[c] EXCEPT !.pc = "trailExisting", !.bundle.auditEvents = n])
      BY <1>9, Zenon DEF readAuditEvents
    <2>2. call'[c] = [call[c] EXCEPT !.pc = "trailExisting", !.bundle.auditEvents = n]
      BY <1>2, <2>1
    <2>3. Kept("trailExisting")
      BY <1>1, <2>2 DEF Call
    <2>4. call'[c].bundle = [call[c].bundle EXCEPT !.auditEvents = n]
      BY <1>1, <2>2 DEF Call
    <2>5. call'[c].bundle.runEvents = call[c].bundle.runEvents
      BY <1>1, <2>4 DEF Call, EvidenceBundle
    <2> QED
      BY <1>9, <2>3, <2>5 DEF readAuditEvents
  <1>10. CASE readExistingBundle(c)
    <2>1. PICK n : Becomes(c, [call[c] EXCEPT !.pc = "saveBundle", !.existing = n])
      BY <1>10, Zenon DEF readExistingBundle
    <2>2. Kept("saveBundle") /\ call'[c].bundle = call[c].bundle
      BY <1>1, <1>2, <2>1 DEF Call
    <2> QED
      BY <1>10, <2>2 DEF readExistingBundle
  <1>11. CASE Reject(c)
    BY <1>2, <1>11 DEF Reject, Idle
  <1> QED
    BY <1>3, <1>4, <1>5, <1>6, <1>7, <1>8, <1>9, <1>10, <1>11 DEF Continue

(* A call with its first effect behind it has closed the session, or will. *)
LEMMA TailCloses ==
  ASSUME NEW todo \in Seq(Effects), todo # <<>>, ClosesFirst(todo), Head(todo) \notin Closing
  PROVE  ClosesFirst(Tail(todo)) /\ Head(todo) # "bundle"
  <1>1. /\ Len(todo) \in Nat \ {0} /\ DOMAIN todo = 1..Len(todo) /\ Head(todo) = todo[1]
        /\ Tail(todo) \in Seq(Effects) /\ Len(Tail(todo)) = Len(todo) - 1
        /\ \A i \in 1..(Len(todo) - 1) : Tail(todo)[i] = todo[i + 1]
    BY HeadTailProperties, EmptySeq, LenProperties
  <1>2. DOMAIN Tail(todo) = 1..(Len(todo) - 1)
    BY <1>1, LenProperties
  <1>3. ASSUME NEW i \in DOMAIN Tail(todo), Tail(todo)[i] = "bundle"
        PROVE  \E j \in 1..(i - 1) : Tail(todo)[j] \in Closing
    <2>1. i + 1 \in DOMAIN todo /\ todo[i + 1] = "bundle"
      BY <1>1, <1>2, <1>3
    <2>2. PICK j \in 1..i : todo[j] \in Closing
      BY <1>1, <1>2, <2>1 DEF ClosesFirst
    <2>3. j # 1 /\ j - 1 \in 1..(i - 1) /\ Tail(todo)[j - 1] = todo[j]
      BY <1>1, <1>2, <2>2
    <2> QED
      BY <2>2, <2>3
  <1> QED
    BY <1>1, <1>3 DEF ClosesFirst

LEMMA ContinueBundle ==
  ASSUME TypeInv, BundleInv, NEW c \in Callers, Continue(c) \/ Reject(c)
  PROVE  CallBundle(call[c])'
  <1> SUFFICES ASSUME call'[c].pc # "idle" PROVE CallBundle(call[c])'
    BY DEF CallBundle
  <1>1. PICK s, todo : s = call[c].session /\ todo = call[c].todo
    OBVIOUS
  <1>2. /\ s \in Sessions /\ todo \in Seq(Effects) /\ todo # <<>> /\ call'[c].session = s
        /\ Closed(s) \/ ClosesFirst(todo)
        /\ call[c].pc \in {"trailAudits", "trailExisting", "saveBundle"} =>
             Lists(s, call[c].bundle.runEvents) /\ call[c].bundle.runEvents \in Nat
        /\ Grown(s)
    BY <1>1, ContinueTodo, EventsGrow
    DEF BundleInv, CallBundle, TypeInv, TypeOK, Call, CallConsistent, EvidenceBundle
  <1>3. Closed(s)' \/ ClosesFirst(call'[c].todo)
    <2>1. CASE Closed(s)
      BY <1>2, <2>1, ListsKept
    <2>2. CASE ~Closed(s) /\ call'[c].todo = todo
      BY <1>2, <2>2
    <2>3. CASE ~Closed(s) /\ appendRunEvent(c) /\ call'[c].todo = Tail(todo)
      <3>1. CASE Head(todo) \in Closing
        <4>1. PICK e : events'[s] = Append(events[s], e) /\ e.type = Head(todo) /\ e \in RunEvent
          <5> DEFINE e == [type |-> Head(todo), sequence |-> call[c].count + 1, by |-> c]
          <5>1. events' = [events EXCEPT ![s] = Append(events[s], e)] /\ e \in RunEvent
            BY <1>1, <2>3 DEF appendRunEvent, TypeInv, TypeOK, Call, CallConsistent, RunEvent
          <5>2. e.type = Head(todo)
            OBVIOUS
          <5> HIDE DEF e
          <5> QED
            BY <1>2, <5>1, <5>2 DEF TypeInv, TypeOK
        <4>2. PICK n : n = Len(events[s]) + 1
          OBVIOUS
        <4>3. n \in Nat \ {0} /\ Len(events'[s]) = n /\ events'[s][n] = e
          BY <1>2, <4>1, <4>2, EventsType, AppendProperties
        <4>4. Lists(s, n)'
          BY <3>1, <4>1, <4>3 DEF Lists
        <4> QED
          BY <4>3, <4>4 DEF Closed
      <3>2. CASE Head(todo) \notin Closing
        BY <1>2, <2>2, <2>3, <3>2, TailCloses
      <3> QED
        BY <3>1, <3>2
    <2>4. CASE ~Closed(s) /\ recordAuditEvent(c) /\ call'[c].todo = Tail(todo)
      <3>1. Head(todo) \in AuditActions
        BY <1>1, <2>4 DEF recordAuditEvent
      <3>2. Head(todo) \notin Closing
        BY <3>1 DEF AuditActions, Closing
      <3> QED
        BY <1>2, <2>4, <3>2, TailCloses
    <2>5. CASE ~Closed(s) /\ persistEvidenceBundle(c)
      BY <1>2, <2>5 DEF persistEvidenceBundle, Closed
    <2> QED
      BY <1>1, <2>1, <2>2, <2>3, <2>4, <2>5, ContinueTodo
  <1>4. ASSUME call'[c].pc = "trailAudits", NEW n, n = call'[c].bundle.runEvents
        PROVE  Lists(s, n)'
    <2>1. readRunEvents(c)
      BY <1>4, ContinueTodo
    <2>2. call'[c].bundle.runEvents = Len(events[s])
      BY <1>1, <2>1 DEF readRunEvents, Becomes, TypeInv, TypeOK, Call, EvidenceBundle
    <2>3. Closed(s)
      <3>1. Head(todo) = "bundle" /\ Head(todo) \notin Closing
        BY <1>1, <2>1 DEF readRunEvents, Closing
      <3> QED
        BY <1>2, <3>1, TailCloses
    <2>4. Lists(s, n)
      BY <1>2, <1>4, <2>2, <2>3, EventsType DEF Closed, Lists
    <2> QED
      BY <1>2, <2>4, ListsKept
  <1>5. ASSUME call'[c].pc \in {"trailExisting", "saveBundle"},
               NEW n, n = call'[c].bundle.runEvents
        PROVE  Lists(s, n)'
    <2>1. Lists(s, n)
      BY <1>2, <1>5, ContinueTodo
    <2> QED
      BY <1>2, <2>1, ListsKept
  <1>6. call'[c].pc \in {"trailAudits", "trailExisting", "saveBundle"} =>
          \A n : n = call'[c].bundle.runEvents => Lists(s, n)'
    BY <1>4, <1>5
  <1> QED
    BY <1>2, <1>3, <1>6 DEF CallBundle, Closed, Lists

LEMMA BundlesStep ==
  ASSUME TypeInv, BundleInv, NEW c \in Callers, Start(c) \/ Continue(c) \/ Reject(c),
         NEW s \in Sessions, NEW b \in DOMAIN bundles'[s], NEW n, n = bundles'[s][b].runEvents
  PROVE  Lists(s, n)'
  <1>1. bundles' = bundles \/ persistEvidenceBundle(c)
    <2>1. CASE Start(c)
      BY <2>1, StartTodo
    <2>2. CASE Continue(c) \/ Reject(c)
      BY <2>2, Zenon DEF Continue, Reject, checkDisclosures, checkReviews, saveSession, saveRequest,
         saveResolution, rereadSession, saveDisclosure, saveReview, countRunEvents,
         appendRunEvent, recordAuditEvent, readRunEvents, readAuditEvents, readExistingBundle,
         stores
    <2> QED
      BY <2>1, <2>2
  <1>2. Lists(s, n)
    <2>1. CASE bundles' = bundles
      BY <2>1 DEF BundleInv
    <2>2. CASE persistEvidenceBundle(c)
      <3> DEFINE t == call[c].session
                 old == bundles[t]
                 x == call[c].bundle
                 new == IF call[c].existing = 0 THEN Append(old, x)
                        ELSE [old EXCEPT ![call[c].existing] = x]
      <3>1. /\ t \in Sessions /\ x \in EvidenceBundle /\ old \in Seq(EvidenceBundle)
            /\ Lists(t, x.runEvents)
            /\ bundles' = [bundles EXCEPT ![t] = new]
        BY <2>2 DEF persistEvidenceBundle, TypeInv, TypeOK, Call, CallConsistent, BundleInv,
                    CallBundle
      <3>2. \A i \in DOMAIN new : new[i] = x \/ (i \in DOMAIN old /\ new[i] = old[i])
        <4>1. CASE call[c].existing = 0
          <5>1. /\ new = Append(old, x) /\ Len(new) = Len(old) + 1 /\ Len(old) \in Nat
                /\ DOMAIN old = 1..Len(old) /\ DOMAIN new = 1..Len(new)
                /\ \A i \in 1..Len(old) : new[i] = old[i]
                /\ new[Len(old) + 1] = x
            BY <3>1, <4>1, AppendProperties, LenProperties
          <5> HIDE DEF new
          <5> QED
            BY <5>1
        <4>2. CASE call[c].existing # 0
          BY <3>1, <4>2
        <4> QED
          BY <4>1, <4>2
      <3> HIDE DEF new
      <3>3. CASE s = t
        <4>1. bundles'[s] = new
          BY <3>1, <3>3 DEF TypeInv, TypeOK
        <4>2. n = x.runEvents \/ (b \in DOMAIN bundles[s] /\ n = bundles[s][b].runEvents)
          BY <3>2, <3>3, <4>1
        <4> QED
          BY <3>1, <3>3, <4>2 DEF BundleInv
      <3>4. CASE s # t
        <4>1. bundles'[s] = bundles[s]
          BY <3>1, <3>4 DEF TypeInv, TypeOK
        <4> QED
          BY <4>1 DEF BundleInv
      <3> QED
        BY <3>3, <3>4
    <2> QED
      BY <1>1, <2>1, <2>2
  <1>3. Grown(s)
    BY EventsGrow
  <1> QED
    BY <1>2, <1>3, ListsKept

LEMMA BundleStep == TypeInv /\ BundleInv /\ [Next]_vars => BundleInv'
  <1> SUFFICES ASSUME TypeInv, BundleInv, [Next]_vars PROVE BundleInv'
    OBVIOUS
  <1>1. CASE UNCHANGED vars
    BY <1>1 DEF vars, BundleInv, CallBundle, Closed, Lists
  <1>2. ASSUME NEW c \in Callers, Start(c) \/ Continue(c) \/ Reject(c)
        PROVE  BundleInv'
    <2>1. CallBundle(call[c])'
      <3>1. CASE Start(c)
        BY <3>1, StartTodo DEF CallBundle
      <3>2. CASE Continue(c) \/ Reject(c)
        BY <3>2, ContinueBundle
      <3> QED
        BY <1>2, <3>1, <3>2
    <2>2. ASSUME NEW d \in Callers \ {c} PROVE CallBundle(call[d])'
      <3>1. call'[d] = call[d]
        BY <1>2, StepShape
      <3>2. CASE call[d].pc = "idle"
        BY <3>1, <3>2 DEF CallBundle
      <3>3. CASE call[d].pc # "idle"
        <4>1. PICK s, n : s = call[d].session /\ n = call[d].bundle.runEvents
          OBVIOUS
        <4>2. s \in Sessions /\ Grown(s)
          BY <1>2, <3>3, <4>1, EventsGrow DEF TypeInv, CallConsistent
        <4>3. /\ Closed(s) => Closed(s)'
              /\ Lists(s, n) => Lists(s, n)'
          BY <4>2, ListsKept
        <4> QED
          BY <3>1, <3>3, <4>1, <4>3 DEF CallBundle, BundleInv, Closed, Lists
      <3> QED
        BY <3>2, <3>3
    <2>3. \A s \in Sessions : \A b \in DOMAIN bundles'[s] : Lists(s, bundles[s][b].runEvents)'
      <3>1. \A s \in Sessions : \A b \in DOMAIN bundles'[s] :
              \A n : n = bundles'[s][b].runEvents => Lists(s, n)'
        BY <1>2, BundlesStep
      <3> QED
        BY <3>1 DEF Lists
    <2> QED
      BY <2>1, <2>2, <2>3 DEF BundleInv
  <1> QED
    BY <1>1, <1>2 DEF Next, Rest

(* Whatever overlaps and whichever handlers are aborted, no evidence bundle*)
(* is generated before an event that closes the run.                       *)
THEOREM BundlesListAClosingEvent == Spec => []BundleListsClosing
  <1>1. Init => BundleInv
    BY DEF Init, BundleInv, CallBundle, Idle
  <1>2. TypeInv /\ BundleInv => BundleListsClosing
    BY DEF BundleInv, BundleListsClosing, Lists, Closing
  <1> QED
    BY <1>1, <1>2, BundleStep, TypeInvariant, PTL DEF Spec

-----------------------------------------------------------------------------
(* The audit trail, by what is stored and what calls in flight will audit  *)

LEMMA EmptyReports == Reports(<<>>) = {} /\ AuditsOnce(<<>>)
  BY DEF Reports, AuditsOnce

LEMMA PairReports ==
  ASSUME NEW x, NEW y
  PROVE  /\ Reports(<<x, y>>) = Counted \cap {x, y}
         /\ x \notin Counted => AuditsOnce(<<x, y>>)
  <1>1. DOMAIN <<x, y>> = {1, 2} /\ <<x, y>>[1] = x /\ <<x, y>>[2] = y
    OBVIOUS
  <1> QED
    BY <1>1 DEF Reports, AuditsOnce

(* The lists of effects the handlers begin with.                           *)
LEMMA HandlerReports ==
  /\ \A status : /\ Reports(CompletionEffects(status)) = {}
                 /\ AuditsOnce(CompletionEffects(status))
  /\ \A approved : /\ Reports(ResolutionEffects(approved)) = {"approval.resolved"}
                   /\ AuditsOnce(ResolutionEffects(approved))
  /\ \A acknowledged :
       /\ Reports(DisclosureEffects(acknowledged)) = {"disclosure.recorded"}
       /\ AuditsOnce(DisclosureEffects(acknowledged))
  <1>1. ASSUME NEW x, NEW y, NEW z, x \notin Counted, y \notin Counted
        PROVE  Reports(<<x, y, z>>) = Counted \cap {z} /\ AuditsOnce(<<x, y, z>>)
    <2>1. /\ DOMAIN <<x, y, z>> = {1, 2, 3} /\ <<x, y, z>>[1] = x
          /\ <<x, y, z>>[2] = y /\ <<x, y, z>>[3] = z
      OBVIOUS
    <2> QED
      BY <1>1, <2>1 DEF Reports, AuditsOnce
  <1>2. ASSUME NEW x, NEW y, NEW z, NEW u, x \notin Counted, y \notin Counted, z \notin Counted
        PROVE  Reports(<<x, y, z, u>>) = Counted \cap {u} /\ AuditsOnce(<<x, y, z, u>>)
    <2>1. /\ DOMAIN <<x, y, z, u>> = {1, 2, 3, 4} /\ <<x, y, z, u>>[1] = x
          /\ <<x, y, z, u>>[2] = y /\ <<x, y, z, u>>[3] = z /\ <<x, y, z, u>>[4] = u
      OBVIOUS
    <2> QED
      BY <1>2, <2>1 DEF Reports, AuditsOnce
  <1>3. /\ "approval.resolved" \in Counted /\ "disclosure.recorded" \in Counted
        /\ \A x \in {"run_completed", "run_failed", "session.completed", "bundle",
                     "approval_resolved:approved", "approval_resolved:rejected",
                     "disclosure_presented", "disclosure_acknowledged"} : x \notin Counted
    BY DEF Counted
  <1>4. ASSUME NEW status
        PROVE  Reports(CompletionEffects(status)) = {} /\ AuditsOnce(CompletionEffects(status))
    <2>1. CASE status = "completed"
      BY <1>1, <1>3, <2>1 DEF CompletionEffects
    <2>2. CASE status # "completed"
      BY <1>1, <1>3, <2>2 DEF CompletionEffects
    <2> QED
      BY <2>1, <2>2
  <1>5. ASSUME NEW approved
        PROVE  /\ Reports(ResolutionEffects(approved)) = {"approval.resolved"}
               /\ AuditsOnce(ResolutionEffects(approved))
    <2>1. CASE approved
      BY <1>3, <2>1, PairReports DEF ResolutionEffects
    <2>2. CASE ~approved
      BY <1>2, <1>3, <2>2 DEF ResolutionEffects
    <2> QED
      BY <2>1, <2>2
  <1>6. ASSUME NEW acknowledged
        PROVE  /\ Reports(DisclosureEffects(acknowledged)) = {"disclosure.recorded"}
               /\ AuditsOnce(DisclosureEffects(acknowledged))
    <2>1. CASE acknowledged
      BY <1>1, <1>3, <2>1 DEF DisclosureEffects
    <2>2. CASE ~acknowledged
      BY <1>3, <2>2, PairReports DEF DisclosureEffects
    <2> QED
      BY <2>1, <2>2
  <1> QED
    BY <1>4, <1>5, <1>6

LEMMA TailReports ==
  ASSUME NEW todo \in Seq(Effects), todo # <<>>, AuditsOnce(todo)
  PROVE  /\ AuditsOnce(Tail(todo))
         /\ Reports(Tail(todo)) = Reports(todo) \ {Head(todo)}
         /\ Head(todo) \in Counted => Head(todo) \in Reports(todo)
  <1>1. /\ Len(todo) \in Nat \ {0} /\ DOMAIN todo = 1..Len(todo) /\ Head(todo) = todo[1]
        /\ Tail(todo) \in Seq(Effects) /\ Len(Tail(todo)) = Len(todo) - 1
        /\ \A i \in 1..(Len(todo) - 1) : Tail(todo)[i] = todo[i + 1]
    BY HeadTailProperties, EmptySeq, LenProperties
  <1>2. DOMAIN Tail(todo) = 1..(Len(todo) - 1)
    BY <1>1, LenProperties
  <1>3. AuditsOnce(Tail(todo))
    <2> SUFFICES ASSUME NEW i \in 1..(Len(todo) - 1), NEW j \in 1..(Len(todo) - 1),
                        Tail(todo)[i] \in Counted, Tail(todo)[i] = Tail(todo)[j]
                 PROVE  i = j
      BY <1>2 DEF AuditsOnce
    <2>1. /\ i + 1 \in DOMAIN todo /\ j + 1 \in DOMAIN todo
          /\ todo[i + 1] \in Counted /\ todo[i + 1] = todo[j + 1]
      BY <1>1
    <2>2. i + 1 = j + 1
      BY <2>1 DEF AuditsOnce
    <2> QED
      BY <2>2
  <1>4. ASSUME NEW x \in Counted
        PROVE  (\E i \in DOMAIN Tail(todo) : Tail(todo)[i] = x)
                 <=> (\E i \in DOMAIN todo : todo[i] = x) /\ x # Head(todo)
    <2>1. ASSUME NEW i \in DOMAIN Tail(todo), Tail(todo)[i] = x
          PROVE  (\E j \in DOMAIN todo : todo[j] = x) /\ x # Head(todo)
      <3>1. i + 1 \in DOMAIN todo /\ todo[i + 1] = x /\ 1 \in DOMAIN todo /\ i + 1 # 1
        BY <1>1, <1>2, <2>1
      <3>2. x # todo[1]
        BY <3>1 DEF AuditsOnce
      <3> QED
        BY <1>1, <3>1, <3>2
    <2>2. ASSUME NEW i \in DOMAIN todo, todo[i] = x, x # Head(todo)
          PROVE  \E j \in DOMAIN Tail(todo) : Tail(todo)[j] = x
      <3>1. i # 1 /\ i - 1 \in DOMAIN Tail(todo) /\ Tail(todo)[i - 1] = x
        BY <1>1, <1>2, <2>2
      <3> QED
        BY <3>1
    <2> QED
      BY <2>1, <2>2
  <1>5. Reports(Tail(todo)) = Reports(todo) \ {Head(todo)}
    BY <1>4 DEF Reports
  <1> QED
    BY <1>1, <1>3, <1>5 DEF Reports

(* Caller c goes from one place to the next with the same effects to do.   *)
Goes(c, pc, new) ==
  /\ call[c].pc = pc /\ call'[c].pc = new
  /\ call'[c].session = call[c].session /\ call'[c].todo = call[c].todo

Refused(c, pc) == call[c].pc = pc /\ call'[c] = Idle

Done(c) ==
  /\ call[c].pc # "idle" /\ call'[c].todo = Tail(call[c].todo)
  /\ \/ call'[c] = Idle
     \/ call'[c].pc = "effects" /\ call'[c].session = call[c].session

LEMMA ContinuePlace ==
  ASSUME TypeInv, NEW c \in Callers
  PROVE  /\ checkDisclosures(c) => Goes(c, "disclosures", "reviews") \/ Refused(c, "disclosures")
         /\ checkReviews(c) => Goes(c, "reviews", "saveSession") \/ Refused(c, "reviews")
         /\ saveSession(c) => Goes(c, "saveSession", "effects")
         /\ saveRequest(c) => Goes(c, "saveRequest", "saveSession")
         /\ saveResolution(c) => Goes(c, "saveResolution", "reread")
         /\ rereadSession(c) => Goes(c, "reread", "saveSession")
         /\ saveDisclosure(c) => Goes(c, "saveDisclosure", "effects")
         /\ saveReview(c) => Goes(c, "saveReview", "effects")
         /\ countRunEvents(c) => Goes(c, "effects", "append")
         /\ readRunEvents(c) => Goes(c, "effects", "trailAudits")
         /\ readAuditEvents(c) => Goes(c, "trailAudits", "trailExisting")
         /\ readExistingBundle(c) => Goes(c, "trailExisting", "saveBundle")
         /\ appendRunEvent(c) \/ recordAuditEvent(c) \/ persistEvidenceBundle(c) => Done(c)
  <1>1. call[c] \in Call /\ call \in [Callers -> Call]
    BY DEF TypeInv, TypeOK
  <1>2. ASSUME NEW r, Becomes(c, r) PROVE call'[c] = r
    BY <1>1, <1>2 DEF Becomes
  <1>3. ASSUME NEW pc, NEW new, call[c].pc = pc, Becomes(c, [call[c] EXCEPT !.pc = new])
        PROVE  Goes(c, pc, new)
    <2>1. call'[c] = [call[c] EXCEPT !.pc = new]
      BY <1>2, <1>3
    <2> QED
      BY <1>1, <1>3, <2>1 DEF Goes, Call
  <1>4. ASSUME NEW pc, call[c].pc = pc, Becomes(c, Idle) PROVE Refused(c, pc)
    BY <1>2, <1>4 DEF Refused
  <1>5. ASSUME NEW pc, call[c].pc = pc, Becomes(c, Owing(call[c].session, call[c].todo))
        PROVE  Goes(c, pc, "effects")
    <2>1. call'[c] = Owing(call[c].session, call[c].todo)
      BY <1>2, <1>5
    <2> QED
      BY <1>5, <2>1 DEF Goes, Owing, Idle
  <1>6. ASSUME call[c].pc # "idle", AfterEffect(c) PROVE Done(c)
    <2>1. CASE Tail(call[c].todo) = <<>>
      <3>1. call'[c] = Idle
        BY <1>2, <1>6, <2>1 DEF AfterEffect
      <3> QED
        BY <1>6, <2>1, <3>1 DEF Done, Idle
    <2>2. CASE Tail(call[c].todo) # <<>>
      <3>1. call'[c] = Owing(call[c].session, Tail(call[c].todo))
        BY <1>2, <1>6, <2>2 DEF AfterEffect
      <3> QED
        BY <1>6, <3>1 DEF Done, Owing, Idle
    <2> QED
      BY <2>1, <2>2
  <1>7. /\ checkDisclosures(c) => Goes(c, "disclosures", "reviews") \/ Refused(c, "disclosures")
        /\ checkReviews(c) => Goes(c, "reviews", "saveSession") \/ Refused(c, "reviews")
        /\ saveRequest(c) => Goes(c, "saveRequest", "saveSession")
        /\ saveResolution(c) => Goes(c, "saveResolution", "reread")
    BY <1>3, <1>4 DEF checkDisclosures, checkReviews, saveRequest, saveResolution
  <1>8. /\ saveSession(c) => Goes(c, "saveSession", "effects")
        /\ saveDisclosure(c) => Goes(c, "saveDisclosure", "effects")
        /\ saveReview(c) => Goes(c, "saveReview", "effects")
    BY <1>5 DEF saveSession, saveDisclosure, saveReview
  <1>9. appendRunEvent(c) \/ recordAuditEvent(c) \/ persistEvidenceBundle(c) => Done(c)
    BY <1>6 DEF appendRunEvent, recordAuditEvent, persistEvidenceBundle
  <1>10. ASSUME rereadSession(c) PROVE Goes(c, "reread", "saveSession")
    <2>1. PICK record : Becomes(c, [call[c] EXCEPT !.pc = "saveSession", !.record = record])
      BY <1>10, Zenon DEF rereadSession
    <2> QED
      BY <1>1, <1>2, <1>10, <2>1 DEF Goes, Call, rereadSession
  <1>11. ASSUME countRunEvents(c) PROVE Goes(c, "effects", "append")
    <2>1. PICK n : Becomes(c, [call[c] EXCEPT !.pc = "append", !.count = n])
      BY <1>11, Zenon DEF countRunEvents
    <2> QED
      BY <1>1, <1>2, <1>11, <2>1 DEF Goes, Call, countRunEvents
  <1>12. ASSUME readRunEvents(c) PROVE Goes(c, "effects", "trailAudits")
    <2>1. PICK n : Becomes(c, [call[c] EXCEPT !.pc = "trailAudits", !.bundle.runEvents = n])
      BY <1>12, Zenon DEF readRunEvents
    <2> QED
      BY <1>1, <1>2, <1>12, <2>1 DEF Goes, Call, readRunEvents
  <1>13. ASSUME readAuditEvents(c) PROVE Goes(c, "trailAudits", "trailExisting")
    <2>1. PICK n : Becomes(c, [call[c] EXCEPT !.pc = "trailExisting", !.bundle.auditEvents = n])
      BY <1>13, Zenon DEF readAuditEvents
    <2> QED
      BY <1>1, <1>2, <1>13, <2>1 DEF Goes, Call, readAuditEvents
  <1>14. ASSUME readExistingBundle(c) PROVE Goes(c, "trailExisting", "saveBundle")
    <2>1. PICK n : Becomes(c, [call[c] EXCEPT !.pc = "saveBundle", !.existing = n])
      BY <1>14, Zenon DEF readExistingBundle
    <2> QED
      BY <1>1, <1>2, <1>14, <2>1 DEF Goes, Call, readExistingBundle
  <1> QED
    BY <1>7, <1>8, <1>9, <1>10, <1>11, <1>12, <1>13, <1>14

(* A caller that starts a call owes nothing for it yet.                    *)
LEMMA StartReports ==
  ASSUME OwnReports, ~ReuseIds, TypeInv, NEW c \in Callers, Start(c), CallReports(call[c])
  PROVE  /\ CallReports(call'[c])
         /\ \A s, x : ~Owes(call[c], s, x) /\ ~Owes(call'[c], s, x)
         /\ UNCHANGED <<stores, faults>>
  <1> DEFINE Starting(r) == CallReports(r) /\ \A s, x : ~Owes(r, s, x)
  <1>1. ASSUME NEW r, Begin(c, r), Starting(r)
        PROVE  /\ CallReports(call'[c])
               /\ \A s, x : ~Owes(call[c], s, x) /\ ~Owes(call'[c], s, x)
               /\ UNCHANGED <<stores, faults>>
    BY <1>1 DEF Begin, Becomes, TypeInv, TypeOK, Owes
  <1>2. /\ Reports(<<"run_started", "session.started">>) = {"session.started"}
        /\ AuditsOnce(<<"run_started", "session.started">>)
        /\ Reports(<<"approval_requested", "approval.requested">>) = {"approval.requested"}
        /\ AuditsOnce(<<"approval_requested", "approval.requested">>)
        /\ Reports(<<"human_review_completed", "human_review.recorded">>) = {"human_review.recorded"}
        /\ AuditsOnce(<<"human_review_completed", "human_review.recorded">>)
    <2>1. /\ Counted \cap {"run_started", "session.started"} = {"session.started"}
          /\ Counted \cap {"approval_requested", "approval.requested"} = {"approval.requested"}
          /\ Counted \cap {"human_review_completed", "human_review.recorded"}
               = {"human_review.recorded"}
          /\ {"run_started", "approval_requested", "human_review_completed"} \cap Counted = {}
      BY DEF Counted
    <2>2. ASSUME NEW x, NEW y, x \notin Counted PROVE AuditsOnce(<<x, y>>)
      BY <2>2, PairReports
    <2>3. \A x, y : Reports(<<x, y>>) = Counted \cap {x, y}
      BY PairReports, Zenon
    <2> QED
      BY <2>1, <2>2, <2>3
  <1>3. ASSUME NEW r, AuditsOnce(r.todo), NEW x \in Counted, Reports(r.todo) = {x}, r.pc = Before(x),
               x = "session.started" => ~Exists(r.session)
        PROVE  Starting(r)
    <2>1. \A s, y : ~Owes(r, s, y)
      BY <1>3 DEF Owes
    <2>2. CallReports(r)
      BY <1>3 DEF Counted, Before, CallReports
    <2> QED
      BY <2>1, <2>2
  <1>4. ASSUME NEW r, AuditsOnce(r.todo), Reports(r.todo) = {}, r.pc \in {"disclosures", "effects"}
        PROVE  Starting(r)
    BY <1>4 DEF CallReports, Owes
  <1> HIDE DEF Starting
  <1>5. CASE startRunSession(c)
    <2>1. PICK s, record :
            /\ ~Exists(s)
            /\ Begin(c, [Idle EXCEPT !.pc = "saveSession", !.session = s, !.record = record,
                                     !.todo = <<"run_started", "session.started">>])
      BY <1>5, Zenon DEF startRunSession
    <2> DEFINE r == [Idle EXCEPT !.pc = "saveSession", !.session = s, !.record = record,
                                     !.todo = <<"run_started", "session.started">>]
    <2>2. /\ r.pc = Before("session.started") /\ r.session = s /\ "session.started" \in Counted
          /\ r.todo = <<"run_started", "session.started">>
      BY DEF Before, Idle, Counted
    <2> HIDE DEF r
    <2>3. Starting(r)
      BY <1>2, <1>3, <2>1, <2>2
    <2>4. Begin(c, r)
      BY <2>1 DEF r
    <2> QED
      BY <1>1, <2>3, <2>4
  <1>6. CASE completeRunSession(c)
    <2>1. PICK s, record, status :
            Begin(c, [Idle EXCEPT !.pc = "disclosures", !.session = s, !.record = record,
                                  !.todo = CompletionEffects(status)])
      BY <1>6, Zenon DEF completeRunSession
    <2>2. Starting([Idle EXCEPT !.pc = "disclosures", !.session = s, !.record = record,
                                  !.todo = CompletionEffects(status)])
      BY <1>4, HandlerReports DEF Idle
    <2> QED
      BY <1>1, <2>1, <2>2
  <1>7. CASE requestHumanApproval(c)
    <2>1. PICK s, a, record :
            Begin(c, [Idle EXCEPT !.pc = "saveRequest", !.session = s, !.id = a,
                                  !.record = record,
                                  !.todo = <<"approval_requested", "approval.requested">>])
      BY <1>7, Zenon DEF requestHumanApproval
    <2> DEFINE r == [Idle EXCEPT !.pc = "saveRequest", !.session = s, !.id = a,
                                  !.record = record,
                                  !.todo = <<"approval_requested", "approval.requested">>]
    <2>2. /\ r.pc = Before("approval.requested") /\ "approval.requested" \in Counted
          /\ r.todo = <<"approval_requested", "approval.requested">>
      BY DEF Before, Idle, Counted
    <2> HIDE DEF r
    <2>3. Starting(r)
      BY <1>2, <1>3, <2>2
    <2>4. Begin(c, r)
      BY <2>1 DEF r
    <2> QED
      BY <1>1, <2>3, <2>4
  <1>8. CASE resolveApprovalRequest(c)
    <2>1. PICK s, a, approved :
            Begin(c, [Idle EXCEPT !.pc = "saveResolution", !.session = s, !.id = a,
                                  !.outcome = approved, !.todo = ResolutionEffects(approved)])
      BY <1>8, Zenon DEF resolveApprovalRequest
    <2> DEFINE r == [Idle EXCEPT !.pc = "saveResolution", !.session = s, !.id = a,
                                  !.outcome = approved, !.todo = ResolutionEffects(approved)]
    <2>2. /\ r.pc = Before("approval.resolved") /\ "approval.resolved" \in Counted
          /\ r.todo = ResolutionEffects(approved)
      BY DEF Before, Idle, Counted
    <2> HIDE DEF r
    <2>3. Starting(r)
      BY <1>3, <2>2, HandlerReports
    <2>4. Begin(c, r)
      BY <2>1 DEF r
    <2> QED
      BY <1>1, <2>3, <2>4
  <1>9. CASE recordDisclosure(c)
    <2>1. PICK s, d, acknowledged :
            Begin(c, [Idle EXCEPT !.pc = "saveDisclosure", !.session = s, !.id = d,
                                  !.outcome = acknowledged,
                                  !.todo = DisclosureEffects(acknowledged)])
      BY <1>9, Zenon DEF recordDisclosure
    <2> DEFINE r == [Idle EXCEPT !.pc = "saveDisclosure", !.session = s, !.id = d,
                                  !.outcome = acknowledged,
                                  !.todo = DisclosureEffects(acknowledged)]
    <2>2. /\ r.pc = Before("disclosure.recorded") /\ "disclosure.recorded" \in Counted
          /\ r.todo = DisclosureEffects(acknowledged)
      BY DEF Before, Idle, Counted
    <2> HIDE DEF r
    <2>3. Starting(r)
      BY <1>3, <2>2, HandlerReports
    <2>4. Begin(c, r)
      BY <2>1 DEF r
    <2> QED
      BY <1>1, <2>3, <2>4
  <1>10. CASE recordHumanReview(c)
    <2>1. PICK s, v, approved :
            Begin(c, [Idle EXCEPT !.pc = "saveReview", !.session = s, !.id = v,
                                  !.outcome = approved,
                                  !.todo = <<"human_review_completed", "human_review.recorded">>])
      BY <1>10, Zenon DEF recordHumanReview
    <2> DEFINE r == [Idle EXCEPT !.pc = "saveReview", !.session = s, !.id = v,
                                  !.outcome = approved,
                                  !.todo = <<"human_review_completed", "human_review.recorded">>]
    <2>2. /\ r.pc = Before("human_review.recorded") /\ "human_review.recorded" \in Counted
          /\ r.todo = <<"human_review_completed", "human_review.recorded">>
      BY DEF Before, Idle, Counted
    <2> HIDE DEF r
    <2>3. Starting(r)
      BY <1>2, <1>3, <2>2
    <2>4. Begin(c, r)
      BY <2>1 DEF r
    <2> QED
      BY <1>1, <2>3, <2>4
  <1>11. CASE enqueueEvents(c)
    <2>1. PICK s \in Sessions, batch \in Batches : Begin(c, Owing(s, batch))
      BY <1>11 DEF enqueueEvents
    <2>2. Reports(batch) = {} /\ AuditsOnce(batch)
      BY <2>1 DEF OwnReports, Reports, AuditsOnce
    <2>3. Owing(s, batch).pc = "effects" /\ Owing(s, batch).todo = batch
      BY DEF Owing, Idle
    <2> QED
      BY <1>1, <1>4, <2>1, <2>2, <2>3
  <1> QED
    BY <1>5, <1>6, <1>7, <1>8, <1>9, <1>10, <1>11 DEF Start

(* Steps that neither save a record that is audited nor audit one leave    *)
(* what their call owes.                                                   *)
Quiet(c) ==
  \/ checkDisclosures(c) \/ checkReviews(c) \/ rereadSession(c)
  \/ countRunEvents(c) \/ appendRunEvent(c)
  \/ readRunEvents(c) \/ readAuditEvents(c) \/ readExistingBundle(c)
  \/ persistEvidenceBundle(c)

LEMMA DoneReports ==
  ASSUME TypeInv, NEW c \in Callers, CallReports(call[c]), Done(c)
  PROVE  /\ CallReports(call'[c])
         /\ Reports(call'[c].todo) = Reports(call[c].todo) \ {Head(call[c].todo)}
         /\ Head(call[c].todo) \in Counted => Head(call[c].todo) \in Reports(call[c].todo)
  <1>1. call[c].todo \in Seq(Effects) /\ call[c].todo # <<>>
    BY DEF TypeInv, TypeOK, Call, CallConsistent, Done
  <1>2. AuditsOnce(call[c].todo)
    BY DEF CallReports
  <1>3. /\ AuditsOnce(call'[c].todo)
        /\ Reports(call'[c].todo) = Reports(call[c].todo) \ {Head(call[c].todo)}
        /\ Head(call[c].todo) \in Counted => Head(call[c].todo) \in Reports(call[c].todo)
    BY <1>1, <1>2, TailReports DEF Done
  <1>4. call'[c] = Idle => Reports(call'[c].todo) = {}
    BY EmptyReports DEF Idle
  <1>5. CallReports(call'[c])
    BY <1>3, <1>4 DEF Done, CallReports, Idle
  <1> QED
    BY <1>3, <1>5

LEMMA QuietReports ==
  ASSUME TypeInv, SnapshotInv, NEW c \in Callers, CallReports(call[c]), Quiet(c)
  PROVE  /\ CallReports(call'[c])
         /\ \A s, x : Owes(call'[c], s, x) <=> Owes(call[c], s, x)
         /\ UNCHANGED <<session, approval, disclosure, review, audits, faults>>
  <1> DEFINE Fits == /\ CallReports(call'[c])
                     /\ \A s, x : Owes(call'[c], s, x) <=> Owes(call[c], s, x)
  <1>1. UNCHANGED <<session, approval, disclosure, review, audits, faults>>
    BY DEF Quiet, checkDisclosures, checkReviews, rereadSession, countRunEvents,
           appendRunEvent, readRunEvents, readAuditEvents, readExistingBundle,
           persistEvidenceBundle, stores
  <1>2. AuditsOnce(<<>>) /\ Reports(<<>>) = {}
    BY EmptyReports
  <1>3. \A x \in Counted : Before(x) \notin {"disclosures", "reviews", "reread", "effects",
             "append", "trailAudits", "trailExisting", "saveBundle"}
    BY DEF Counted, Before
  <1>4. ASSUME NEW pc \in {"disclosures", "reviews"}, Refused(c, pc) PROVE Fits
    BY <1>2, <1>4 DEF Refused, Idle, CallReports, Owes
  <1>5. CASE checkDisclosures(c)
    <2>1. Goes(c, "disclosures", "reviews") \/ Refused(c, "disclosures")
      BY <1>5, ContinuePlace
    <2> QED
      BY <1>1, <1>4, <2>1 DEF Goes, CallReports, Owes
  <1>6. CASE checkReviews(c)
    <2>1. Goes(c, "reviews", "saveSession") \/ Refused(c, "reviews")
      BY <1>6, ContinuePlace
    <2>2. Exists(call[c].session)
      BY <1>6 DEF checkReviews, SnapshotInv, CallSnapshot
    <2> QED
      BY <1>1, <1>4, <2>1, <2>2 DEF Goes, CallReports, Owes
  <1>7. CASE rereadSession(c)
    <2>1. Goes(c, "reread", "saveSession")
      BY <1>7, ContinuePlace
    <2>2. Exists(call[c].session) /\ Reports(call[c].todo) = {"approval.resolved"}
      BY <1>7 DEF rereadSession, SnapshotInv, CallSnapshot, CallReports
    <2>3. Before("approval.resolved") = "saveResolution"
      BY DEF Before
    <2>4. CallReports(call'[c])
      BY <2>1, <2>2 DEF Goes, CallReports
    <2>5. \A s, x : Owes(call'[c], s, x) <=> Owes(call[c], s, x)
      BY <2>1, <2>2, <2>3 DEF Goes, Owes
    <2> QED
      BY <1>1, <2>4, <2>5
  <1>8. CASE countRunEvents(c) \/ readRunEvents(c) \/ readAuditEvents(c) \/ readExistingBundle(c)
    <2>1. /\ \E pc \in {"effects", "trailAudits", "trailExisting"},
                new \in {"append", "trailAudits", "trailExisting", "saveBundle"} :
                  Goes(c, pc, new)
          /\ call'[c].pc \in {"trailAudits", "trailExisting", "saveBundle"} =>
               Head(call[c].todo) = "bundle"
      <3>1. CASE countRunEvents(c)
        BY <3>1, ContinuePlace DEF Goes
      <3>2. CASE readRunEvents(c)
        BY <3>2, ContinuePlace, Zenon DEF Goes, readRunEvents
      <3>3. CASE readAuditEvents(c) \/ readExistingBundle(c)
        BY <3>3, ContinuePlace, Zenon DEF Goes, readAuditEvents, readExistingBundle, CallReports
      <3> QED
        BY <1>8, <3>1, <3>2, <3>3
    <2>2. CallReports(call'[c])
      BY <2>1 DEF Goes, CallReports
    <2>3. \A s, x : Owes(call'[c], s, x) <=> Owes(call[c], s, x)
      BY <1>3, <2>1 DEF Goes, Owes, Reports
    <2> QED
      BY <1>1, <2>2, <2>3
  <1>9. CASE appendRunEvent(c) \/ persistEvidenceBundle(c)
    <2>1. Done(c) /\ call[c].pc \in {"append", "saveBundle"}
      BY <1>9, ContinuePlace DEF appendRunEvent, persistEvidenceBundle
    <2>2. Head(call[c].todo) \notin Counted
      BY <2>1 DEF TypeInv, CallConsistent, CallReports, RunEventTypes, Counted
    <2>3. Reports(call'[c].todo) = Reports(call[c].todo)
      <3>1. Head(call[c].todo) \notin Reports(call[c].todo)
        BY <2>2 DEF Reports
      <3> QED
        BY <2>1, <3>1, DoneReports
    <2>4. call'[c].pc = "idle" => Reports(call'[c].todo) = {}
      BY <2>1, DoneReports DEF CallReports
    <2>5. \A s, x : Owes(call'[c], s, x) <=> Owes(call[c], s, x)
      BY <1>3, <2>1, <2>3, <2>4 DEF Done, Owes, Reports, Idle
    <2> QED
      BY <1>1, <2>1, <2>5, DoneReports
  <1> QED
    BY <1>1, <1>5, <1>6, <1>7, <1>8, <1>9 DEF Quiet

(* What a session's audit events count.                                    *)
LEMMA CountType ==
  ASSUME TypeInv, NEW s \in Sessions, NEW x
  PROVE  /\ Count(s, x) \in Nat /\ IsFiniteSet({i \in DOMAIN audits[s] : audits[s][i] = x})
         /\ audits[s] \in Seq(AuditActions) /\ Len(audits[s]) \in Nat
         /\ DOMAIN audits[s] = 1..Len(audits[s])
  <1>1. audits[s] \in Seq(AuditActions)
    BY DEF TypeInv, TypeOK
  <1>2. Len(audits[s]) \in Nat /\ DOMAIN audits[s] = 1..Len(audits[s])
    BY <1>1, LenProperties
  <1>3. IsFiniteSet({i \in DOMAIN audits[s] : audits[s][i] = x})
    <2>1. IsFiniteSet(1..Len(audits[s]))
      BY <1>2, FS_Interval
    <2>2. {i \in DOMAIN audits[s] : audits[s][i] = x} \in SUBSET (1..Len(audits[s]))
      BY <1>2
    <2> QED
      BY <2>1, <2>2, FS_Subset
  <1>4. Cardinality({i \in DOMAIN audits[s] : audits[s][i] = x}) \in Nat
    BY <1>3, FS_CardinalityType
  <1>5. Count(s, x) \in Nat
    BY <1>4 DEF Count
  <1> QED
    BY <1>1, <1>2, <1>3, <1>5

LEMMA AuditCounts ==
  ASSUME TypeInv, NEW c \in Callers, recordAuditEvent(c), NEW s \in Sessions, NEW x
  PROVE  Count(s, x)' = IF s = call[c].session /\ x = Head(call[c].todo)
                          THEN Count(s, x) + 1 ELSE Count(s, x)
  <1> DEFINE t == call[c].session
             y == Head(call[c].todo)
             places == {i \in DOMAIN audits[s] : audits[s][i] = x}
  <1>1. /\ audits' = [audits EXCEPT ![t] = Append(audits[t], y)]
        /\ y \in AuditActions /\ t \in Sessions /\ audits \in [Sessions -> Seq(AuditActions)]
    BY DEF recordAuditEvent, TypeInv, TypeOK, CallConsistent
  <1>2. CASE s # t
    BY <1>1, <1>2 DEF Count
  <1>3. CASE s = t
    <2> DEFINE n == Len(audits[s])
               new == Append(audits[s], y)
    <2>1. /\ audits[s] \in Seq(AuditActions) /\ n \in Nat
          /\ DOMAIN audits[s] = 1..n /\ IsFiniteSet(places) /\ Count(s, x) = Cardinality(places)
      BY CountType DEF Count
    <2>2. /\ DOMAIN new = 1..(n + 1) /\ \A i \in 1..n : new[i] = audits[s][i]
          /\ new[n + 1] = y
      BY <1>1, <2>1, AppendProperties, LenProperties
    <2>3. Count(s, x)' = Cardinality({i \in DOMAIN new : new[i] = x})
      BY <1>1, <1>3 DEF Count
    <2> HIDE DEF new
    <2>4. CASE x = y
      <3>1. {i \in DOMAIN new : new[i] = x} = places \cup {n + 1} /\ n + 1 \notin places
        BY <2>1, <2>2, <2>4
      <3> HIDE DEF places
      <3>2. Cardinality(places \cup {n + 1}) = Cardinality(places) + 1
        BY <2>1, <3>1, FS_AddElement
      <3> QED
        BY <1>3, <2>1, <2>3, <2>4, <3>1, <3>2
    <2>5. CASE x # y
      <3>1. {i \in DOMAIN new : new[i] = x} = places
        BY <2>1, <2>2, <2>5
      <3> QED
        BY <2>1, <2>3, <2>5, <3>1
    <2> QED
      BY <2>4, <2>5
  <1> QED
    BY <1>2, <1>3

(* The three ways a step can leave the balance of a session and an action. *)
LEMMA BalanceKept ==
  ASSUME NEW s, NEW x, Balanced(s, x), Stored(s, x)' = Stored(s, x),
         Owed(s, x)' = Owed(s, x), Count(s, x)' = Count(s, x), faults' = faults
  PROVE  Balanced(s, x)'
  BY DEF Balanced

LEMMA BalanceSaved ==
  ASSUME TypeInv, NEW s \in Sessions, NEW x, NEW c, NEW a, Balanced(s, x),
         Stored(s, x)' = Stored(s, x) \cup {a}, Owed(s, x)' = Owed(s, x) \cup {c},
         Count(s, x)' = Count(s, x), c \notin Owed(s, x), faults' = faults,
         x # "approval.resolved" => a \notin Stored(s, x)
  PROVE  Balanced(s, x)'
  <1>1. PICK S, O, n : S = Stored(s, x) /\ O = Owed(s, x) /\ n = Count(s, x)
    OBVIOUS
  <1>2. /\ IsFiniteSet(S) /\ IsFiniteSet(O) /\ n \in Nat /\ faults \in Nat
        /\ Cardinality(S) <= n + Cardinality(O) + faults
        /\ x # "approval.resolved" => n + Cardinality(O) <= Cardinality(S)
    BY <1>1, CountType DEF Balanced, TypeInv, TypeOK
  <1>3. /\ IsFiniteSet(S \cup {a}) /\ IsFiniteSet(O \cup {c})
        /\ Cardinality(S \cup {a}) = IF a \in S THEN Cardinality(S) ELSE Cardinality(S) + 1
        /\ Cardinality(O \cup {c}) = Cardinality(O) + 1
    BY <1>1, <1>2, FS_AddElement
  <1>4. Cardinality(S) \in Nat /\ Cardinality(O) \in Nat
    BY <1>2, FS_CardinalityType
  <1>5. PICK SS, OO, nn : SS = S \cup {a} /\ OO = O \cup {c} /\ nn = n
    OBVIOUS
  <1>6. /\ IsFiniteSet(SS) /\ IsFiniteSet(OO) /\ Cardinality(SS) <= nn + Cardinality(OO) + faults
        /\ x # "approval.resolved" => nn + Cardinality(OO) <= Cardinality(SS)
    BY <1>1, <1>2, <1>3, <1>4, <1>5
  <1>7. SS = Stored(s, x)' /\ OO = Owed(s, x)' /\ nn = Count(s, x)'
    BY <1>1, <1>5
  <1> QED
    BY <1>6, <1>7 DEF Balanced

LEMMA BalanceAudited ==
  ASSUME TypeInv, NEW s \in Sessions, NEW x, NEW c, Balanced(s, x),
         Stored(s, x)' = Stored(s, x), Owed(s, x)' = Owed(s, x) \ {c},
         Count(s, x)' = Count(s, x) + 1, c \in Owed(s, x), faults' = faults
  PROVE  Balanced(s, x)'
  <1>1. PICK S, O, n : S = Stored(s, x) /\ O = Owed(s, x) /\ n = Count(s, x)
    OBVIOUS
  <1>2. /\ IsFiniteSet(S) /\ IsFiniteSet(O) /\ n \in Nat /\ faults \in Nat
        /\ Cardinality(S) <= n + Cardinality(O) + faults
        /\ x # "approval.resolved" => n + Cardinality(O) <= Cardinality(S)
    BY <1>1, CountType DEF Balanced, TypeInv, TypeOK
  <1>3. IsFiniteSet(O \ {c}) /\ Cardinality(O \ {c}) = Cardinality(O) - 1
    BY <1>1, <1>2, FS_RemoveElement
  <1>4. Cardinality(S) \in Nat /\ Cardinality(O) \in Nat
    BY <1>2, FS_CardinalityType
  <1>5. PICK OO, nn : OO = O \ {c} /\ nn = n + 1
    OBVIOUS
  <1>6. /\ IsFiniteSet(S) /\ IsFiniteSet(OO) /\ Cardinality(S) <= nn + Cardinality(OO) + faults
        /\ x # "approval.resolved" => nn + Cardinality(OO) <= Cardinality(S)
    BY <1>2, <1>3, <1>4, <1>5
  <1>7. S = Stored(s, x)' /\ OO = Owed(s, x)' /\ nn = Count(s, x)'
    BY <1>1, <1>5
  <1> QED
    BY <1>6, <1>7 DEF Balanced

LEMMA BalanceAborted ==
  ASSUME TypeInv, NEW s \in Sessions, NEW x, NEW c, Balanced(s, x),
         Stored(s, x)' = Stored(s, x), Count(s, x)' = Count(s, x), faults' = faults + 1,
         Owed(s, x)' = Owed(s, x) \/ Owed(s, x)' = Owed(s, x) \ {c}
  PROVE  Balanced(s, x)'
  <1>1. PICK S, O, n : S = Stored(s, x) /\ O = Owed(s, x) /\ n = Count(s, x)
    OBVIOUS
  <1>2. /\ IsFiniteSet(S) /\ IsFiniteSet(O) /\ n \in Nat /\ faults \in Nat
        /\ Cardinality(S) <= n + Cardinality(O) + faults
        /\ x # "approval.resolved" => n + Cardinality(O) <= Cardinality(S)
    BY <1>1, CountType DEF Balanced, TypeInv, TypeOK
  <1>3. Cardinality(S) \in Nat /\ Cardinality(O) \in Nat
    BY <1>2, FS_CardinalityType
  <1>4. PICK OO : OO \in {O, O \ {c}} /\ OO = Owed(s, x)'
    BY <1>1
  <1>5. /\ IsFiniteSet(OO) /\ Cardinality(OO) \in Nat
        /\ Cardinality(OO) <= Cardinality(O) /\ Cardinality(O) <= Cardinality(OO) + 1
    <2>1. CASE OO = O
      BY <1>2, <1>3, <2>1
    <2>2. CASE OO = O \ {c}
      <3>1. /\ IsFiniteSet(O \ {c})
            /\ Cardinality(O \ {c}) = IF c \in O THEN Cardinality(O) - 1 ELSE Cardinality(O)
        BY <1>1, <1>2, FS_RemoveElement
      <3>2. Cardinality(O \ {c}) \in Nat
        BY <3>1, FS_CardinalityType
      <3> QED
        BY <1>3, <2>2, <3>1, <3>2
    <2> QED
      BY <1>4, <2>1, <2>2
  <1>6. /\ Cardinality(S) <= n + Cardinality(OO) + (faults + 1)
        /\ x # "approval.resolved" => n + Cardinality(OO) <= Cardinality(S)
    BY <1>2, <1>3, <1>5
  <1>7. S = Stored(s, x)' /\ n = Count(s, x)'
    BY <1>1
  <1> QED
    BY <1>2, <1>4, <1>5, <1>6, <1>7 DEF Balanced

(* Only the stepping call's place in what is owed changes.                 *)
LEMMA OwedSteps ==
  ASSUME TypeInv, NEW c \in Callers, Start(c) \/ Continue(c) \/ Reject(c), NEW s, NEW x
  PROVE  /\ c \in Owed(s, x) <=> Owes(call[c], s, x)
         /\ (Owes(call'[c], s, x) <=> Owes(call[c], s, x)) => Owed(s, x)' = Owed(s, x)
         /\ Owes(call'[c], s, x) => Owed(s, x)' = Owed(s, x) \cup {c}
         /\ ~Owes(call'[c], s, x) => Owed(s, x)' = Owed(s, x) \ {c}
  <1>1. \A d \in Callers \ {c} : call'[d] = call[d]
    BY StepShape
  <1>2. \A d : d \in Owed(s, x)' <=> d \in Callers /\ Owes(call'[d], s, x)
    BY DEF Owed, Owes
  <1>3. \A d : d \in Owed(s, x) <=> d \in Callers /\ Owes(call[d], s, x)
    BY DEF Owed
  <1> QED
    BY <1>1, <1>2, <1>3

LEMMA SaveSessionBalance ==
  ASSUME TypeInv, SnapshotInv, NEW c \in Callers, CallReports(call[c]), saveSession(c),
         NEW s \in Sessions, NEW x \in Counted, Balanced(s, x)
  PROVE  Balanced(s, x)'
  <1>1. /\ call[c].pc = "saveSession" /\ call'[c].pc = "effects"
        /\ call'[c].session = call[c].session /\ call'[c].todo = call[c].todo
    BY ContinuePlace DEF Goes
  <1>2. /\ call[c].session \in Sessions /\ call[c].record.status # "none"
        /\ session' = [session EXCEPT ![call[c].session] = call[c].record]
        /\ session \in [Sessions -> RunSession]
        /\ UNCHANGED <<approval, disclosure, review, audits, faults>>
    BY <1>1 DEF saveSession, SnapshotInv, CallSnapshot, TypeInv, TypeOK, CallConsistent
  <1>3. Count(s, x)' = Count(s, x)
    BY <1>2 DEF Count
  <1>4. Continue(c)
    BY DEF Continue
  <1>5. CASE x = "session.started" /\ s = call[c].session /\ ~Exists(s)
    <2>1. Reports(call[c].todo) = {x} /\ Before(x) = "saveSession"
      BY <1>1, <1>5 DEF CallReports, Before
    <2>2. ~Owes(call[c], s, x) /\ Owes(call'[c], s, x)
      BY <1>1, <1>5, <2>1 DEF Owes
    <2>3. c \notin Owed(s, x) /\ Owed(s, x)' = Owed(s, x) \cup {c}
      BY <1>4, <2>2, OwedSteps
    <2>4. Stored(s, x) = {} /\ Stored(s, x)' = {s}
      <3>1. session'[s].status # "none"
        BY <1>2, <1>5
      <3> QED
        BY <1>5, <3>1 DEF Stored, Exists
    <2>5. Stored(s, x)' = Stored(s, x) \cup {s} /\ s \notin Stored(s, x)
      BY <2>4
    <2> QED
      BY <1>2, <1>3, <2>3, <2>5, BalanceSaved
  <1>6. CASE ~(x = "session.started" /\ s = call[c].session /\ ~Exists(s))
    <2>1. Stored(s, x)' = Stored(s, x)
      <3>1. CASE x = "session.started"
        <4>1. Exists(s)' <=> Exists(s)
          BY <1>2, <1>6, <3>1 DEF Exists
        <4> QED
          BY <3>1, <4>1 DEF Stored
      <3>2. CASE x # "session.started"
        BY <1>2, <3>2 DEF Stored, Counted
      <3> QED
        BY <3>1, <3>2
    <2>2. Owes(call'[c], s, x) <=> Owes(call[c], s, x)
      <3>1. CASE x = "session.started" /\ s = call[c].session
        BY <1>1, <1>6, <3>1 DEF CallReports, Owes
      <3>2. CASE x # "session.started"
        BY <1>1, <3>2 DEF Owes, Before, Counted
      <3> QED
        BY <1>1, <3>1, <3>2 DEF Owes
    <2> QED
      BY <1>2, <1>3, <1>4, <2>1, <2>2, OwedSteps, BalanceKept
  <1> QED
    BY <1>5, <1>6

LEMMA SaveRequestBalance ==
  ASSUME TypeInv, RequestInv, NEW c \in Callers, CallReports(call[c]), saveRequest(c),
         NEW s \in Sessions, NEW x \in Counted, Balanced(s, x)
  PROVE  Balanced(s, x)'
  <1> DEFINE a == call[c].id
             stored == [status |-> "pending", session |-> call[c].session]
  <1>1. /\ call[c].pc = "saveRequest" /\ call'[c].pc = "saveSession"
        /\ call'[c].session = call[c].session /\ call'[c].todo = call[c].todo
    BY ContinuePlace DEF Goes
  <1>2. /\ call[c].session \in Sessions /\ a \in Approvals /\ approval[a] = NoApproval
        /\ approval' = [approval EXCEPT ![a] = stored]
        /\ approval \in [Approvals -> ApprovalRequest]
        /\ UNCHANGED <<session, disclosure, review, audits, faults>>
    BY <1>1 DEF saveRequest, RequestInv, CallRequest, TypeInv, TypeOK, CallConsistent
  <1>3. Count(s, x)' = Count(s, x)
    BY <1>2 DEF Count
  <1>4. Continue(c)
    BY DEF Continue
  <1>5. Reports(call[c].todo) = {"approval.requested"}
    BY <1>1 DEF CallReports
  <1>6. /\ approval[a].session # s
        /\ approval'[a].status = "pending" /\ approval'[a].session = call[c].session
        /\ \A b \in Approvals \ {a} : approval'[b] = approval[b]
    BY <1>2, RunSessionsAssumption DEF NoApproval, RunSessionsAssumption
  <1>7. CASE x = "approval.requested" /\ s = call[c].session
    <2>1. Before(x) = "saveRequest"
      BY <1>7 DEF Before
    <2>2. ~Owes(call[c], s, x) /\ Owes(call'[c], s, x)
      BY <1>1, <1>5, <1>7, <2>1 DEF Owes
    <2>3. c \notin Owed(s, x) /\ Owed(s, x)' = Owed(s, x) \cup {c}
      BY <1>4, <2>2, OwedSteps
    <2>4. /\ Stored(s, x) = {b \in Approvals : approval[b].session = s}
          /\ Stored(s, x)' = {b \in Approvals : approval'[b].session = s}
      BY <1>7 DEF Stored
    <2>5. Stored(s, x)' = Stored(s, x) \cup {a} /\ a \notin Stored(s, x)
      BY <1>2, <1>6, <1>7, <2>4
    <2> QED
      BY <1>2, <1>3, <2>3, <2>5, BalanceSaved
  <1>8. CASE ~(x = "approval.requested" /\ s = call[c].session)
    <2>1. Stored(s, x)' = Stored(s, x)
      <3>1. CASE x = "approval.requested"
        <4>1. /\ Stored(s, x) = {b \in Approvals : approval[b].session = s}
              /\ Stored(s, x)' = {b \in Approvals : approval'[b].session = s}
          BY <3>1 DEF Stored
        <4> QED
          BY <1>2, <1>6, <1>8, <3>1, <4>1
      <3>2. CASE x = "approval.resolved"
        <4>1. /\ Stored(s, x) = {b \in Approvals :
                                  approval[b].session = s /\ approval[b].status # "pending"}
              /\ Stored(s, x)' = {b \in Approvals :
                                  approval'[b].session = s /\ approval'[b].status # "pending"}
          BY <3>2 DEF Stored
        <4> QED
          BY <1>2, <1>6, <4>1
      <3>3. CASE x \notin {"approval.requested", "approval.resolved"}
        BY <1>2, <3>3 DEF Stored, Counted, Exists
      <3> QED
        BY <3>1, <3>2, <3>3
    <2>2. Owes(call'[c], s, x) <=> Owes(call[c], s, x)
      BY <1>1, <1>5, <1>8 DEF Owes
    <2> QED
      BY <1>2, <1>3, <1>4, <2>1, <2>2, OwedSteps, BalanceKept
  <1> QED
    BY <1>7, <1>8

LEMMA SaveResolutionBalance ==
  ASSUME TypeInv, RequestInv, NEW c \in Callers, CallReports(call[c]), saveResolution(c),
         NEW s \in Sessions, NEW x \in Counted, Balanced(s, x)
  PROVE  Balanced(s, x)'
  <1> DEFINE a == call[c].id
             stored == [status |-> IF call[c].outcome THEN "approved" ELSE "rejected",
                        session |-> call[c].session]
  <1>1. /\ call[c].pc = "saveResolution" /\ call'[c].pc = "reread"
        /\ call'[c].session = call[c].session /\ call'[c].todo = call[c].todo
    BY ContinuePlace DEF Goes
  <1>2. /\ call[c].session \in Sessions /\ a \in Approvals
        /\ approval[a].session = call[c].session
        /\ approval' = [approval EXCEPT ![a] = stored]
        /\ approval \in [Approvals -> ApprovalRequest]
        /\ UNCHANGED <<session, disclosure, review, audits, faults>>
    BY <1>1 DEF saveResolution, RequestInv, CallRequest, TypeInv, TypeOK, CallConsistent
  <1>3. Count(s, x)' = Count(s, x)
    BY <1>2 DEF Count
  <1>4. Continue(c)
    BY DEF Continue
  <1>5. Reports(call[c].todo) = {"approval.resolved"} /\ Before("approval.resolved") = "saveResolution"
    BY <1>1 DEF CallReports, Before
  <1>6. /\ approval'[a].status # "pending" /\ approval'[a].session = approval[a].session
        /\ \A b \in Approvals \ {a} : approval'[b] = approval[b]
    BY <1>2
  <1>7. CASE x = "approval.resolved" /\ s = call[c].session
    <2>2. ~Owes(call[c], s, x) /\ Owes(call'[c], s, x)
      BY <1>1, <1>5, <1>7 DEF Owes
    <2>3. c \notin Owed(s, x) /\ Owed(s, x)' = Owed(s, x) \cup {c}
      BY <1>4, <2>2, OwedSteps
    <2>4. /\ Stored(s, x) = {b \in Approvals :
                              approval[b].session = s /\ approval[b].status # "pending"}
          /\ Stored(s, x)' = {b \in Approvals :
                              approval'[b].session = s /\ approval'[b].status # "pending"}
      BY <1>7 DEF Stored
    <2>5. Stored(s, x)' = Stored(s, x) \cup {a}
      BY <1>2, <1>6, <1>7, <2>4
    <2> QED
      BY <1>2, <1>3, <1>7, <2>3, <2>5, BalanceSaved
  <1>8. CASE ~(x = "approval.resolved" /\ s = call[c].session)
    <2>1. Stored(s, x)' = Stored(s, x)
      <3>1. CASE x = "approval.requested"
        <4>1. /\ Stored(s, x) = {b \in Approvals : approval[b].session = s}
              /\ Stored(s, x)' = {b \in Approvals : approval'[b].session = s}
          BY <3>1 DEF Stored
        <4> QED
          BY <1>6, <4>1
      <3>2. CASE x = "approval.resolved"
        <4>1. /\ Stored(s, x) = {b \in Approvals :
                                  approval[b].session = s /\ approval[b].status # "pending"}
              /\ Stored(s, x)' = {b \in Approvals :
                                  approval'[b].session = s /\ approval'[b].status # "pending"}
          BY <3>2 DEF Stored
        <4>2. s # call[c].session
          BY <1>8, <3>2
        <4>3. approval[a].session # s /\ approval'[a].session # s
          BY <1>2, <1>6, <4>2
        <4>4. ASSUME NEW b \in Approvals
              PROVE  approval[b].session = s /\ approval[b].status # "pending" <=>
                     approval'[b].session = s /\ approval'[b].status # "pending"
          BY <1>6, <4>3
        <4> QED
          BY <4>1, <4>4, Zenon
      <3>3. CASE x \notin {"approval.requested", "approval.resolved"}
        BY <1>2, <3>3 DEF Stored, Counted, Exists
      <3> QED
        BY <3>1, <3>2, <3>3
    <2>2. Owes(call'[c], s, x) <=> Owes(call[c], s, x)
      BY <1>1, <1>5, <1>8 DEF Owes
    <2> QED
      BY <1>2, <1>3, <1>4, <2>1, <2>2, OwedSteps, BalanceKept
  <1> QED
    BY <1>7, <1>8

LEMMA SaveEvidenceBalance ==
  ASSUME TypeInv, EvidenceInv, NEW c \in Callers, CallReports(call[c]),
         saveDisclosure(c) \/ saveReview(c),
         NEW s \in Sessions, NEW x \in Counted, Balanced(s, x)
  PROVE  Balanced(s, x)'
  <1> DEFINE i == call[c].id
             stored == [session |-> call[c].session, outcome |-> call[c].outcome]
  <1>1. Continue(c) /\ s # NoId /\ stored.session = call[c].session
    BY RunSessionsAssumption DEF Continue
  <1>2. Count(s, x)' = Count(s, x) /\ faults' = faults
    BY DEF saveDisclosure, saveReview, Count
  <1>3. call'[c].pc = "effects" /\ call'[c].session = call[c].session /\ call'[c].todo = call[c].todo
    BY ContinuePlace DEF Goes
  <1>4. CASE saveDisclosure(c)
    <2>1. /\ call[c].pc = "saveDisclosure" /\ i \in Disclosures /\ disclosure[i] = NoEvidence
          /\ disclosure' = [disclosure EXCEPT ![i] = stored]
          /\ disclosure \in [Disclosures -> Evidence]
          /\ UNCHANGED <<session, approval, review, audits>>
      BY <1>4 DEF saveDisclosure, EvidenceInv, TypeInv, TypeOK, CallConsistent
    <2>2. Reports(call[c].todo) = {"disclosure.recorded"} /\ Before("disclosure.recorded") = "saveDisclosure"
      BY <2>1 DEF CallReports, Before
    <2>3. /\ disclosure[i].session # s /\ disclosure'[i].session = call[c].session
          /\ \A b \in Disclosures \ {i} : disclosure'[b] = disclosure[b]
      BY <1>1, <2>1 DEF NoEvidence
    <2>4. CASE x = "disclosure.recorded" /\ s = call[c].session
      <3>1. ~Owes(call[c], s, x) /\ Owes(call'[c], s, x)
        BY <1>3, <2>1, <2>2, <2>4 DEF Owes
      <3>2. c \notin Owed(s, x) /\ Owed(s, x)' = Owed(s, x) \cup {c}
        BY <1>1, <3>1, OwedSteps
      <3>3. /\ Stored(s, x) = {b \in Disclosures : disclosure[b].session = s}
            /\ Stored(s, x)' = {b \in Disclosures : disclosure'[b].session = s}
        BY <2>4 DEF Stored
      <3>4. Stored(s, x)' = Stored(s, x) \cup {i} /\ i \notin Stored(s, x)
        BY <2>1, <2>3, <2>4, <3>3
      <3> QED
        BY <1>2, <3>2, <3>4, BalanceSaved
    <2>5. CASE ~(x = "disclosure.recorded" /\ s = call[c].session)
      <3>1. Stored(s, x)' = Stored(s, x)
        <4>1. CASE x = "disclosure.recorded"
          <5>1. /\ Stored(s, x) = {b \in Disclosures : disclosure[b].session = s}
                /\ Stored(s, x)' = {b \in Disclosures : disclosure'[b].session = s}
            BY <4>1 DEF Stored
          <5>2. s # call[c].session /\ disclosure[i].session # s /\ disclosure'[i].session # s
            BY <2>3, <2>5, <4>1
          <5>3. \A b \in Disclosures : disclosure[b].session = s <=> disclosure'[b].session = s
            BY <2>3, <5>2
          <5> QED
            BY <5>1, <5>3, Zenon
        <4>2. CASE x # "disclosure.recorded"
          BY <2>1, <4>2 DEF Stored, Counted, Exists
        <4> QED
          BY <4>1, <4>2
      <3>2. Owes(call'[c], s, x) <=> Owes(call[c], s, x)
        BY <1>3, <2>1, <2>2, <2>5 DEF Owes
      <3> QED
        BY <1>1, <1>2, <3>1, <3>2, OwedSteps, BalanceKept
    <2> QED
      BY <2>4, <2>5
  <1>5. CASE saveReview(c)
    <2>1. /\ call[c].pc = "saveReview" /\ i \in Reviews /\ review[i] = NoEvidence
          /\ review' = [review EXCEPT ![i] = stored]
          /\ review \in [Reviews -> Evidence]
          /\ UNCHANGED <<session, approval, disclosure, audits>>
      BY <1>5 DEF saveReview, EvidenceInv, TypeInv, TypeOK, CallConsistent
    <2>2. Reports(call[c].todo) = {"human_review.recorded"} /\ Before("human_review.recorded") = "saveReview"
      BY <2>1 DEF CallReports, Before
    <2>3. /\ review[i].session # s /\ review'[i].session = call[c].session
          /\ \A b \in Reviews \ {i} : review'[b] = review[b]
      BY <1>1, <2>1 DEF NoEvidence
    <2>4. CASE x = "human_review.recorded" /\ s = call[c].session
      <3>1. ~Owes(call[c], s, x) /\ Owes(call'[c], s, x)
        BY <1>3, <2>1, <2>2, <2>4 DEF Owes
      <3>2. c \notin Owed(s, x) /\ Owed(s, x)' = Owed(s, x) \cup {c}
        BY <1>1, <3>1, OwedSteps
      <3>3. /\ Stored(s, x) = {b \in Reviews : review[b].session = s}
            /\ Stored(s, x)' = {b \in Reviews : review'[b].session = s}
        BY <2>4 DEF Stored
      <3>4. Stored(s, x)' = Stored(s, x) \cup {i} /\ i \notin Stored(s, x)
        BY <2>1, <2>3, <2>4, <3>3
      <3> QED
        BY <1>2, <3>2, <3>4, BalanceSaved
    <2>5. CASE ~(x = "human_review.recorded" /\ s = call[c].session)
      <3>1. Stored(s, x)' = Stored(s, x)
        <4>1. CASE x = "human_review.recorded"
          <5>1. /\ Stored(s, x) = {b \in Reviews : review[b].session = s}
                /\ Stored(s, x)' = {b \in Reviews : review'[b].session = s}
            BY <4>1 DEF Stored
          <5>2. s # call[c].session /\ review[i].session # s /\ review'[i].session # s
            BY <2>3, <2>5, <4>1
          <5>3. \A b \in Reviews : review[b].session = s <=> review'[b].session = s
            BY <2>3, <5>2
          <5> QED
            BY <5>1, <5>3, Zenon
        <4>2. CASE x # "human_review.recorded"
          BY <2>1, <4>2 DEF Stored, Counted, Exists
        <4> QED
          BY <4>1, <4>2
      <3>2. Owes(call'[c], s, x) <=> Owes(call[c], s, x)
        BY <1>3, <2>1, <2>2, <2>5 DEF Owes
      <3> QED
        BY <1>1, <1>2, <3>1, <3>2, OwedSteps, BalanceKept
    <2> QED
      BY <2>4, <2>5
  <1> QED
    BY <1>4, <1>5

LEMMA AuditBalance ==
  ASSUME TypeInv, NEW c \in Callers, CallReports(call[c]), recordAuditEvent(c),
         NEW s \in Sessions, NEW x \in Counted, Balanced(s, x)
  PROVE  Balanced(s, x)'
  <1>1. /\ call[c].pc = "effects" /\ Done(c) /\ Continue(c)
        /\ UNCHANGED <<session, approval, disclosure, review, faults>>
    BY ContinuePlace DEF recordAuditEvent, Continue
  <1>2. Stored(s, x)' = Stored(s, x)
    BY <1>1 DEF Stored, Exists, Counted
  <1>3. /\ Reports(call'[c].todo) = Reports(call[c].todo) \ {Head(call[c].todo)}
        /\ Head(call[c].todo) \in Counted => Head(call[c].todo) \in Reports(call[c].todo)
        /\ call'[c].pc = "idle" => Reports(call'[c].todo) = {}
    BY <1>1, DoneReports DEF CallReports
  <1>4. Before(x) \notin {"effects", "idle"}
    BY DEF Before, Counted
  <1>5. CASE s = call[c].session /\ x = Head(call[c].todo)
    <2>1. Owes(call[c], s, x) /\ ~Owes(call'[c], s, x)
      BY <1>1, <1>3, <1>4, <1>5 DEF Owes
    <2>2. c \in Owed(s, x) /\ Owed(s, x)' = Owed(s, x) \ {c}
      BY <1>1, <2>1, OwedSteps
    <2>3. Count(s, x)' = Count(s, x) + 1
      BY <1>5, AuditCounts
    <2> QED
      BY <1>1, <1>2, <2>2, <2>3, BalanceAudited
  <1>6. CASE ~(s = call[c].session /\ x = Head(call[c].todo))
    <2>1. Count(s, x)' = Count(s, x)
      BY <1>6, AuditCounts
    <2>2. Owes(call'[c], s, x) <=> Owes(call[c], s, x)
      <3>1. CASE call'[c].pc = "effects" /\ call'[c].session = call[c].session
        BY <1>1, <1>3, <1>4, <1>6, <3>1 DEF Owes
      <3>2. CASE call'[c] = Idle
        BY <1>3, <1>6, <3>2 DEF Owes, Idle
      <3> QED
        BY <1>1, <3>1, <3>2 DEF Done
    <2> QED
      BY <1>1, <1>2, <2>1, <2>2, OwedSteps, BalanceKept
  <1> QED
    BY <1>5, <1>6

(* The balance and what the calls audit hold after every step, as long as  *)
(* no producer reports what the control plane audits and no client repeats *)
(* an input.id.                                                            *)
LEMMA StepCallReports ==
  ASSUME OwnReports, ~ReuseIds, TypeInv, SnapshotInv, AuditInv,
         NEW c \in Callers, Start(c) \/ Continue(c) \/ Reject(c)
  PROVE  \A d \in Callers : CallReports(call[d])'
  <1>1. /\ CallReports(call'[c])
        /\ call'[c].pc = "saveSession" => ~saveSession(c)
    <2>1. CASE Start(c)
      BY <2>1, StartReports, Zenon DEF AuditInv, saveSession, Start, startRunSession, completeRunSession,
         requestHumanApproval, resolveApprovalRequest, recordDisclosure, recordHumanReview,
         enqueueEvents, Begin
    <2>2. CASE Reject(c)
      <3>1. call'[c] = Idle
        BY <2>2 DEF Reject, Becomes, TypeInv, TypeOK
      <3>2. CallReports(Idle)
        BY EmptyReports DEF Idle, CallReports
      <3> QED
        BY <3>1, <3>2 DEF Idle
    <2>3. CASE Quiet(c)
      <3>1. ~saveSession(c)
        BY <2>3 DEF Quiet, saveSession, checkDisclosures, checkReviews, rereadSession,
           countRunEvents, appendRunEvent, readRunEvents, readAuditEvents, readExistingBundle,
           persistEvidenceBundle
      <3> QED
        BY <2>3, <3>1, QuietReports DEF AuditInv
    <2>4. CASE recordAuditEvent(c)
      <3>1. Done(c) /\ ~saveSession(c)
        BY <2>4, ContinuePlace DEF recordAuditEvent, saveSession
      <3> QED
        BY <3>1, DoneReports DEF AuditInv
    <2>5. CASE saveSession(c) \/ saveDisclosure(c) \/ saveReview(c)
      BY <2>5, ContinuePlace DEF Goes, AuditInv, CallReports
    <2>6. CASE saveRequest(c)
      <3>1. /\ Goes(c, "saveRequest", "saveSession") /\ Exists(call[c].session)
            /\ ~saveSession(c)
        BY <2>6, ContinuePlace DEF saveRequest, saveSession, SnapshotInv, CallSnapshot
      <3> QED
        BY <3>1 DEF Goes, AuditInv, CallReports
    <2>7. CASE saveResolution(c)
      BY <2>7, ContinuePlace DEF Goes, AuditInv, CallReports
    <2> QED
      BY <2>1, <2>2, <2>3, <2>4, <2>5, <2>6, <2>7 DEF Continue, Quiet
  <1>2. ASSUME NEW d \in Callers
        PROVE  /\ CallReports(call'[d])
               /\ call'[d].pc = "saveSession" =>
                    (session'[call'[d].session].status # "none" <=> Exists(call'[d].session))
    <2>1. CASE d = c
      BY <1>1, <2>1, SessionFrame DEF Exists
    <2>2. CASE d # c
      <3>1. call'[d] = call[d] /\ CallReports(call'[d])
        BY <2>2, StepShape DEF AuditInv
      <3>2. CASE UNCHANGED session \/ call[d].pc # "saveSession"
        BY <3>1, <3>2 DEF Exists
      <3>3. CASE saveSession(c) /\ call[d].pc = "saveSession"
        <4>1. call[d].session \in Sessions
          BY <3>3 DEF TypeInv, CallConsistent
        <4>2. CASE Exists(call[d].session)
          BY <3>1, <4>1, <4>2, SessionsKept DEF Exists
        <4>3. CASE ~Exists(call[d].session)
          <5>1. call[c].session # call[d].session
            BY <2>2, <3>3, <4>3 DEF SnapshotInv
          <5> QED
            BY <3>1, <4>1, <5>1, SessionsKept DEF Exists
        <4> QED
          BY <4>2, <4>3
      <3> QED
        BY <3>2, <3>3, SessionFrame
    <2> QED
      BY <2>1, <2>2
  <1> QED
    BY <1>2 DEF CallReports, Exists

LEMMA StepBalance ==
  ASSUME OwnReports, ~ReuseIds, TypeInv, SnapshotInv, RequestInv, EvidenceInv, AuditInv,
         NEW c \in Callers, Start(c) \/ Continue(c) \/ Reject(c),
         NEW s \in Sessions, NEW x \in Counted
  PROVE  Balanced(s, x)'
  <1>1. CallReports(call[c]) /\ Balanced(s, x)
    BY DEF AuditInv
  <1>2. CASE Reject(c)
    <2>1. /\ UNCHANGED <<session, approval, disclosure, review, audits>>
          /\ faults' = faults + 1
      BY <1>2, Zenon DEF Reject, stores
    <2>2. Stored(s, x)' = Stored(s, x) /\ Count(s, x)' = Count(s, x)
      BY <2>1 DEF Stored, Exists, Count, Counted
    <2>3. Owed(s, x)' = Owed(s, x) \/ Owed(s, x)' = Owed(s, x) \ {c}
      <3>1. call'[c] = Idle
        BY <1>2 DEF Reject, Becomes, TypeInv, TypeOK
      <3>2. ~Owes(call'[c], s, x)
        BY <3>1 DEF Owes, Idle
      <3> QED
        BY <1>2, <3>2, OwedSteps
    <2> QED
      BY <1>1, <2>1, <2>2, <2>3, BalanceAborted
  <1>3. CASE Start(c) \/ Quiet(c)
    <2>1. /\ Owes(call'[c], s, x) <=> Owes(call[c], s, x)
          /\ UNCHANGED <<session, approval, disclosure, review, audits, faults>>
      BY <1>1, <1>3, StartReports, QuietReports DEF stores
    <2>2. Stored(s, x)' = Stored(s, x) /\ Count(s, x)' = Count(s, x)
      BY <2>1 DEF Stored, Exists, Count, Counted
    <2>3. Owed(s, x)' = Owed(s, x)
      BY <1>3, <2>1, OwedSteps DEF Continue, Quiet
    <2> QED
      BY <1>1, <2>1, <2>2, <2>3, BalanceKept
  <1> QED
    BY <1>1, <1>2, <1>3, SaveSessionBalance, SaveRequestBalance, SaveResolutionBalance,
       SaveEvidenceBalance, AuditBalance DEF Continue, Quiet

-----------------------------------------------------------------------------
(* Every event that closes a run is audited                                *)

LEMMA HappenedType ==
  ASSUME TypeInv, NEW s \in Sessions, NEW types
  PROVE  Happened(s, types) \in Nat
         /\ IsFiniteSet({i \in DOMAIN events[s] : events[s][i].type \in types})
  <1>1. events[s] \in Seq(RunEvent) /\ Len(events[s]) \in Nat /\ DOMAIN events[s] = 1..Len(events[s])
    BY EventsType, LenProperties
  <1>2. IsFiniteSet(1..Len(events[s]))
    BY <1>1, FS_Interval
  <1>3. {i \in DOMAIN events[s] : events[s][i].type \in types} \in SUBSET (1..Len(events[s]))
    BY <1>1
  <1>4. IsFiniteSet({i \in DOMAIN events[s] : events[s][i].type \in types})
    BY <1>2, <1>3, FS_Subset
  <1>5. Cardinality({i \in DOMAIN events[s] : events[s][i].type \in types}) \in Nat
    BY <1>4, FS_CardinalityType
  <1> QED
    BY <1>4, <1>5 DEF Happened

LEMMA EventCounts ==
  ASSUME TypeInv, NEW c \in Callers, appendRunEvent(c), NEW s \in Sessions, NEW types
  PROVE  Happened(s, types)' = IF s = call[c].session /\ Head(call[c].todo) \in types
                                 THEN Happened(s, types) + 1 ELSE Happened(s, types)
  <1> DEFINE t == call[c].session
             e == [type |-> Head(call[c].todo), sequence |-> call[c].count + 1, by |-> c]
             places == {i \in DOMAIN events[s] : events[s][i].type \in types}
  <1>1. /\ events' = [events EXCEPT ![t] = Append(events[t], e)]
        /\ e \in RunEvent
        /\ t \in Sessions /\ events \in [Sessions -> Seq(RunEvent)]
    <2>1. /\ events' = [events EXCEPT ![t] = Append(events[t], e)]
          /\ e \in RunEvent
      BY DEF appendRunEvent, TypeInv, TypeOK, Call, CallConsistent, RunEvent
    <2>2. t \in Sessions /\ events \in [Sessions -> Seq(RunEvent)]
      BY DEF appendRunEvent, TypeInv, TypeOK, CallConsistent
    <2> QED
      BY <2>1, <2>2
  <1> e.type = Head(call[c].todo)
    OBVIOUS
  <1> HIDE DEF e
  <1>2. CASE s # t
    BY <1>1, <1>2 DEF Happened
  <1>3. CASE s = t
    <2> DEFINE n == Len(events[s])
               new == Append(events[s], e)
    <2>1. /\ events[s] \in Seq(RunEvent) /\ n \in Nat /\ DOMAIN events[s] = 1..n
          /\ IsFiniteSet(places) /\ Happened(s, types) = Cardinality(places)
      BY <1>1, HappenedType, LenProperties DEF Happened
    <2>2. /\ DOMAIN new = 1..(n + 1) /\ \A i \in 1..n : new[i] = events[s][i]
          /\ new[n + 1] = e
      BY <1>1, <2>1, AppendProperties, LenProperties
    <2>3. Happened(s, types)' = Cardinality({i \in DOMAIN new : new[i].type \in types})
      BY <1>1, <1>3 DEF Happened
    <2> HIDE DEF new
    <2>4. CASE e.type \in types
      <3>0. /\ n + 1 \notin DOMAIN events[s] /\ DOMAIN new = DOMAIN events[s] \cup {n + 1}
            /\ \A i \in DOMAIN events[s] : new[i] = events[s][i]
        BY <2>1, <2>2
      <3>1. {i \in DOMAIN new : new[i].type \in types} = places \cup {n + 1} /\ n + 1 \notin places
        BY <2>2, <2>4, <3>0
      <3> HIDE DEF places
      <3>2. Cardinality(places \cup {n + 1}) = Cardinality(places) + 1
        BY <2>1, <3>1, FS_AddElement
      <3> QED
        BY <1>1, <1>3, <2>1, <2>3, <2>4, <3>1, <3>2
    <2>5. CASE e.type \notin types
      <3>1. {i \in DOMAIN new : new[i].type \in types} = places
        BY <2>1, <2>2, <2>5
      <3> QED
        BY <1>1, <2>1, <2>3, <2>5, <3>1
    <2> QED
      BY <2>4, <2>5
  <1> QED
    BY <1>2, <1>3

(* The lists of a closing run, one effect after another.                   *)
LEMMA CloserTails ==
  ASSUME NEW r, r.todo \in Seq(Effects), r.todo # <<>>, CallCloses(r)
  PROVE  LET todo == r.todo
             head == Head(r.todo)
             rest == Tail(r.todo)
         IN /\ \A new : new.todo = rest /\ new.pc = "effects" => CallCloses(new)
            /\ head \in {"run_completed", "run_failed"} =>
                 \/ todo \notin {Completed, Rejected} /\ rest = Completed
                 \/ todo = Rejected /\ rest \notin {Completed, Rejected}
            /\ head = "approval_resolved:rejected" =>
                 todo \notin {Completed, Rejected} /\ rest = Rejected
            /\ head = "session.completed" =>
                 todo = Completed /\ rest \notin {Completed, Rejected}
            /\ head \notin Closers => {todo, rest} \cap {Completed, Rejected} = {}
            /\ Completed # Rejected
  <1> DEFINE todo == r.todo
             C1 == <<"run_completed", "session.completed", "bundle">>
             C2 == <<"run_failed", "session.completed", "bundle">>
             R0 == <<"approval_resolved:rejected", "run_failed", "bundle", "approval.resolved">>
             None(list) == \A i \in DOMAIN list : list[i] \notin Closers
  <1>1. /\ Head(Completed) = "session.completed" /\ Head(Rejected) = "run_failed"
        /\ Head(C1) = "run_completed" /\ Head(C2) = "run_failed"
        /\ Head(R0) = "approval_resolved:rejected"
    BY DEF Completed, Rejected
  <1>2. /\ Tail(Completed) = <<"bundle">> /\ Tail(Rejected) = <<"bundle", "approval.resolved">>
        /\ Tail(C1) = Completed /\ Tail(C2) = Completed /\ Tail(R0) = Rejected
    BY DEF Completed, Rejected
  <1>3. None(<<"bundle">>) /\ None(<<"bundle", "approval.resolved">>)
    BY DEF Closers
  <1>4. ~None(Completed) /\ ~None(Rejected) /\ Completed # Rejected
    <2>1. 1 \in DOMAIN Completed /\ 1 \in DOMAIN Rejected
      BY DEF Completed, Rejected
    <2>2. Completed[1] \in Closers /\ Rejected[1] \in Closers /\ Completed[1] # Rejected[1]
      BY DEF Completed, Rejected, Closers
    <2> QED
      BY <2>1, <2>2
  <1>5. ASSUME None(todo) PROVE None(Tail(todo)) /\ Head(todo) \notin Closers
    <2>1. /\ Len(todo) \in Nat \ {0} /\ DOMAIN todo = 1..Len(todo) /\ Head(todo) = todo[1]
          /\ Tail(todo) \in Seq(Effects) /\ Len(Tail(todo)) = Len(todo) - 1
          /\ \A i \in 1..(Len(todo) - 1) : Tail(todo)[i] = todo[i + 1]
      BY HeadTailProperties, EmptySeq, LenProperties
    <2>2. DOMAIN Tail(todo) = 1..(Len(todo) - 1)
      BY <2>1, LenProperties
    <2> QED
      BY <1>5, <2>1, <2>2
  <1>6. todo \in {Completed, Rejected, C1, C2, R0} \/ None(todo)
    BY DEF CallCloses
  <1>7. \A new : new.pc = "effects" /\ (new.todo \in {Completed, Rejected} \/ None(new.todo))
                   => CallCloses(new)
    BY DEF CallCloses
  <1>8. /\ C1 \notin {Completed, Rejected} /\ C2 \notin {Completed, Rejected}
        /\ R0 \notin {Completed, Rejected}
    <2>1. Tail(Completed) # Completed /\ Tail(Rejected) # Completed /\ Tail(Rejected) # Rejected
          /\ Tail(Completed) # Rejected
      BY <1>2, <1>3, <1>4
    <2> QED
      BY <1>2, <2>1
  <1>9. "session.completed" \in Closers /\ "run_completed" \in Closers /\ "run_failed" \in Closers
        /\ "approval_resolved:rejected" \in Closers
    BY DEF Closers
  <1> HIDE DEF C1, C2, R0, None
  <1>10. CASE todo = Completed
    BY <1>1, <1>2, <1>3, <1>4, <1>7, <1>9, <1>10
  <1>11. CASE todo = Rejected
    BY <1>1, <1>2, <1>3, <1>4, <1>7, <1>9, <1>11
  <1>12. CASE todo \in {C1, C2, R0}
    BY <1>1, <1>2, <1>4, <1>7, <1>8, <1>9, <1>12
  <1>13. CASE None(todo)
    BY <1>4, <1>5, <1>7, <1>9, <1>13
  <1> QED
    BY <1>6, <1>10, <1>11, <1>12, <1>13

(* No handler begins past its closing event, and no producer reports one.  *)
LEMMA StartCloses ==
  ASSUME OwnReports, TypeInv, NEW c \in Callers, Start(c)
  PROVE  /\ CallCloses(call'[c]) /\ call'[c].todo \notin {Completed, Rejected}
         /\ call[c].pc = "idle"
         /\ UNCHANGED <<stores, faults>>
  <1> DEFINE Good(todo) ==
               /\ todo \notin {Completed, Rejected}
               /\ \/ todo \in {<<"run_completed", "session.completed", "bundle">>,
                               <<"run_failed", "session.completed", "bundle">>,
                               <<"approval_resolved:rejected", "run_failed", "bundle",
                                 "approval.resolved">>}
                  \/ \A i \in DOMAIN todo : todo[i] \notin Closers
  <1>1. ASSUME NEW r, Begin(c, r), Good(r.todo)
        PROVE  /\ CallCloses(call'[c]) /\ call'[c].todo \notin {Completed, Rejected}
               /\ call[c].pc = "idle" /\ UNCHANGED <<stores, faults>>
    <2>1. call'[c] = r /\ call[c].pc = "idle" /\ UNCHANGED <<stores, faults>>
      BY <1>1 DEF Begin, Becomes, TypeInv, TypeOK
    <2> QED
      BY <1>1, <2>1 DEF CallCloses
  <1>2. /\ Completed[1] = "session.completed" /\ Rejected[1] = "run_failed" /\ Rejected[2] = "bundle"
        /\ 1 \in DOMAIN Completed /\ 1 \in DOMAIN Rejected
    BY DEF Completed, Rejected
  <1>plain. ASSUME NEW todo, \A i \in DOMAIN todo : todo[i] \notin Closers PROVE Good(todo)
    BY <1>2, <1>plain DEF Closers
  <1>3. ASSUME NEW x, NEW y, {x, y} \cap Closers = {} PROVE Good(<<x, y>>)
    <2>1. DOMAIN <<x, y>> = {1, 2} /\ <<x, y>>[1] = x /\ <<x, y>>[2] = y
      OBVIOUS
    <2>2. \A i \in DOMAIN <<x, y>> : <<x, y>>[i] \notin Closers
      BY <1>3, <2>1
    <2> HIDE DEF Good
    <2> QED
      BY <1>plain, <2>2, Zenon
  <1>4. ASSUME NEW x, NEW y, NEW z, {x, y, z} \cap Closers = {} PROVE Good(<<x, y, z>>)
    <2>1. /\ DOMAIN <<x, y, z>> = {1, 2, 3} /\ <<x, y, z>>[1] = x
          /\ <<x, y, z>>[2] = y /\ <<x, y, z>>[3] = z
      OBVIOUS
    <2>2. \A i \in DOMAIN <<x, y, z>> : <<x, y, z>>[i] \notin Closers
      BY <1>4, <2>1
    <2> HIDE DEF Good
    <2> QED
      BY <1>plain, <2>2, Zenon
  <1>5. \A status : Good(CompletionEffects(status))
    <2>1. /\ <<"run_completed", "session.completed", "bundle">>[1] = "run_completed"
          /\ <<"run_failed", "session.completed", "bundle">>[1] = "run_failed"
          /\ <<"run_failed", "session.completed", "bundle">>[2] = "session.completed"
      OBVIOUS
    <2>2. /\ <<"run_completed", "session.completed", "bundle">> \notin {Completed, Rejected}
          /\ <<"run_failed", "session.completed", "bundle">> \notin {Completed, Rejected}
      BY <1>2, <2>1
    <2> QED
      BY <2>2 DEF CompletionEffects
  <1>6. \A approved : Good(ResolutionEffects(approved))
    <2>1. <<"approval_resolved:rejected", "run_failed", "bundle", "approval.resolved">>[1]
            = "approval_resolved:rejected"
      OBVIOUS
    <2>2. <<"approval_resolved:rejected", "run_failed", "bundle", "approval.resolved">>
            \notin {Completed, Rejected}
      BY <1>2, <2>1
    <2>3. Good(<<"approval_resolved:approved", "approval.resolved">>)
      BY <1>3 DEF Closers
    <2> QED
      BY <2>2, <2>3 DEF ResolutionEffects
  <1>7. \A acknowledged : Good(DisclosureEffects(acknowledged))
    <2>1. /\ Good(<<"disclosure_presented", "disclosure_acknowledged", "disclosure.recorded">>)
          /\ Good(<<"disclosure_presented", "disclosure.recorded">>)
      BY <1>3, <1>4 DEF Closers
    <2> QED
      BY <2>1 DEF DisclosureEffects
  <1>8. /\ Good(<<"run_started", "session.started">>)
        /\ Good(<<"approval_requested", "approval.requested">>)
        /\ Good(<<"human_review_completed", "human_review.recorded">>)
    BY <1>3 DEF Closers
  <1> HIDE DEF Good
  <1>9. CASE startRunSession(c)
    <2>1. PICK s, record :
            Begin(c, [Idle EXCEPT !.pc = "saveSession", !.session = s, !.record = record,
                                  !.todo = <<"run_started", "session.started">>])
      BY <1>9, Zenon DEF startRunSession
    <2> QED
      BY <1>1, <1>8, <2>1 DEF Idle
  <1>10. CASE completeRunSession(c)
    <2>1. PICK s, record, status :
            Begin(c, [Idle EXCEPT !.pc = "disclosures", !.session = s, !.record = record,
                                  !.todo = CompletionEffects(status)])
      BY <1>10, Zenon DEF completeRunSession
    <2> QED
      BY <1>1, <1>5, <2>1 DEF Idle
  <1>11. CASE requestHumanApproval(c)
    <2>1. PICK s, a, record :
            Begin(c, [Idle EXCEPT !.pc = "saveRequest", !.session = s, !.id = a,
                                  !.record = record,
                                  !.todo = <<"approval_requested", "approval.requested">>])
      BY <1>11, Zenon DEF requestHumanApproval
    <2> QED
      BY <1>1, <1>8, <2>1 DEF Idle
  <1>12. CASE resolveApprovalRequest(c)
    <2>1. PICK s, a, approved :
            Begin(c, [Idle EXCEPT !.pc = "saveResolution", !.session = s, !.id = a,
                                  !.outcome = approved, !.todo = ResolutionEffects(approved)])
      BY <1>12, Zenon DEF resolveApprovalRequest
    <2> QED
      BY <1>1, <1>6, <2>1 DEF Idle
  <1>13. CASE recordDisclosure(c)
    <2>1. PICK s, d, acknowledged :
            Begin(c, [Idle EXCEPT !.pc = "saveDisclosure", !.session = s, !.id = d,
                                  !.outcome = acknowledged,
                                  !.todo = DisclosureEffects(acknowledged)])
      BY <1>13, Zenon DEF recordDisclosure
    <2> QED
      BY <1>1, <1>7, <2>1 DEF Idle
  <1>14. CASE recordHumanReview(c)
    <2>1. PICK s, v, approved :
            Begin(c, [Idle EXCEPT !.pc = "saveReview", !.session = s, !.id = v,
                                  !.outcome = approved,
                                  !.todo = <<"human_review_completed", "human_review.recorded">>])
      BY <1>14, Zenon DEF recordHumanReview
    <2> QED
      BY <1>1, <1>8, <2>1 DEF Idle
  <1>15. CASE enqueueEvents(c)
    <2>1. PICK s \in Sessions, batch \in Batches : Begin(c, Owing(s, batch))
      BY <1>15 DEF enqueueEvents
    <2>2. \A i \in DOMAIN batch : batch[i] \notin Closers
      BY <2>1 DEF OwnReports
    <2>4. Good(batch)
      BY <1>plain, <2>2
    <2> QED
      BY <1>1, <2>1, <2>4 DEF Owing, Idle
  <1> QED
    BY <1>9, <1>10, <1>11, <1>12, <1>13, <1>14, <1>15 DEF Start

(* Only the stepping call's place among those that close a run changes.    *)
LEMMA DoingSteps ==
  ASSUME TypeInv, NEW c \in Callers, Start(c) \/ Continue(c) \/ Reject(c), NEW s, NEW todo
  PROVE  /\ c \in Doing(s, todo) <=> call[c].session = s /\ call[c].todo = todo
         /\ call'[c].session = s /\ call'[c].todo = todo =>
              Doing(s, todo)' = Doing(s, todo) \cup {c}
         /\ call'[c].session # s \/ call'[c].todo # todo =>
              Doing(s, todo)' = Doing(s, todo) \ {c}
  <1>1. \A d \in Callers \ {c} : call'[d] = call[d]
    BY StepShape
  <1>2. \A d : d \in Doing(s, todo)' <=> d \in Callers /\ call'[d].session = s /\ call'[d].todo = todo
    BY DEF Doing
  <1>3. \A d : d \in Doing(s, todo) <=> d \in Callers /\ call[d].session = s /\ call[d].todo = todo
    BY DEF Doing
  <1> QED
    BY <1>1, <1>2, <1>3

LEMMA OneMoreOrLess ==
  ASSUME NEW S, NEW c, IsFiniteSet(S)
  PROVE  /\ Cardinality(S) \in Nat
         /\ IsFiniteSet(S \cup {c}) /\ IsFiniteSet(S \ {c})
         /\ Cardinality(S \cup {c}) = IF c \in S THEN Cardinality(S) ELSE Cardinality(S) + 1
         /\ Cardinality(S \ {c}) = IF c \in S THEN Cardinality(S) - 1 ELSE Cardinality(S)
         /\ Cardinality(S \ {c}) \in Nat
  <1>1. IsFiniteSet(S \cup {c}) /\ IsFiniteSet(S \ {c})
    BY FS_AddElement, FS_RemoveElement
  <1> QED
    BY <1>1, FS_AddElement, FS_RemoveElement, FS_CardinalityType

(* What a step of caller c does to a count and to a set of calls.          *)
Joins(S, T, c) == c \notin S /\ T = S \cup {c}
Leaves(S, T, c) == c \in S /\ T = S \ {c}

(* What a step adds to the counts of session s.                            *)
Adds(s, event, rejection, audit, fault) ==
  /\ Closings(s)' = Closings(s) + event
  /\ Rejections(s)' = Rejections(s) + rejection
  /\ Count(s, "session.completed")' = Count(s, "session.completed") + audit
  /\ faults' = faults + fault

(* The ways a step can leave what closes and what is audited of a session: *)
(* nothing counts; an event and its caller move on together; a handler is  *)
(* aborted.                                                                *)
LEMMA SettlingMoves ==
  ASSUME TypeInv, NEW s \in Sessions, NEW c, Settling(s),
         \/ /\ Adds(s, 0, 0, 0, 0)
            /\ Doing(s, Completed)' = Doing(s, Completed)
            /\ Doing(s, Rejected)' = Doing(s, Rejected)
         \/ /\ Adds(s, 1, 0, 0, 0)
            /\ \/ /\ Joins(Doing(s, Completed), Doing(s, Completed)', c)
                  /\ Doing(s, Rejected)' = Doing(s, Rejected)
               \/ /\ Leaves(Doing(s, Rejected), Doing(s, Rejected)', c)
                  /\ Doing(s, Completed)' = Doing(s, Completed)
         \/ /\ Adds(s, 0, 1, 0, 0)
            /\ Joins(Doing(s, Rejected), Doing(s, Rejected)', c)
            /\ Doing(s, Completed)' = Doing(s, Completed)
         \/ /\ Adds(s, 0, 0, 1, 0)
            /\ Leaves(Doing(s, Completed), Doing(s, Completed)', c)
            /\ Doing(s, Rejected)' = Doing(s, Rejected)
         \/ /\ Adds(s, 0, 0, 0, 1)
            /\ Doing(s, Completed)' \in {Doing(s, Completed), Doing(s, Completed) \ {c}}
            /\ Doing(s, Rejected)' \in {Doing(s, Rejected), Doing(s, Rejected) \ {c}}
  PROVE  Settling(s)'
  <1>0. PICK completed1, rejected1, events1, rejections1, audits1, faults1 :
          /\ completed1 = Doing(s, Completed)' /\ rejected1 = Doing(s, Rejected)'
          /\ events1 = Closings(s)' /\ rejections1 = Rejections(s)'
          /\ audits1 = Count(s, "session.completed")' /\ faults1 = faults'
    OBVIOUS
  <1>1. PICK A, R, e, r, a, f : /\ A = Doing(s, Completed) /\ R = Doing(s, Rejected)
                                /\ e = Closings(s) /\ r = Rejections(s)
                                /\ a = Count(s, "session.completed") /\ f = faults
    OBVIOUS
  <1>2. e \in Nat /\ r \in Nat /\ a \in Nat /\ f \in Nat
    BY <1>1, HappenedType, CountType DEF Closings, Rejections, TypeInv, TypeOK
  <1>3. /\ IsFiniteSet(A) /\ IsFiniteSet(R)
        /\ e + Cardinality(R) <= a + r + Cardinality(A) + f
        /\ a + r + Cardinality(A) <= e + Cardinality(R) + f
    BY <1>1 DEF Settling
  <1>4. /\ Cardinality(A) \in Nat /\ Cardinality(A \cup {c}) \in Nat /\ Cardinality(A \ {c}) \in Nat
        /\ IsFiniteSet(A \cup {c}) /\ IsFiniteSet(A \ {c})
        /\ Cardinality(A \cup {c}) = IF c \in A THEN Cardinality(A) ELSE Cardinality(A) + 1
        /\ Cardinality(A \ {c}) = IF c \in A THEN Cardinality(A) - 1 ELSE Cardinality(A)
    BY <1>1, <1>3, OneMoreOrLess
  <1>5. /\ Cardinality(R) \in Nat /\ Cardinality(R \cup {c}) \in Nat /\ Cardinality(R \ {c}) \in Nat
        /\ IsFiniteSet(R \cup {c}) /\ IsFiniteSet(R \ {c})
        /\ Cardinality(R \cup {c}) = IF c \in R THEN Cardinality(R) ELSE Cardinality(R) + 1
        /\ Cardinality(R \ {c}) = IF c \in R THEN Cardinality(R) - 1 ELSE Cardinality(R)
    BY <1>1, <1>3, OneMoreOrLess
  <1> DEFINE Goal == /\ IsFiniteSet(completed1) /\ IsFiniteSet(rejected1)
                     /\ events1 + Cardinality(rejected1)
                          <= audits1 + rejections1 + Cardinality(completed1) + faults1
                     /\ audits1 + rejections1 + Cardinality(completed1)
                          <= events1 + Cardinality(rejected1) + faults1
  <1>6. CASE /\ events1 = e /\ rejections1 = r /\ audits1 = a /\ faults1 = f
             /\ completed1 = A /\ rejected1 = R
    <2>1. Goal
      BY <1>3, <1>6
    <2> QED
      BY <1>0, <2>1 DEF Settling
  <1>7. CASE /\ events1 = e + 1 /\ rejections1 = r /\ audits1 = a /\ faults1 = f
             /\ \/ Joins(A, completed1, c) /\ rejected1 = R
                \/ Leaves(R, rejected1, c) /\ completed1 = A
    <2>1. ASSUME Joins(A, completed1, c), rejected1 = R PROVE Goal
      BY <1>2, <1>3, <1>4, <1>5, <1>7, <2>1 DEF Joins
    <2>2. ASSUME Leaves(R, rejected1, c), completed1 = A PROVE Goal
      BY <1>2, <1>3, <1>4, <1>5, <1>7, <2>2 DEF Leaves
    <2>3. Goal
      BY <1>7, <2>1, <2>2
    <2> QED
      BY <1>0, <2>3 DEF Settling
  <1>8. CASE /\ events1 = e /\ rejections1 = r + 1 /\ audits1 = a /\ faults1 = f
             /\ Joins(R, rejected1, c) /\ completed1 = A
    <2>1. Goal
      BY <1>2, <1>3, <1>4, <1>5, <1>8 DEF Joins
    <2> QED
      BY <1>0, <2>1 DEF Settling
  <1>9. CASE /\ events1 = e /\ rejections1 = r /\ audits1 = a + 1 /\ faults1 = f
             /\ Leaves(A, completed1, c) /\ rejected1 = R
    <2>1. Goal
      BY <1>2, <1>3, <1>4, <1>5, <1>9 DEF Leaves
    <2> QED
      BY <1>0, <2>1 DEF Settling
  <1>10. CASE /\ events1 = e /\ rejections1 = r /\ audits1 = a /\ faults1 = f + 1
              /\ completed1 \in {A, A \ {c}} /\ rejected1 \in {R, R \ {c}}
    <2>1. /\ IsFiniteSet(completed1) /\ Cardinality(completed1) \in Nat
          /\ Cardinality(completed1) <= Cardinality(A)
          /\ Cardinality(A) <= Cardinality(completed1) + 1
      <3>1. CASE completed1 = A
        BY <1>3, <1>4, <3>1
      <3>2. CASE completed1 = A \ {c}
        BY <1>3, <1>4, <3>2
      <3> QED
        BY <1>10, <3>1, <3>2
    <2>2. /\ IsFiniteSet(rejected1) /\ Cardinality(rejected1) \in Nat
          /\ Cardinality(rejected1) <= Cardinality(R)
          /\ Cardinality(R) <= Cardinality(rejected1) + 1
      <3>1. CASE rejected1 = R
        BY <1>3, <1>5, <3>1
      <3>2. CASE rejected1 = R \ {c}
        BY <1>3, <1>5, <3>2
      <3> QED
        BY <1>10, <3>1, <3>2
    <2>3. Goal
      BY <1>2, <1>3, <1>4, <1>5, <1>10, <2>1, <2>2
    <2> QED
      BY <1>0, <2>3 DEF Settling
  <1> HIDE DEF Goal
  <1>11. /\ Closings(s)' = events1 /\ Rejections(s)' = rejections1 /\ faults' = faults1
         /\ Count(s, "session.completed")' = audits1
         /\ Doing(s, Completed)' = completed1 /\ Doing(s, Rejected)' = rejected1
    BY <1>0
  <1>12. e + 0 = e /\ r + 0 = r /\ a + 0 = a /\ f + 0 = f
    BY <1>2
  <1> QED
    BY <1>1, <1>6, <1>7, <1>8, <1>9, <1>10, <1>11, <1>12 DEF Adds

LEMMA StepCloses ==
  ASSUME OwnReports, TypeInv, AuditInv, ClosingInv,
         NEW c \in Callers, Start(c) \/ Continue(c) \/ Reject(c)
  PROVE  /\ \A d \in Callers : CallCloses(call'[d])
         /\ \A s \in Sessions : Settling(s)'
  <1> DEFINE Past == {Completed, Rejected}
             t == call[c].session
             head == Head(call[c].todo)
             Stays == /\ UNCHANGED faults
                      /\ \A s \in Sessions : /\ Doing(s, Completed)' = Doing(s, Completed)
                                             /\ Doing(s, Rejected)' = Doing(s, Rejected)
  <1>1. /\ CallCloses(call[c]) /\ call[c].todo \in Seq(Effects)
        /\ call[c].pc # "idle" => call[c].todo # <<>> /\ t \in Sessions
    BY DEF ClosingInv, TypeInv, TypeOK, Call, CallConsistent
  <1>2. \A d \in Callers \ {c} : call'[d] = call[d] /\ CallCloses(call'[d])
    BY StepShape DEF ClosingInv
  <1>3. CallCloses(Idle) /\ Idle.todo \notin Past /\ Idle.session \notin Sessions
    <2>1. Idle.todo = <<>> /\ Idle.session = NoId /\ Completed # <<>> /\ Rejected # <<>>
      BY DEF Idle, Completed, Rejected
    <2> QED
      BY <2>1, RunSessionsAssumption DEF CallCloses, RunSessionsAssumption
  <1>4. ASSUME NEW s \in Sessions
        PROVE  /\ Closings(s) \in Nat /\ Rejections(s) \in Nat
               /\ Count(s, "session.completed") \in Nat /\ faults \in Nat /\ Settling(s)
    BY HappenedType, CountType DEF Closings, Rejections, TypeInv, TypeOK, ClosingInv
  <1>5. ASSUME Stays, UNCHANGED <<events, audits>> PROVE \A s \in Sessions : Settling(s)'
    BY <1>4, <1>5 DEF Settling, Closings, Rejections, Happened, Count
  <1>6. ASSUME call[c].todo \notin Past, call'[c].todo \notin Past, UNCHANGED faults PROVE Stays
    <2>1. ASSUME NEW s \in Sessions, NEW todo \in Past PROVE Doing(s, todo)' = Doing(s, todo)
      <3>1. Doing(s, todo)' = Doing(s, todo) \ {c}
        BY <1>6, <2>1, DoingSteps
      <3>2. c \notin Doing(s, todo)
        BY <1>6, <2>1 DEF Doing
      <3> QED
        BY <3>1, <3>2
    <2>2. Completed \in Past /\ Rejected \in Past
      OBVIOUS
    <2> HIDE DEF Past
    <2> QED
      BY <1>6, <2>1, <2>2
  <1> HIDE DEF Past, Stays
  <1>7. CASE Start(c)
    <2>1. /\ CallCloses(call'[c]) /\ call'[c].todo \notin Past /\ call[c].pc = "idle"
          /\ UNCHANGED <<events, audits, faults>>
      BY <1>7, StartCloses DEF Past, stores
    <2>2. call[c].todo \notin Past
      BY <1>1, <2>1 DEF CallCloses, Past
    <2> QED
      BY <1>2, <1>5, <1>6, <2>1, <2>2
  <1>8. CASE Reject(c)
    <2>1. call'[c] = Idle /\ UNCHANGED <<events, audits>> /\ faults' = faults + 1
      BY <1>8 DEF Reject, Becomes, TypeInv, TypeOK, stores
    <2>2. ASSUME NEW s \in Sessions PROVE Settling(s)'
      <3>1. /\ Doing(s, Completed)' = Doing(s, Completed) \ {c}
            /\ Doing(s, Rejected)' = Doing(s, Rejected) \ {c}
        BY <1>3, <1>8, <2>1, DoingSteps
      <3>2. /\ Closings(s)' = Closings(s) /\ Rejections(s)' = Rejections(s)
            /\ Count(s, "session.completed")' = Count(s, "session.completed")
        BY <2>1 DEF Closings, Rejections, Happened, Count
      <3>3. Adds(s, 0, 0, 0, 1)
        BY <1>4, <2>1, <3>2 DEF Adds
      <3> QED
        BY <1>4, <3>1, <3>3, SettlingMoves
    <2> QED
      BY <1>2, <1>3, <2>1, <2>2
  <1>9. CASE appendRunEvent(c) \/ recordAuditEvent(c) \/ persistEvidenceBundle(c)
    <2>1. Done(c) /\ UNCHANGED faults
      <3>1. Done(c)
        BY <1>9, ContinuePlace
      <3> QED
        BY <1>9, <3>1, Zenon DEF appendRunEvent, recordAuditEvent, persistEvidenceBundle
    <2>2. /\ CallCloses(call'[c])
          /\ head \in {"run_completed", "run_failed"} =>
               \/ call[c].todo \notin Past /\ call'[c].todo = Completed
               \/ call[c].todo = Rejected /\ call'[c].todo \notin Past
          /\ head = "approval_resolved:rejected" =>
               call[c].todo \notin Past /\ call'[c].todo = Rejected
          /\ head = "session.completed" => call[c].todo = Completed /\ call'[c].todo \notin Past
          /\ head \notin Closers => call[c].todo \notin Past /\ call'[c].todo \notin Past
          /\ Completed # Rejected
      <3>1. call[c].todo # <<>> /\ call'[c].todo = Tail(call[c].todo)
            /\ (call'[c] = Idle \/ call'[c].pc = "effects")
        BY <1>1, <2>1 DEF Done
      <3>2. CallCloses(call'[c])
        BY <1>1, <1>3, <3>1, CloserTails
      <3>3. /\ head \in {"run_completed", "run_failed"} =>
                 \/ call[c].todo \notin Past /\ Tail(call[c].todo) = Completed
                 \/ call[c].todo = Rejected /\ Tail(call[c].todo) \notin Past
            /\ head = "approval_resolved:rejected" =>
                 call[c].todo \notin Past /\ Tail(call[c].todo) = Rejected
            /\ head = "session.completed" =>
                 call[c].todo = Completed /\ Tail(call[c].todo) \notin Past
            /\ head \notin Closers => call[c].todo \notin Past /\ Tail(call[c].todo) \notin Past
            /\ Completed # Rejected
        BY <1>1, <3>1, CloserTails DEF Past
      <3> QED
        BY <3>1, <3>2, <3>3
    <2>3. call'[c].todo \in Past => call'[c].session = t
      BY <1>3, <2>1 DEF Done
    <2>4. ASSUME NEW s \in Sessions, NEW todo \in Past
          PROVE  /\ call'[c].todo = todo /\ s = t => Doing(s, todo)' = Doing(s, todo) \cup {c}
                 /\ call'[c].todo # todo \/ s # t => Doing(s, todo)' = Doing(s, todo) \ {c}
                 /\ c \in Doing(s, todo) <=> s = t /\ call[c].todo = todo
      BY <1>9, <2>3, <2>4, DoingSteps DEF Continue
    <2>5. Completed \in Past /\ Rejected \in Past /\ Completed # Rejected
      BY <2>2 DEF Past
    <2>10. ASSUME NEW s \in Sessions, NEW todo \in Past,
                  call[c].todo # todo, call'[c].todo # todo
           PROVE  Doing(s, todo)' = Doing(s, todo)
      <3>1. Doing(s, todo)' = Doing(s, todo) \ {c} /\ c \notin Doing(s, todo)
        BY <2>4, <2>10
      <3> QED
        BY <3>1
    <2>6. ASSUME head \notin Closers PROVE Stays
      BY <1>6, <2>1, <2>2, <2>6
    <2>7. CASE persistEvidenceBundle(c)
      <3>1. head \notin Closers
        <4>1. call[c].pc = "saveBundle"
          BY <2>7 DEF persistEvidenceBundle
        <4>2. head = "bundle"
          BY <4>1 DEF AuditInv, CallReports
        <4> QED
          BY <4>2 DEF Closers
      <3> QED
        BY <1>2, <1>5, <2>2, <2>6, <2>7, <3>1 DEF persistEvidenceBundle
    <2>8. CASE appendRunEvent(c)
      <3>1. /\ head \in RunEventTypes /\ head # "session.completed" /\ UNCHANGED audits
        BY <2>8 DEF appendRunEvent, TypeInv, CallConsistent, RunEventTypes
      <3>2. ASSUME NEW s \in Sessions PROVE Settling(s)'
        <4>1. /\ Closings(s)' = IF s = t /\ head \in {"run_completed", "run_failed"}
                                  THEN Closings(s) + 1 ELSE Closings(s)
              /\ Rejections(s)' = IF s = t /\ head = "approval_resolved:rejected"
                                    THEN Rejections(s) + 1 ELSE Rejections(s)
              /\ Count(s, "session.completed")' = Count(s, "session.completed")
          BY <2>8, <3>1, EventCounts DEF Closings, Rejections, Count
        <4>2. CASE s = t /\ head \in {"run_completed", "run_failed"}
          <5>1. Adds(s, 1, 0, 0, 0)
            BY <1>4, <2>1, <4>1, <4>2 DEF Adds
          <5>2. CASE call[c].todo \notin Past /\ call'[c].todo = Completed
            <6>1. Joins(Doing(s, Completed), Doing(s, Completed)', c)
              BY <2>4, <2>5, <4>2, <5>2 DEF Joins
            <6>2. Doing(s, Rejected)' = Doing(s, Rejected)
              BY <2>5, <2>10, <5>2
            <6> QED
              BY <1>4, <5>1, <6>1, <6>2, SettlingMoves
          <5>3. CASE call[c].todo = Rejected /\ call'[c].todo \notin Past
            <6>1. Leaves(Doing(s, Rejected), Doing(s, Rejected)', c)
              BY <2>4, <2>5, <4>2, <5>3 DEF Leaves
            <6>2. Doing(s, Completed)' = Doing(s, Completed)
              BY <2>5, <2>10, <5>3
            <6> QED
              BY <1>4, <5>1, <6>1, <6>2, SettlingMoves
          <5> QED
            BY <2>2, <4>2, <5>2, <5>3
        <4>3. CASE s = t /\ head = "approval_resolved:rejected"
          <5>1. Adds(s, 0, 1, 0, 0)
            BY <1>4, <2>1, <4>1, <4>3 DEF Adds
          <5>2. Joins(Doing(s, Rejected), Doing(s, Rejected)', c)
            BY <2>2, <2>4, <2>5, <4>3 DEF Joins
          <5>3. Doing(s, Completed)' = Doing(s, Completed)
            BY <2>2, <2>5, <2>10, <4>3
          <5> QED
            BY <1>4, <5>1, <5>2, <5>3, SettlingMoves
        <4>4. CASE s # t \/ head \notin Closers
          <5>1. Adds(s, 0, 0, 0, 0)
            BY <1>4, <2>1, <4>1, <4>4 DEF Adds, Closers
          <5>2. \A todo \in Past : Doing(s, todo)' = Doing(s, todo)
            BY <2>2, <2>4, <4>4
          <5> QED
            BY <1>4, <2>5, <5>1, <5>2, SettlingMoves
        <4> QED
          BY <3>1, <4>2, <4>3, <4>4 DEF Closers
      <3> QED
        BY <1>2, <2>2, <3>2
    <2>9. CASE recordAuditEvent(c)
      <3>1. /\ head \in AuditActions /\ UNCHANGED events
            /\ head \notin {"run_completed", "run_failed", "approval_resolved:rejected"}
        BY <2>9 DEF recordAuditEvent, AuditActions
      <3>2. ASSUME NEW s \in Sessions PROVE Settling(s)'
        <4>1. /\ Closings(s)' = Closings(s) /\ Rejections(s)' = Rejections(s)
              /\ Count(s, "session.completed")' = IF s = t /\ head = "session.completed"
                   THEN Count(s, "session.completed") + 1 ELSE Count(s, "session.completed")
          BY <2>9, <3>1, AuditCounts DEF Closings, Rejections, Happened
        <4>2. CASE s = t /\ head = "session.completed"
          <5>1. Adds(s, 0, 0, 1, 0)
            BY <1>4, <2>1, <4>1, <4>2 DEF Adds
          <5>2. Leaves(Doing(s, Completed), Doing(s, Completed)', c)
            BY <2>2, <2>4, <2>5, <4>2 DEF Leaves
          <5>3. Doing(s, Rejected)' = Doing(s, Rejected)
            BY <2>2, <2>5, <2>10, <4>2
          <5> QED
            BY <1>4, <5>1, <5>2, <5>3, SettlingMoves
        <4>3. CASE s # t \/ head \notin Closers
          <5>1. Adds(s, 0, 0, 0, 0)
            BY <1>4, <2>1, <4>1, <4>3 DEF Adds, Closers
          <5>2. \A todo \in Past : Doing(s, todo)' = Doing(s, todo)
            BY <2>2, <2>4, <4>3
          <5> QED
            BY <1>4, <2>5, <5>1, <5>2, SettlingMoves
        <4> QED
          BY <3>1, <4>2, <4>3 DEF Closers
      <3> QED
        BY <1>2, <2>2, <3>2
    <2> QED
      BY <1>9, <2>7, <2>8, <2>9
  <1>10. CASE /\ Continue(c)
              /\ ~(appendRunEvent(c) \/ recordAuditEvent(c) \/ persistEvidenceBundle(c))
    <2>1. UNCHANGED <<events, audits, faults>>
      BY <1>10, Zenon DEF Continue, stores, checkDisclosures, checkReviews, saveSession,
         saveRequest, saveResolution, rereadSession, saveDisclosure, saveReview, countRunEvents,
         readRunEvents, readAuditEvents, readExistingBundle
    <2>2. CASE countRunEvents(c)
      <3>1. call'[c].pc = "append" /\ call'[c].session = t /\ call'[c].todo = call[c].todo
        BY <2>2, ContinuePlace DEF Goes
      <3>2. \A s, todo : Doing(s, todo)' = Doing(s, todo)
        BY <1>10, <3>1, DoingSteps
      <3>3. Stays /\ CallCloses(call'[c])
        BY <1>1, <2>1, <3>1, <3>2 DEF Stays, CallCloses
      <3> QED
        BY <1>2, <1>5, <2>1, <3>3
    <2>3. CASE ~countRunEvents(c)
      <3>1. /\ call'[c].todo = call[c].todo \/ call'[c] = Idle
            /\ call[c].todo \notin Past
        <4>1. CASE readRunEvents(c)
          <5>1. head = "bundle" /\ Goes(c, "effects", "trailAudits")
            BY <4>1, ContinuePlace, Zenon DEF readRunEvents
          <5>2. Head(Completed) # "bundle" /\ Head(Rejected) # "bundle"
            BY DEF Completed, Rejected
          <5> QED
            BY <5>1, <5>2 DEF Goes, Past
        <4>2. CASE ~readRunEvents(c)
          <5>1. \E pc \in {"disclosures", "reviews", "saveSession", "saveRequest",
                           "saveResolution", "reread", "saveDisclosure", "saveReview",
                           "trailAudits", "trailExisting"} :
                  Refused(c, pc) \/ \E new : Goes(c, pc, new)
            <6> DEFINE Is(pc, new) == Refused(c, pc) \/ Goes(c, pc, new)
            <6>1. \/ Is("disclosures", "reviews") \/ Is("reviews", "saveSession")
                  \/ Is("saveSession", "effects") \/ Is("saveRequest", "saveSession")
                  \/ Is("saveResolution", "reread") \/ Is("reread", "saveSession")
                  \/ Is("saveDisclosure", "effects") \/ Is("saveReview", "effects")
                  \/ Is("trailAudits", "trailExisting") \/ Is("trailExisting", "saveBundle")
              BY <1>10, <2>3, <4>2, ContinuePlace DEF Continue
            <6> QED
              BY <6>1
          <5> QED
            BY <1>1, <5>1 DEF Refused, Goes, CallCloses, Past
        <4> QED
          BY <4>1, <4>2
      <3>2. CallCloses(call'[c]) /\ call'[c].todo \notin Past
        BY <1>1, <1>3, <3>1 DEF CallCloses, Past
      <3> QED
        BY <1>2, <1>5, <1>6, <2>1, <3>1, <3>2
    <2> QED
      BY <2>2, <2>3
  <1> QED
    BY <1>7, <1>8, <1>9, <1>10

(* At rest every session, request, disclosure and review that is stored    *)
(* has its one audit event, every resolution at least one, and every event *)
(* that closes a run the one of its completion or of its rejection, but    *)
(* for as many as there were handlers aborted: whatever the callers save   *)
(* in between, in whatever order, and however stale.                       *)
THEOREM RestingTrailIsComplete ==
  ASSUME ~ReuseIds, OwnReports
  PROVE  Spec => []AuditTrailComplete
  <1>1. Init => EvidenceInv
    BY DEF Init, EvidenceInv, Idle
  <1>2. Init => AuditInv
    <2> SUFFICES ASSUME Init PROVE AuditInv
      OBVIOUS
    <2>1. \A c \in Callers : CallReports(call[c])
      BY EmptyReports DEF Init, Idle, CallReports
    <2>2. faults = 0
      BY DEF Init
    <2>3. ASSUME NEW s \in Sessions, NEW x \in Counted PROVE Balanced(s, x)
      <3>1. Stored(s, x) = {}
        BY RunSessionsAssumption
        DEF Init, Stored, Counted, Exists, NoSession, NoApproval, NoEvidence, RunSessionsAssumption
      <3>2. Owed(s, x) = {}
        BY DEF Init, Owed, Owes, Idle
      <3>3. Count(s, x) = Cardinality({})
        <4>1. {i \in DOMAIN audits[s] : audits[s][i] = x} = {}
          BY DEF Init
        <4> QED
          BY <4>1 DEF Count
      <3> QED
        BY <2>2, <3>1, <3>2, <3>3, FS_EmptySet DEF Balanced
    <2> QED
      BY <2>1, <2>3 DEF AuditInv
  <1>3. TypeInv /\ TypeInv' /\ SnapshotInv /\ RequestInv /\ EvidenceInv /\ AuditInv /\ [Next]_vars
          => EvidenceInv' /\ AuditInv'
    <2> SUFFICES ASSUME TypeInv, TypeInv', SnapshotInv, RequestInv, EvidenceInv, AuditInv,
                        [Next]_vars
                 PROVE  EvidenceInv' /\ AuditInv'
      OBVIOUS
    <2>1. CASE UNCHANGED vars \/ Rest
      <3>1. UNCHANGED vars
        BY <2>1 DEF Rest
      <3>2. EvidenceInv'
        BY <3>1 DEF vars, EvidenceInv
      <3>3. \A c \in Callers : CallReports(call[c])'
        BY <3>1 DEF vars, AuditInv, CallReports, Exists
      <3>4. ASSUME NEW s \in Sessions, NEW x \in Counted PROVE Balanced(s, x)'
        <4>1. /\ Stored(s, x)' = Stored(s, x) /\ Owed(s, x)' = Owed(s, x)
              /\ Count(s, x)' = Count(s, x)
          BY <3>1 DEF vars, Stored, Exists, Owed, Owes, Count, Counted
        <4> QED
          BY <3>1, <4>1, BalanceKept DEF vars, AuditInv
      <3> QED
        BY <3>2, <3>3, <3>4 DEF AuditInv
    <2>2. ASSUME NEW c \in Callers, Start(c) \/ Continue(c) \/ Reject(c)
          PROVE  EvidenceInv' /\ AuditInv'
      <3>1. EvidenceInv'
        BY <2>2, StepEvidence
      <3>2. \A d \in Callers : CallReports(call[d])'
        BY <2>2, StepCallReports
      <3>3. \A s \in Sessions, x \in Counted : Balanced(s, x)'
        BY <2>2, StepBalance
      <3> QED
        BY <3>1, <3>2, <3>3 DEF AuditInv
    <2> QED
      BY <2>1, <2>2 DEF Next
  <1>4. Init => ClosingInv
    <2> SUFFICES ASSUME Init PROVE ClosingInv
      OBVIOUS
    <2>1. \A c \in Callers : CallCloses(call[c]) /\ call[c].todo = <<>> /\ call[c].session = NoId
      <3>1. Completed # <<>> /\ Rejected # <<>>
        BY DEF Completed, Rejected
      <3> QED
        BY <3>1 DEF Init, Idle, CallCloses
    <2>2. ASSUME NEW s \in Sessions PROVE Settling(s)
      <3>1. \A todo : Doing(s, todo) = {}
        BY <2>1, RunSessionsAssumption DEF Doing, RunSessionsAssumption
      <3>2. Closings(s) = Cardinality({}) /\ Rejections(s) = Cardinality({})
        <4>1. \A types : {i \in DOMAIN events[s] : events[s][i].type \in types} = {}
          BY DEF Init
        <4> QED
          BY <4>1 DEF Closings, Rejections, Happened
      <3>3. Count(s, "session.completed") = Cardinality({})
        <4>1. {i \in DOMAIN audits[s] : audits[s][i] = "session.completed"} = {}
          BY DEF Init
        <4> QED
          BY <4>1 DEF Count
      <3>4. Cardinality({}) = 0 /\ IsFiniteSet({}) /\ faults = 0
        BY FS_EmptySet DEF Init
      <3>5. /\ Closings(s) = 0 /\ Rejections(s) = 0 /\ Count(s, "session.completed") = 0
            /\ Cardinality(Doing(s, Completed)) = 0 /\ Cardinality(Doing(s, Rejected)) = 0
            /\ IsFiniteSet(Doing(s, Completed)) /\ IsFiniteSet(Doing(s, Rejected))
        BY <3>1, <3>2, <3>3, <3>4, Zenon
      <3> QED
        BY <3>4, <3>5 DEF Settling
    <2> QED
      BY <2>1, <2>2 DEF ClosingInv
  <1>5. TypeInv /\ AuditInv /\ ClosingInv /\ [Next]_vars => ClosingInv'
    <2> SUFFICES ASSUME TypeInv, AuditInv, ClosingInv, [Next]_vars PROVE ClosingInv'
      OBVIOUS
    <2>1. CASE UNCHANGED vars \/ Rest
      <3>1. UNCHANGED vars
        BY <2>1 DEF Rest
      <3>2. \A c \in Callers : CallCloses(call'[c])
        BY <3>1 DEF vars, ClosingInv
      <3>3. ASSUME NEW s \in Sessions PROVE Settling(s)'
        <4>1. /\ \A todo : Doing(s, todo)' = Doing(s, todo)
              /\ Closings(s)' = Closings(s) /\ Rejections(s)' = Rejections(s)
              /\ Count(s, "session.completed")' = Count(s, "session.completed")
          BY <3>1 DEF vars, Doing, Closings, Rejections, Happened, Count
        <4> QED
          BY <3>1, <4>1 DEF vars, ClosingInv, Settling
      <3> QED
        BY <3>2, <3>3 DEF ClosingInv, CallCloses
    <2>2. ASSUME NEW c \in Callers, Start(c) \/ Continue(c) \/ Reject(c) PROVE ClosingInv'
      BY <2>2, StepCloses DEF ClosingInv, CallCloses
    <2> QED
      BY <2>1, <2>2 DEF Next
  <1>6. TypeInv /\ AuditInv /\ ClosingInv => AuditTrailComplete
    <2> SUFFICES ASSUME TypeInv, AuditInv, ClosingInv, AtRest, NEW s \in Sessions
                 PROVE  /\ \A x \in Counted :
                             /\ Cardinality(Stored(s, x)) <= Count(s, x) + faults
                             /\ x # "approval.resolved" =>
                                  Count(s, x) <= Cardinality(Stored(s, x))
                        /\ Closings(s) <= Count(s, "session.completed") + Rejections(s) + faults
                        /\ Count(s, "session.completed") + Rejections(s) <= Closings(s) + faults
      <3>1. \A t : Cardinality(Stored(t, "session.started")) = IF Exists(t) THEN 1 ELSE 0
        BY FS_EmptySet, FS_Singleton DEF Stored
      <3> QED
        BY <3>1 DEF AuditTrailComplete, Stored, Counted
    <2>1. faults \in Nat
      BY DEF TypeInv, TypeOK
    <2>2. ASSUME NEW x \in Counted
          PROVE  /\ Cardinality(Stored(s, x)) <= Count(s, x) + faults
                 /\ x # "approval.resolved" => Count(s, x) <= Cardinality(Stored(s, x))
      <3>1. Owed(s, x) = {} /\ Balanced(s, x) /\ Count(s, x) \in Nat
        BY CountType DEF AtRest, Owed, Owes, AuditInv
      <3> QED
        BY <2>1, <3>1, FS_EmptySet, FS_CardinalityType DEF Balanced
    <2>3. /\ Closings(s) <= Count(s, "session.completed") + Rejections(s) + faults
          /\ Count(s, "session.completed") + Rejections(s) <= Closings(s) + faults
      <3>1. Doing(s, Completed) = {} /\ Doing(s, Rejected) = {} /\ Settling(s)
        BY DEF AtRest, ClosingInv, CallCloses, Doing
      <3>2. /\ Closings(s) \in Nat /\ Rejections(s) \in Nat
            /\ Count(s, "session.completed") \in Nat /\ Cardinality({}) = 0
        BY HappenedType, CountType, FS_EmptySet DEF Closings, Rejections
      <3> QED
        BY <2>1, <3>1, <3>2 DEF Settling
    <2> QED
      BY <2>2, <2>3
  <1> QED
    BY <1>1, <1>2, <1>3, <1>4, <1>5, <1>6, TypeInvariant, RequestInvariant, SnapshotInvariant, PTL
    DEF Spec

-----------------------------------------------------------------------------
(* One caller who awaits each of its calls                                 *)

(* What a call starts as.                                                  *)
LEMMA StartFields ==
  ASSUME TypeInv, NEW c \in Callers, Start(c), NEW r, r = call'[c]
  PROVE  /\ call[c].pc = "idle" /\ UNCHANGED <<stores, faults>>
         /\ \A d \in Callers \ {c} : call'[d] = call[d]
         /\ \/ /\ r.pc = "saveSession" /\ (ReuseIds \/ ~Exists(r.session))
               /\ \E p \in Profiles : r.record = StartedSession(p)
               /\ r.todo = <<"run_started", "session.started">>
            \/ /\ r.pc = "disclosures" /\ CanComplete(r.session)
               /\ \E status \in Terminal : /\ r.record = Touched(r.session, status)
                                           /\ r.todo = CompletionEffects(status)
            \/ /\ r.pc = "saveRequest" /\ CanRequestApproval(r.session)
               /\ r.record = [Touched(r.session, "waiting-human") EXCEPT !.currentApproval = r.id]
               /\ r.todo = <<"approval_requested", "approval.requested">>
            \/ /\ r.pc = "saveResolution" /\ CanResolve(r.id)
               /\ r.session = approval[r.id].session
               /\ r.todo = ResolutionEffects(r.outcome)
            \/ r.pc = "saveDisclosure" /\ r.todo = DisclosureEffects(r.outcome)
            \/ /\ r.pc = "saveReview"
               /\ r.todo = <<"human_review_completed", "human_review.recorded">>
            \/ r.pc = "effects" /\ r.todo \in Batches /\ r.todo # <<>>
  <1>1. ASSUME NEW new, Begin(c, new)
        PROVE  /\ r = new /\ call[c].pc = "idle" /\ UNCHANGED <<stores, faults>>
               /\ \A d \in Callers \ {c} : call'[d] = call[d]
    BY <1>1 DEF Begin, Becomes, TypeInv, TypeOK
  <1>2. CASE startRunSession(c)
    <2>1. PICK s \in Sessions, p \in Profiles :
            /\ ReuseIds \/ ~Exists(s)
            /\ Begin(c, [Idle EXCEPT !.pc = "saveSession", !.session = s,
                                     !.record = StartedSession(p),
                                     !.todo = <<"run_started", "session.started">>])
      BY <1>2, Zenon DEF startRunSession
    <2> DEFINE new == [Idle EXCEPT !.pc = "saveSession", !.session = s,
                                   !.record = StartedSession(p),
                                   !.todo = <<"run_started", "session.started">>]
    <2>2. /\ new.pc = "saveSession" /\ new.session = s /\ new.record = StartedSession(p)
          /\ new.todo = <<"run_started", "session.started">>
      BY DEF Idle
    <2>3. Begin(c, new)
      BY <2>1
    <2> HIDE DEF new
    <2> QED
      BY <1>1, <2>1, <2>2, <2>3
  <1>3. CASE completeRunSession(c)
    <2>1. PICK s \in Sessions, status \in Terminal :
            /\ CanComplete(s)
            /\ Begin(c, [Idle EXCEPT !.pc = "disclosures", !.session = s,
                                     !.record = Touched(s, status),
                                     !.todo = CompletionEffects(status)])
      BY <1>3, Zenon DEF completeRunSession
    <2> DEFINE new == [Idle EXCEPT !.pc = "disclosures", !.session = s,
                                   !.record = Touched(s, status),
                                   !.todo = CompletionEffects(status)]
    <2>2. /\ new.pc = "disclosures" /\ new.session = s /\ new.record = Touched(s, status)
          /\ new.todo = CompletionEffects(status)
      BY DEF Idle
    <2>3. Begin(c, new)
      BY <2>1
    <2> HIDE DEF new
    <2> QED
      BY <1>1, <2>1, <2>2, <2>3
  <1>4. CASE requestHumanApproval(c)
    <2>1. PICK s \in Sessions, a \in Approvals :
            /\ CanRequestApproval(s)
            /\ Begin(c, [Idle EXCEPT
                 !.pc = "saveRequest", !.session = s, !.id = a,
                 !.record = [Touched(s, "waiting-human") EXCEPT !.currentApproval = a],
                 !.todo = <<"approval_requested", "approval.requested">>])
      BY <1>4, Zenon DEF requestHumanApproval
    <2> DEFINE new == [Idle EXCEPT
                 !.pc = "saveRequest", !.session = s, !.id = a,
                 !.record = [Touched(s, "waiting-human") EXCEPT !.currentApproval = a],
                 !.todo = <<"approval_requested", "approval.requested">>]
    <2>2. /\ new.pc = "saveRequest" /\ new.session = s /\ new.id = a
          /\ new.record = [Touched(s, "waiting-human") EXCEPT !.currentApproval = a]
          /\ new.todo = <<"approval_requested", "approval.requested">>
      BY DEF Idle
    <2>3. Begin(c, new)
      BY <2>1
    <2> HIDE DEF new
    <2> QED
      BY <1>1, <2>1, <2>2, <2>3
  <1>5. CASE resolveApprovalRequest(c)
    <2>1. PICK a \in Approvals, approved \in BOOLEAN :
            /\ CanResolve(a)
            /\ Begin(c, [Idle EXCEPT
                 !.pc = "saveResolution", !.session = approval[a].session,
                 !.id = a, !.outcome = approved, !.todo = ResolutionEffects(approved)])
      BY <1>5, Zenon DEF resolveApprovalRequest
    <2> DEFINE new == [Idle EXCEPT
                 !.pc = "saveResolution", !.session = approval[a].session,
                 !.id = a, !.outcome = approved, !.todo = ResolutionEffects(approved)]
    <2>2. /\ new.pc = "saveResolution" /\ new.session = approval[a].session /\ new.id = a
          /\ new.outcome = approved /\ new.todo = ResolutionEffects(approved)
      BY DEF Idle
    <2>3. Begin(c, new)
      BY <2>1
    <2> HIDE DEF new
    <2> QED
      BY <1>1, <2>1, <2>2, <2>3
  <1>6. CASE recordDisclosure(c)
    <2>1. PICK s, d, acknowledged :
            Begin(c, [Idle EXCEPT
              !.pc = "saveDisclosure", !.session = s, !.id = d,
              !.outcome = acknowledged, !.todo = DisclosureEffects(acknowledged)])
      BY <1>6, Zenon DEF recordDisclosure
    <2> DEFINE new == [Idle EXCEPT
              !.pc = "saveDisclosure", !.session = s, !.id = d,
              !.outcome = acknowledged, !.todo = DisclosureEffects(acknowledged)]
    <2>2. /\ new.pc = "saveDisclosure" /\ new.outcome = acknowledged
          /\ new.todo = DisclosureEffects(acknowledged)
      BY DEF Idle
    <2>3. Begin(c, new)
      BY <2>1
    <2> HIDE DEF new
    <2> QED
      BY <1>1, <2>2, <2>3
  <1>7. CASE recordHumanReview(c)
    <2>1. PICK s, v, approved :
            Begin(c, [Idle EXCEPT
              !.pc = "saveReview", !.session = s, !.id = v, !.outcome = approved,
              !.todo = <<"human_review_completed", "human_review.recorded">>])
      BY <1>7, Zenon DEF recordHumanReview
    <2> DEFINE new == [Idle EXCEPT
              !.pc = "saveReview", !.session = s, !.id = v, !.outcome = approved,
              !.todo = <<"human_review_completed", "human_review.recorded">>]
    <2>2. /\ new.pc = "saveReview"
          /\ new.todo = <<"human_review_completed", "human_review.recorded">>
      BY DEF Idle
    <2>3. Begin(c, new)
      BY <2>1
    <2> HIDE DEF new
    <2> QED
      BY <1>1, <2>2, <2>3
  <1>8. CASE enqueueEvents(c)
    <2>1. PICK s \in Sessions, batch \in Batches : batch # <<>> /\ Begin(c, Owing(s, batch))
      BY <1>8 DEF enqueueEvents
    <2>2. Owing(s, batch).pc = "effects" /\ Owing(s, batch).todo = batch
      BY DEF Owing, Idle
    <2> QED
      BY <1>1, <2>1, <2>2
  <1> QED
    BY <1>2, <1>3, <1>4, <1>5, <1>6, <1>7, <1>8 DEF Start

(* What a call keeps and changes of its record as it goes on.              *)
Kept(c) ==
  /\ call'[c].record = call[c].record /\ call'[c].id = call[c].id
  /\ call'[c].outcome = call[c].outcome

LEMMA ContinueFields ==
  ASSUME TypeInv, NEW c \in Callers
  PROVE  /\ checkDisclosures(c) \/ checkReviews(c) =>
              UNCHANGED stores /\ (call'[c] = Idle \/ Kept(c))
         /\ saveRequest(c) =>
              /\ approval' = [approval EXCEPT ![call[c].id] =
                                [status |-> "pending", session |-> call[c].session]]
              /\ Kept(c) /\ UNCHANGED <<session, events, bundles>>
         /\ saveResolution(c) =>
              /\ approval' = [approval EXCEPT ![call[c].id] =
                                [status |-> IF call[c].outcome THEN "approved" ELSE "rejected",
                                 session |-> call[c].session]]
              /\ Kept(c) /\ UNCHANGED <<session, events, bundles>>
         /\ rereadSession(c) =>
              /\ UNCHANGED stores
              /\ call'[c].id = call[c].id /\ call'[c].outcome = call[c].outcome
              /\ call'[c].record =
                   Touched(call[c].session, IF call[c].outcome THEN "running" ELSE "failed")
         /\ saveSession(c) =>
              /\ session' = [session EXCEPT ![call[c].session] = call[c].record]
              /\ UNCHANGED <<approval, events, bundles>>
         /\ saveDisclosure(c) \/ saveReview(c) => UNCHANGED <<session, approval, events, bundles>>
  <1>1. call[c] \in Call /\ call \in [Callers -> Call]
    BY DEF TypeInv, TypeOK
  <1>2. ASSUME NEW r, Becomes(c, r) PROVE call'[c] = r
    BY <1>1, <1>2 DEF Becomes
  <1>3. ASSUME NEW pc, Becomes(c, [call[c] EXCEPT !.pc = pc]) PROVE Kept(c)
    <2>1. call'[c] = [call[c] EXCEPT !.pc = pc]
      BY <1>2, <1>3
    <2> QED
      BY <1>1, <2>1 DEF Kept, Call
  <1>4. checkDisclosures(c) \/ checkReviews(c) => UNCHANGED stores /\ (call'[c] = Idle \/ Kept(c))
    BY <1>2, <1>3 DEF checkDisclosures, checkReviews
  <1>5. ASSUME rereadSession(c)
        PROVE  /\ UNCHANGED stores
               /\ call'[c].id = call[c].id /\ call'[c].outcome = call[c].outcome
               /\ call'[c].record =
                   Touched(call[c].session, IF call[c].outcome THEN "running" ELSE "failed")
    <2> DEFINE record == Touched(call[c].session, IF call[c].outcome THEN "running" ELSE "failed")
    <2>1. call'[c] = [call[c] EXCEPT !.pc = "saveSession", !.record = record]
      BY <1>2, <1>5 DEF rereadSession
    <2> HIDE DEF record
    <2>2. /\ call'[c].id = call[c].id /\ call'[c].outcome = call[c].outcome
          /\ call'[c].record = record
      BY <1>1, <2>1 DEF Call
    <2> QED
      BY <1>5, <2>2 DEF record, rereadSession
  <1>6. /\ saveRequest(c) \/ saveResolution(c) =>
             Kept(c) /\ UNCHANGED <<session, events, bundles>>
        /\ saveSession(c) \/ saveDisclosure(c) \/ saveReview(c) =>
             UNCHANGED <<approval, events, bundles>>
        /\ saveDisclosure(c) \/ saveReview(c) => UNCHANGED session
    BY <1>3 DEF saveRequest, saveResolution, saveSession, saveDisclosure, saveReview
  <1> QED
    BY <1>4, <1>5, <1>6 DEF saveRequest, saveResolution, saveSession

(* The effects of a call are past what CallSteps is about.                 *)
Past(r) == r.pc \notin {"disclosures", "reviews", "saveRequest", "saveResolution", "reread",
                        "saveSession"}

LEMMA PastSaves ==
  ASSUME TypeInv, NEW c \in Callers,
         Reject(c) \/ saveSession(c) \/ saveDisclosure(c) \/ saveReview(c) \/ countRunEvents(c)
           \/ appendRunEvent(c) \/ recordAuditEvent(c) \/ readRunEvents(c)
           \/ readAuditEvents(c) \/ readExistingBundle(c) \/ persistEvidenceBundle(c)
  PROVE  Past(call'[c])
  <1>1. Past(Idle)
    BY DEF Past, Idle
  <1>2. CASE Reject(c)
    BY <1>1, <1>2 DEF Reject, Becomes, TypeInv, TypeOK
  <1>3. CASE appendRunEvent(c) \/ recordAuditEvent(c) \/ persistEvidenceBundle(c)
    <2>1. Done(c)
      BY <1>3, ContinuePlace
    <2> QED
      BY <1>1, <2>1 DEF Done, Past
  <1>4. CASE saveSession(c) \/ saveDisclosure(c) \/ saveReview(c)
    <2>1. call'[c].pc = "effects"
      BY <1>4, ContinuePlace DEF Goes
    <2> QED
      BY <2>1 DEF Past
  <1>5. CASE countRunEvents(c) \/ readRunEvents(c) \/ readAuditEvents(c) \/ readExistingBundle(c)
    <2>1. call'[c].pc \in {"append", "trailAudits", "trailExisting", "saveBundle"}
      BY <1>5, ContinuePlace DEF Goes
    <2> QED
      BY <2>1 DEF Past
  <1> QED
    BY <1>2, <1>3, <1>4, <1>5

LEMMA StartSteps ==
  ASSUME TypeInv, TypeInv', StepsInv, ~ReuseIds, NEW c \in Callers, Start(c)
  PROVE  CallSteps(call[c])'
  <1>1. PICK r : r = call'[c]
    OBVIOUS
  <1>2. UNCHANGED <<session, approval>>
    BY StartFields DEF stores
  <1>3. r.pc # "idle" => r.session \in Sessions
    BY <1>1 DEF TypeInv, CallConsistent
  <1>4. CallSteps(r)
    <2>1. CASE r.pc = "saveSession"
      <3>1. ~Exists(r.session) /\ \E p \in Profiles : r.record = StartedSession(p)
        BY <1>1, <2>1, StartFields
      <3>2. r.record.revision = 1 /\ session[r.session].revision = 0
        BY <1>3, <2>1, <3>1 DEF StartedSession, StepsInv
      <3> QED
        BY <2>1, <3>1, <3>2 DEF CallSteps, Exists, Terminal
    <2>2. CASE r.pc = "disclosures"
      <3>1. CanComplete(r.session) /\ \E status \in Terminal : r.record = Touched(r.session, status)
        BY <1>1, <2>2, StartFields
      <3>2. r.record.revision = session[r.session].revision + 1
        BY <1>3, <2>2, <3>1, TouchedFields
      <3> QED
        BY <2>2, <3>1, <3>2 DEF CallSteps, CanComplete
    <2>3. CASE r.pc = "saveRequest"
      <3>1. /\ CanRequestApproval(r.session)
            /\ r.record = [Touched(r.session, "waiting-human") EXCEPT !.currentApproval = r.id]
        BY <1>1, <2>3, StartFields
      <3>2. /\ Touched(r.session, "waiting-human") \in RunSession
            /\ Touched(r.session, "waiting-human").revision = session[r.session].revision + 1
        BY <1>3, <2>3, TouchedFields, TouchedType
      <3>3. r.record.revision = session[r.session].revision + 1
        BY <3>1, <3>2 DEF RunSession
      <3> QED
        BY <2>3, <3>1, <3>3 DEF CallSteps, CanRequestApproval, Terminal
    <2>4. CASE r.pc = "saveResolution"
      <3>1. CanResolve(r.id)
        BY <1>1, <2>4, StartFields
      <3> QED
        BY <2>4, <3>1 DEF CallSteps, CanResolve
    <2>5. CASE r.pc \in {"saveDisclosure", "saveReview", "effects"}
      BY <2>5 DEF CallSteps
    <2> QED
      BY <1>1, <2>1, <2>2, <2>3, <2>4, <2>5, StartFields
  <1> QED
    BY <1>1, <1>2, <1>4 DEF CallSteps, Resolved

LEMMA ContinueSteps ==
  ASSUME TypeInv, StepsInv, NEW c \in Callers, Continue(c) \/ Reject(c)
  PROVE  CallSteps(call[c])'
  <1>1. CallSteps(call[c]) /\ (call[c].pc # "idle" => call[c].session \in Sessions)
    BY DEF StepsInv, TypeInv, CallConsistent
  <1>2. CASE Past(call'[c])
    BY <1>2 DEF Past, CallSteps
  <1>3. CASE checkDisclosures(c) \/ checkReviews(c)
    <2>1. CASE call'[c] = Idle
      BY <1>2, <2>1 DEF Past, Idle
    <2>2. CASE call'[c] # Idle
      <3>1. /\ call[c].pc \in {"disclosures", "reviews"} /\ call'[c].pc \in {"reviews", "saveSession"}
            /\ call'[c].session = call[c].session
        BY <1>3, <2>2, ContinuePlace DEF Goes, Refused
      <3>2. UNCHANGED session /\ Kept(c)
        BY <1>3, <2>2, ContinueFields DEF stores
      <3> QED
        BY <1>1, <3>1, <3>2 DEF CallSteps, Kept
    <2> QED
      BY <2>1, <2>2
  <1>4. CASE saveRequest(c)
    <2>1. Goes(c, "saveRequest", "saveSession") /\ Kept(c) /\ UNCHANGED session
      BY <1>4, ContinuePlace, ContinueFields
    <2> QED
      BY <1>1, <2>1 DEF CallSteps, Goes, Kept
  <1>5. CASE saveResolution(c)
    <2>1. /\ Goes(c, "saveResolution", "reread") /\ Kept(c)
          /\ approval' = [approval EXCEPT ![call[c].id] =
                            [status |-> IF call[c].outcome THEN "approved" ELSE "rejected",
                             session |-> call[c].session]]
      BY <1>5, ContinuePlace, ContinueFields
    <2>2. call[c].id \in Approvals /\ approval \in [Approvals -> ApprovalRequest]
      BY <2>1 DEF Goes, TypeInv, TypeOK, CallConsistent
    <2>3. Resolved(call[c].id, call[c].session)'
      BY <2>1, <2>2 DEF Resolved, Goes, Kept
    <2> QED
      BY <2>1, <2>3 DEF CallSteps, Goes
  <1>6. CASE rereadSession(c)
    <2>1. /\ Goes(c, "reread", "saveSession") /\ UNCHANGED <<session, approval>>
          /\ call'[c].id = call[c].id
          /\ \E status : call'[c].record = Touched(call[c].session, status)
      BY <1>6, ContinuePlace, ContinueFields DEF stores
    <2>2. call'[c].record.revision = session[call[c].session].revision + 1
      BY <1>1, <2>1, TouchedFields DEF Goes
    <2> QED
      BY <1>1, <2>1, <2>2 DEF CallSteps, Goes, Resolved
  <1> QED
    BY <1>2, <1>3, <1>4, <1>5, <1>6, PastSaves DEF Continue

LEMMA StepsStep ==
  ASSUME NEW c \in Callers, Callers = {c}, ~ReuseIds, TypeInv, TypeInv', SnapshotInv, StepsInv,
         [Next]_vars
  PROVE  StepsInv'
  <1>1. CASE UNCHANGED vars
    BY <1>1 DEF vars, StepsInv, CallSteps, Resolved, Exists
  <1>2. CASE Start(c) \/ Continue(c) \/ Reject(c)
    <2>1. CallSteps(call[c])'
      BY <1>2, StartSteps, ContinueSteps
    <2>2. ASSUME NEW s \in Sessions, ~Exists(s)' PROVE session'[s].revision = 0
      <3>1. session'[s] = session[s]
        BY <1>2, <2>2, SessionsKept
      <3> QED
        BY <2>2, <3>1 DEF StepsInv, Exists
    <2> QED
      BY <2>1, <2>2 DEF StepsInv
  <1> QED
    BY <1>1, <1>2 DEF Next, Rest

LEMMA StepsInvariant ==
  ASSUME NEW c \in Callers, Callers = {c}, ~ReuseIds
  PROVE  Spec => []StepsInv
  <1>1. Init => StepsInv
    BY DEF Init, StepsInv, CallSteps, Idle, NoSession
  <1>2. TypeInv /\ TypeInv' /\ SnapshotInv /\ StepsInv /\ [Next]_vars => StepsInv'
    BY StepsStep
  <1> QED
    BY <1>1, <1>2, TypeInvariant, SnapshotInvariant, PTL DEF Spec

(* A client that awaits each of its calls and repeats no id loses no save  *)
(* of a session and revises no resolution, and a terminal session changes  *)
(* again only by a resolution; handlers that are aborted midway included.  *)
THEOREM AwaitedStepsHold ==
  ASSUME NEW d \in Callers, Callers = {d}, ~ReuseIds
  PROVE  Spec => AwaitedSteps
  <1>1. TypeInv /\ RequestInv /\ StepsInv /\ [Next]_vars =>
          [\A a \in Approvals :
             approval[a].status \in {"approved", "rejected"} => approval'[a] = approval[a]]_vars
    <2> SUFFICES ASSUME TypeInv, RequestInv, StepsInv, Start(d) \/ Continue(d) \/ Reject(d),
                        NEW a \in Approvals, approval[a].status \in {"approved", "rejected"}
                 PROVE  approval'[a] = approval[a]
      BY DEF Next, Rest, vars
    <2>1. CASE UNCHANGED approval
      BY <2>1
    <2>2. CASE saveRequest(d) \/ saveResolution(d)
      <3>1. approval[call[d].id].status \in {"none", "pending"}
        BY <2>2 DEF saveRequest, saveResolution, RequestInv, CallRequest, StepsInv, CallSteps,
              NoApproval
      <3>2. call[d].id # a
        BY <3>1
      <3> QED
        BY <2>2, <3>2 DEF saveRequest, saveResolution, TypeInv, TypeOK
    <2> QED
      BY <2>1, <2>2, SessionFrame
  <1>2. TypeInv /\ StepsInv /\ [Next]_vars =>
          [\A s \in Sessions : session'[s] # session[s] =>
             session'[s].revision = session[s].revision + 1]_vars
    <2> SUFFICES ASSUME TypeInv, StepsInv, Start(d) \/ Continue(d) \/ Reject(d),
                        NEW s \in Sessions, session'[s] # session[s]
                 PROVE  session'[s].revision = session[s].revision + 1
      BY DEF Next, Rest, vars
    <2>1. saveSession(d) /\ s = call[d].session /\ session'[s] = call[d].record
      BY SessionShape
    <2> QED
      BY <2>1 DEF saveSession, StepsInv, CallSteps
  <1>3. TypeInv /\ StepsInv /\ [Next]_vars =>
          [\A s \in Sessions :
             session[s].status \in Terminal /\ session'[s] # session[s] =>
               \E c \in Callers, a \in Approvals :
                 /\ call[c].id = a
                 /\ approval[a].session = s
                 /\ approval[a].status \in {"approved", "rejected"}]_vars
    <2> SUFFICES ASSUME TypeInv, StepsInv, Start(d) \/ Continue(d) \/ Reject(d),
                        NEW s \in Sessions, session[s].status \in Terminal, session'[s] # session[s]
                 PROVE  \E a \in Approvals :
                          /\ call[d].id = a
                          /\ approval[a].session = s
                          /\ approval[a].status \in {"approved", "rejected"}
      BY DEF Next, Rest, vars
    <2>1. saveSession(d) /\ s = call[d].session
      BY SessionShape
    <2>2. Resolved(call[d].id, s)
      BY <2>1 DEF saveSession, StepsInv, CallSteps
    <2> QED
      BY <2>2 DEF Resolved
  <1>4. Spec => []StepsInv
    BY StepsInvariant
  <1> QED
    BY <1>1, <1>2, <1>3, <1>4, TypeInvariant, RequestInvariant, PTL
    DEF Spec, AwaitedSteps, ResolutionFinal, RevisionStep, ReopenedOnlyByResolution

-----------------------------------------------------------------------------
(* One caller: the stream of a session, its status and its bundle          *)

LEMMA TupleTails ==
  /\ \A x : Head(<<x>>) = x /\ Tail(<<x>>) = <<>>
  /\ \A x, y : Head(<<x, y>>) = x /\ Tail(<<x, y>>) = <<y>>
  /\ \A x, y, z : Head(<<x, y, z>>) = x /\ Tail(<<x, y, z>>) = <<y, z>>
  /\ \A x, y, z, u : Head(<<x, y, z, u>>) = x /\ Tail(<<x, y, z, u>>) = <<y, z, u>>
  OBVIOUS

LEMMA StatusFacts ==
  /\ Closing \subseteq StatusEvents /\ StatusEvents \subseteq RunEventTypes
  /\ "bundle" \notin RunEventTypes \cup AuditActions
  /\ AuditActions \cap StatusEvents = {}
  /\ StatusAfter("run_completed") = "completed" /\ StatusAfter("run_failed") = "failed"
  /\ StatusAfter("run_started") = "running"
  /\ StatusAfter("approval_requested") = "waiting-human"
  /\ StatusAfter("approval_resolved:approved") = "running"
  /\ StatusAfter("approval_resolved:rejected") = "failed"
  BY DEF Closing, StatusEvents, RunEventTypes, AuditActions, StatusAfter

LEMMA BundlingTail ==
  ASSUME NEW todo \in Bundling
  PROVE  /\ todo # <<>>
         /\ Head(todo) # "bundle" => Tail(todo) \in Bundling
         /\ Head(todo) = "bundle" => Plain(Tail(todo))
         /\ Head(todo) \notin {"run_started", "approval_requested", "approval_resolved:approved"}
         /\ Tail(todo) # <<>> /\ Head(Tail(todo)) \in StatusEvents =>
              /\ Head(todo) \in StatusEvents
              /\ StatusAfter(Head(Tail(todo))) = StatusAfter(Head(todo))
  <1>1. Plain(<<>>) /\ Plain(<<"approval.resolved">>)
    BY DEF Plain, StatusEvents
  <1>2. CASE todo = <<"run_completed", "session.completed", "bundle">>
    <2>1. Head(todo) = "run_completed" /\ Tail(todo) = <<"session.completed", "bundle">>
      BY <1>2, TupleTails
    <2>2. Head(Tail(todo)) = "session.completed"
      BY <2>1, TupleTails
    <2> QED
      BY <1>2, <2>1, <2>2 DEF Bundling, StatusEvents
  <1>3. CASE todo = <<"run_failed", "session.completed", "bundle">>
    <2>1. Head(todo) = "run_failed" /\ Tail(todo) = <<"session.completed", "bundle">>
      BY <1>3, TupleTails
    <2>2. Head(Tail(todo)) = "session.completed"
      BY <2>1, TupleTails
    <2> QED
      BY <1>3, <2>1, <2>2 DEF Bundling, StatusEvents
  <1>4. CASE todo = <<"session.completed", "bundle">>
    <2>1. Head(todo) = "session.completed" /\ Tail(todo) = <<"bundle">>
      BY <1>4, TupleTails
    <2>2. Head(Tail(todo)) = "bundle"
      BY <2>1, TupleTails
    <2> QED
      BY <1>4, <2>1, <2>2 DEF Bundling, StatusEvents
  <1>5. CASE todo = <<"bundle">>
    <2>1. Head(todo) = "bundle" /\ Tail(todo) = <<>>
      BY <1>5, TupleTails
    <2> QED
      BY <1>1, <1>5, <2>1
  <1>6. CASE todo = <<"approval_resolved:rejected", "run_failed", "bundle", "approval.resolved">>
    <2>1. /\ Head(todo) = "approval_resolved:rejected"
          /\ Tail(todo) = <<"run_failed", "bundle", "approval.resolved">>
      BY <1>6, TupleTails
    <2>2. Head(<<"run_failed", "bundle", "approval.resolved">>) = "run_failed"
      BY TupleTails, Zenon
    <2>3. Head(Tail(todo)) = "run_failed"
      BY <2>1, <2>2, Zenon
    <2> QED
      BY <1>6, <2>1, <2>3, StatusFacts DEF Bundling, StatusEvents
  <1>7. CASE todo = <<"run_failed", "bundle", "approval.resolved">>
    <2>1. Head(todo) = "run_failed" /\ Tail(todo) = <<"bundle", "approval.resolved">>
      BY <1>7, TupleTails
    <2>2. Head(Tail(todo)) = "bundle"
      BY <2>1, TupleTails
    <2> QED
      BY <1>7, <2>1, <2>2 DEF Bundling, StatusEvents
  <1>8. CASE todo = <<"bundle", "approval.resolved">>
    <2>1. Head(todo) = "bundle" /\ Tail(todo) = <<"approval.resolved">>
      BY <1>8, TupleTails
    <2>2. Head(Tail(todo)) = "approval.resolved"
      BY <2>1, TupleTails
    <2> QED
      BY <1>1, <1>8, <2>1, <2>2 DEF StatusEvents
  <1> QED
    BY <1>2, <1>3, <1>4, <1>5, <1>6, <1>7, <1>8 DEF Bundling

LEMMA PlainTail ==
  ASSUME NEW todo \in Seq(Effects), todo # <<>>, Plain(todo)
  PROVE  /\ Head(todo) \notin StatusEvents \cup {"bundle"} /\ Plain(Tail(todo))
         /\ todo \notin Bundling
  <1>1. /\ Len(todo) \in Nat \ {0} /\ DOMAIN todo = 1..Len(todo) /\ Head(todo) = todo[1]
        /\ Tail(todo) \in Seq(Effects) /\ Len(Tail(todo)) = Len(todo) - 1
        /\ \A i \in 1..(Len(todo) - 1) : Tail(todo)[i] = todo[i + 1]
    BY HeadTailProperties, EmptySeq, LenProperties
  <1>2. DOMAIN Tail(todo) = 1..(Len(todo) - 1)
    BY <1>1, LenProperties
  <1>3. \A i \in 1..(Len(todo) - 1) : i + 1 \in DOMAIN todo
    BY <1>1
  <1>4. Plain(Tail(todo)) /\ Head(todo) \notin StatusEvents \cup {"bundle"}
    BY <1>1, <1>2, <1>3 DEF Plain
  <1>5. \A x \in Bundling : \E i \in DOMAIN x : x[i] = "bundle"
    BY DEF Bundling
  <1> QED
    BY <1>4, <1>5 DEF Plain

(* What is left of a plan when its first effect is done.                   *)
LEMMA PlannedTail ==
  ASSUME NEW todo \in Seq(Effects), todo # <<>>, Planned(todo)
  PROVE  /\ Planned(Tail(todo))
         /\ todo \in Bundling /\ Head(todo) # "bundle" => Tail(todo) \in Bundling
         /\ Head(todo) = "bundle" => Plain(Tail(todo))
         /\ Head(todo) \in Closing => todo \in Bundling
         /\ Tail(todo) # <<>> /\ Head(Tail(todo)) \in StatusEvents =>
              /\ Head(todo) \in StatusEvents
              /\ StatusAfter(Head(Tail(todo))) = StatusAfter(Head(todo))
  <1>1. Tail(todo) \in Seq(Effects)
    BY HeadTailProperties
  <1>2. CASE todo \in Bundling
    BY <1>2, BundlingTail DEF Planned
  <1>3. CASE Plain(todo)
    <2>1. Head(todo) \notin StatusEvents \cup {"bundle"} /\ Plain(Tail(todo)) /\ todo \notin Bundling
      BY <1>3, PlainTail
    <2>2. Tail(todo) # <<>> => Head(Tail(todo)) \notin StatusEvents
      BY <1>1, <2>1, PlainTail
    <2> QED
      BY <2>1, <2>2, StatusFacts DEF Planned
  <1>4. CASE /\ Head(todo) \in {"run_started", "approval_requested", "approval_resolved:approved"}
             /\ Plain(Tail(todo))
    <2>1. Tail(todo) # <<>> => Head(Tail(todo)) \notin StatusEvents
      BY <1>1, <1>4, PlainTail
    <2>2. todo \notin Bundling
      BY <1>4, BundlingTail
    <2>3. Head(todo) \notin Closing \cup {"bundle"}
      BY <1>4 DEF Closing
    <2> QED
      BY <1>4, <2>1, <2>2, <2>3 DEF Planned
  <1> QED
    BY <1>2, <1>3, <1>4 DEF Planned

(* The lists of effects that calls start with.                             *)
LEMMA HandlerPlans ==
  /\ Planned(<<"run_started", "session.started">>)
  /\ Head(<<"run_started", "session.started">>) = "run_started"
  /\ Planned(<<"approval_requested", "approval.requested">>)
  /\ Head(<<"approval_requested", "approval.requested">>) = "approval_requested"
  /\ \A status \in Terminal :
       /\ CompletionEffects(status) \in Bundling
       /\ Head(CompletionEffects(status)) \in StatusEvents
       /\ StatusAfter(Head(CompletionEffects(status))) = status
  /\ \A approved \in BOOLEAN :
       /\ Planned(ResolutionEffects(approved))
       /\ ~approved => ResolutionEffects(approved) \in Bundling
       /\ Head(ResolutionEffects(approved)) \in StatusEvents
       /\ StatusAfter(Head(ResolutionEffects(approved))) = IF approved THEN "running" ELSE "failed"
  /\ \A acknowledged \in BOOLEAN : Plain(DisclosureEffects(acknowledged))
  /\ Plain(<<"human_review_completed", "human_review.recorded">>)
  /\ OwnEvents => \A batch \in Batches : Plain(batch)
  <1>1. ASSUME NEW x, x \notin StatusEvents \cup {"bundle"} PROVE Plain(<<x>>)
    BY <1>1 DEF Plain
  <1>2. ASSUME NEW x \in {"run_started", "approval_requested", "approval_resolved:approved"},
               NEW y \in {"session.started", "approval.requested", "approval.resolved"}
        PROVE  Planned(<<x, y>>) /\ Head(<<x, y>>) = x
    <2>1. Head(<<x, y>>) = x /\ Tail(<<x, y>>) = <<y>>
      BY TupleTails
    <2>2. Plain(<<y>>)
      BY <1>1 DEF StatusEvents
    <2> QED
      BY <2>1, <2>2 DEF Planned
  <1>3. ASSUME NEW status \in Terminal
        PROVE  /\ CompletionEffects(status) \in Bundling
               /\ Head(CompletionEffects(status)) \in StatusEvents
               /\ StatusAfter(Head(CompletionEffects(status))) = status
    <2>1. CASE status = "completed"
      <3>1. CompletionEffects(status) = <<"run_completed", "session.completed", "bundle">>
        BY <2>1 DEF CompletionEffects
      <3> QED
        BY <2>1, <3>1, TupleTails, StatusFacts DEF Bundling, StatusEvents
    <2>2. CASE status = "failed"
      <3>1. CompletionEffects(status) = <<"run_failed", "session.completed", "bundle">>
        BY <2>2 DEF CompletionEffects
      <3> QED
        BY <2>2, <3>1, TupleTails, StatusFacts DEF Bundling, StatusEvents
    <2> QED
      BY <2>1, <2>2 DEF Terminal
  <1>4. ASSUME NEW approved \in BOOLEAN
        PROVE  /\ Planned(ResolutionEffects(approved))
               /\ ~approved => ResolutionEffects(approved) \in Bundling
               /\ Head(ResolutionEffects(approved)) \in StatusEvents
               /\ StatusAfter(Head(ResolutionEffects(approved)))
                    = IF approved THEN "running" ELSE "failed"
    <2>1. CASE approved
      <3>1. ResolutionEffects(approved) = <<"approval_resolved:approved", "approval.resolved">>
        BY <2>1 DEF ResolutionEffects
      <3>2. /\ Planned(ResolutionEffects(approved))
            /\ Head(ResolutionEffects(approved)) = "approval_resolved:approved"
        BY <1>2, <3>1
      <3> QED
        BY <2>1, <3>2, StatusFacts DEF StatusEvents
    <2>2. CASE ~approved
      <3>1. ResolutionEffects(approved)
              = <<"approval_resolved:rejected", "run_failed", "bundle", "approval.resolved">>
        BY <2>2 DEF ResolutionEffects
      <3>2. /\ ResolutionEffects(approved) \in Bundling
            /\ Head(ResolutionEffects(approved)) = "approval_resolved:rejected"
        BY <3>1, TupleTails DEF Bundling
      <3> QED
        BY <2>2, <3>2, StatusFacts DEF StatusEvents, Planned
    <2> QED
      BY <2>1, <2>2
  <1>5. \A acknowledged \in BOOLEAN : Plain(DisclosureEffects(acknowledged))
    BY DEF DisclosureEffects, Plain, StatusEvents
  <1>6. Plain(<<"human_review_completed", "human_review.recorded">>)
    BY DEF Plain, StatusEvents
  <1>7. ASSUME OwnEvents, NEW batch \in Batches PROVE Plain(batch)
    <2>1. batch \in Seq(RunEventTypes \cup AuditActions)
      BY RunSessionsAssumption
    <2>2. \A i \in DOMAIN batch : batch[i] \in RunEventTypes \cup AuditActions
      BY <2>1, ElementOfSeq, LenProperties
    <2> QED
      BY <1>7, <2>2, StatusFacts DEF OwnEvents, Plain
  <1> QED
    BY <1>2, <1>3, <1>4, <1>5, <1>6, <1>7

(* What an effect reads, for the step after it.                            *)
LEMMA EffectFields ==
  ASSUME TypeInv, NEW c \in Callers
  PROVE  /\ countRunEvents(c) =>
              /\ Head(call[c].todo) \in RunEventTypes /\ UNCHANGED stores
              /\ call'[c].count = Len(events[call[c].session])
         /\ readRunEvents(c) =>
              /\ Head(call[c].todo) = "bundle" /\ UNCHANGED stores
              /\ call'[c].bundle.runEvents = Len(events[call[c].session])
         /\ readAuditEvents(c) =>
              UNCHANGED stores /\ call'[c].bundle.runEvents = call[c].bundle.runEvents
         /\ readExistingBundle(c) =>
              /\ UNCHANGED stores /\ call'[c].bundle = call[c].bundle
              /\ call'[c].existing = IF bundles[call[c].session] = <<>> THEN 0 ELSE 1
  <1>1. call[c] \in Call /\ call \in [Callers -> Call] /\ call[c].bundle \in EvidenceBundle
    BY DEF TypeInv, TypeOK, Call
  <1>2. ASSUME NEW r, Becomes(c, r) PROVE call'[c] = r
    BY <1>1, <1>2 DEF Becomes
  <1>3. ASSUME countRunEvents(c)
        PROVE  call'[c].count = Len(events[call[c].session])
    <2>1. call'[c] = [call[c] EXCEPT !.pc = "append", !.count = Len(events[call[c].session])]
      BY <1>2, <1>3 DEF countRunEvents
    <2> QED
      BY <1>1, <2>1 DEF Call
  <1>4. ASSUME readRunEvents(c)
        PROVE  call'[c].bundle.runEvents = Len(events[call[c].session])
    <2>1. call'[c] = [call[c] EXCEPT !.pc = "trailAudits",
                                     !.bundle.runEvents = Len(events[call[c].session])]
      BY <1>2, <1>4 DEF readRunEvents
    <2> QED
      BY <1>1, <2>1 DEF Call, EvidenceBundle
  <1>5. ASSUME readAuditEvents(c)
        PROVE  call'[c].bundle.runEvents = call[c].bundle.runEvents
    <2>1. call'[c] = [call[c] EXCEPT !.pc = "trailExisting",
                                     !.bundle.auditEvents = Len(audits[call[c].session])]
      BY <1>2, <1>5 DEF readAuditEvents
    <2> QED
      BY <1>1, <2>1 DEF Call, EvidenceBundle
  <1>6. ASSUME readExistingBundle(c)
        PROVE  /\ call'[c].bundle = call[c].bundle
               /\ call'[c].existing = IF bundles[call[c].session] = <<>> THEN 0 ELSE 1
    <2>1. PICK n : n = IF bundles[call[c].session] = <<>> THEN 0 ELSE 1
      OBVIOUS
    <2>2. call'[c] = [call[c] EXCEPT !.pc = "saveBundle", !.existing = n]
      BY <1>2, <1>6, <2>1 DEF readExistingBundle
    <2> QED
      BY <1>1, <2>1, <2>2 DEF Call
  <1> QED
    BY <1>3, <1>4, <1>5, <1>6
    DEF countRunEvents, readRunEvents, readAuditEvents, readExistingBundle

(* A session that a step leaves alone, and that the call is still about in *)
(* the ways it was before.                                                 *)
LEMMA SettledFrame ==
  ASSUME NEW s, NEW old, NEW new, Settled(s, old),
         session'[s] = session[s], OpenRequests(s)' = OpenRequests(s),
         events'[s] = events[s], bundles'[s] = bundles[s],
         (old.session = s /\ old.pc \in {"reread", "saveSession"}) =>
           (new.session = s /\ new.pc \in {"reread", "saveSession"}),
         Announces(old, s) => Announces(new, s), Bundles(old, s) => Bundles(new, s)
  PROVE  Settled(s, new)'
  <1>1. OpenFor(s, session[s]) => OpenFor(s, session[s])'
    BY DEF OpenFor
  <1>2. /\ Replays(s, session[s].status) => Replays(s, session[s].status)'
        /\ Covered(s) => Covered(s)'
        /\ Exists(s)' => Exists(s)
    BY DEF Replays, Covered, Exists
  <1> QED
    BY <1>1, <1>2 DEF Settled, Announces, Bundles, Performing

LEMMA StreamIdle == CallStream(Idle)'
  BY DEF CallStream, Announces, Performing, Idle

LEMMA StartStream ==
  ASSUME TypeInv, TypeInv', StreamInv, ~ReuseIds, OwnEvents, NEW c \in Callers, Start(c),
         NEW new, new = call'[c]
  PROVE  CallStream(new)' /\ \A s \in Sessions : Settled(s, new)'
  <1>1. /\ call[c].pc = "idle"
        /\ UNCHANGED <<session, approval, events, bundles>>
    BY StartFields DEF stores
  <1>2. PICK old : old = call[c]
    OBVIOUS
  <1>3. \A s \in Sessions : Settled(s, old)
    BY <1>2 DEF StreamInv
  <1>4. \A s : ~Announces(old, s) /\ ~Bundles(old, s)
    BY <1>1, <1>2 DEF Announces, Bundles, Performing
  <1>5. ASSUME NEW s \in Sessions PROVE Settled(s, new)'
    <2>1. OpenRequests(s)' = OpenRequests(s)
      BY <1>1 DEF OpenRequests
    <2> QED
      BY <1>1, <1>2, <1>3, <1>4, <2>1, SettledFrame
  <1>6. /\ new.pc # "idle" => new.session \in Sessions /\ new.todo # <<>>
        /\ new.todo \in Seq(Effects) /\ new.outcome \in BOOLEAN
    BY DEF TypeInv, TypeOK, CallConsistent, Call
  <1>7. \A s \in Sessions : OpenFor(s, session[s])
    BY <1>1, <1>2, <1>3 DEF Settled
  <1>8. CallStream(new)
    <2>1. CASE new.pc = "saveSession"
      <3>1. /\ ~Exists(new.session) /\ \E p \in Profiles : new.record = StartedSession(p)
            /\ new.todo = <<"run_started", "session.started">>
        BY <2>1, StartFields
      <3>2. new.record.status = "running"
        BY <3>1 DEF StartedSession
      <3>3. OpenRequests(new.session) = {}
        BY <1>6, <1>7, <2>1, <3>1 DEF OpenFor, Exists
      <3>4. OpenFor(new.session, new.record)
        BY <3>2, <3>3 DEF OpenFor
      <3>5. /\ Planned(new.todo) /\ Head(new.todo) \in StatusEvents
            /\ StatusAfter(Head(new.todo)) = "running"
        BY <3>1, HandlerPlans, StatusFacts DEF StatusEvents
      <3> QED
        BY <2>1, <3>2, <3>4, <3>5 DEF CallStream, Announces, Performing, Terminal
    <2>2. CASE new.pc = "disclosures"
      <3>1. /\ CanComplete(new.session)
            /\ \E status \in Terminal : /\ new.record = Touched(new.session, status)
                                        /\ new.todo = CompletionEffects(status)
        BY <2>2, StartFields
      <3>2. new.record.status \in Terminal /\ new.todo = CompletionEffects(new.record.status)
        BY <1>6, <2>2, <3>1, TouchedFields
      <3>3. Planned(new.todo)
        BY <3>2, HandlerPlans DEF Planned
      <3> QED
        BY <2>2, <3>2, <3>3 DEF CallStream, Announces, Performing
    <2>3. CASE new.pc = "saveRequest"
      <3>1. /\ CanRequestApproval(new.session)
            /\ new.record = [Touched(new.session, "waiting-human") EXCEPT
                               !.currentApproval = new.id]
            /\ new.todo = <<"approval_requested", "approval.requested">>
        BY <2>3, StartFields
      <3>2. /\ Touched(new.session, "waiting-human") \in RunSession
            /\ Touched(new.session, "waiting-human").status = "waiting-human"
        BY <1>6, <2>3, TouchedType
      <3>3. new.record.status = "waiting-human"
        BY <3>1, <3>2 DEF RunSession
      <3>4. Planned(new.todo)
        BY <3>1, HandlerPlans
      <3> QED
        BY <2>3, <3>1, <3>3, <3>4 DEF CallStream, Announces, Performing, CanRequestApproval
    <2>4. CASE new.pc = "saveResolution"
      <3>1. new.todo = ResolutionEffects(new.outcome)
        BY <2>4, StartFields
      <3>2. Planned(new.todo)
        BY <1>6, <3>1, HandlerPlans
      <3> QED
        BY <2>4, <3>1, <3>2 DEF CallStream, Announces, Performing
    <2>5. CASE new.pc \in {"saveDisclosure", "saveReview", "effects"}
      <3>1. \/ new.todo = DisclosureEffects(new.outcome)
            \/ new.todo = <<"human_review_completed", "human_review.recorded">>
            \/ new.todo \in Batches
        BY <2>5, StartFields
      <3>2. Plain(new.todo)
        BY <1>6, <3>1, HandlerPlans
      <3>3. Head(new.todo) \notin StatusEvents
        BY <1>6, <2>5, <3>2, PlainTail
      <3> QED
        BY <2>5, <3>2, <3>3 DEF CallStream, Announces, Planned
    <2> QED
      BY <2>1, <2>2, <2>3, <2>4, <2>5, StartFields
  <1>9. CallStream(new)'
    BY <1>1, <1>8 DEF CallStream, OpenFor, OpenRequests, Announces, Performing
  <1> QED
    BY <1>5, <1>9

(* A call on its way to the save of a session.                             *)
LEMMA SavingStream ==
  ASSUME TypeInv, StreamInv, NEW c \in Callers,
         checkDisclosures(c) \/ checkReviews(c) \/ rereadSession(c),
         NEW new, new = call'[c]
  PROVE  CallStream(new)' /\ \A s \in Sessions : Settled(s, new)'
  <1>1. PICK old : old = call[c]
    OBVIOUS
  <1>2. /\ CallStream(old) /\ \A s \in Sessions : Settled(s, old)
        /\ old.pc # "idle" => old.session \in Sessions
        /\ old.outcome \in BOOLEAN
    BY <1>1 DEF StreamInv, TypeInv, TypeOK, CallConsistent, Call
  <1>3. UNCHANGED <<session, approval, events, bundles>>
    BY ContinueFields DEF stores
  <1>4. Idle.pc = "idle" /\ \A s : OpenRequests(s)' = OpenRequests(s)
    BY <1>3 DEF OpenRequests, Idle
  <1>5. CASE new = Idle
    <2>1. old.pc \in {"disclosures", "reviews"}
      BY <1>1, <1>4, <1>5, ContinuePlace DEF Refused, Goes
    <2>2. ASSUME NEW s \in Sessions PROVE Settled(s, new)'
      <3>1. ~Announces(old, s) /\ ~Bundles(old, s)
        BY <2>1 DEF Announces, Bundles, Performing
      <3> QED
        BY <1>2, <1>3, <1>4, <2>1, <3>1, SettledFrame
    <2> QED
      BY <1>5, <2>2, StreamIdle
  <1>6. CASE new # Idle
    <2>1. /\ \/ old.pc = "disclosures" /\ new.pc = "reviews"
             \/ old.pc \in {"reviews", "reread"} /\ new.pc = "saveSession"
          /\ new.session = old.session /\ new.todo = old.todo
      BY <1>1, <1>6, ContinuePlace DEF Refused, Goes
    <2>2. ASSUME NEW s \in Sessions PROVE Settled(s, new)'
      <3>1. ~Announces(old, s) /\ ~Bundles(old, s)
        BY <2>1 DEF Announces, Bundles, Performing
      <3> QED
        BY <1>2, <1>3, <1>4, <2>1, <3>1, SettledFrame
    <2>3. CallStream(new)
      <3>1. CASE new.pc = "reviews"
        <4>1. new.record = old.record
          BY <1>1, <1>4, <2>1, <3>1, ContinueFields, ContinuePlace DEF Kept, Goes, Refused
        <4> QED
          BY <1>2, <2>1, <3>1, <4>1 DEF CallStream, Announces, Performing
      <3>2. CASE old.pc = "reviews"
        <4>1. new.record = old.record
          BY <1>1, <1>6, <2>1, <3>2, ContinueFields, ContinuePlace DEF Kept, Goes, Refused
        <4>2. /\ old.record.status \in Terminal /\ old.todo = CompletionEffects(old.record.status)
              /\ Planned(old.todo)
          BY <1>2, <3>2 DEF CallStream
        <4>3. OpenFor(old.session, session[old.session])
          BY <1>2, <3>2 DEF Settled
        <4>4. OpenFor(old.session, old.record)
          BY <4>2, <4>3 DEF OpenFor, Terminal
        <4>5. /\ Head(old.todo) \in StatusEvents
              /\ StatusAfter(Head(old.todo)) = old.record.status /\ old.todo \in Bundling
          BY <4>2, HandlerPlans
        <4> QED
          BY <2>1, <3>2, <4>1, <4>2, <4>4, <4>5 DEF CallStream, Announces, Performing
      <3>3. CASE old.pc = "reread"
        <4>1. new.record = Touched(old.session, IF old.outcome THEN "running" ELSE "failed")
          BY <1>1, <3>3, ContinueFields, ContinuePlace DEF Goes, Refused
        <4>2. new.record.status = IF old.outcome THEN "running" ELSE "failed"
          BY <1>2, <3>3, <4>1, TouchedFields
        <4>3. /\ old.todo = ResolutionEffects(old.outcome) /\ OpenRequests(old.session) = {}
              /\ Planned(old.todo)
          BY <1>2, <3>3 DEF CallStream
        <4>4. OpenFor(old.session, new.record)
          BY <4>2, <4>3 DEF OpenFor
        <4>5. /\ Head(old.todo) \in StatusEvents
              /\ StatusAfter(Head(old.todo)) = new.record.status
              /\ new.record.status \in Terminal => old.todo \in Bundling
          BY <1>2, <4>2, <4>3, HandlerPlans DEF Terminal
        <4> QED
          BY <2>1, <3>3, <4>3, <4>4, <4>5 DEF CallStream, Announces, Performing
      <3> QED
        BY <2>1, <3>1, <3>2, <3>3
    <2>4. CallStream(new)'
      BY <1>3, <2>3 DEF CallStream, OpenFor, OpenRequests, Announces, Performing
    <2> QED
      BY <2>2, <2>4
  <1> QED
    BY <1>5, <1>6

LEMMA RequestStream ==
  ASSUME TypeInv, RequestInv, StepsInv, StreamInv, NEW c \in Callers,
         saveRequest(c) \/ saveResolution(c), NEW new, new = call'[c]
  PROVE  CallStream(new)' /\ \A s \in Sessions : Settled(s, new)'
  <1>1. PICK old : old = call[c]
    OBVIOUS
  <1>2. /\ CallStream(old) /\ \A s \in Sessions : Settled(s, old)
        /\ CallRequest(old) /\ CallSteps(old)
        /\ old.pc \in {"saveRequest", "saveResolution"}
        /\ old.session \in Sessions /\ old.id \in Approvals
        /\ approval \in [Approvals -> ApprovalRequest]
    BY <1>1 DEF StreamInv, TypeInv, TypeOK, CallConsistent, RequestInv, StepsInv, saveRequest,
          saveResolution
  <1>3. /\ UNCHANGED <<session, events, bundles>>
        /\ new.session = old.session /\ new.todo = old.todo /\ new.record = old.record
        /\ new.id = old.id /\ new.outcome = old.outcome
        /\ old.pc = "saveRequest" => new.pc = "saveSession"
        /\ old.pc = "saveResolution" => new.pc = "reread"
    BY <1>1, ContinueFields, ContinuePlace DEF Kept, Goes
  <1>4. \E status : /\ approval' = [approval EXCEPT ![old.id] =
                                      [status |-> status, session |-> old.session]]
                    /\ (status = "pending" <=> old.pc = "saveRequest")
    <2>1. CASE saveRequest(c)
      BY <1>1, <2>1, ContinueFields DEF saveRequest
    <2>2. CASE saveResolution(c)
      <3>1. PICK status \in {"approved", "rejected"} :
              status = IF call[c].outcome THEN "approved" ELSE "rejected"
        OBVIOUS
      <3>2. approval' = [approval EXCEPT ![old.id] = [status |-> status, session |-> old.session]]
        BY <1>1, <2>2, <3>1, ContinueFields
      <3>3. status # "pending" /\ old.pc = "saveResolution"
        BY <1>1, <2>2 DEF saveResolution
      <3> QED
        BY <3>2, <3>3
    <2> QED
      BY <2>1, <2>2
  <1>5. /\ approval'[old.id].session = old.session
        /\ (approval'[old.id].status = "pending" <=> old.pc = "saveRequest")
        /\ \A a \in Approvals \ {old.id} : approval'[a] = approval[a]
    BY <1>2, <1>4
  <1>6. \/ approval[old.id].session = old.session
        \/ approval[old.id].status # "pending"
    BY <1>2 DEF CallRequest, NoApproval
  <1>7. ASSUME NEW s \in Sessions, s # old.session
        PROVE  OpenRequests(s)' = OpenRequests(s)
    BY <1>5, <1>6, <1>7 DEF OpenRequests
  <1>8. ASSUME NEW s \in Sessions PROVE Settled(s, new)'
    <2>1. ~Announces(old, s) /\ ~Bundles(old, s)
      BY <1>2 DEF Announces, Bundles, Performing
    <2>2. CASE s # old.session
      BY <1>2, <1>3, <1>7, <2>1, <2>2, SettledFrame
    <2>3. CASE s = old.session
      <3>1. Settled(s, old)
        BY <1>2
      <3>2. new.session = s /\ new.pc \in {"reread", "saveSession"}
        BY <1>2, <1>3, <2>3
      <3> QED
        BY <1>3, <2>1, <3>1, <3>2 DEF Settled, Exists, Replays, Covered, Announces, Bundles,
              Performing
    <2> QED
      BY <2>2, <2>3
  <1>9. CASE old.pc = "saveRequest"
    <2>1. OpenFor(old.session, session[old.session]) /\ session[old.session].status = "running"
      BY <1>2, <1>9 DEF Settled, CallStream
    <2>2. OpenRequests(old.session) = {}
      BY <2>1 DEF OpenFor
    <2>3. OpenRequests(old.session)' = {old.id}
      BY <1>2, <1>5, <1>9, <2>2 DEF OpenRequests
    <2>4. /\ old.record.currentApproval = old.id /\ old.record.status = "waiting-human"
          /\ old.todo = <<"approval_requested", "approval.requested">>
      BY <1>2, <1>9 DEF CallRequest, CallStream
    <2>5. OpenFor(new.session, new.record)'
      BY <1>3, <2>3, <2>4 DEF OpenFor
    <2>6. /\ Planned(new.todo) /\ Head(new.todo) \in StatusEvents
          /\ StatusAfter(Head(new.todo)) = "waiting-human"
      BY <1>3, <2>4, HandlerPlans, StatusFacts DEF StatusEvents
    <2>7. new.pc = "saveSession" /\ new.record.status = "waiting-human"
      BY <1>3, <1>9, <2>4
    <2>8. CallStream(new)'
      BY <2>5, <2>6, <2>7 DEF CallStream, Announces, Performing, Terminal
    <2> QED
      BY <1>8, <2>8
  <1>10. CASE old.pc = "saveResolution"
    <2>1. OpenFor(old.session, session[old.session])
      BY <1>2, <1>10 DEF Settled
    <2>2. approval[old.id].status = "pending" /\ approval[old.id].session = old.session
      BY <1>2, <1>10 DEF CallSteps, CallRequest
    <2>3. OpenRequests(old.session) = {old.id}
      BY <1>2, <2>1, <2>2 DEF OpenFor, OpenRequests
    <2>4. OpenRequests(old.session)' = {}
      BY <1>5, <1>10, <2>3 DEF OpenRequests
    <2>5. new.todo = ResolutionEffects(new.outcome) /\ Planned(new.todo) /\ new.pc = "reread"
      BY <1>2, <1>3, <1>10 DEF CallStream
    <2>6. CallStream(new)'
      BY <1>3, <2>4, <2>5 DEF CallStream, Announces, Performing
    <2> QED
      BY <1>8, <2>6
  <1> QED
    BY <1>2, <1>9, <1>10

(* A save of a session makes its effects due.                              *)
LEMMA SaveStream ==
  ASSUME TypeInv, StreamInv, NEW c \in Callers,
         saveSession(c) \/ saveDisclosure(c) \/ saveReview(c), NEW new, new = call'[c]
  PROVE  CallStream(new)' /\ \A s \in Sessions : Settled(s, new)'
  <1>1. PICK old : old = call[c]
    OBVIOUS
  <1>2. /\ CallStream(old) /\ \A s \in Sessions : Settled(s, old)
        /\ old.pc \in {"saveSession", "saveDisclosure", "saveReview"}
        /\ old.session \in Sessions /\ old.todo \in Seq(Effects) /\ old.todo # <<>>
        /\ session \in [Sessions -> RunSession]
    BY <1>1 DEF StreamInv, TypeInv, TypeOK, CallConsistent, Call, saveSession, saveDisclosure,
          saveReview
  <1>3. /\ UNCHANGED <<approval, events, bundles>>
        /\ new.pc = "effects" /\ new.session = old.session /\ new.todo = old.todo
    BY <1>1, ContinueFields, ContinuePlace DEF Goes
  <1>4. \A s \in Sessions :
          /\ OpenRequests(s)' = OpenRequests(s) /\ ~Announces(old, s) /\ ~Bundles(old, s)
    BY <1>2, <1>3 DEF OpenRequests, Announces, Bundles, Performing
  <1>5. CASE saveSession(c)
    <2>1. session' = [session EXCEPT ![old.session] = old.record] /\ old.pc = "saveSession"
      BY <1>1, <1>5, ContinueFields DEF saveSession
    <2>2. /\ session'[old.session] = old.record
          /\ \A s \in Sessions \ {old.session} : session'[s] = session[s]
      BY <1>2, <2>1
    <2>3. /\ Planned(old.todo) /\ OpenFor(old.session, old.record)
          /\ Head(old.todo) \in StatusEvents /\ old.record.status = StatusAfter(Head(old.todo))
          /\ old.record.status \in Terminal => old.todo \in Bundling
      BY <1>2, <2>1 DEF CallStream
    <2>4. CallStream(new)'
      BY <1>3, <2>2, <2>3 DEF CallStream
    <2>5. ASSUME NEW s \in Sessions, s # old.session PROVE Settled(s, new)'
      BY <1>2, <1>3, <1>4, <2>2, <2>5, SettledFrame
    <2>6. Settled(old.session, new)'
      <3>1. Settled(old.session, old)
        BY <1>2
      <3>2. OpenFor(old.session, session[old.session])'
        BY <1>2, <1>4, <2>2, <2>3 DEF OpenFor
      <3>3. Announces(new, old.session)
        BY <1>3, <2>3 DEF Announces, Performing
      <3>4. Bundles(new, old.session) \/ Covered(old.session)'
        <4>1. CASE old.record.status \in Terminal
          BY <1>3, <2>3, <4>1 DEF Bundles, Performing
        <4>2. CASE old.record.status \notin Terminal
          BY <1>2, <1>3, <1>4, <2>2, <3>1, <4>2 DEF Settled, Covered
        <4> QED
          BY <4>1, <4>2
      <3> QED
        BY <1>3, <3>1, <3>2, <3>3, <3>4 DEF Settled, Announces, Bundles, Performing
    <2> QED
      BY <2>4, <2>5, <2>6
  <1>6. CASE saveDisclosure(c) \/ saveReview(c)
    <2>1. UNCHANGED session /\ old.pc \in {"saveDisclosure", "saveReview"}
      BY <1>1, <1>6, ContinueFields DEF saveDisclosure, saveReview
    <2>2. Plain(old.todo)
      BY <1>2, <2>1 DEF CallStream
    <2>3. Planned(new.todo) /\ Head(new.todo) \notin StatusEvents
      BY <1>2, <1>3, <2>2, PlainTail DEF Planned
    <2>4. CallStream(new)'
      BY <1>3, <2>3 DEF CallStream, Announces
    <2>5. ASSUME NEW s \in Sessions PROVE Settled(s, new)'
      BY <1>2, <1>3, <1>4, <2>1, SettledFrame
    <2> QED
      BY <2>4, <2>5
  <1> QED
    BY <1>5, <1>6

(* The reads of an effect leave the effect to be done.                     *)
LEMMA ReadStream ==
  ASSUME TypeInv, StreamInv, NEW c \in Callers,
         countRunEvents(c) \/ readRunEvents(c) \/ readAuditEvents(c) \/ readExistingBundle(c),
         NEW new, new = call'[c]
  PROVE  CallStream(new)' /\ \A s \in Sessions : Settled(s, new)'
  <1>1. PICK old : old = call[c]
    OBVIOUS
  <1>2. /\ CallStream(old) /\ \A s \in Sessions : Settled(s, old)
    BY <1>1 DEF StreamInv
  <1>3. /\ UNCHANGED <<session, approval, events, bundles>>
        /\ Performing(old) /\ Performing(new) /\ old.pc # "idle"
        /\ new.session = old.session /\ new.todo = old.todo
        /\ new.pc \in {"append", "trailAudits", "trailExisting", "saveBundle"}
    BY <1>1, EffectFields, ContinuePlace DEF Goes, Performing, stores
  <1>4. ASSUME NEW s \in Sessions PROVE Settled(s, new)'
    <2>1. OpenRequests(s)' = OpenRequests(s)
      BY <1>3 DEF OpenRequests
    <2>2. old.pc \notin {"reread", "saveSession"}
      BY <1>3 DEF Performing
    <2> QED
      BY <1>2, <1>3, <2>1, <2>2, SettledFrame DEF Announces, Bundles
  <1>5. /\ Planned(new.todo)
        /\ Announces(new, new.session) =>
             session[new.session].status = StatusAfter(Head(new.todo))
    BY <1>2, <1>3 DEF CallStream, Announces
  <1>6. /\ new.pc = "append" => new.count = Len(events[new.session])
        /\ new.pc \in {"trailAudits", "trailExisting", "saveBundle"} =>
             Head(new.todo) = "bundle" /\ new.bundle.runEvents = Len(events[new.session])
        /\ new.pc = "saveBundle" => new.existing = IF bundles[new.session] = <<>> THEN 0 ELSE 1
    <2>1. CASE countRunEvents(c)
      BY <1>1, <1>3, <2>1, EffectFields, ContinuePlace DEF Goes
    <2>2. CASE readRunEvents(c)
      BY <1>1, <1>3, <2>2, EffectFields, ContinuePlace DEF Goes
    <2>3. CASE readAuditEvents(c)
      BY <1>1, <1>2, <1>3, <2>3, EffectFields, ContinuePlace DEF Goes, CallStream
    <2>4. CASE readExistingBundle(c)
      BY <1>1, <1>2, <1>3, <2>4, EffectFields, ContinuePlace DEF Goes, CallStream
    <2> QED
      BY <2>1, <2>2, <2>3, <2>4
  <1>7. CallStream(new)'
    BY <1>3, <1>5, <1>6 DEF CallStream, Announces, Performing
  <1> QED
    BY <1>4, <1>7

(* What a call owes when an effect is done.                                *)
LEMMA DoneStream ==
  ASSUME TypeInv, TypeInv', StreamInv, NEW c \in Callers,
         appendRunEvent(c) \/ recordAuditEvent(c) \/ persistEvidenceBundle(c),
         UNCHANGED session, NEW old, old = call[c], NEW new, new = call'[c]
  PROVE  /\ CallStream(new)' /\ new.pc \in {"idle", "effects"}
         /\ new.pc = "effects" => new.session = old.session
         /\ old.session \in Sessions /\ Performing(old) /\ CallStream(old)
         /\ Planned(old.todo) /\ old.todo \in Seq(Effects) /\ old.todo # <<>>
         /\ \A s : Announces(new, s) => Head(old.todo) \in StatusEvents
         /\ Head(old.todo) # "bundle" => \A s : Bundles(old, s) => Bundles(new, s)
         /\ Head(old.todo) \in Closing => Bundles(new, old.session)
  <1>1. /\ CallStream(old) /\ Performing(old) /\ old.session \in Sessions
        /\ old.todo \in Seq(Effects) /\ old.todo # <<>>
    BY DEF StreamInv, TypeInv, TypeOK, CallConsistent, Call, appendRunEvent, recordAuditEvent,
          persistEvidenceBundle, Performing
  <1>2. Planned(old.todo)
    BY <1>1 DEF CallStream, Performing
  <1>3. /\ new.todo = Tail(old.todo)
        /\ new = Idle \/ (new.pc = "effects" /\ new.session = old.session)
    BY ContinuePlace DEF Done
  <1>4. Idle.pc = "idle" /\ Idle.todo = <<>>
    BY DEF Idle
  <1>5. new.pc = "effects" => new.todo # <<>>
    BY DEF TypeInv, CallConsistent
  <1>6. /\ Planned(Tail(old.todo))
        /\ old.todo \in Bundling /\ Head(old.todo) # "bundle" => Tail(old.todo) \in Bundling
        /\ Head(old.todo) \in Closing => old.todo \in Bundling
        /\ Tail(old.todo) # <<>> /\ Head(Tail(old.todo)) \in StatusEvents =>
             /\ Head(old.todo) \in StatusEvents
             /\ StatusAfter(Head(Tail(old.todo))) = StatusAfter(Head(old.todo))
    BY <1>1, <1>2, PlannedTail
  <1>7. new.todo \in Bundling => new.pc = "effects" /\ new.session = old.session
    BY <1>3, <1>4, BundlingTail
  <1>8. /\ Head(old.todo) # "bundle" => \A s : Bundles(old, s) => Bundles(new, s)
        /\ Head(old.todo) \in Closing => Bundles(new, old.session)
    BY <1>1, <1>3, <1>6, <1>7 DEF Bundles, Performing, Closing
  <1>9. \A s : Announces(new, s) =>
          /\ s = old.session /\ Head(old.todo) \in StatusEvents
          /\ StatusAfter(Head(new.todo)) = StatusAfter(Head(old.todo))
    BY <1>3, <1>4, <1>5, <1>6 DEF Announces, Performing
  <1>10. Head(old.todo) \in StatusEvents =>
           session[old.session].status = StatusAfter(Head(old.todo))
    BY <1>1 DEF CallStream, Announces
  <1>11. CallStream(new)'
    <2>1. CASE new = Idle
      BY <2>1, StreamIdle
    <2>2. CASE new.pc = "effects" /\ new.session = old.session
      <3>1. /\ Planned(new.todo)
            /\ Announces(new, new.session) =>
                 session'[new.session].status = StatusAfter(Head(new.todo))
        BY <1>3, <1>6, <1>9, <1>10, <2>2
      <3> QED
        BY <2>2, <3>1 DEF CallStream, Announces, Performing
    <2> QED
      BY <1>3, <2>1, <2>2
  <1> QED
    BY <1>1, <1>2, <1>3, <1>4, <1>8, <1>9, <1>11

LEMMA AuditStream ==
  ASSUME TypeInv, TypeInv', StreamInv, NEW c \in Callers, recordAuditEvent(c),
         NEW new, new = call'[c]
  PROVE  CallStream(new)' /\ \A s \in Sessions : Settled(s, new)'
  <1>1. PICK old : old = call[c]
    OBVIOUS
  <1>2. /\ UNCHANGED <<session, approval, events, bundles>>
        /\ Head(old.todo) \in AuditActions
    BY <1>1 DEF recordAuditEvent
  <1>3. /\ CallStream(new)' /\ Performing(old)
        /\ Head(old.todo) # "bundle" => \A s : Bundles(old, s) => Bundles(new, s)
    BY <1>1, <1>2, DoneStream
  <1>4. Head(old.todo) # "bundle" /\ Head(old.todo) \notin StatusEvents
    BY <1>2, StatusFacts
  <1>5. ASSUME NEW s \in Sessions PROVE Settled(s, new)'
    <2>1. OpenRequests(s)' = OpenRequests(s)
      BY <1>2 DEF OpenRequests
    <2>2. /\ old.pc \notin {"reread", "saveSession"} /\ ~Announces(old, s)
          /\ Bundles(old, s) => Bundles(new, s)
      BY <1>3, <1>4 DEF Performing, Announces
    <2>3. Settled(s, old)
      BY <1>1 DEF StreamInv
    <2> QED
      BY <1>2, <2>1, <2>2, <2>3, SettledFrame
  <1> QED
    BY <1>3, <1>5

(* An event is the last of its session, and fixes its status if any does.  *)
LEMMA AppendStream ==
  ASSUME TypeInv, TypeInv', StreamInv, NEW c \in Callers, appendRunEvent(c),
         NEW new, new = call'[c]
  PROVE  CallStream(new)' /\ \A s \in Sessions : Settled(s, new)'
  <1>1. PICK old : old = call[c]
    OBVIOUS
  <1>2. PICK event : event = [type |-> Head(old.todo), sequence |-> old.count + 1, by |-> c]
    OBVIOUS
  <1>3. /\ UNCHANGED <<session, approval, bundles>> /\ old.pc = "append"
        /\ events' = [events EXCEPT ![old.session] = Append(events[old.session], event)]
    BY <1>1, <1>2 DEF appendRunEvent
  <1>4. /\ CallStream(new)' /\ CallStream(old) /\ Performing(old) /\ old.session \in Sessions
        /\ new.pc \in {"idle", "effects"}
        /\ \A s : Announces(new, s) => Head(old.todo) \in StatusEvents
        /\ Head(old.todo) # "bundle" => \A s : Bundles(old, s) => Bundles(new, s)
        /\ Head(old.todo) \in Closing => Bundles(new, old.session)
        /\ new.pc = "effects" => new.session = old.session
    BY <1>1, <1>3, DoneStream
  <1>5. old.count = Len(events[old.session]) /\ Head(old.todo) # "bundle"
    BY <1>1, <1>3, <1>4, StatusFacts DEF CallStream, TypeInv, CallConsistent
  <1>6. /\ events \in [Sessions -> Seq(RunEvent)] /\ events[old.session] \in Seq(RunEvent)
        /\ bundles \in [Sessions -> Seq(EvidenceBundle)]
    BY <1>4 DEF TypeInv, TypeOK
  <1>7. PICK n \in Nat : n = Len(events[old.session])
    BY <1>6, LenProperties
  <1>8. /\ event.type = Head(old.todo) /\ event.sequence = n + 1
    BY <1>2, <1>5, <1>7
  <1>9. /\ events'[old.session] = Append(events[old.session], event)
        /\ \A s \in Sessions \ {old.session} : events'[s] = events[s]
    BY <1>3, <1>4, <1>6
  <1>10. PICK s : s = old.session
    OBVIOUS
  <1>11. /\ DOMAIN events[s] = 1..n /\ DOMAIN events'[s] = 1..(n + 1)
         /\ events'[s][n + 1] = event
         /\ \A i \in 1..n : events'[s][i] = events[s][i]
    <2>1. event \in RunEvent
      <3>1. Head(old.todo) \in RunEventTypes /\ old.count \in Nat
        BY <1>1, <1>3 DEF TypeInv, TypeOK, CallConsistent, Call
      <3> QED
        BY <1>2, <3>1 DEF RunEvent
    <2>2. events[s] \in Seq(RunEvent) /\ Len(events[s]) = n /\ events'[s] = Append(events[s], event)
      BY <1>6, <1>7, <1>9, <1>10
    <2>3. /\ events'[s] \in Seq(RunEvent) /\ Len(events'[s]) = n + 1
          /\ events'[s][n + 1] = event
          /\ \A i \in 1..n : events'[s][i] = events[s][i]
      BY <2>1, <2>2, AppendProperties
    <2> QED
      BY <2>2, <2>3, LenProperties
  <1>12. Settled(s, old) /\ s \in Sessions
    BY <1>1, <1>4, <1>10 DEF StreamInv
  <1>13. \A i \in 1..(n + 1) : i \in 1..n \/ i = n + 1
    BY <1>7
  <1>14. \A i \in DOMAIN events'[s] : events'[s][i].sequence = i
    BY <1>8, <1>11, <1>12, <1>13 DEF Settled
  <1>15. OpenFor(s, session[s])'
    BY <1>3, <1>12 DEF Settled, OpenFor, OpenRequests
  <1>16. Exists(s)' => Replays(s, session[s].status)'
    <2>1. CASE Head(old.todo) \in StatusEvents
      <3>1. session[s].status = StatusAfter(event.type)
        BY <1>4, <1>8, <1>10, <2>1 DEF CallStream, Announces
      <3>2. n + 1 \in DOMAIN events'[s] /\ \A j \in DOMAIN events'[s] : ~(j > n + 1)
        BY <1>7, <1>11
      <3> QED
        BY <1>3, <1>8, <1>11, <2>1, <3>1, <3>2 DEF Replays
    <2>2. CASE Head(old.todo) \notin StatusEvents
      <3>1. Exists(s) => Replays(s, session[s].status)
        BY <1>12, <2>2 DEF Settled, Announces
      <3>2. ASSUME NEW i \in 1..n, events[s][i].type \in StatusEvents,
                   StatusAfter(events[s][i].type) = session[s].status,
                   \A j \in 1..n : j > i => events[s][j].type \notin StatusEvents
            PROVE  Replays(s, session[s].status)'
        <4>1. i \in DOMAIN events'[s]
          BY <1>7, <1>11
        <4>2. \A j \in DOMAIN events'[s] : j > i => events'[s][j].type \notin StatusEvents
          BY <1>8, <1>11, <1>13, <2>2, <3>2
        <4> QED
          BY <1>3, <1>11, <3>2, <4>1, <4>2 DEF Replays
      <3> QED
        BY <1>3, <1>11, <3>1, <3>2 DEF Replays, Exists
    <2> QED
      BY <2>1, <2>2
  <1>17. Bundles(new, s) \/ Covered(s)'
    <2>1. CASE Bundles(old, s) \/ Head(old.todo) \in Closing
      BY <1>4, <1>5, <1>10, <2>1
    <2>2. CASE ~Bundles(old, s) /\ Head(old.todo) \notin Closing
      <3>1. Covered(s)
        BY <1>12, <2>2 DEF Settled
      <3>2. CASE bundles[s] = <<>>
        BY <1>3, <3>1, <3>2 DEF Covered
      <3>3. CASE bundles[s] # <<>>
        BY <1>3, <1>8, <1>11, <1>13, <2>2, <3>1, <3>3 DEF Covered
      <3> QED
        BY <3>2, <3>3
    <2> QED
      BY <2>1, <2>2
  <1>18. Settled(s, new)'
    BY <1>3, <1>12, <1>14, <1>15, <1>16, <1>17 DEF Settled, Bundles, Performing
  <1>19. ASSUME NEW t \in Sessions, t # s PROVE Settled(t, new)'
    <2>1. Settled(t, old) /\ OpenRequests(t)' = OpenRequests(t)
      BY <1>1, <1>3 DEF StreamInv, OpenRequests
    <2>2. ~Announces(old, t) /\ ~Bundles(old, t)
      BY <1>10, <1>19 DEF Announces, Bundles
    <2> QED
      BY <1>3, <1>9, <1>10, <1>19, <2>1, <2>2, SettledFrame
  <1> QED
    BY <1>4, <1>18, <1>19

(* The bundle a session then has lists all of its events.                  *)
LEMMA BundleStream ==
  ASSUME TypeInv, TypeInv', StreamInv, NEW c \in Callers, persistEvidenceBundle(c),
         NEW new, new = call'[c]
  PROVE  CallStream(new)' /\ \A s \in Sessions : Settled(s, new)'
  <1>1. PICK old : old = call[c]
    OBVIOUS
  <1>2. /\ UNCHANGED <<session, approval, events>> /\ old.pc = "saveBundle"
        /\ bundles' = [bundles EXCEPT ![old.session] =
                          IF old.existing = 0
                            THEN Append(bundles[old.session], old.bundle)
                            ELSE [bundles[old.session] EXCEPT ![old.existing] = old.bundle]]
    BY <1>1 DEF persistEvidenceBundle
  <1>3. PICK s \in Sessions : s = old.session
    BY <1>1, <1>2 DEF TypeInv, CallConsistent
  <1>4. /\ CallStream(new)' /\ CallStream(old) /\ Settled(s, old)
        /\ \A t : Announces(new, t) => Head(old.todo) \in StatusEvents
    BY <1>1, <1>2, <1>3, DoneStream DEF StreamInv
  <1>5. /\ Head(old.todo) = "bundle" /\ old.bundle.runEvents = Len(events[s])
        /\ old.existing = IF bundles[s] = <<>> THEN 0 ELSE 1
    BY <1>2, <1>3, <1>4 DEF CallStream
  <1>6. /\ bundles \in [Sessions -> Seq(EvidenceBundle)] /\ bundles[s] \in Seq(EvidenceBundle)
        /\ events[s] \in Seq(RunEvent) /\ old.bundle \in EvidenceBundle
    BY <1>1, <1>3 DEF TypeInv, TypeOK, Call
  <1>7. "bundle" \notin StatusEvents
    BY DEF StatusEvents
  <1>8. Len(bundles'[s]) = 1 /\ bundles'[s] # <<>> /\ bundles'[s][1] = old.bundle
    <2>1. CASE bundles[s] = <<>>
      <3>1. bundles'[s] = Append(<<>>, old.bundle)
        BY <1>2, <1>3, <1>5, <1>6, <2>1
      <3> QED
        BY <3>1
    <2>2. CASE bundles[s] # <<>>
      <3>1. bundles'[s] = [bundles[s] EXCEPT ![1] = old.bundle]
        BY <1>2, <1>3, <1>5, <1>6, <2>2
      <3>2. Len(bundles[s]) = 1 /\ DOMAIN bundles[s] = 1..1
        <4>1. Len(bundles[s]) <= 1
          BY <1>4 DEF Settled
        <4>2. Len(bundles[s]) \in Nat \ {0} /\ DOMAIN bundles[s] = 1..Len(bundles[s])
          BY <1>6, <2>2, EmptySeq, LenProperties
        <4>3. \A n \in Nat \ {0} : n <= 1 => n = 1
          OBVIOUS
        <4>4. Len(bundles[s]) = 1
          BY <4>1, <4>2, <4>3, Zenon
        <4> QED
          BY <4>2, <4>4
      <3>3. bundles'[s] \in Seq(EvidenceBundle) /\ DOMAIN bundles'[s] = 1..1
        BY <3>1, <3>2 DEF TypeInv, TypeOK
      <3>4. Len(bundles'[s]) = 1
        <4>1. Len(bundles'[s]) \in Nat /\ DOMAIN bundles'[s] = 1..Len(bundles'[s])
          BY <3>3, LenProperties
        <4>2. ASSUME NEW n \in Nat, 1..n = 1..1 PROVE n = 1
          <5>1. 1 \in 1..n /\ n \in 1..n
            BY <4>2, 1 \in 1..1
          <5> QED
            BY <4>2, <5>1
        <4> QED
          BY <3>3, <4>1, <4>2, Zenon
      <3> QED
        BY <3>1, <3>2, <3>3, <3>4, EmptySeq
    <2> QED
      BY <2>1, <2>2
  <1>9. Covered(s)'
    <2>1. DOMAIN events[s] = 1..Len(events[s]) /\ Len(events[s]) \in Nat
      BY <1>6, LenProperties
    <2> QED
      BY <1>2, <1>5, <1>8, <2>1 DEF Covered
  <1>10. Settled(s, new)'
    <2>1. OpenFor(s, session[s])'
      BY <1>2, <1>4 DEF Settled, OpenFor, OpenRequests
    <2>2. Exists(s)' => Replays(s, session[s].status)'
      BY <1>2, <1>4, <1>5, <1>7 DEF Settled, Announces, Replays, Exists
    <2> QED
      BY <1>2, <1>4, <1>8, <1>9, <2>1, <2>2 DEF Settled
  <1>11. ASSUME NEW t \in Sessions, t # s PROVE Settled(t, new)'
    <2>1. Settled(t, old) /\ OpenRequests(t)' = OpenRequests(t)
      BY <1>1, <1>2 DEF StreamInv, OpenRequests
    <2>2. ~Announces(old, t) /\ ~Bundles(old, t)
      BY <1>3, <1>11 DEF Announces, Bundles
    <2>3. bundles'[t] = bundles[t]
      BY <1>2, <1>3, <1>6, <1>11
    <2> QED
      BY <1>2, <2>1, <2>2, <2>3, SettledFrame
  <1> QED
    BY <1>4, <1>10, <1>11

LEMMA StreamStep ==
  ASSUME NEW c \in Callers, Callers = {c}, ~ReuseIds, MaxFaults = 0, OwnEvents,
         TypeInv, TypeInv', RequestInv, StepsInv, StreamInv, [Next]_vars
  PROVE  StreamInv'
  <1>1. CASE UNCHANGED vars
    BY <1>1 DEF vars, StreamInv, CallStream, Settled, OpenFor, OpenRequests, Announces, Bundles,
          Performing, Replays, Covered, Exists
  <1>2. CASE Start(c) \/ Continue(c) \/ Reject(c)
    <2>1. PICK new : new = call'[c]
      OBVIOUS
    <2>2. ~Reject(c)
      BY DEF Reject, TypeInv, TypeOK
    <2>3. CallStream(new)' /\ \A s \in Sessions : Settled(s, new)'
      BY <1>2, <2>1, <2>2, StartStream, SavingStream, RequestStream, SaveStream, ReadStream,
         AuditStream, AppendStream, BundleStream DEF Continue
    <2>4. CallStream(call[c])'
      BY <2>1, <2>3 DEF CallStream, OpenFor, OpenRequests, Announces, Performing
    <2>5. ASSUME NEW s \in Sessions PROVE Settled(s, call[c])'
      <3>1. Settled(s, new)'
        BY <2>3
      <3> QED
        BY <2>1, <3>1 DEF Settled, Announces, Bundles, Performing
    <2> QED
      BY <2>4, <2>5 DEF StreamInv
  <1> QED
    BY <1>1, <1>2 DEF Next, Rest

LEMMA StreamInvariant ==
  ASSUME NEW c \in Callers, Callers = {c}, ~ReuseIds, MaxFaults = 0, OwnEvents
  PROVE  Spec => []StreamInv
  <1>1. ASSUME Init PROVE StreamInv
    <2>1. call[c] = Idle /\ Idle.pc = "idle"
      BY <1>1 DEF Init, Idle
    <2>2. CallStream(call[c])
      BY <2>1 DEF CallStream, Announces, Performing
    <2>3. ASSUME NEW s \in Sessions PROVE Settled(s, call[c])
      <3>1. events[s] = <<>> /\ bundles[s] = <<>> /\ session[s].status = "none"
        BY <1>1 DEF Init, NoSession
      <3>2. OpenRequests(s) = {}
        BY <1>1 DEF Init, OpenRequests, NoApproval
      <3> QED
        BY <3>1, <3>2 DEF Settled, OpenFor, Exists, Covered, Terminal
    <2> QED
      BY <2>2, <2>3 DEF StreamInv
  <1>2. TypeInv /\ TypeInv' /\ RequestInv /\ StepsInv /\ StreamInv /\ [Next]_vars => StreamInv'
    BY StreamStep
  <1>3. Spec => []StepsInv
    BY StepsInvariant
  <1> QED
    BY <1>1, <1>2, <1>3, TypeInvariant, RequestInvariant, PTL DEF Spec

(* What a session looks like when its only caller has no call in flight.   *)
LEMMA RestingSession ==
  ASSUME NEW c \in Callers, StreamInv, AtRest, NEW s \in Sessions
  PROVE  /\ \A i \in DOMAIN events[s] : events[s][i].sequence = i
         /\ Len(bundles[s]) <= 1 /\ OpenFor(s, session[s]) /\ Covered(s)
         /\ Exists(s) => Replays(s, session[s].status)
  BY DEF StreamInv, AtRest, Settled, Announces, Bundles, Performing

(* The events of a client that awaits each of its calls are numbered 1, 2, *)
(* 3, ..., and between its calls a terminal session has exactly one bundle *)
(* that reaches a closing event: no handler is aborted, and no producer    *)
(* reports an event that tells the status of a session.                    *)
THEOREM AwaitedStreamAgrees ==
  ASSUME NEW c \in Callers, Callers = {c}, ~ReuseIds, MaxFaults = 0, OwnEvents
  PROVE  Spec => []StreamAgrees
  <1>1. TypeInv /\ StreamInv => SequenceGapless
    BY DEF StreamInv, Settled, SequenceGapless
  <1>2. TypeInv /\ StreamInv => BundleUpToClosing
    <2> SUFFICES ASSUME TypeInv, StreamInv, AtRest,
                        NEW s \in Sessions, session[s].status \in Terminal
                 PROVE  /\ Len(bundles[s]) = 1
                        /\ \A i \in DOMAIN events[s] :
                             i > bundles[s][1].runEvents => events[s][i].type \notin Closing
      BY DEF BundleUpToClosing, Closing
    <2>1. Len(bundles[s]) <= 1 /\ Covered(s)
      BY RestingSession
    <2>2. bundles[s] # <<>> /\ bundles[s] \in Seq(EvidenceBundle)
      BY <2>1 DEF Covered, TypeInv, TypeOK
    <2>3. Len(bundles[s]) \in Nat \ {0}
      BY <2>2, EmptySeq, LenProperties
    <2>4. \A n \in Nat \ {0} : n <= 1 => n = 1
      OBVIOUS
    <2>5. Len(bundles[s]) = 1
      BY <2>1, <2>3, <2>4, Zenon
    <2> QED
      BY <2>1, <2>2, <2>5 DEF Covered
  <1>3. Spec => []StreamInv
    BY StreamInvariant
  <1> QED
    BY <1>1, <1>2, <1>3, TypeInvariant, PTL DEF StreamAgrees

(* Between the calls of such a client the status of a session is what its  *)
(* events replay to, and the request a waiting session names is the only   *)
(* one that is open.                                                       *)
THEOREM AwaitedStatusAgrees ==
  ASSUME NEW c \in Callers, Callers = {c}, ~ReuseIds, MaxFaults = 0, OwnEvents
  PROVE  Spec => []StatusAgrees
  <1>1. TypeInv /\ StreamInv => ReplayAgrees
    <2> SUFFICES ASSUME TypeInv, StreamInv, AtRest, NEW s \in Sessions, Exists(s)
                 PROVE  replayRunSession(s) = session[s].status
      BY DEF ReplayAgrees
    <2>1. Replays(s, session[s].status) /\ \A i \in DOMAIN events[s] : events[s][i].sequence = i
      BY RestingSession
    <2>2. DOMAIN events[s] \subseteq Nat
      BY LenProperties DEF TypeInv, TypeOK
    <2> DEFINE deciding == {i \in DOMAIN events[s] : events[s][i].type \in StatusEvents}
               Last(i) == \A j \in deciding \ {i} : ListedBefore(s, j, i)
    <2>3. PICK i \in deciding :
            /\ StatusAfter(events[s][i].type) = session[s].status
            /\ \A j \in DOMAIN events[s] : j > i => events[s][j].type \notin StatusEvents
      BY <2>1 DEF Replays
    <2>4. \A j, k \in deciding : ListedBefore(s, j, k) <=> j < k
      BY <2>1, <2>2 DEF ListedBefore
    <2>5. Last(i)
      BY <2>2, <2>3, <2>4
    <2>6. ASSUME NEW k \in deciding, Last(k) PROVE k = i
      <3>1. i # k => i < k
        BY <2>4, <2>6
      <3> QED
        BY <2>2, <2>3, <3>1
    <2>7. (CHOOSE k \in deciding : Last(k)) = i
      BY <2>5, <2>6
    <2> QED
      BY <2>3, <2>7 DEF replayRunSession
  <1>2. TypeInv /\ StreamInv => WaitingNamesOpenRequest
    <2> SUFFICES ASSUME TypeInv, StreamInv, AtRest, NEW s \in Sessions
                 PROVE  /\ Cardinality(OpenRequests(s)) <= 1
                        /\ session[s].status = "waiting-human" =>
                             OpenRequests(s) = {session[s].currentApproval}
      BY DEF WaitingNamesOpenRequest, OpenRequests
    <2>1. OpenFor(s, session[s])
      BY RestingSession
    <2>2. CASE OpenRequests(s) = {}
      BY <2>1, <2>2, FS_EmptySet DEF OpenFor
    <2>3. CASE OpenRequests(s) # {}
      <3>1. PICK a : a \in OpenRequests(s)
        BY <2>3
      <3>2. OpenRequests(s) = {a}
        BY <2>1, <3>1 DEF OpenFor
      <3>3. Cardinality(OpenRequests(s)) = 1
        BY <3>2, FS_Singleton
      <3> QED
        BY <2>1, <3>3 DEF OpenFor
    <2> QED
      BY <2>2, <2>3
  <1>3. Spec => []StreamInv
    BY StreamInvariant
  <1> QED
    BY <1>1, <1>2, <1>3, TypeInvariant, PTL DEF StatusAgrees

-----------------------------------------------------------------------------
(* What is chosen of a list of effects                                     *)

(* Induction, for facts about what a recursive function computes.          *)
LEMMA LeastNat ==
  ASSUME NEW T, T \subseteq Nat, T # {}
  PROVE  \E x \in T : \A y \in T : ~(y < x)
  <1> DEFINE R == {ss \in Nat \X Nat : ss[1] < ss[2]}
  <1>1. IsWellFoundedOn(R, Nat)
    BY NatLessThanWellFounded DEF OpToRel
  <1>2. PICK x \in T : \A y \in T : ~(<<y, x>> \in R)
    <2> HIDE DEF R
    <2> QED
      BY <1>1, WFMin
  <1> QED
    BY <1>2

(* f is what is wanted of the last 0, 1, ..., m of the first n effects.    *)
Chooses(f, wanted, effects, n, m) ==
  f = [i \in 0..m |->
         IF i = 0 THEN <<>> ELSE Choose(wanted, effects[n - i + 1], f[i - 1])]

LEMMA ChoosesAt ==
  ASSUME NEW f, NEW wanted, NEW effects, NEW n, NEW m, NEW i \in 0..m,
         Chooses(f, wanted, effects, n, m)
  PROVE  f[i] = IF i = 0 THEN <<>> ELSE Choose(wanted, effects[n - i + 1], f[i - 1])
  BY Zenon DEF Chooses

LEMMA ChoosesExists ==
  ASSUME NEW wanted, NEW effects, NEW n \in Nat
  PROVE  \E f : Chooses(f, wanted, effects, n, n)
  <1> DEFINE T == {m \in Nat : ~ \E f : Chooses(f, wanted, effects, n, m)}
  <1>1. SUFFICES ASSUME T # {} PROVE FALSE
    OBVIOUS
  <1>2. PICK m \in T : \A k \in T : ~(k < m)
    <2>1. T \subseteq Nat
      OBVIOUS
    <2> HIDE DEF T
    <2> QED
      BY <1>1, <2>1, LeastNat
  <1>3. CASE m = 0
    <2> DEFINE f == [i \in 0..0 |-> <<>>]
    <2>1. Chooses(f, wanted, effects, n, 0)
      BY DEF Chooses
    <2> QED
      BY <1>2, <1>3, <2>1
  <1>4. CASE m # 0
    <2>1. m \in Nat /\ m - 1 \in Nat /\ m - 1 \notin T
      BY <1>2, <1>4
    <2>2. PICK g : Chooses(g, wanted, effects, n, m - 1)
      BY <2>1
    <2> DEFINE f == [i \in 0..m |-> IF i = m THEN Choose(wanted, effects[n - m + 1], g[m - 1])
                                             ELSE g[i]]
    <2>3. ASSUME NEW i \in 0..m
          PROVE  f[i] = IF i = 0 THEN <<>> ELSE Choose(wanted, effects[n - i + 1], f[i - 1])
      <3>1. CASE i = m
        <4>1. m - 1 \in 0..m /\ m - 1 # m
          BY <2>1
        <4> QED
          BY <1>4, <3>1, <4>1
      <3>2. CASE i # m
        <4>1. i \in 0..(m - 1) /\ f[i] = g[i]
          BY <2>1, <3>2
        <4>2. g[i] = IF i = 0 THEN <<>> ELSE Choose(wanted, effects[n - i + 1], g[i - 1])
          BY <2>2, <4>1, Zenon DEF Chooses
        <4>3. i # 0 => f[i - 1] = g[i - 1]
          BY <2>1, <3>2
        <4> QED
          BY <4>1, <4>2, <4>3
      <3> QED
        BY <3>1, <3>2
    <2>4. Chooses(f, wanted, effects, n, m)
      <3>1. f = [i \in 0..m |-> f[i]]
        OBVIOUS
      <3> HIDE DEF f
      <3> QED
        BY <2>3, <3>1, Zenon DEF Chooses
    <2> QED
      BY <1>2, <2>4
  <1> QED
    BY <1>3, <1>4

LEMMA ChosenChooses ==
  ASSUME NEW wanted, NEW effects, Len(effects) \in Nat
  PROVE  Chooses(Chosen(wanted, effects), wanted, effects, Len(effects), Len(effects))
  <1>1. Chosen(wanted, effects) = CHOOSE f : Chooses(f, wanted, effects, Len(effects), Len(effects))
    BY Zenon DEF Chosen, Chooses
  <1>2. PICK f : Chooses(f, wanted, effects, Len(effects), Len(effects))
    BY ChoosesExists
  <1> QED
    BY <1>1, <1>2, Zenon

(* Two lists that end alike.                                               *)
LEMMA ChoosesAgree ==
  ASSUME NEW wanted, NEW t, NEW u, NEW n \in Nat, NEW m \in Nat, n <= m, NEW f, NEW g,
         Chooses(f, wanted, t, n, n), Chooses(g, wanted, u, m, m),
         \A i \in 1..n : t[n - i + 1] = u[m - i + 1]
  PROVE  f[n] = g[n]
  <1> DEFINE T == {i \in 0..n : f[i] # g[i]}
  <1>1. SUFFICES ASSUME f[n] # g[n] PROVE FALSE
    OBVIOUS
  <1>2. PICK i \in T : \A k \in T : ~(k < i)
    <2>1. T \subseteq Nat /\ n \in T
      BY <1>1
    <2> HIDE DEF T
    <2> QED
      BY <2>1, LeastNat
  <1>3. i \in 0..n /\ i \in 0..m /\ f[i] # g[i]
    BY <1>2
  <1>4. /\ f[i] = IF i = 0 THEN <<>> ELSE Choose(wanted, t[n - i + 1], f[i - 1])
        /\ g[i] = IF i = 0 THEN <<>> ELSE Choose(wanted, u[m - i + 1], g[i - 1])
    BY <1>3, Zenon DEF Chooses
  <1>5. i # 0 => f[i - 1] = g[i - 1] /\ t[n - i + 1] = u[m - i + 1]
    BY <1>2, <1>3
  <1> QED
    BY <1>3, <1>4, <1>5

(* All that is wanted of the effects.                                      *)
Part(wanted, effects) == Chosen(wanted, effects)[Len(effects)]

LEMMA PartNone ==
  ASSUME NEW wanted
  PROVE  Part(wanted, <<>>) = <<>>
  <1>1. Len(<<>>) = 0 /\ 0 \in 0..0
    OBVIOUS
  <1>2. Chooses(Chosen(wanted, <<>>), wanted, <<>>, 0, 0)
    BY <1>1, ChosenChooses
  <1> QED
    BY <1>1, <1>2 DEF Part, Chooses

LEMMA PartTail ==
  ASSUME NEW wanted, NEW S, NEW effects \in Seq(S), effects # <<>>
  PROVE  Part(wanted, effects) = Choose(wanted, Head(effects), Part(wanted, Tail(effects)))
  <1>1. PICK rest, m : rest = Tail(effects) /\ m = Len(effects)
    OBVIOUS
  <1>2. /\ m \in Nat \ {0} /\ rest \in Seq(S) /\ Len(rest) = m - 1 /\ Head(effects) = effects[1]
        /\ \A i \in 1..(m - 1) : rest[i] = effects[i + 1]
    BY <1>1, HeadTailProperties, EmptySeq, LenProperties
  <1>3. PICK n \in Nat : n = m - 1
    BY <1>2
  <1>4. PICK f, g : f = Chosen(wanted, rest) /\ g = Chosen(wanted, effects)
    OBVIOUS
  <1>5. Chooses(f, wanted, rest, n, n) /\ Chooses(g, wanted, effects, m, m)
    BY <1>1, <1>2, <1>3, <1>4, ChosenChooses
  <1>6. \A i \in 1..n : rest[n - i + 1] = effects[m - i + 1]
    <2> SUFFICES ASSUME NEW i \in 1..n PROVE rest[n - i + 1] = effects[m - i + 1]
      OBVIOUS
    <2>1. n - i + 1 \in 1..(m - 1) /\ (n - i + 1) + 1 = m - i + 1
      BY <1>2, <1>3
    <2> QED
      BY <1>2, <2>1
  <1>7. f[n] = g[n]
    BY <1>2, <1>3, <1>5, <1>6, ChoosesAgree
  <1>8. g[m] = Choose(wanted, effects[m - m + 1], g[m - 1])
    <2>1. m \in 0..m /\ m # 0
      BY <1>2
    <2> QED
      BY <1>5, <2>1, ChoosesAt
  <1>9. m - m + 1 = 1 /\ m - 1 = n
    BY <1>2, <1>3
  <1> QED
    BY <1>1, <1>2, <1>3, <1>4, <1>7, <1>8, <1>9 DEF Part

LEMMA PartSeq ==
  ASSUME NEW wanted, NEW S, NEW effects \in Seq(S)
  PROVE  Part(wanted, effects) \in Seq(wanted)
  <1>1. PICK n, f : n = Len(effects) /\ f = Chosen(wanted, effects)
    OBVIOUS
  <1>2. n \in Nat /\ Chooses(f, wanted, effects, n, n)
    BY <1>1, LenProperties, ChosenChooses
  <1> DEFINE T == {i \in 0..n : f[i] \notin Seq(wanted)}
  <1>3. SUFFICES ASSUME f[n] \notin Seq(wanted) PROVE FALSE
    BY <1>1 DEF Part
  <1>4. PICK i \in T : \A k \in T : ~(k < i)
    <2>1. T \subseteq Nat /\ n \in T
      BY <1>2, <1>3
    <2> HIDE DEF T
    <2> QED
      BY <2>1, LeastNat
  <1>5. /\ i \in 0..n /\ f[i] \notin Seq(wanted)
        /\ i # 0 => f[i - 1] \in Seq(wanted)
    BY <1>2, <1>4
  <1>6. f[i] = IF i = 0 THEN <<>> ELSE Choose(wanted, effects[n - i + 1], f[i - 1])
    BY <1>2, <1>5, Zenon DEF Chooses
  <1>7. ASSUME NEW e \in wanted, NEW rest \in Seq(wanted) PROVE <<e>> \o rest \in Seq(wanted)
    BY <1>7, ConcatProperties
  <1>8. \A e : \A rest \in Seq(wanted) : Choose(wanted, e, rest) \in Seq(wanted)
    BY <1>7 DEF Choose
  <1>9. <<>> \in Seq(wanted)
    BY EmptySeq
  <1> QED
    BY <1>5, <1>6, <1>8, <1>9

-----------------------------------------------------------------------------
(* What one client does is what the Python control plane does              *)

(* The call will go through.                                               *)
Going(r) == r.pc # "idle" /\ Accepted(r)

Trails == [s \in Sessions |-> Types(s)]
Firsts == [s \in Sessions |-> IF bundles[s] = <<>> THEN NoBundle ELSE bundles[s][1]]

(* The state of the Python control plane, when r is the only call.         *)
SessionBy(r) ==
  IF r.pc \in Resolving
    THEN [session EXCEPT ![r.session] =
            Touched(r.session, IF r.outcome THEN "running" ELSE "failed")]
  ELSE IF r.pc \in Replacing /\ Accepted(r)
    THEN [session EXCEPT ![r.session] = r.record]
  ELSE session

ApprovalBy(r) ==
  IF r.pc = "saveRequest"
    THEN [approval EXCEPT ![r.id] = [status |-> "pending", session |-> r.session]]
  ELSE IF r.pc = "saveResolution"
    THEN [approval EXCEPT ![r.id] =
            [status |-> IF r.outcome THEN "approved" ELSE "rejected", session |-> r.session]]
  ELSE approval

EvidenceBy(store, pc, r) ==
  IF r.pc = pc
    THEN [store EXCEPT ![r.id] = [session |-> r.session, outcome |-> r.outcome]]
    ELSE store

TrailBy(r) ==
  IF Going(r) THEN [Trails EXCEPT ![r.session] = @ \o RunPart(r.todo)] ELSE Trails
AuditsBy(r) ==
  IF Going(r) THEN [audits EXCEPT ![r.session] = @ \o AuditPart(r.todo)] ELSE audits
BundleBy(r) ==
  IF Going(r) /\ HasBundle(r.todo)
    THEN [Firsts EXCEPT ![r.session] = BundleOf(r.session, r.todo)]
    ELSE Firsts

Mapped(r) ==
  /\ WillBeSession = SessionBy(r) /\ WillBeApproval = ApprovalBy(r)
  /\ WillBeEvidence(disclosure, "saveDisclosure") = EvidenceBy(disclosure, "saveDisclosure", r)
  /\ WillBeEvidence(review, "saveReview") = EvidenceBy(review, "saveReview", r)
  /\ WillBeTrail = TrailBy(r) /\ WillBeAudits = AuditsBy(r) /\ WillBeBundle = BundleBy(r)

LEMMA PartsAre ==
  /\ \A effects : /\ RunPart(effects) = Part(RunEventTypes, effects)
                  /\ AuditPart(effects) = Part(AuditActions, effects)
  /\ RunPart(<<>>) = <<>> /\ AuditPart(<<>>) = <<>>
  BY PartNone DEF RunPart, AuditPart, Part

LEMMA TypesSeq ==
  ASSUME TypeOK, NEW s \in Sessions
  PROVE  /\ Types(s) \in Seq(RunEventTypes) /\ Len(Types(s)) = Len(events[s])
         /\ events[s] = <<>> => Types(s) = <<>>
  <1>1. PICK n, stream : stream = events[s] /\ n = Len(stream)
    OBVIOUS
  <1>2. stream \in Seq(RunEvent)
    BY <1>1 DEF TypeOK
  <1>3. n \in Nat /\ DOMAIN stream = 1..n /\ \A i \in 1..n : stream[i] \in RunEvent
    BY <1>1, <1>2, LenProperties, ElementOfSeq
  <1>4. Types(s) = [i \in 1..n |-> stream[i].type]
    BY <1>1, <1>3 DEF Types
  <1>5. \A i \in 1..n : stream[i].type \in RunEventTypes
    BY <1>3 DEF RunEvent
  <1>6. Types(s) \in Seq(RunEventTypes) /\ Len(Types(s)) = n
    BY <1>3, <1>4, <1>5
  <1>7. n = 0 => Types(s) = <<>>
    BY <1>6, EmptySeq
  <1> QED
    BY <1>1, <1>6, <1>7

LEMMA Mapping ==
  ASSUME NEW c \in Callers, Callers = {c}, TypeInv
  PROVE  Mapped(call[c])
  <1>1. PICK r : r = call[c]
    OBVIOUS
  <1>2. r \in Call /\ CallConsistent(r)
    BY <1>1 DEF TypeInv, TypeOK
  <1>3. \A s : Pending(s) = IF Going(r) /\ r.session = s THEN {r} ELSE {}
    BY <1>1 DEF Pending, Going
  <1>4. \A s, pcs : At(s, pcs) = IF Going(r) /\ r.session = s /\ r.pc \in pcs THEN {r} ELSE {}
    BY <1>3 DEF At
  <1>5. \A pc, id : Saving(pc, id) = IF r.pc = pc /\ r.id = id THEN {r} ELSE {}
    BY <1>1 DEF Saving
  <1>6. WillBeSession = SessionBy(r)
    <2>1. /\ r.pc \in Resolving => Accepted(r) /\ r.pc # "idle" /\ r.pc \notin Replacing
          /\ r.pc \in Replacing => r.pc # "idle"
      BY DEF Resolving, Replacing, Completing, Accepted
    <2>2. WillBeSession =
            [s \in Sessions |->
               IF r.pc \in Resolving /\ r.session = s
                 THEN Touched(s, IF r.outcome THEN "running" ELSE "failed")
               ELSE IF r.pc \in Replacing /\ Accepted(r) /\ r.session = s THEN r.record
               ELSE session[s]]
      BY <1>4, <2>1 DEF WillBeSession, Going
    <2> QED
      BY <2>1, <2>2 DEF SessionBy, TypeInv, TypeOK
  <1>7. WillBeApproval = ApprovalBy(r)
    <2>1. WillBeApproval =
            [a \in Approvals |->
               IF r.pc = "saveRequest" /\ r.id = a
                 THEN [status |-> "pending", session |-> r.session]
               ELSE IF r.pc = "saveResolution" /\ r.id = a
                 THEN [status |-> IF r.outcome THEN "approved" ELSE "rejected",
                       session |-> r.session]
               ELSE approval[a]]
      BY <1>5 DEF WillBeApproval
    <2> QED
      BY <2>1 DEF ApprovalBy, TypeInv, TypeOK
  <1>8. ASSUME NEW store, NEW ids, NEW values, store \in [ids -> values], NEW pc
        PROVE  WillBeEvidence(store, pc) = EvidenceBy(store, pc, r)
    <2>1. WillBeEvidence(store, pc) =
            [x \in ids |-> IF r.pc = pc /\ r.id = x
                             THEN [session |-> r.session, outcome |-> r.outcome]
                             ELSE store[x]]
      BY <1>5, <1>8 DEF WillBeEvidence
    <2> QED
      BY <1>8, <2>1 DEF EvidenceBy
  <1>9. /\ WillBeEvidence(disclosure, "saveDisclosure")
             = EvidenceBy(disclosure, "saveDisclosure", r)
        /\ WillBeEvidence(review, "saveReview") = EvidenceBy(review, "saveReview", r)
    BY <1>8 DEF TypeInv, TypeOK
  <1>10. \A s : ToCome(s) = IF Going(r) /\ r.session = s THEN r.todo ELSE <<>>
    BY <1>3 DEF ToCome
  <1>11. WillBeTrail = TrailBy(r)
    <2>1. \A s \in Sessions : Types(s) \o RunPart(<<>>) = Types(s)
      BY PartsAre, TypesSeq, ConcatEmptySeq DEF TypeInv
    <2>2. WillBeTrail =
            [s \in Sessions |-> IF Going(r) /\ r.session = s THEN Types(s) \o RunPart(r.todo)
                                ELSE Types(s)]
      BY <1>10, <2>1 DEF WillBeTrail
    <2> QED
      BY <2>2 DEF TrailBy, Trails
  <1>12. WillBeAudits = AuditsBy(r)
    <2>1. \A s \in Sessions : audits[s] \o AuditPart(<<>>) = audits[s]
      BY PartsAre, ConcatEmptySeq DEF TypeInv, TypeOK
    <2>2. WillBeAudits =
            [s \in Sessions |-> IF Going(r) /\ r.session = s THEN audits[s] \o AuditPart(r.todo)
                                ELSE audits[s]]
      BY <1>10, <2>1 DEF WillBeAudits
    <2> QED
      BY <2>2 DEF AuditsBy, TypeInv, TypeOK
  <1>13. WillBeBundle = BundleBy(r)
    <2>1. ~HasBundle(<<>>)
      BY DEF HasBundle
    <2>2. WillBeBundle =
            [s \in Sessions |->
               IF Going(r) /\ HasBundle(r.todo) /\ r.session = s THEN BundleOf(s, r.todo)
               ELSE IF bundles[s] = <<>> THEN NoBundle
               ELSE bundles[s][1]]
      BY <1>10, <2>1 DEF WillBeBundle
    <2> QED
      BY <2>2 DEF BundleBy, Firsts
  <1> QED
    BY <1>1, <1>6, <1>7, <1>9, <1>11, <1>12, <1>13 DEF Mapped

LEMMA MappingNext ==
  ASSUME NEW c \in Callers, Callers = {c}
  PROVE  TypeInv' => Mapped(call[c])'
  <1>1. TypeInv => Mapped(call[c])
    BY Mapping
  <1> QED
    BY <1>1, PTL

(* What a call that starts will do.                                        *)
LEMMA StartMaps ==
  ASSUME NEW c \in Callers, Callers = {c}, TypeInv, TypeInv', call[c].pc = "idle",
         NEW r, r = call'[c], UNCHANGED stores
  PROVE  /\ WillBeSession = session /\ WillBeApproval = approval
         /\ WillBeEvidence(disclosure, "saveDisclosure") = disclosure
         /\ WillBeEvidence(review, "saveReview") = review
         /\ WillBeTrail = Trails /\ WillBeAudits = audits /\ WillBeBundle = Firsts
         /\ WillBeSession' = SessionBy(r) /\ WillBeApproval' = ApprovalBy(r)
         /\ WillBeEvidence(disclosure, "saveDisclosure")'
              = EvidenceBy(disclosure, "saveDisclosure", r)
         /\ WillBeEvidence(review, "saveReview")' = EvidenceBy(review, "saveReview", r)
         /\ WillBeTrail' = TrailBy(r) /\ WillBeAudits' = AuditsBy(r)
         /\ WillBeBundle' = BundleBy(r)
  <1>1. Mapped(call[c]) /\ Mapped(call[c])'
    BY Mapping, MappingNext
  <1>2. ~Going(call[c]) /\ call[c].pc \notin Resolving \cup Replacing
    BY DEF Going, Resolving, Replacing, Completing
  <1>3. /\ Trails' = Trails /\ Firsts' = Firsts /\ (Accepted(r)' <=> Accepted(r))
        /\ (Going(r)' <=> Going(r))
        /\ BundleOf(r.session, r.todo)' = BundleOf(r.session, r.todo)
        /\ UNCHANGED <<session, approval, disclosure, review, audits>>
        /\ \A s, status : Touched(s, status)' = Touched(s, status)
    BY DEF stores, Trails, Types, Firsts, Accepted, Going, DisclosureMet, ReviewsMet, BundleOf,
           Touched
  <1>4. /\ SessionBy(call[c])' = SessionBy(r) /\ ApprovalBy(call[c])' = ApprovalBy(r)
        /\ EvidenceBy(disclosure, "saveDisclosure", call[c])'
             = EvidenceBy(disclosure, "saveDisclosure", r)
        /\ EvidenceBy(review, "saveReview", call[c])' = EvidenceBy(review, "saveReview", r)
        /\ TrailBy(call[c])' = TrailBy(r) /\ AuditsBy(call[c])' = AuditsBy(r)
        /\ BundleBy(call[c])' = BundleBy(r)
    <2>1. /\ SessionBy(r)' = SessionBy(r) /\ ApprovalBy(r)' = ApprovalBy(r)
          /\ EvidenceBy(disclosure, "saveDisclosure", r)'
               = EvidenceBy(disclosure, "saveDisclosure", r)
          /\ EvidenceBy(review, "saveReview", r)' = EvidenceBy(review, "saveReview", r)
          /\ TrailBy(r)' = TrailBy(r) /\ AuditsBy(r)' = AuditsBy(r)
          /\ BundleBy(r)' = BundleBy(r)
      BY <1>3 DEF SessionBy, ApprovalBy, EvidenceBy, TrailBy, AuditsBy, BundleBy
    <2>2. /\ SessionBy(call[c])' = SessionBy(r)' /\ ApprovalBy(call[c])' = ApprovalBy(r)'
          /\ EvidenceBy(disclosure, "saveDisclosure", call[c])'
               = EvidenceBy(disclosure, "saveDisclosure", r)'
          /\ EvidenceBy(review, "saveReview", call[c])' = EvidenceBy(review, "saveReview", r)'
          /\ TrailBy(call[c])' = TrailBy(r)' /\ AuditsBy(call[c])' = AuditsBy(r)'
          /\ BundleBy(call[c])' = BundleBy(r)'
      BY DEF SessionBy, ApprovalBy, EvidenceBy, TrailBy, AuditsBy, BundleBy, Going, Accepted
    <2> QED
      BY <2>1, <2>2
  <1>5. /\ SessionBy(call[c]) = session /\ ApprovalBy(call[c]) = approval
        /\ EvidenceBy(disclosure, "saveDisclosure", call[c]) = disclosure
        /\ EvidenceBy(review, "saveReview", call[c]) = review
        /\ TrailBy(call[c]) = Trails /\ AuditsBy(call[c]) = audits /\ BundleBy(call[c]) = Firsts
    BY <1>2 DEF SessionBy, ApprovalBy, EvidenceBy, TrailBy, AuditsBy, BundleBy
  <1> QED
    BY <1>1, <1>4, <1>5, Zenon DEF Mapped

(* The parts of short lists, and lists put together.                       *)
LEMMA PartTuples ==
  ASSUME NEW wanted
  PROVE  /\ \A x :
              Part(wanted, <<x>>) = Choose(wanted, x, <<>>)
         /\ \A x, y :
              Part(wanted, <<x, y>>) = Choose(wanted, x, Choose(wanted, y, <<>>))
         /\ \A x, y, z :
              Part(wanted, <<x, y, z>>) = Choose(wanted, x, Choose(wanted, y, Choose(wanted, z, <<>>)))
         /\ \A x, y, z, u :
              Part(wanted, <<x, y, z, u>>) = Choose(wanted, x, Choose(wanted, y, Choose(wanted, z, Choose(wanted, u, <<>>))))
  <1>1. ASSUME NEW x
        PROVE  Part(wanted, <<x>>) = Choose(wanted, x, <<>>)
    <2>1. PICK t : t = <<x>>
      OBVIOUS
    <2>2. t \in Seq({x}) /\ t # <<>>
      BY <2>1
    <2>3. Part(wanted, t) = Choose(wanted, Head(t), Part(wanted, Tail(t)))
      BY <2>2, PartTail
    <2>4. Head(t) = x /\ Tail(t) = <<>>
      BY <2>1, TupleTails
    <2> QED
      BY PartNone, <2>1, <2>3, <2>4, Zenon
  <1>2. ASSUME NEW x, NEW y
        PROVE  Part(wanted, <<x, y>>) = Choose(wanted, x, Choose(wanted, y, <<>>))
    <2>1. PICK t : t = <<x, y>>
      OBVIOUS
    <2>2. t \in Seq({x, y}) /\ t # <<>>
      BY <2>1
    <2>3. Part(wanted, t) = Choose(wanted, Head(t), Part(wanted, Tail(t)))
      BY <2>2, PartTail
    <2>4. Head(t) = x /\ Tail(t) = <<y>>
      BY <2>1, TupleTails
    <2> QED
      BY <1>1, <2>1, <2>3, <2>4, Zenon
  <1>3. ASSUME NEW x, NEW y, NEW z
        PROVE  Part(wanted, <<x, y, z>>) = Choose(wanted, x, Choose(wanted, y, Choose(wanted, z, <<>>)))
    <2>1. PICK t : t = <<x, y, z>>
      OBVIOUS
    <2>2. t \in Seq({x, y, z}) /\ t # <<>>
      BY <2>1
    <2>3. Part(wanted, t) = Choose(wanted, Head(t), Part(wanted, Tail(t)))
      BY <2>2, PartTail
    <2>4. Head(t) = x /\ Tail(t) = <<y, z>>
      BY <2>1, TupleTails
    <2> QED
      BY <1>2, <2>1, <2>3, <2>4, Zenon
  <1>4. ASSUME NEW x, NEW y, NEW z, NEW u
        PROVE  Part(wanted, <<x, y, z, u>>) = Choose(wanted, x, Choose(wanted, y, Choose(wanted, z, Choose(wanted, u, <<>>))))
    <2>1. PICK t : t = <<x, y, z, u>>
      OBVIOUS
    <2>2. t \in Seq({x, y, z, u}) /\ t # <<>>
      BY <2>1
    <2>3. Part(wanted, t) = Choose(wanted, Head(t), Part(wanted, Tail(t)))
      BY <2>2, PartTail
    <2>4. Head(t) = x /\ Tail(t) = <<y, z, u>>
      BY <2>1, TupleTails
    <2> QED
      BY <1>3, <2>1, <2>3, <2>4, Zenon
  <1> QED
    BY <1>1, <1>2, <1>3, <1>4

LEMMA TuplesConcat ==
  /\ \A x, y : <<x>> \o <<y>> = <<x, y>>
  /\ \A x, y, z : <<x, y>> \o <<z>> = <<x, y, z>>
  <1>1. ASSUME NEW x, NEW y PROVE <<x>> \o <<y>> = <<x, y>>
    <2>1. PICK s, t, u : s = <<x>> /\ t = <<y>> /\ u = <<x, y>>
      OBVIOUS
    <2>2. /\ s \in Seq({x, y}) /\ t \in Seq({x, y}) /\ u \in Seq({x, y})
          /\ Len(s) = 1 /\ Len(t) = 1 /\ Len(u) = 2
          /\ s[1] = x /\ t[1] = y /\ u[1] = x /\ u[2] = y
      BY <2>1
    <2>3. PICK v : v = s \o t
      OBVIOUS
    <2>4. /\ v \in Seq({x, y}) /\ Len(v) = Len(s) + Len(t)
          /\ \A i \in 1..(Len(s) + Len(t)) : v[i] = IF i <= Len(s) THEN s[i] ELSE t[i - Len(s)]
      BY <2>2, <2>3, ConcatProperties
    <2>5. Len(v) = 2 /\ v[1] = x /\ v[2] = y
      BY <2>2, <2>4
    <2>6. \A i \in 1..2 : v[i] = u[i]
      BY <2>2, <2>5
    <2>7. v = u
      BY <2>2, <2>4, <2>5, <2>6, SeqEqual
    <2> QED
      BY <2>1, <2>3, <2>7
  <1>2. ASSUME NEW x, NEW y, NEW z PROVE <<x, y>> \o <<z>> = <<x, y, z>>
    <2>1. PICK s, t, u : s = <<x, y>> /\ t = <<z>> /\ u = <<x, y, z>>
      OBVIOUS
    <2>2. /\ s \in Seq({x, y, z}) /\ t \in Seq({x, y, z}) /\ u \in Seq({x, y, z})
          /\ Len(s) = 2 /\ Len(t) = 1 /\ Len(u) = 3
          /\ s[1] = x /\ s[2] = y /\ t[1] = z /\ u[1] = x /\ u[2] = y /\ u[3] = z
      BY <2>1
    <2>3. PICK v : v = s \o t
      OBVIOUS
    <2>4. /\ v \in Seq({x, y, z}) /\ Len(v) = Len(s) + Len(t)
          /\ \A i \in 1..(Len(s) + Len(t)) : v[i] = IF i <= Len(s) THEN s[i] ELSE t[i - Len(s)]
      BY <2>2, <2>3, ConcatProperties
    <2>5. Len(v) = 3 /\ v[1] = x /\ v[2] = y /\ v[3] = z
      BY <2>2, <2>4
    <2>6. \A i \in 1..3 : v[i] = u[i]
      BY <2>2, <2>5
    <2>7. v = u
      BY <2>2, <2>4, <2>5, <2>6, SeqEqual
    <2> QED
      BY <2>1, <2>3, <2>7
  <1> QED
    BY <1>1, <1>2

(* A list of effects is that of a handler which emits so.                  *)
Emitting(todo, before, ends, after) ==
  /\ RunPart(todo) = RunPart(before \o after) /\ AuditPart(todo) = AuditPart(before \o after)
  /\ HasBundle(todo) <=> ends
  /\ ends => /\ RunPart(Ahead(todo)) = RunPart(before)
             /\ AuditPart(Ahead(todo)) = AuditPart(before)

LEMMA AheadTuples ==
  ASSUME NEW x, NEW y, x # "bundle", y # "bundle"
  PROVE  /\ Ahead(<<x, y, "bundle">>) = <<x, y, "bundle">> /\ HasBundle(<<x, y, "bundle">>)
         /\ \A z : z # "bundle" =>
              /\ Ahead(<<x, y, "bundle", z>>) = <<x, y, "bundle">>
              /\ HasBundle(<<x, y, "bundle", z>>)
  <1>1. PICK u : u = <<x, y, "bundle">>
    OBVIOUS
  <1>2. /\ DOMAIN u = 1..3 /\ u[1] = x /\ u[2] = y /\ u[3] = "bundle" /\ Len(u) = 3
        /\ u \in Seq({x, y, "bundle"})
    BY <1>1
  <1>3. Ahead(u) = u /\ HasBundle(u)
    <2>1. (CHOOSE k \in DOMAIN u : u[k] = "bundle") = 3
      BY <1>2
    <2>2. SubSeq(u, 1, 3) = u
      BY <1>2, SubSeqFull
    <2>3. HasBundle(u)
      BY <1>2 DEF HasBundle
    <2> QED
      BY <2>1, <2>2, <2>3, Zenon DEF Ahead
  <1>4. ASSUME NEW z, z # "bundle", NEW t, t = <<x, y, "bundle", z>>
        PROVE  Ahead(t) = u /\ HasBundle(t)
    <2>1. DOMAIN t = 1..4 /\ t[1] = x /\ t[2] = y /\ t[3] = "bundle" /\ t[4] = z
      BY <1>4
    <2>2. (CHOOSE k \in DOMAIN t : t[k] = "bundle") = 3
      BY <1>4, <2>1
    <2>3. SubSeq(t, 1, 3) = u
      <3>1. \A i \in 1..3 : t[i] = u[i] /\ t[i] \in {x, y, "bundle"}
        BY <1>2, <2>1
      <3>2. PICK v : v = SubSeq(t, 1, 3)
        OBVIOUS
      <3>3. v \in Seq({x, y, "bundle"}) /\ Len(v) = 3 /\ \A i \in 1..3 : v[i] = t[i]
        BY <3>1, <3>2, SubSeqProperties
      <3> QED
        BY <1>2, <3>1, <3>2, <3>3, SeqEqual
    <2>4. HasBundle(t)
      BY <2>1 DEF HasBundle
    <2> QED
      BY <2>2, <2>3, <2>4, Zenon DEF Ahead
  <1> QED
    BY <1>1, <1>3, <1>4

LEMMA EmittingAll ==
  ASSUME NEW todo \in Seq(RunEventTypes \cup AuditActions)
  PROVE  Emitting(todo, todo, FALSE, <<>>) /\ todo \in Seq(Effects)
  <1>1. \A i \in DOMAIN todo : todo[i] # "bundle"
    BY ElementOfSeq, LenProperties, StatusFacts
  <1>2. todo \o <<>> = todo
    BY ConcatEmptySeq
  <1>3. ~HasBundle(todo)
    BY <1>1 DEF HasBundle
  <1>4. todo \in Seq(Effects)
    BY SeqMonotonic DEF Effects
  <1> QED
    BY <1>2, <1>3, <1>4, Zenon DEF Emitting

(* What a run that ends emits, and a resolution.                           *)
LEMMA EmittingEnds ==
  ASSUME NEW x \in {"run_completed", "run_failed"}
  PROVE  Emitting(<<x, "session.completed", "bundle">>, <<x, "session.completed">>, TRUE, <<>>)
  <1>1. /\ x \in RunEventTypes /\ x \notin AuditActions /\ x # "bundle"
        /\ "session.completed" \in AuditActions /\ "session.completed" \notin RunEventTypes
        /\ "bundle" \notin RunEventTypes \cup AuditActions
    BY DEF RunEventTypes, AuditActions
  <1>2. \A wanted : Part(wanted, <<x, "session.completed", "bundle">>) =
                    Choose(wanted, x, Choose(wanted, "session.completed",
                                             Choose(wanted, "bundle", <<>>)))
    BY PartTuples
  <1>3. \A wanted : Part(wanted, <<x, "session.completed">>) =
                    Choose(wanted, x, Choose(wanted, "session.completed", <<>>))
    BY PartTuples
  <1>4. \A wanted : "bundle" \notin wanted =>
          Part(wanted, <<x, "session.completed", "bundle">>) =
            Part(wanted, <<x, "session.completed">>)
    <2> SUFFICES ASSUME NEW wanted, "bundle" \notin wanted
                 PROVE  Part(wanted, <<x, "session.completed", "bundle">>) =
                          Part(wanted, <<x, "session.completed">>)
      OBVIOUS
    <2>1. Choose(wanted, "bundle", <<>>) = <<>>
      BY DEF Choose
    <2> QED
      BY <1>2, <1>3, <2>1, Zenon
  <1>5. <<x, "session.completed">> \o <<>> = <<x, "session.completed">>
    OBVIOUS
  <1>6. /\ Ahead(<<x, "session.completed", "bundle">>) = <<x, "session.completed", "bundle">>
        /\ HasBundle(<<x, "session.completed", "bundle">>)
    BY <1>1, AheadTuples
  <1>7. /\ RunPart(<<x, "session.completed", "bundle">>) = RunPart(<<x, "session.completed">>)
        /\ AuditPart(<<x, "session.completed", "bundle">>) = AuditPart(<<x, "session.completed">>)
    BY <1>1, <1>4, PartsAre
  <1> QED
    BY <1>5, <1>6, <1>7, Zenon DEF Emitting

LEMMA EmittingResolution ==
  ASSUME NEW approved \in BOOLEAN
  PROVE  Emitting(ResolutionEffects(approved),
                  IF approved THEN <<"approval_resolved:approved">>
                              ELSE <<"approval_resolved:rejected", "run_failed">>,
                  ~approved, <<"approval.resolved">>)
  <1>1. /\ "approval.resolved" \in AuditActions /\ "approval.resolved" \notin RunEventTypes
        /\ "bundle" \notin RunEventTypes \cup AuditActions
        /\ {"approval_resolved:approved", "approval_resolved:rejected", "run_failed"}
             \subseteq RunEventTypes \ AuditActions
    BY DEF RunEventTypes, AuditActions
  <1>2. CASE approved
    <2>1. ResolutionEffects(approved) = <<"approval_resolved:approved", "approval.resolved">>
      BY <1>2 DEF ResolutionEffects
    <2>2. <<"approval_resolved:approved">> \o <<"approval.resolved">> =
            <<"approval_resolved:approved", "approval.resolved">>
      BY TuplesConcat
    <2>3. ~HasBundle(<<"approval_resolved:approved", "approval.resolved">>)
      BY DEF HasBundle
    <2> QED
      BY <1>2, <2>1, <2>2, <2>3, Zenon DEF Emitting
  <1>3. CASE ~approved
    <2> DEFINE todo == <<"approval_resolved:rejected", "run_failed", "bundle",
                         "approval.resolved">>
               before == <<"approval_resolved:rejected", "run_failed">>
               all == <<"approval_resolved:rejected", "run_failed", "approval.resolved">>
               ahead == <<"approval_resolved:rejected", "run_failed", "bundle">>
    <2>1. ResolutionEffects(approved) = todo
      BY <1>3 DEF ResolutionEffects
    <2>2. before \o <<"approval.resolved">> = all
      BY TuplesConcat
    <2>3. HasBundle(todo) /\ Ahead(todo) = ahead
      BY AheadTuples
    <2>4. ASSUME NEW wanted, "bundle" \notin wanted
          PROVE  Part(wanted, todo) = Part(wanted, all) /\ Part(wanted, ahead) = Part(wanted, before)
      <3>1. \A rest : Choose(wanted, "bundle", rest) = rest
        BY <2>4 DEF Choose
      <3>2. Part(wanted, todo) =
              Choose(wanted, "approval_resolved:rejected",
                Choose(wanted, "run_failed",
                  Choose(wanted, "bundle", Choose(wanted, "approval.resolved", <<>>))))
        BY PartTuples
      <3>3. Part(wanted, all) =
              Choose(wanted, "approval_resolved:rejected",
                Choose(wanted, "run_failed", Choose(wanted, "approval.resolved", <<>>)))
        BY PartTuples
      <3>4. Part(wanted, ahead) =
              Choose(wanted, "approval_resolved:rejected",
                Choose(wanted, "run_failed", Choose(wanted, "bundle", <<>>)))
        BY PartTuples
      <3>5. Part(wanted, before) =
              Choose(wanted, "approval_resolved:rejected", Choose(wanted, "run_failed", <<>>))
        BY PartTuples
      <3> QED
        BY <3>1, <3>2, <3>3, <3>4, <3>5, Zenon
    <2>5. /\ RunPart(todo) = RunPart(all) /\ AuditPart(todo) = AuditPart(all)
          /\ RunPart(ahead) = RunPart(before) /\ AuditPart(ahead) = AuditPart(before)
      <3> HIDE DEF todo, all, ahead, before
      <3> QED
        BY <1>1, <2>4, PartsAre
    <2> HIDE DEF todo, all, ahead
    <2> QED
      BY <1>3, <2>1, <2>2, <2>3, <2>5, Zenon DEF Emitting
  <1> QED
    BY <1>2, <1>3

LEMMA PythonParts ==
  \A effects : Python!RunPart(effects) = RunPart(effects)
               /\ Python!AuditPart(effects) = AuditPart(effects)
  BY DEF Python!RunPart, RunPart, Python!AuditPart, AuditPart, Python!Chosen, Chosen,
         Python!Choose, Choose, Python!RunEventTypes, RunEventTypes, Python!AuditActions,
         AuditActions

(* The effects of a call that starts are those of the Python handler.      *)
LEMMA EmitsMaps ==
  ASSUME NEW c \in Callers, Callers = {c}, TypeInv, TypeInv', call[c].pc = "idle",
         NEW r, r = call'[c], UNCHANGED stores, Going(r), r.session \in Sessions,
         NEW before \in Seq(Effects), NEW ends \in BOOLEAN, NEW after,
         Emitting(r.todo, before, ends, after)
  PROVE  Python!Emits(r.session, before, ends, after)
  <1>1. PICK s \in Sessions : s = r.session
    OBVIOUS
  <1>2. /\ WillBeTrail = Trails /\ WillBeAudits = audits /\ WillBeBundle = Firsts
        /\ WillBeTrail' = TrailBy(r) /\ WillBeAudits' = AuditsBy(r)
        /\ WillBeBundle' = BundleBy(r)
    BY StartMaps
  <1>3. /\ Trails[s] = Types(s) /\ Types(s) \in Seq(RunEventTypes)
        /\ Len(Types(s)) = Len(events[s]) /\ audits[s] \in Seq(AuditActions)
    BY TypesSeq DEF Trails, TypeInv, TypeOK
  <1>4. /\ WillBeTrail' = [WillBeTrail EXCEPT ![s] = Python!Trail(s, before \o after)]
        /\ WillBeAudits' = [WillBeAudits EXCEPT ![s] = Python!Audits(s, before \o after)]
    BY <1>1, <1>2, <1>3, PythonParts
    DEF Emitting, TrailBy, AuditsBy, Python!Trail, Python!Audits
  <1>5. ends => BundleOf(s, r.todo) = Python!BundleAfter(s, before)
    <2> SUFFICES ASSUME ends PROVE BundleOf(s, r.todo) = Python!BundleAfter(s, before)
      OBVIOUS
    <2>1. /\ RunPart(before) \in Seq(RunEventTypes) /\ AuditPart(before) \in Seq(AuditActions)
      BY PartSeq, PartsAre
    <2>2. /\ Len(Types(s) \o RunPart(before)) = Len(Types(s)) + Len(RunPart(before))
          /\ Len(audits[s] \o AuditPart(before)) = Len(audits[s]) + Len(AuditPart(before))
      <3> HIDE DEF Types, RunPart, AuditPart
      <3>1. \A S : \A t, u \in Seq(S) : Len(t \o u) = Len(t) + Len(u)
        BY ConcatProperties
      <3> QED
        BY <1>3, <2>1, <3>1, Zenon
    <2>3. /\ Python!Trail(s, before) = Types(s) \o RunPart(before)
          /\ Python!Audits(s, before) = audits[s] \o AuditPart(before)
      BY <1>2, <1>3, PythonParts DEF Python!Trail, Python!Audits
    <2> QED
      BY <1>3, <2>2, <2>3, Zenon DEF Emitting, BundleOf, Python!BundleAfter
  <1>6. WillBeBundle' = IF ends THEN [WillBeBundle EXCEPT ![s] = Python!BundleAfter(s, before)]
                        ELSE WillBeBundle
    BY <1>1, <1>2, <1>5 DEF Emitting, BundleBy
  <1> QED
    BY <1>1, <1>4, <1>6, Zenon DEF Python!Emits

LEMMA PythonCardinality == \A S : Python!Cardinality(S) = Cardinality(S)
  BY Zenon DEF Python!Cardinality, Cardinality

LEMMA StartImplements ==
  ASSUME NEW c \in Callers, Callers = {c}, TypeInv, TypeInv', Start(c)
  PROVE  [Python!Next]_(Python!vars)
  <1>1. PICK r : r = call'[c]
    OBVIOUS
  <1>2. call[c].pc = "idle" /\ UNCHANGED stores
    BY <1>1, StartFields
  <1>3. ASSUME NEW x, Begin(c, x) PROVE r = x
    BY <1>1, <1>3 DEF Begin, Becomes, TypeInv, TypeOK
  <1>4. /\ WillBeSession = session /\ WillBeApproval = approval
        /\ WillBeEvidence(disclosure, "saveDisclosure") = disclosure
        /\ WillBeEvidence(review, "saveReview") = review
        /\ WillBeTrail = Trails /\ WillBeAudits = audits /\ WillBeBundle = Firsts
        /\ WillBeSession' = SessionBy(r) /\ WillBeApproval' = ApprovalBy(r)
        /\ WillBeEvidence(disclosure, "saveDisclosure")'
             = EvidenceBy(disclosure, "saveDisclosure", r)
        /\ WillBeEvidence(review, "saveReview")' = EvidenceBy(review, "saveReview", r)
        /\ WillBeTrail' = TrailBy(r) /\ WillBeAudits' = AuditsBy(r)
        /\ WillBeBundle' = BundleBy(r)
    BY <1>1, <1>2, StartMaps
  <1>5. ASSUME Going(r), r.session \in Sessions, NEW before \in Seq(Effects),
               NEW ends \in BOOLEAN, NEW after, Emitting(r.todo, before, ends, after)
        PROVE  Python!Emits(r.session, before, ends, after)
    BY <1>1, <1>2, <1>5, EmitsMaps
  <1>6. ASSUME NEW todo \in Seq(RunEventTypes \cup AuditActions), r.todo = todo,
               Going(r), r.session \in Sessions
        PROVE  Python!Emits(r.session, todo, FALSE, <<>>)
    <2>1. Emitting(r.todo, todo, FALSE, <<>>) /\ todo \in Seq(Effects)
      BY <1>6, EmittingAll
    <2> QED
      BY <1>5, <1>6, <2>1
  <1>7. \A s : Python!Exists(s) <=> Exists(s)
    BY <1>4 DEF Python!Exists, Exists
  <1>8. ASSUME NEW s \in Sessions, NEW status, NEW request, r.session = s,
               SessionBy(r) = [session EXCEPT ![s] =
                                 [Touched(s, status) EXCEPT !.currentApproval = request]]
        PROVE  Python!Saves(s, status, request)
    <2>1. session[s] \in RunSession /\ session \in [Sessions -> RunSession]
      BY DEF TypeInv, TypeOK
    <2>2. [Touched(s, status) EXCEPT !.currentApproval = request] =
            [session[s] EXCEPT !.status = status, !.currentApproval = request, !.revision = @ + 1]
      BY <2>1 DEF Touched, RunSession
    <2>3. [session EXCEPT ![s].status = status, ![s].currentApproval = request,
                          ![s].revision = @ + 1] =
            [session EXCEPT ![s] = [session[s] EXCEPT !.status = status,
                                      !.currentApproval = request, !.revision = @ + 1]]
      BY <2>1 DEF RunSession
    <2> QED
      BY <1>4, <1>8, <2>2, <2>3 DEF Python!Saves
  <1>9. CASE startRunSession(c)
    <2>1. PICK s \in Sessions, p \in Profiles :
            /\ ReuseIds \/ ~Exists(s)
            /\ r = [Idle EXCEPT !.pc = "saveSession", !.session = s,
                                !.record = StartedSession(p),
                                !.todo = <<"run_started", "session.started">>]
      BY <1>3, <1>9, Zenon DEF startRunSession
    <2>2. /\ r.pc = "saveSession" /\ r.session = s /\ r.record = StartedSession(p)
          /\ r.todo = <<"run_started", "session.started">>
      BY <2>1 DEF Idle
    <2>3. /\ Going(r) /\ SessionBy(r) = [session EXCEPT ![s] = StartedSession(p)]
          /\ ApprovalBy(r) = approval /\ EvidenceBy(disclosure, "saveDisclosure", r) = disclosure
          /\ EvidenceBy(review, "saveReview", r) = review
      BY <2>2 DEF Going, Accepted, SessionBy, ApprovalBy, EvidenceBy, Resolving, Replacing,
                  Completing
    <2>4. Python!Emits(s, <<"run_started", "session.started">>, FALSE, <<>>)
      <3>1. <<"run_started", "session.started">> \in Seq(RunEventTypes \cup AuditActions)
        BY DEF RunEventTypes, AuditActions
      <3> QED
        BY <1>6, <2>2, <2>3, <3>1
    <2>5. Python!start_run_session
      BY <1>4, <1>7, <2>1, <2>3, <2>4 DEF Python!start_run_session, StartedSession
    <2> QED
      BY <2>5 DEF Python!Next
  <1>10. CASE completeRunSession(c)
    <2>1. PICK s \in Sessions, status \in Terminal :
            /\ CanComplete(s)
            /\ r = [Idle EXCEPT !.pc = "disclosures", !.session = s,
                                !.record = Touched(s, status),
                                !.todo = CompletionEffects(status)]
      BY <1>3, <1>10, Zenon DEF completeRunSession
    <2>2. /\ r.pc = "disclosures" /\ r.session = s /\ r.record = Touched(s, status)
          /\ r.todo = CompletionEffects(status)
      BY <2>1 DEF Idle
    <2>3. session[s] \in RunSession
      BY DEF TypeInv, TypeOK
    <2>4. r.record.profile = session[s].profile
      BY <2>2, <2>3 DEF Touched, RunSession
    <2>5. /\ ApprovalBy(r) = approval /\ EvidenceBy(disclosure, "saveDisclosure", r) = disclosure
          /\ EvidenceBy(review, "saveReview", r) = review
      BY <2>2 DEF ApprovalBy, EvidenceBy
    <2>6. CASE ~Accepted(r)
      <3>1. SessionBy(r) = session /\ TrailBy(r) = Trails /\ AuditsBy(r) = audits
            /\ BundleBy(r) = Firsts
        BY <2>2, <2>6 DEF SessionBy, TrailBy, AuditsBy, BundleBy, Going, Resolving
      <3> QED
        BY <1>4, <2>5, <3>1 DEF Python!vars
    <2>7. CASE Accepted(r)
      <3>1. Going(r) /\ SessionBy(r) = [session EXCEPT ![s] = Touched(s, status)]
        BY <2>2, <2>7 DEF Going, SessionBy, Resolving, Replacing, Completing
      <3>2. Touched(s, status) = [Touched(s, status) EXCEPT !.currentApproval = NoId]
        BY <2>3 DEF Touched, RunSession
      <3>3. Python!Saves(s, status, NoId)
        BY <1>8, <2>2, <3>1, <3>2
      <3>4. PICK x \in {"run_completed", "run_failed"} :
              x = IF status = "completed" THEN "run_completed" ELSE "run_failed"
        OBVIOUS
      <3>5. Python!Emits(s, <<x, "session.completed">>, TRUE, <<>>)
        <4>1. r.todo = <<x, "session.completed", "bundle">>
          BY <2>2, <3>4 DEF CompletionEffects
        <4>2. <<x, "session.completed">> \in Seq(Effects)
          BY DEF Effects, RunEventTypes, AuditActions
        <4>3. Emitting(r.todo, <<x, "session.completed">>, TRUE, <<>>)
          BY <4>1, EmittingEnds
        <4> QED
          BY <1>5, <2>2, <3>1, <4>2, <4>3
      <3>6. Python!RequirementsMet(s)
        <4>1. DisclosureMet(s, session[s].profile) /\ ReviewsMet(s, session[s].profile)
          BY <2>2, <2>4, <2>7 DEF Accepted, Completing
        <4>2. \A d \in Disclosures :
                disclosure[d] = [session |-> s, outcome |-> TRUE] <=>
                  disclosure[d].session = s /\ disclosure[d].outcome
          BY DEF TypeInv, TypeOK, Evidence
        <4>3. \A v \in Reviews :
                review[v] = [session |-> s, outcome |-> TRUE] <=>
                  review[v].session = s /\ review[v].outcome
          BY DEF TypeInv, TypeOK, Evidence
        <4>4. {v \in Reviews : review[v] = [session |-> s, outcome |-> TRUE]} =
                {v \in Reviews : review[v].session = s /\ review[v].outcome}
          BY <4>3
        <4>5. Cardinality({v \in Reviews : review[v].session = s /\ review[v].outcome})
                >= session[s].profile.reviewers
          <5>1. PICK k : k = Cardinality({v \in Reviews : review[v].session = s
                                                         /\ review[v].outcome})
            OBVIOUS
          <5> QED
            BY <4>1, <4>4, <5>1 DEF ReviewsMet
        <4>6. PICK profile : profile = session[s].profile
          OBVIOUS
        <4>7. profile.disclosure =>
                /\ {d \in Disclosures : disclosure[d].session = s} # {}
                /\ profile.acknowledgement =>
                     \E d \in {d \in Disclosures : disclosure[d].session = s} :
                       disclosure[d].outcome
          <5>1. ASSUME profile.disclosure
                PROVE  {d \in Disclosures : disclosure[d].session = s} # {}
            BY <4>1, <4>6, <5>1, Zenon DEF DisclosureMet
          <5>2. ASSUME profile.disclosure, profile.acknowledgement
                PROVE  \E d \in {d \in Disclosures : disclosure[d].session = s} :
                         disclosure[d].outcome
            BY <4>1, <4>2, <4>6, <5>2, Zenon DEF DisclosureMet
          <5> QED
            BY <5>1, <5>2
        <4>8. /\ WillBeSession[s].profile = profile
              /\ {d \in Disclosures : WillBeEvidence(disclosure, "saveDisclosure")[d].session = s}
                   = {d \in Disclosures : disclosure[d].session = s}
              /\ {v \in Reviews : /\ WillBeEvidence(review, "saveReview")[v].session = s
                                  /\ WillBeEvidence(review, "saveReview")[v].outcome}
                   = {v \in Reviews : review[v].session = s /\ review[v].outcome}
              /\ \A d : WillBeEvidence(disclosure, "saveDisclosure")[d].outcome
                         <=> disclosure[d].outcome
          BY <1>4, <4>6
        <4>9. \A S : Python!Cardinality(S) = Cardinality(S)
          BY PythonCardinality
        <4> QED
          BY <4>5, <4>6, <4>7, <4>8, <4>9, Zenon DEF Python!RequirementsMet
      <3>7. session[s].status \notin Python!Terminal /\ status \in Python!Terminal
        BY <2>1 DEF CanComplete, Python!Terminal, Terminal
      <3>8. Python!complete_run_session
        BY <1>4, <1>7, <2>1, <2>5, <3>3, <3>4, <3>5, <3>6, <3>7
        DEF Python!complete_run_session, CanComplete
      <3> QED
        BY <3>8 DEF Python!Next
    <2> QED
      BY <2>6, <2>7
  <1>11. CASE requestHumanApproval(c)
    <2>1. PICK s \in Sessions, a \in Approvals :
            /\ CanRequestApproval(s) /\ approval[a] = NoApproval
            /\ r = [Idle EXCEPT
                 !.pc = "saveRequest", !.session = s, !.id = a,
                 !.record = [Touched(s, "waiting-human") EXCEPT !.currentApproval = a],
                 !.todo = <<"approval_requested", "approval.requested">>]
      BY <1>3, <1>11, Zenon DEF requestHumanApproval
    <2>2. /\ r.pc = "saveRequest" /\ r.session = s /\ r.id = a
          /\ r.record = [Touched(s, "waiting-human") EXCEPT !.currentApproval = a]
          /\ r.todo = <<"approval_requested", "approval.requested">>
      BY <2>1 DEF Idle
    <2>3. /\ Going(r) /\ SessionBy(r) = [session EXCEPT ![s] = r.record]
          /\ ApprovalBy(r) = [approval EXCEPT ![a] = [status |-> "pending", session |-> s]]
          /\ EvidenceBy(disclosure, "saveDisclosure", r) = disclosure
          /\ EvidenceBy(review, "saveReview", r) = review
      BY <2>2 DEF Going, Accepted, SessionBy, ApprovalBy, EvidenceBy, Resolving, Replacing,
                  Completing
    <2>4. Python!Emits(s, <<"approval_requested", "approval.requested">>, FALSE, <<>>)
      <3>1. <<"approval_requested", "approval.requested">> \in Seq(RunEventTypes \cup AuditActions)
        BY DEF RunEventTypes, AuditActions
      <3> QED
        BY <1>6, <2>2, <2>3, <3>1
    <2>5. Python!Saves(s, "waiting-human", a)
      BY <1>8, <2>2, <2>3
    <2>6. Python!request_human_approval
      BY <1>4, <2>1, <2>3, <2>4, <2>5
      DEF Python!request_human_approval, CanRequestApproval, Python!NoApproval, NoApproval
    <2> QED
      BY <2>6 DEF Python!Next
  <1>12. CASE resolveApprovalRequest(c)
    <2>1. PICK a \in Approvals, approved \in BOOLEAN :
            /\ CanResolve(a)
            /\ r = [Idle EXCEPT
                 !.pc = "saveResolution", !.session = approval[a].session,
                 !.id = a, !.outcome = approved, !.todo = ResolutionEffects(approved)]
      BY <1>3, <1>12, Zenon DEF resolveApprovalRequest
    <2>2. PICK s \in Sessions : s = approval[a].session
      BY <2>1 DEF CanResolve, TypeInv
    <2>3. /\ r.pc = "saveResolution" /\ r.session = s /\ r.id = a /\ r.outcome = approved
          /\ r.todo = ResolutionEffects(approved)
      BY <2>1, <2>2 DEF Idle
    <2>4. /\ Going(r)
          /\ SessionBy(r) =
               [session EXCEPT ![s] = Touched(s, IF approved THEN "running" ELSE "failed")]
          /\ ApprovalBy(r) =
               [approval EXCEPT ![a] = [status |-> IF approved THEN "approved" ELSE "rejected",
                                        session |-> s]]
          /\ EvidenceBy(disclosure, "saveDisclosure", r) = disclosure
          /\ EvidenceBy(review, "saveReview", r) = review
      BY <2>3 DEF Going, Accepted, SessionBy, ApprovalBy, EvidenceBy, Resolving, Completing
    <2>5. ApprovalBy(r) =
            [approval EXCEPT ![a].status = IF approved THEN "approved" ELSE "rejected"]
      <3>1. approval[a] \in ApprovalRequest
        BY DEF TypeInv, TypeOK
      <3> QED
        BY <2>2, <2>4, <3>1 DEF ApprovalRequest
    <2>6. Python!Emits(s, IF approved THEN <<"approval_resolved:approved">>
                          ELSE <<"approval_resolved:rejected", "run_failed">>,
                       ~approved, <<"approval.resolved">>)
      <3>1. PICK before : before = IF approved THEN <<"approval_resolved:approved">>
                                   ELSE <<"approval_resolved:rejected", "run_failed">>
        OBVIOUS
      <3>2. before \in Seq(Effects)
        <4>1. CASE approved
          BY <3>1, <4>1 DEF Effects, RunEventTypes
        <4>2. CASE ~approved
          BY <3>1, <4>2 DEF Effects, RunEventTypes
        <4> QED
          BY <4>1, <4>2
      <3>3. Emitting(r.todo, before, ~approved, <<"approval.resolved">>)
        BY <2>3, <3>1, EmittingResolution
      <3> QED
        BY <1>5, <2>3, <2>4, <3>1, <3>2, <3>3
    <2>7. Python!Saves(s, IF approved THEN "running" ELSE "failed", NoId)
      <3>1. session[s] \in RunSession
        BY DEF TypeInv, TypeOK
      <3>2. \A status : Touched(s, status) = [Touched(s, status) EXCEPT !.currentApproval = NoId]
        BY <3>1 DEF Touched, RunSession
      <3> QED
        BY <1>8, <2>3, <2>4, <3>2
    <2>8. Python!resolve_approval_request
      BY <1>4, <2>1, <2>2, <2>4, <2>5, <2>6, <2>7
      DEF Python!resolve_approval_request, CanResolve
    <2> QED
      BY <2>8 DEF Python!Next
  <1>13. CASE recordDisclosure(c)
    <2>1. PICK s \in Sessions, d \in Disclosures, acknowledged \in BOOLEAN :
            /\ Exists(s) /\ (ReuseIds \/ disclosure[d] = NoEvidence)
            /\ r = [Idle EXCEPT
                 !.pc = "saveDisclosure", !.session = s, !.id = d,
                 !.outcome = acknowledged, !.todo = DisclosureEffects(acknowledged)]
      BY <1>3, <1>13, Zenon DEF recordDisclosure
    <2>2. /\ r.pc = "saveDisclosure" /\ r.session = s /\ r.id = d /\ r.outcome = acknowledged
          /\ r.todo = DisclosureEffects(acknowledged)
      BY <2>1 DEF Idle
    <2>3. /\ Going(r) /\ SessionBy(r) = session /\ ApprovalBy(r) = approval
          /\ EvidenceBy(disclosure, "saveDisclosure", r) =
               [disclosure EXCEPT ![d] = [session |-> s, outcome |-> acknowledged]]
          /\ EvidenceBy(review, "saveReview", r) = review
      BY <2>2 DEF Going, Accepted, SessionBy, ApprovalBy, EvidenceBy, Resolving, Replacing,
                  Completing
    <2>4. PICK before :
            before = <<"disclosure_presented">>
                       \o (IF acknowledged THEN <<"disclosure_acknowledged">> ELSE <<>>)
                       \o <<"disclosure.recorded">>
      OBVIOUS
    <2>5. before = DisclosureEffects(acknowledged)
      <3>1. PICK presented, recorded :
              presented = <<"disclosure_presented">> /\ recorded = <<"disclosure.recorded">>
        OBVIOUS
      <3>2. presented \o <<>> = presented
        BY <3>1
      <3>3. CASE acknowledged
        <4>1. presented \o <<"disclosure_acknowledged">> =
                <<"disclosure_presented", "disclosure_acknowledged">>
          BY <3>1, TuplesConcat
        <4>2. <<"disclosure_presented", "disclosure_acknowledged">> \o recorded =
                <<"disclosure_presented", "disclosure_acknowledged", "disclosure.recorded">>
          BY <3>1, TuplesConcat
        <4>3. before = (presented \o <<"disclosure_acknowledged">>) \o recorded
          BY <2>4, <3>1, <3>3, Zenon
        <4> QED
          BY <3>3, <4>1, <4>2, <4>3, Zenon DEF DisclosureEffects
      <3>4. CASE ~acknowledged
        <4>1. presented \o recorded = <<"disclosure_presented", "disclosure.recorded">>
          BY <3>1, TuplesConcat
        <4>2. before = (presented \o <<>>) \o recorded
          BY <2>4, <3>1, <3>4, Zenon
        <4> QED
          BY <3>2, <3>4, <4>1, <4>2, Zenon DEF DisclosureEffects
      <3> QED
        BY <3>3, <3>4
    <2>6. before \in Seq(RunEventTypes \cup AuditActions)
      <3>1. {"disclosure_presented", "disclosure_acknowledged", "disclosure.recorded"}
              \subseteq RunEventTypes \cup AuditActions
        BY DEF RunEventTypes, AuditActions
      <3>2. CASE acknowledged
        BY <2>5, <3>1, <3>2 DEF DisclosureEffects
      <3>3. CASE ~acknowledged
        BY <2>5, <3>1, <3>3 DEF DisclosureEffects
      <3> QED
        BY <3>2, <3>3
    <2>7. Python!Emits(s, before, FALSE, <<>>)
      BY <1>6, <2>2, <2>3, <2>5, <2>6
    <2>8. Python!record_disclosure
      BY <1>4, <1>7, <2>1, <2>3, <2>4, <2>7, Zenon
      DEF Python!record_disclosure, Python!NoEvidence, NoEvidence
    <2> QED
      BY <2>8 DEF Python!Next
  <1>14. CASE recordHumanReview(c)
    <2>1. PICK s \in Sessions, v \in Reviews, approved \in BOOLEAN :
            /\ Exists(s) /\ (ReuseIds \/ review[v] = NoEvidence)
            /\ r = [Idle EXCEPT
                 !.pc = "saveReview", !.session = s, !.id = v, !.outcome = approved,
                 !.todo = <<"human_review_completed", "human_review.recorded">>]
      BY <1>3, <1>14, Zenon DEF recordHumanReview
    <2>2. /\ r.pc = "saveReview" /\ r.session = s /\ r.id = v /\ r.outcome = approved
          /\ r.todo = <<"human_review_completed", "human_review.recorded">>
      BY <2>1 DEF Idle
    <2>3. /\ Going(r) /\ SessionBy(r) = session /\ ApprovalBy(r) = approval
          /\ EvidenceBy(disclosure, "saveDisclosure", r) = disclosure
          /\ EvidenceBy(review, "saveReview", r) =
               [review EXCEPT ![v] = [session |-> s, outcome |-> approved]]
      BY <2>2 DEF Going, Accepted, SessionBy, ApprovalBy, EvidenceBy, Resolving, Replacing,
                  Completing
    <2>4. Python!Emits(s, <<"human_review_completed", "human_review.recorded">>, FALSE, <<>>)
      <3>1. <<"human_review_completed", "human_review.recorded">>
              \in Seq(RunEventTypes \cup AuditActions)
        BY DEF RunEventTypes, AuditActions
      <3> QED
        BY <1>6, <2>2, <2>3, <3>1
    <2>5. Python!record_human_review
      BY <1>4, <1>7, <2>1, <2>3, <2>4, Zenon
      DEF Python!record_human_review, Python!NoEvidence, NoEvidence
    <2> QED
      BY <2>5 DEF Python!Next
  <1>15. CASE enqueueEvents(c)
    <2>1. PICK s \in Sessions, batch \in Batches : Exists(s) /\ r = Owing(s, batch)
      BY <1>3, <1>15, Zenon DEF enqueueEvents
    <2>2. r.pc = "effects" /\ r.session = s /\ r.todo = batch
      BY <2>1 DEF Owing, Idle
    <2>3. /\ Going(r) /\ SessionBy(r) = session /\ ApprovalBy(r) = approval
          /\ EvidenceBy(disclosure, "saveDisclosure", r) = disclosure
          /\ EvidenceBy(review, "saveReview", r) = review
      BY <2>2 DEF Going, Accepted, SessionBy, ApprovalBy, EvidenceBy, Resolving, Replacing,
                  Completing
    <2>4. Python!Emits(s, batch, FALSE, <<>>)
      BY <1>6, <2>2, <2>3, RunSessionsAssumption
    <2>5. Python!enqueue_events
      BY <1>4, <1>7, <2>1, <2>3, <2>4 DEF Python!enqueue_events
    <2> QED
      BY <2>5 DEF Python!Next
  <1> QED
    BY <1>9, <1>10, <1>11, <1>12, <1>13, <1>14, <1>15 DEF Start

(* The first effect of a list, done.                                       *)
LEMMA OneBundleTail ==
  ASSUME NEW effects \in Seq(Effects), effects # <<>>
  PROVE  /\ OneBundle(effects) => OneBundle(Tail(effects))
         /\ OneBundle(effects) /\ Head(effects) = "bundle" => ~HasBundle(Tail(effects))
         /\ Head(effects) # "bundle" => (HasBundle(effects) <=> HasBundle(Tail(effects)))
         /\ Head(effects) = "bundle" => HasBundle(effects)
  <1>1. PICK rest, m : rest = Tail(effects) /\ m = Len(effects)
    OBVIOUS
  <1>2. /\ m \in Nat \ {0} /\ DOMAIN effects = 1..m /\ Head(effects) = effects[1]
        /\ DOMAIN rest = 1..(m - 1) /\ \A i \in 1..(m - 1) : rest[i] = effects[i + 1]
    <2>1. rest \in Seq(Effects) /\ Len(rest) = m - 1
      BY <1>1, HeadTailProperties
    <2> QED
      BY <1>1, <2>1, HeadTailProperties, EmptySeq, LenProperties
  <1>3. \A i \in 1..(m - 1) : i + 1 \in 1..m /\ i + 1 # 1 /\ rest[i] = effects[i + 1]
    BY <1>2
  <1>4. \A i \in 1..m : i # 1 => i - 1 \in 1..(m - 1) /\ rest[i - 1] = effects[i]
    BY <1>2
  <1>5. OneBundle(effects) => OneBundle(rest)
    <2> SUFFICES ASSUME OneBundle(effects), NEW i \in 1..(m - 1), NEW j \in 1..(m - 1),
                        rest[i] = "bundle", rest[j] = "bundle"
                 PROVE  i = j
      BY <1>2 DEF OneBundle
    <2>1. i + 1 = j + 1
      BY <1>2, <1>3 DEF OneBundle
    <2> QED
      BY <2>1
  <1>6. OneBundle(effects) /\ Head(effects) = "bundle" => ~HasBundle(rest)
    BY <1>2, <1>3 DEF OneBundle, HasBundle
  <1>7. Head(effects) # "bundle" => (HasBundle(effects) <=> HasBundle(rest))
    <2>1. ASSUME Head(effects) # "bundle", NEW i \in 1..m, effects[i] = "bundle"
          PROVE  i - 1 \in DOMAIN rest /\ rest[i - 1] = "bundle"
      BY <1>2, <1>4, <2>1
    <2>2. ASSUME NEW i \in 1..(m - 1), rest[i] = "bundle"
          PROVE  i + 1 \in DOMAIN effects /\ effects[i + 1] = "bundle"
      BY <1>2, <1>3, <2>2
    <2>3. DOMAIN effects = 1..m /\ DOMAIN rest = 1..(m - 1)
      BY <1>2
    <2> QED
      BY <2>1, <2>2, <2>3, Zenon DEF HasBundle
  <1>8. Head(effects) = "bundle" => HasBundle(effects)
    BY <1>2 DEF HasBundle
  <1> QED
    BY <1>1, <1>5, <1>6, <1>7, <1>8

LEMMA AheadTail ==
  ASSUME NEW effects \in Seq(Effects), effects # <<>>, OneBundle(effects), HasBundle(effects)
  PROVE  /\ Ahead(effects) \in Seq(Effects) /\ Ahead(effects) # <<>>
         /\ Head(Ahead(effects)) = Head(effects)
         /\ Tail(Ahead(effects)) =
              IF Head(effects) = "bundle" THEN <<>> ELSE Ahead(Tail(effects))
  <1>1. PICK rest, m : rest = Tail(effects) /\ m = Len(effects)
    OBVIOUS
  <1>2. /\ m \in Nat \ {0} /\ DOMAIN effects = 1..m /\ Head(effects) = effects[1]
        /\ rest \in Seq(Effects) /\ Len(rest) = m - 1
        /\ DOMAIN rest = 1..(m - 1) /\ \A i \in 1..(m - 1) : rest[i] = effects[i + 1]
    <2>1. rest \in Seq(Effects) /\ Len(rest) = m - 1
      BY <1>1, HeadTailProperties
    <2> QED
      BY <1>1, <2>1, HeadTailProperties, EmptySeq, LenProperties
  <1>3. PICK k \in 1..m : effects[k] = "bundle"
    BY <1>2 DEF HasBundle
  <1>4. (CHOOSE i \in DOMAIN effects : effects[i] = "bundle") = k
    BY <1>2, <1>3 DEF OneBundle
  <1>5. Ahead(effects) = SubSeq(effects, 1, k)
    BY <1>4, Zenon DEF Ahead
  <1>6. PICK ahead : ahead = SubSeq(effects, 1, k)
    OBVIOUS
  <1>7. \A i \in 1..k : effects[i] \in Effects
    BY <1>2, <1>3, ElementOfSeq
  <1>8. /\ ahead \in Seq(Effects) /\ Len(ahead) = k
        /\ \A i \in 1..k : ahead[i] = effects[i]
    BY <1>2, <1>3, <1>6, <1>7, SubSeqProperties
  <1>9. /\ ahead # <<>> /\ Head(ahead) = Head(effects)
        /\ Tail(ahead) \in Seq(Effects) /\ Len(Tail(ahead)) = k - 1
        /\ \A i \in 1..(k - 1) : Tail(ahead)[i] = effects[i + 1]
    <2>1. ahead # <<>>
      BY <1>3, <1>8
    <2>2. Head(ahead) = ahead[1] /\ Tail(ahead) \in Seq(Effects)
          /\ Len(Tail(ahead)) = k - 1 /\ \A i \in 1..(k - 1) : Tail(ahead)[i] = ahead[i + 1]
      BY <1>8, <2>1, HeadTailProperties
    <2> QED
      BY <1>2, <1>3, <1>8, <2>1, <2>2
  <1>10. CASE Head(effects) = "bundle"
    <2>1. k = 1
      BY <1>2, <1>3, <1>10 DEF OneBundle
    <2>2. Tail(ahead) = <<>>
      <3>1. Len(Tail(ahead)) = 0
        BY <1>9, <2>1
      <3> QED
        BY <1>9, <3>1, EmptySeq, Zenon
    <2> QED
      BY <1>5, <1>6, <1>8, <1>9, <1>10, <2>2
  <1>11. CASE Head(effects) # "bundle"
    <2>1. k # 1 /\ k - 1 \in 1..(m - 1) /\ rest[k - 1] = "bundle"
      BY <1>2, <1>3, <1>11
    <2>2. OneBundle(rest)
      BY <1>1, OneBundleTail
    <2>3. (CHOOSE i \in DOMAIN rest : rest[i] = "bundle") = k - 1
      BY <1>2, <2>1, <2>2 DEF OneBundle
    <2>4. Ahead(rest) = SubSeq(rest, 1, k - 1)
      BY <2>3, Zenon DEF Ahead
    <2>5. PICK tail : tail = SubSeq(rest, 1, k - 1)
      OBVIOUS
    <2>6. \A i \in 1..(k - 1) : rest[i] \in Effects
      BY <1>2, <2>1, ElementOfSeq
    <2>7. tail \in Seq(Effects) /\ Len(tail) = k - 1 /\ \A i \in 1..(k - 1) : tail[i] = rest[i]
      BY <1>2, <2>1, <2>5, <2>6, SubSeqProperties
    <2>8. Tail(ahead) = tail
      <3>1. \A i \in 1..(k - 1) : Tail(ahead)[i] = tail[i]
        BY <1>2, <1>9, <2>1, <2>7
      <3> QED
        BY <1>9, <2>7, <3>1, SeqEqual
    <2> QED
      BY <1>1, <1>5, <1>6, <1>8, <1>9, <1>11, <2>4, <2>5, <2>8
  <1> QED
    BY <1>10, <1>11

(* What is left of each stream when the first effect is done.              *)
LEMMA PartsAfter ==
  ASSUME NEW effects \in Seq(Effects), effects # <<>>, OneBundle(effects),
         NEW wanted, "bundle" \notin wanted
  PROVE  /\ Head(effects) \in wanted =>
              Part(wanted, effects) = <<Head(effects)>> \o Part(wanted, Tail(effects))
         /\ Head(effects) \notin wanted => Part(wanted, effects) = Part(wanted, Tail(effects))
         /\ HasBundle(effects) /\ Head(effects) # "bundle" =>
              /\ Head(effects) \in wanted =>
                   Len(Part(wanted, Ahead(effects))) = 1 + Len(Part(wanted, Ahead(Tail(effects))))
              /\ Head(effects) \notin wanted =>
                   Part(wanted, Ahead(effects)) = Part(wanted, Ahead(Tail(effects)))
         /\ HasBundle(effects) /\ Head(effects) = "bundle" => Part(wanted, Ahead(effects)) = <<>>
  <1>1. Part(wanted, effects) = Choose(wanted, Head(effects), Part(wanted, Tail(effects)))
    BY PartTail
  <1>2. ASSUME HasBundle(effects)
        PROVE  Part(wanted, Ahead(effects)) =
                 Choose(wanted, Head(effects),
                        Part(wanted, IF Head(effects) = "bundle" THEN <<>>
                                     ELSE Ahead(Tail(effects))))
    <2>1. PICK ahead : ahead = Ahead(effects)
      OBVIOUS
    <2>2. /\ ahead \in Seq(Effects) /\ ahead # <<>> /\ Head(ahead) = Head(effects)
          /\ Tail(ahead) = IF Head(effects) = "bundle" THEN <<>> ELSE Ahead(Tail(effects))
      BY <1>2, <2>1, AheadTail
    <2>3. Part(wanted, ahead) = Choose(wanted, Head(ahead), Part(wanted, Tail(ahead)))
      BY <2>2, PartTail
    <2> QED
      BY <2>1, <2>2, <2>3, Zenon
  <1>3. \A e, rest : Choose(wanted, e, rest) = IF e \in wanted THEN <<e>> \o rest ELSE rest
    BY DEF Choose
  <1>4. HasBundle(effects) /\ Head(effects) # "bundle" =>
          Part(wanted, Ahead(Tail(effects))) \in Seq(wanted)
    <2> SUFFICES ASSUME HasBundle(effects), Head(effects) # "bundle"
                 PROVE  Part(wanted, Ahead(Tail(effects))) \in Seq(wanted)
      OBVIOUS
    <2>1. Ahead(Tail(effects)) \in Seq(Effects)
      BY AheadTail, HeadTailProperties
    <2> QED
      BY <2>1, PartSeq
  <1>5. \A e \in wanted : \A rest \in Seq(wanted) : Len(<<e>> \o rest) = 1 + Len(rest)
    OBVIOUS
  <1>6. Part(wanted, <<>>) = <<>>
    BY PartNone
  <1>7. HasBundle(effects) /\ Head(effects) = "bundle" => Part(wanted, Ahead(effects)) = <<>>
    BY <1>2, <1>3, <1>6, Zenon
  <1>8. HasBundle(effects) /\ Head(effects) # "bundle" /\ Head(effects) \notin wanted =>
          Part(wanted, Ahead(effects)) = Part(wanted, Ahead(Tail(effects)))
    BY <1>2, <1>3, Zenon
  <1>9. HasBundle(effects) /\ Head(effects) # "bundle" /\ Head(effects) \in wanted =>
          Len(Part(wanted, Ahead(effects))) = 1 + Len(Part(wanted, Ahead(Tail(effects))))
    <2> SUFFICES ASSUME HasBundle(effects), Head(effects) # "bundle", Head(effects) \in wanted
                 PROVE  Len(Part(wanted, Ahead(effects))) =
                          1 + Len(Part(wanted, Ahead(Tail(effects))))
      OBVIOUS
    <2>1. Part(wanted, Ahead(effects)) = <<Head(effects)>> \o Part(wanted, Ahead(Tail(effects)))
      BY <1>2, <1>3, Zenon
    <2> QED
      BY <1>4, <1>5, <2>1, Zenon
  <1> QED
    BY <1>1, <1>3, <1>7, <1>8, <1>9, Zenon

(* What the calls that start owe has one bundle at most.                   *)
LEMMA StartOneBundle ==
  ASSUME TypeInv, TypeInv', NEW c \in Callers, Start(c), NEW r, r = call'[c]
  PROVE  OneBundle(r.todo)
  <1>1. \A batch \in Seq(RunEventTypes \cup AuditActions) : OneBundle(batch)
    <2> SUFFICES ASSUME NEW batch \in Seq(RunEventTypes \cup AuditActions), NEW i \in DOMAIN batch
                 PROVE  batch[i] # "bundle"
      BY DEF OneBundle
    <2> QED
      BY ElementOfSeq, LenProperties, StatusFacts
  <1>2. \A x, y : x # "bundle" => OneBundle(<<x, y>>)
    BY DEF OneBundle
  <1>3. \A x, y, z : x # "bundle" /\ y # "bundle" => OneBundle(<<x, y, z>>)
    BY DEF OneBundle
  <1>4. OneBundle(<<"approval_resolved:rejected", "run_failed", "bundle", "approval.resolved">>)
    BY DEF OneBundle
  <1>5. \A status : OneBundle(CompletionEffects(status))
    BY <1>3 DEF CompletionEffects
  <1>6. \A approved : OneBundle(ResolutionEffects(approved))
    BY <1>2, <1>4 DEF ResolutionEffects
  <1>7. \A acknowledged : OneBundle(DisclosureEffects(acknowledged))
    BY <1>2, <1>3 DEF DisclosureEffects
  <1>8. \/ r.todo \in {<<"run_started", "session.started">>,
                       <<"approval_requested", "approval.requested">>,
                       <<"human_review_completed", "human_review.recorded">>}
        \/ \E status \in Terminal : r.todo = CompletionEffects(status)
        \/ r.todo = ResolutionEffects(r.outcome)
        \/ r.todo = DisclosureEffects(r.outcome)
        \/ r.todo \in Batches
    BY StartFields
  <1> QED
    BY <1>1, <1>2, <1>5, <1>6, <1>7, <1>8, RunSessionsAssumption

LEMMA BundleReadStep ==
  ASSUME TypeInv, TypeInv', NEW c \in Callers, Callers = {c}, BundlesRead,
         Start(c) \/ Continue(c) \/ Reject(c)
  PROVE  BundlesRead'
  <1>1. PICK old, new : old = call[c] /\ new = call'[c]
    OBVIOUS
  <1>2. SUFFICES BundleRead(new)'
    BY <1>1 DEF BundlesRead, BundleRead
  <1>3. BundleRead(old)
    BY <1>1 DEF BundlesRead
  <1> DEFINE Reading == {"trailAudits", "trailExisting", "saveBundle"}
  <1>4. ASSUME OneBundle(new.todo), new.pc \notin Reading PROVE BundleRead(new)'
    BY <1>4 DEF BundleRead
  <1>5. CASE Start(c)
    <2>1. OneBundle(new.todo) /\ new.pc \notin Reading
      BY <1>1, <1>5, StartOneBundle, StartFields
    <2> QED
      BY <1>4, <2>1
  <1>6. CASE \/ checkDisclosures(c) \/ checkReviews(c) \/ saveSession(c) \/ saveRequest(c)
             \/ saveResolution(c) \/ rereadSession(c) \/ saveDisclosure(c) \/ saveReview(c)
             \/ countRunEvents(c) \/ Reject(c)
    <2>1. OneBundle(Idle.todo) /\ Idle.pc = "idle"
      BY DEF OneBundle, Idle
    <2>2. Reject(c) => new = Idle
      BY <1>1 DEF Reject, Becomes, TypeInv, TypeOK
    <2>3. new = Idle \/ (new.todo = old.todo /\ new.pc \notin Reading)
      BY <1>1, <1>6, <2>2, ContinuePlace DEF Goes, Refused
    <2> QED
      BY <1>3, <1>4, <2>1, <2>3 DEF BundleRead
  <1>7. CASE readRunEvents(c) \/ readAuditEvents(c) \/ readExistingBundle(c)
    <2>1. /\ UNCHANGED stores /\ new.session = old.session /\ new.todo = old.todo
          /\ Head(new.todo) = "bundle" /\ new.bundle.runEvents = Len(events[new.session])
      BY <1>1, <1>3, <1>7, EffectFields, ContinuePlace DEF Goes, BundleRead
    <2>2. readAuditEvents(c) => new.bundle.auditEvents = Len(audits[new.session])
      <3>1. SUFFICES ASSUME readAuditEvents(c)
                     PROVE  new.bundle.auditEvents = Len(audits[old.session])
        BY <2>1
      <3>2. old \in Call /\ old.bundle \in EvidenceBundle
        BY <1>1 DEF TypeInv, TypeOK, Call
      <3>3. new = [old EXCEPT !.pc = "trailExisting",
                              !.bundle.auditEvents = Len(audits[old.session])]
        BY <1>1, <3>1 DEF readAuditEvents, Becomes, TypeInv, TypeOK
      <3> QED
        BY <3>2, <3>3 DEF Call, EvidenceBundle
    <2>3. /\ new.pc \in {"trailExisting", "saveBundle"} =>
               new.bundle.auditEvents = Len(audits[new.session])
          /\ new.pc = "saveBundle" => new.existing = IF bundles[new.session] = <<>> THEN 0 ELSE 1
      BY <1>1, <1>3, <1>7, <2>1, <2>2, EffectFields, ContinuePlace DEF Goes, BundleRead
    <2> QED
      BY <1>3, <2>1, <2>3 DEF BundleRead, stores
  <1>8. CASE appendRunEvent(c) \/ recordAuditEvent(c) \/ persistEvidenceBundle(c)
    <2>1. new.todo = Tail(old.todo) /\ new.pc \in {"idle", "effects"} /\ old.pc # "idle"
      BY <1>1, <1>8, ContinuePlace DEF Done, Idle
    <2>2. old.todo \in Seq(Effects) /\ old.todo # <<>>
      BY <1>1, <2>1 DEF TypeInv, TypeOK, CallConsistent, Call
    <2>3. OneBundle(new.todo)
      BY <1>3, <2>1, <2>2, OneBundleTail DEF BundleRead
    <2> QED
      BY <1>4, <2>1, <2>3
  <1> QED
    BY <1>5, <1>6, <1>7, <1>8 DEF Continue

LEMMA BundlesReadInvariant ==
  ASSUME NEW c \in Callers, Callers = {c}
  PROVE  Spec => []BundlesRead
  <1>1. Init => BundlesRead
    <2>1. Idle.todo = <<>> /\ Idle.pc = "idle" /\ OneBundle(<<>>)
      BY DEF Idle, OneBundle
    <2> QED
      BY <2>1 DEF Init, BundlesRead, BundleRead
  <1>2. TypeInv /\ TypeInv' /\ BundlesRead /\ [Next]_vars => BundlesRead'
    <2> SUFFICES ASSUME TypeInv, TypeInv', BundlesRead, [Next]_vars PROVE BundlesRead'
      OBVIOUS
    <2>1. CASE UNCHANGED vars
      BY <2>1 DEF vars, BundlesRead, BundleRead
    <2>2. CASE Start(c) \/ Continue(c) \/ Reject(c)
      BY <2>2, BundleReadStep
    <2> QED
      BY <2>1, <2>2 DEF Next, Rest
  <1> QED
    BY <1>1, <1>2, TypeInvariant, PTL DEF Spec

(* What was to be is still to be, and all else that the Python control     *)
(* plane knows.                                                            *)
LEMMA StillMaps ==
  ASSUME NEW c \in Callers, Callers = {c}, TypeInv, TypeInv',
         NEW old, old = call[c], NEW new, new = call'[c],
         SessionBy(new)' = SessionBy(old), ApprovalBy(new)' = ApprovalBy(old),
         EvidenceBy(disclosure, "saveDisclosure", new)'
           = EvidenceBy(disclosure, "saveDisclosure", old),
         EvidenceBy(review, "saveReview", new)' = EvidenceBy(review, "saveReview", old),
         TrailBy(new)' = TrailBy(old), AuditsBy(new)' = AuditsBy(old),
         BundleBy(new)' = BundleBy(old)
  PROVE  UNCHANGED Python!vars
  <1>1. Mapped(old) /\ Mapped(call[c])'
    BY Mapping, MappingNext
  <1>2. Mapped(new)'
    <2>1. /\ SessionBy(call[c])' = SessionBy(new)' /\ ApprovalBy(call[c])' = ApprovalBy(new)'
          /\ EvidenceBy(disclosure, "saveDisclosure", call[c])'
               = EvidenceBy(disclosure, "saveDisclosure", new)'
          /\ EvidenceBy(review, "saveReview", call[c])' = EvidenceBy(review, "saveReview", new)'
          /\ TrailBy(call[c])' = TrailBy(new)' /\ AuditsBy(call[c])' = AuditsBy(new)'
          /\ BundleBy(call[c])' = BundleBy(new)'
      BY Zenon DEF SessionBy, ApprovalBy, EvidenceBy, TrailBy, AuditsBy, BundleBy, Going, Accepted
    <2> QED
      BY <1>1, <2>1, Zenon DEF Mapped
  <1> QED
    BY <1>1, <1>2, Zenon DEF Mapped, Python!vars

(* A step after which a call owes the same effects to the same session.    *)
LEMMA TrailsKept ==
  ASSUME UNCHANGED <<events, audits, bundles>>, NEW old, NEW new,
         new.session = old.session, new.todo = old.todo, Going(new)' <=> Going(old)
  PROVE  /\ TrailBy(new)' = TrailBy(old) /\ AuditsBy(new)' = AuditsBy(old)
         /\ BundleBy(new)' = BundleBy(old)
  <1>1. /\ Trails' = Trails /\ Firsts' = Firsts
        /\ BundleOf(old.session, old.todo)' = BundleOf(old.session, old.todo)
    BY DEF Trails, Types, Firsts, BundleOf
  <1> QED
    BY <1>1 DEF TrailBy, AuditsBy, BundleBy, BundleOf

(* A step of a call that is refused, or that will be.                      *)
LEMMA RefusedTrails ==
  ASSUME UNCHANGED <<events, audits, bundles>>, NEW old, NEW new,
         ~Going(new)', ~Going(old)
  PROVE  /\ TrailBy(new)' = TrailBy(old) /\ AuditsBy(new)' = AuditsBy(old)
         /\ BundleBy(new)' = BundleBy(old)
  <1>1. Trails' = Trails /\ Firsts' = Firsts
    BY DEF Trails, Types, Firsts
  <1> QED
    BY <1>1 DEF TrailBy, AuditsBy, BundleBy

LEMMA CheckMaps ==
  ASSUME NEW c \in Callers, Callers = {c}, TypeInv, TypeInv',
         checkDisclosures(c) \/ checkReviews(c)
  PROVE  UNCHANGED Python!vars
  <1>1. PICK old, new : old = call[c] /\ new = call'[c]
    OBVIOUS
  <1>2. old \in Call /\ UNCHANGED stores /\ old.pc \in Completing
    BY <1>1 DEF TypeInv, TypeOK, checkDisclosures, checkReviews, Completing
  <1>3. \/ /\ new.session = old.session /\ new.todo = old.todo /\ new.record = old.record
           /\ new.pc \in {"reviews", "saveSession"} /\ (Accepted(new)' <=> Accepted(old))
        \/ new = Idle /\ ~Accepted(old)
    <2>1. \A r \in Call : \A pc : /\ [r EXCEPT !.pc = pc].pc = pc
                                  /\ [r EXCEPT !.pc = pc].session = r.session
                                  /\ [r EXCEPT !.pc = pc].todo = r.todo
                                  /\ [r EXCEPT !.pc = pc].record = r.record
      BY DEF Call
    <2>2. \A r : Becomes(c, r) => new = r
      BY <1>1 DEF Becomes, TypeInv, TypeOK
    <2>3. \A s, p : (DisclosureMet(s, p)' <=> DisclosureMet(s, p))
                    /\ (ReviewsMet(s, p)' <=> ReviewsMet(s, p))
      BY <1>2 DEF DisclosureMet, ReviewsMet, stores
    <2>4. CASE checkDisclosures(c)
      <3>1. old.pc = "disclosures"
        BY <1>1, <2>4 DEF checkDisclosures
      <3>2. CASE DisclosureMet(old.session, old.record.profile)
        <4>1. new = [old EXCEPT !.pc = "reviews"]
          BY <1>1, <2>2, <2>4, <3>2 DEF checkDisclosures
        <4>2. /\ new.pc = "reviews" /\ new.session = old.session /\ new.todo = old.todo
              /\ new.record = old.record
          BY <1>2, <2>1, <4>1
        <4> QED
          BY <2>3, <3>1, <3>2, <4>2 DEF Accepted, Completing
      <3>3. CASE ~DisclosureMet(old.session, old.record.profile)
        <4>1. new = Idle
          BY <1>1, <2>2, <2>4, <3>3 DEF checkDisclosures
        <4> QED
          BY <3>1, <3>3, <4>1 DEF Accepted
      <3> QED
        BY <3>2, <3>3
    <2>5. CASE checkReviews(c)
      <3>1. old.pc = "reviews"
        BY <1>1, <2>5 DEF checkReviews
      <3>2. CASE ReviewsMet(old.session, old.record.profile)
        <4>1. new = [old EXCEPT !.pc = "saveSession"]
          BY <1>1, <2>2, <2>5, <3>2 DEF checkReviews
        <4>2. /\ new.pc = "saveSession" /\ new.session = old.session /\ new.todo = old.todo
              /\ new.record = old.record
          BY <1>2, <2>1, <4>1
        <4> QED
          BY <3>1, <3>2, <4>2 DEF Accepted, Completing
      <3>3. CASE ~ReviewsMet(old.session, old.record.profile)
        <4>1. new = Idle
          BY <1>1, <2>2, <2>5, <3>3 DEF checkReviews
        <4> QED
          BY <3>1, <3>3, <4>1 DEF Accepted, Completing
      <3> QED
        BY <3>2, <3>3
    <2> QED
      BY <2>4, <2>5
  <1>4. /\ ApprovalBy(new)' = ApprovalBy(old)
        /\ EvidenceBy(disclosure, "saveDisclosure", new)'
             = EvidenceBy(disclosure, "saveDisclosure", old)
        /\ EvidenceBy(review, "saveReview", new)' = EvidenceBy(review, "saveReview", old)
    BY <1>2, <1>3 DEF ApprovalBy, EvidenceBy, stores, Completing, Idle
  <1>5. SessionBy(new)' = SessionBy(old)
    <2>1. session' = session /\ old.pc \notin Resolving /\ old.pc \in Replacing
      BY <1>2 DEF stores, Completing, Resolving, Replacing
    <2>2. CASE new = Idle /\ ~Accepted(old)
      BY <2>1, <2>2 DEF SessionBy, Idle, Resolving, Replacing, Completing
    <2>3. CASE /\ new.session = old.session /\ new.record = old.record
               /\ new.pc \in {"reviews", "saveSession"} /\ (Accepted(new)' <=> Accepted(old))
      <3>1. new.pc \notin Resolving /\ new.pc \in Replacing
        BY <2>3 DEF Completing, Resolving, Replacing
      <3>2. SessionBy(new)' = IF Accepted(new)' THEN [session EXCEPT ![old.session] = old.record]
                              ELSE session
        BY <2>1, <2>3, <3>1 DEF SessionBy, Resolving, Replacing, Completing
      <3> QED
        BY <2>1, <2>3, <3>2 DEF SessionBy
    <2> QED
      BY <1>3, <2>2, <2>3
  <1>6. /\ TrailBy(new)' = TrailBy(old) /\ AuditsBy(new)' = AuditsBy(old)
        /\ BundleBy(new)' = BundleBy(old)
    <2>1. UNCHANGED <<events, audits, bundles>>
      BY <1>2 DEF stores
    <2>2. \/ new.session = old.session /\ new.todo = old.todo /\ (Going(new)' <=> Going(old))
          \/ ~Going(new)' /\ ~Going(old)
      BY <1>2, <1>3 DEF Going, Completing, Idle
    <2> QED
      BY <2>1, <2>2, TrailsKept, RefusedTrails
  <1> QED
    BY <1>1, <1>4, <1>5, <1>6, StillMaps

(* A call that saves its record has what it owes still to do.              *)
LEMMA SavesMap ==
  ASSUME NEW c \in Callers, Callers = {c}, TypeInv, TypeInv',
         \/ saveSession(c) \/ saveRequest(c) \/ saveResolution(c) \/ rereadSession(c)
         \/ saveDisclosure(c) \/ saveReview(c)
  PROVE  UNCHANGED Python!vars
  <1>1. PICK old, new : old = call[c] /\ new = call'[c]
    OBVIOUS
  <1>2. /\ old \in Call /\ new.session = old.session /\ new.todo = old.todo
        /\ old.pc \in {"saveSession", "saveRequest", "saveResolution", "reread",
                       "saveDisclosure", "saveReview"}
        /\ new.pc \in {"saveSession", "reread", "effects"}
    BY <1>1, ContinuePlace DEF Goes, TypeInv, TypeOK
  <1>3. UNCHANGED <<events, audits, bundles>>
    BY DEF saveSession, saveRequest, saveResolution, rereadSession, saveDisclosure, saveReview,
           stores
  <1>4. /\ TrailBy(new)' = TrailBy(old) /\ AuditsBy(new)' = AuditsBy(old)
        /\ BundleBy(new)' = BundleBy(old)
    <2>1. Going(old) /\ Going(new)'
      BY <1>2 DEF Going, Accepted, Completing
    <2> QED
      BY <1>2, <1>3, <2>1, TrailsKept
  <1>5. SessionBy(new)' = SessionBy(old)
    <2>1. CASE saveSession(c)
      BY <1>1, <2>1, ContinuePlace
      DEF saveSession, Goes, SessionBy, Accepted, Resolving, Replacing, Completing
    <2>2. CASE saveRequest(c)
      BY <1>1, <2>2, ContinuePlace, ContinueFields
      DEF Kept, Goes, SessionBy, Accepted, Resolving, Replacing, Completing
    <2>3. CASE saveResolution(c)
      BY <1>1, <2>3, ContinuePlace, ContinueFields, Zenon
      DEF Kept, Goes, SessionBy, Resolving, Touched
    <2>4. CASE rereadSession(c)
      BY <1>1, <2>4, ContinuePlace, ContinueFields
      DEF Goes, SessionBy, Accepted, Resolving, Replacing, Completing, stores
    <2>5. CASE saveDisclosure(c) \/ saveReview(c)
      BY <1>1, <2>5, ContinuePlace
      DEF saveDisclosure, saveReview, Goes, SessionBy, Resolving, Replacing, Completing
    <2> QED
      BY <2>1, <2>2, <2>3, <2>4, <2>5
  <1>6. ApprovalBy(new)' = ApprovalBy(old)
    <2>1. CASE saveRequest(c) \/ saveResolution(c)
      BY <1>1, <2>1, ContinuePlace DEF saveRequest, saveResolution, Goes, ApprovalBy
    <2>2. CASE saveSession(c) \/ rereadSession(c) \/ saveDisclosure(c) \/ saveReview(c)
      BY <1>1, <2>2, ContinuePlace
      DEF saveSession, rereadSession, saveDisclosure, saveReview, Goes, ApprovalBy, stores
    <2> QED
      BY <2>1, <2>2
  <1>7. /\ EvidenceBy(disclosure, "saveDisclosure", new)'
             = EvidenceBy(disclosure, "saveDisclosure", old)
        /\ EvidenceBy(review, "saveReview", new)' = EvidenceBy(review, "saveReview", old)
    <2>1. CASE saveDisclosure(c) \/ saveReview(c)
      BY <1>1, <2>1, ContinuePlace DEF saveDisclosure, saveReview, Goes, EvidenceBy
    <2>2. CASE saveSession(c) \/ rereadSession(c) \/ saveRequest(c) \/ saveResolution(c)
      BY <1>1, <2>2, ContinuePlace
      DEF saveSession, rereadSession, saveRequest, saveResolution, Goes, EvidenceBy, stores
    <2> QED
      BY <2>1, <2>2
  <1> QED
    BY <1>1, <1>4, <1>5, <1>6, <1>7, StillMaps

(* The effects of a call leave the records alone.                          *)
LEMMA PerformRecords ==
  ASSUME UNCHANGED <<session, approval, disclosure, review>>, NEW old, NEW new,
         old.pc \in {"idle", "effects", "append", "trailAudits", "trailExisting", "saveBundle"},
         new.pc \in {"idle", "effects", "append", "trailAudits", "trailExisting", "saveBundle"}
  PROVE  /\ SessionBy(new)' = SessionBy(old) /\ ApprovalBy(new)' = ApprovalBy(old)
         /\ EvidenceBy(disclosure, "saveDisclosure", new)'
              = EvidenceBy(disclosure, "saveDisclosure", old)
         /\ EvidenceBy(review, "saveReview", new)' = EvidenceBy(review, "saveReview", old)
  BY DEF SessionBy, ApprovalBy, EvidenceBy, Resolving, Replacing, Completing

LEMMA ReadsMap ==
  ASSUME NEW c \in Callers, Callers = {c}, TypeInv, TypeInv',
         \/ countRunEvents(c) \/ readRunEvents(c)
         \/ readAuditEvents(c) \/ readExistingBundle(c)
  PROVE  UNCHANGED Python!vars
  <1>1. PICK old, new : old = call[c] /\ new = call'[c]
    OBVIOUS
  <1>2. /\ UNCHANGED stores /\ new.session = old.session /\ new.todo = old.todo
        /\ old.pc \in {"effects", "trailAudits", "trailExisting"}
        /\ new.pc \in {"append", "trailAudits", "trailExisting", "saveBundle"}
    BY <1>1, ContinuePlace, EffectFields DEF Goes
  <1>3. Going(old) /\ Going(new)'
    BY <1>2 DEF Going, Accepted, Completing
  <1>4. /\ TrailBy(new)' = TrailBy(old) /\ AuditsBy(new)' = AuditsBy(old)
        /\ BundleBy(new)' = BundleBy(old)
    BY <1>2, <1>3, TrailsKept DEF stores
  <1> QED
    BY <1>1, <1>2, <1>4, PerformRecords, StillMaps DEF stores

LEMMA TypesNext ==
  ASSUME NEW s \in Sessions
  PROVE  TypeInv' => (Types(s) \in Seq(RunEventTypes))'
  <1>1. TypeInv => Types(s) \in Seq(RunEventTypes)
    BY TypesSeq DEF TypeInv
  <1> QED
    BY <1>1, PTL

(* What the streams will be, before and after an effect in session s.       *)
DoneStreams(old, new, s, rest) ==
  /\ TrailBy(old) = [Trails EXCEPT ![s] = Types(s) \o RunPart(old.todo)]
  /\ TrailBy(new)' = [Trails' EXCEPT ![s] = Types(s)' \o RunPart(rest)]
  /\ AuditsBy(old) = [audits EXCEPT ![s] = audits[s] \o AuditPart(old.todo)]
  /\ AuditsBy(new)' = [audits' EXCEPT ![s] = audits'[s] \o AuditPart(rest)]
  /\ BundleBy(old) = IF HasBundle(old.todo)
                       THEN [Firsts EXCEPT ![s] = BundleOf(s, old.todo)] ELSE Firsts
  /\ BundleBy(new)' = IF HasBundle(rest)
                        THEN [Firsts' EXCEPT ![s] = BundleOf(s, rest)'] ELSE Firsts'

LEMMA DoneMaps ==
  ASSUME NEW c \in Callers, TypeInv, TypeInv',
         appendRunEvent(c) \/ recordAuditEvent(c) \/ persistEvidenceBundle(c),
         NEW old, old = call[c], NEW new, new = call'[c], NEW s, s = old.session,
         NEW rest, rest = Tail(old.todo)
  PROVE  /\ s \in Sessions /\ old.todo \in Seq(Effects) /\ old.todo # <<>>
         /\ old.pc \in {"effects", "append", "saveBundle"} /\ new.pc \in {"idle", "effects"}
         /\ DoneStreams(old, new, s, rest)
  <1>1. /\ old.pc \in {"effects", "append", "saveBundle"} /\ old.pc # "idle"
        /\ old \in Call /\ CallConsistent(old)
    BY DEF appendRunEvent, recordAuditEvent, persistEvidenceBundle, TypeInv, TypeOK
  <1>2. s \in Sessions /\ old.todo \in Seq(Effects) /\ old.todo # <<>>
    BY <1>1 DEF CallConsistent, Call
  <1>3. /\ new.todo = rest
        /\ \/ new = Idle
           \/ new.pc = "effects" /\ new.session = s
    BY ContinuePlace DEF Done
  <1>4. Going(old) /\ Trails[s] = Types(s)
    BY <1>1, <1>2 DEF Going, Accepted, Completing, Trails
  <1>5. /\ TrailBy(old) = [Trails EXCEPT ![s] = Types(s) \o RunPart(old.todo)]
        /\ AuditsBy(old) = [audits EXCEPT ![s] = audits[s] \o AuditPart(old.todo)]
        /\ BundleBy(old) = IF HasBundle(old.todo)
                             THEN [Firsts EXCEPT ![s] = BundleOf(s, old.todo)] ELSE Firsts
    BY <1>4 DEF TrailBy, AuditsBy, BundleBy
  <1>6. /\ TrailBy(new)' = [Trails' EXCEPT ![s] = Types(s)' \o RunPart(rest)]
        /\ AuditsBy(new)' = [audits' EXCEPT ![s] = audits'[s] \o AuditPart(rest)]
        /\ BundleBy(new)' = IF HasBundle(rest)
                              THEN [Firsts' EXCEPT ![s] = BundleOf(s, rest)'] ELSE Firsts'
    <2>1. CASE new = Idle
      <3>1. ~Going(new)' /\ rest = <<>>
        BY <1>3, <2>1 DEF Going, Idle
      <3>2. /\ RunPart(rest) = <<>> /\ AuditPart(rest) = <<>> /\ ~HasBundle(rest)
        <4>1. ~HasBundle(<<>>)
          BY DEF HasBundle
        <4> QED
          BY <3>1, <4>1, PartsAre, Zenon
      <3>3. Types(s)' \in Seq(RunEventTypes) /\ audits'[s] \in Seq(AuditActions)
        BY <1>2, TypesNext DEF TypeInv, TypeOK
      <3>4. Types(s)' \o <<>> = Types(s)' /\ audits'[s] \o <<>> = audits'[s]
        BY <3>3, ConcatEmptySeq
      <3>5. /\ TrailBy(new)' = Trails' /\ AuditsBy(new)' = audits' /\ BundleBy(new)' = Firsts'
        BY <3>1 DEF TrailBy, AuditsBy, BundleBy
      <3>6. Trails' = [Trails' EXCEPT ![s] = Types(s)']
        BY <1>2 DEF Trails
      <3>7. audits' = [audits' EXCEPT ![s] = audits'[s]]
        BY DEF TypeInv, TypeOK
      <3> QED
        BY <3>2, <3>4, <3>5, <3>6, <3>7
    <2>2. CASE new.pc = "effects" /\ new.session = s
      <3>1. Going(new)'
        BY <2>2 DEF Going, Accepted, Completing
      <3>2. Trails'[s] = Types(s)'
        BY <1>2 DEF Trails
      <3> QED
        BY <1>3, <2>2, <3>1, <3>2 DEF TrailBy, AuditsBy, BundleBy
    <2> QED
      BY <1>3, <2>1, <2>2
  <1>7. new.pc \in {"idle", "effects"}
    BY <1>3 DEF Idle
  <1> QED
    BY <1>1, <1>2, <1>5, <1>6, <1>7, Zenon DEF DoneStreams

(* An event, appended: it was to come, and it is there.                    *)
LEMMA AppendMaps ==
  ASSUME NEW c \in Callers, Callers = {c}, TypeInv, TypeInv', BundlesRead, appendRunEvent(c)
  PROVE  UNCHANGED Python!vars
  <1>1. PICK old, new, s, rest :
          old = call[c] /\ new = call'[c] /\ s = old.session /\ rest = Tail(old.todo)
    OBVIOUS
  <1>2. /\ s \in Sessions /\ old.todo \in Seq(Effects) /\ old.todo # <<>>
        /\ old.pc \in {"effects", "append", "saveBundle"} /\ new.pc \in {"idle", "effects"}
        /\ DoneStreams(old, new, s, rest)
    <2>1. s \in Sessions /\ old.todo \in Seq(Effects) /\ old.todo # <<>>
      BY <1>1, DoneMaps
    <2>2. old.pc \in {"effects", "append", "saveBundle"} /\ new.pc \in {"idle", "effects"}
      BY <1>1, DoneMaps
    <2>3. DoneStreams(old, new, s, rest)
      BY <1>1, DoneMaps
    <2> QED
      BY <2>1, <2>2, <2>3
  <1>3. PICK e : e = Head(old.todo)
    OBVIOUS
  <1>4. /\ e \in RunEventTypes /\ e \notin AuditActions /\ e # "bundle"
        /\ "bundle" \notin RunEventTypes /\ "bundle" \notin AuditActions
    BY <1>1, <1>3 DEF appendRunEvent, TypeInv, CallConsistent, RunEventTypes, AuditActions
  <1>5. OneBundle(old.todo)
    BY <1>1 DEF BundlesRead, BundleRead
  <1>6. /\ UNCHANGED <<session, approval, disclosure, review, audits, bundles>>
        /\ events' = [events EXCEPT ![s] =
                        Append(events[s], [type |-> e, sequence |-> old.count + 1, by |-> c])]
    BY <1>1, <1>3 DEF appendRunEvent
  <1>7. /\ events[s] \in Seq(RunEvent) /\ events \in [Sessions -> Seq(RunEvent)]
        /\ Types(s) \in Seq(RunEventTypes) /\ Len(Types(s)) = Len(events[s])
    BY <1>2, TypesSeq DEF TypeInv, TypeOK
  <1>8. events'[s] = Append(events[s], [type |-> e, sequence |-> old.count + 1, by |-> c])
    BY <1>2, <1>6, <1>7
  <1>9. Types(s)' = Append(Types(s), e) /\ Len(events[s])' = Len(events[s]) + 1
    <2>1. PICK n, stream, after, x :
            /\ n = Len(events[s]) /\ stream = events[s] /\ after = events'[s]
            /\ x = [type |-> e, sequence |-> old.count + 1, by |-> c]
      OBVIOUS
    <2>2. n \in Nat /\ after = Append(stream, x) /\ stream \in Seq(RunEvent) /\ x.type = e
      BY <1>7, <1>8, <2>1, LenProperties
    <2>3. x \in RunEvent
      <3>1. old.count + 1 \in Nat
        <4>1. old \in Call
          BY <1>1 DEF TypeInv, TypeOK
        <4>2. old.count \in Nat
          BY <4>1 DEF Call
        <4> QED
          BY <4>2
      <3> QED
        BY <1>4, <2>1, <3>1 DEF RunEvent
    <2>4. /\ Len(after) = n + 1 /\ DOMAIN after = 1..(n + 1) /\ DOMAIN stream = 1..n
          /\ after[n + 1] = x /\ \A i \in 1..n : after[i] = stream[i]
      BY <2>1, <2>2, <2>3, AppendProperties, LenProperties
    <2>5. Types(s) = [i \in 1..n |-> stream[i].type]
      BY <2>1, <2>4 DEF Types
    <2>6. Types(s)' = [i \in 1..(n + 1) |-> after[i].type]
      BY <2>1, <2>4 DEF Types
    <2>7. PICK before, types : before = Types(s) /\ types = Types(s)'
      OBVIOUS
    <2>8. before \in Seq(RunEventTypes) /\ Len(before) = n
      BY <1>7, <2>1, <2>7
    <2>9. /\ Append(before, e) \in Seq(RunEventTypes) /\ Len(Append(before, e)) = n + 1
          /\ \A i \in 1..n : Append(before, e)[i] = before[i]
          /\ Append(before, e)[n + 1] = e
      BY <1>4, <2>8, AppendProperties
    <2>10. types \in Seq(RunEventTypes)
      BY <1>2, <2>7, TypesNext
    <2>11. \A i \in 1..(n + 1) : types[i] = Append(before, e)[i]
      <3> SUFFICES ASSUME NEW i \in 1..(n + 1) PROVE types[i] = Append(before, e)[i]
        OBVIOUS
      <3>1. CASE i = n + 1
        BY <2>2, <2>4, <2>6, <2>7, <2>9, <3>1
      <3>2. CASE i # n + 1
        <4>1. i \in 1..n
          BY <2>2, <3>2
        <4>2. types[i] = after[i].type
          BY <2>6, <2>7
        <4>3. before[i] = stream[i].type
          BY <2>5, <2>7, <4>1
        <4> QED
          BY <2>4, <2>9, <4>1, <4>2, <4>3
      <3> QED
        BY <3>1, <3>2
    <2>12. Len(types) = n + 1
      BY <2>2, <2>6, <2>7, <2>10, LenProperties
    <2>13. types = Append(before, e)
      BY <2>9, <2>10, <2>11, <2>12, SeqEqual
    <2> QED
      BY <2>1, <2>4, <2>7, <2>13
  <1>10. \A t \in Sessions \ {s} : Types(t)' = Types(t) /\ events'[t] = events[t]
    BY <1>6, <1>7 DEF Types
  <1>11. Firsts' = Firsts
    BY <1>6 DEF Firsts
  <1>12. /\ RunPart(old.todo) = <<e>> \o RunPart(rest) /\ AuditPart(old.todo) = AuditPart(rest)
         /\ HasBundle(old.todo) <=> HasBundle(rest)
         /\ HasBundle(old.todo) =>
              /\ Len(RunPart(Ahead(old.todo))) = 1 + Len(RunPart(Ahead(rest)))
              /\ AuditPart(Ahead(old.todo)) = AuditPart(Ahead(rest))
    BY <1>1, <1>2, <1>3, <1>4, <1>5, PartsAfter, PartsAre, OneBundleTail
  <1>13. RunPart(rest) \in Seq(RunEventTypes)
    BY <1>1, <1>2, PartSeq, PartsAre, HeadTailProperties
  <1>14. TrailBy(new)' = TrailBy(old)
    <2>1. Append(Types(s), e) \o RunPart(rest) = Types(s) \o (<<e>> \o RunPart(rest))
      <3>1. Append(Types(s), e) = Types(s) \o <<e>> /\ <<e>> \in Seq(RunEventTypes)
        BY <1>4, <1>7, AppendIsConcat
      <3> QED
        BY <1>7, <1>13, <3>1, ConcatAssociative
    <2>2. Trails' = [Trails EXCEPT ![s] = Types(s)']
      BY <1>10 DEF Trails
    <2>3. Types(s)' \o RunPart(rest) = Types(s) \o RunPart(old.todo)
      BY <1>9, <1>12, <2>1, Zenon
    <2>4. PICK t, u : t = Types(s)' /\ u = Types(s) \o RunPart(old.todo)
      OBVIOUS
    <2>5. /\ TrailBy(old) = [Trails EXCEPT ![s] = u] /\ Trails' = [Trails EXCEPT ![s] = t]
          /\ TrailBy(new)' = [Trails' EXCEPT ![s] = u]
      BY <1>2, <2>2, <2>3, <2>4, Zenon DEF DoneStreams
    <2>6. Trails = [x \in Sessions |-> Trails[x]]
      BY DEF Trails
    <2> QED
      BY <2>5, <2>6
  <1>15. AuditsBy(new)' = AuditsBy(old)
    BY <1>2, <1>6, <1>12 DEF DoneStreams
  <1>16. BundleBy(new)' = BundleBy(old)
    <2>1. ASSUME HasBundle(rest) PROVE BundleOf(s, rest)' = BundleOf(s, old.todo)
      <3>1. Len(RunPart(Ahead(rest))) \in Nat /\ Len(events[s]) \in Nat
        <4>1. rest \in Seq(Effects) /\ rest # <<>> /\ OneBundle(rest)
          BY <1>1, <1>2, <1>5, <2>1, HeadTailProperties, OneBundleTail DEF HasBundle
        <4>2. RunPart(Ahead(rest)) \in Seq(RunEventTypes)
          BY <2>1, <4>1, AheadTail, PartSeq, PartsAre
        <4> QED
          BY <1>7, <4>2, LenProperties
      <3>2. Len(events[s])' + Len(RunPart(Ahead(rest))) =
              Len(events[s]) + Len(RunPart(Ahead(old.todo)))
        <4>1. PICK n, k \in Nat : n = Len(events[s]) /\ k = Len(RunPart(Ahead(rest)))
          BY <3>1
        <4>2. (n + 1) + k = n + (1 + k)
          OBVIOUS
        <4> QED
          BY <1>9, <1>12, <2>1, <4>1, <4>2, Zenon
      <3>3. Len(audits[s])' + Len(AuditPart(Ahead(rest))) =
              Len(audits[s]) + Len(AuditPart(Ahead(old.todo)))
        BY <1>6, <1>12, <2>1
      <3> QED
        BY <3>2, <3>3 DEF BundleOf
    <2>2. CASE HasBundle(rest)
      BY <1>2, <1>11, <1>12, <2>1, <2>2, Zenon DEF DoneStreams
    <2>3. CASE ~HasBundle(rest)
      BY <1>2, <1>11, <1>12, <2>3, Zenon DEF DoneStreams
    <2> QED
      BY <2>2, <2>3
  <1>17. /\ SessionBy(new)' = SessionBy(old) /\ ApprovalBy(new)' = ApprovalBy(old)
         /\ EvidenceBy(disclosure, "saveDisclosure", new)'
              = EvidenceBy(disclosure, "saveDisclosure", old)
         /\ EvidenceBy(review, "saveReview", new)' = EvidenceBy(review, "saveReview", old)
    BY <1>2, <1>6, PerformRecords
  <1> QED
    BY <1>1, <1>14, <1>15, <1>16, <1>17, StillMaps

LEMMA AuditMaps ==
  ASSUME NEW c \in Callers, Callers = {c}, TypeInv, TypeInv', BundlesRead, recordAuditEvent(c)
  PROVE  UNCHANGED Python!vars
  <1>1. PICK old, new, s, rest :
          old = call[c] /\ new = call'[c] /\ s = old.session /\ rest = Tail(old.todo)
    OBVIOUS
  <1>2. /\ s \in Sessions /\ old.todo \in Seq(Effects) /\ old.todo # <<>>
        /\ old.pc \in {"effects", "append", "saveBundle"} /\ new.pc \in {"idle", "effects"}
        /\ DoneStreams(old, new, s, rest)
    <2>1. s \in Sessions /\ old.todo \in Seq(Effects) /\ old.todo # <<>>
      BY <1>1, DoneMaps
    <2>2. old.pc \in {"effects", "append", "saveBundle"} /\ new.pc \in {"idle", "effects"}
      BY <1>1, DoneMaps
    <2>3. DoneStreams(old, new, s, rest)
      BY <1>1, DoneMaps
    <2> QED
      BY <2>1, <2>2, <2>3
  <1>3. PICK e : e = Head(old.todo)
    OBVIOUS
  <1>4. /\ e \in AuditActions /\ e \notin RunEventTypes /\ e # "bundle"
        /\ "bundle" \notin RunEventTypes /\ "bundle" \notin AuditActions
    BY <1>1, <1>3 DEF recordAuditEvent, RunEventTypes, AuditActions
  <1>5. OneBundle(old.todo)
    BY <1>1 DEF BundlesRead, BundleRead
  <1>6. /\ UNCHANGED <<session, approval, disclosure, review, events, bundles>>
        /\ audits' = [audits EXCEPT ![s] = Append(audits[s], e)]
    BY <1>1, <1>3 DEF recordAuditEvent
  <1>7. audits[s] \in Seq(AuditActions) /\ audits \in [Sessions -> Seq(AuditActions)]
    BY <1>2 DEF TypeInv, TypeOK
  <1>8. audits'[s] = Append(audits[s], e) /\ Len(audits'[s]) = Len(audits[s]) + 1
    BY <1>2, <1>4, <1>6, <1>7
  <1>9. Firsts' = Firsts /\ Trails' = Trails /\ Types(s)' = Types(s)
    BY <1>6 DEF Firsts, Trails, Types
  <1>10. /\ AuditPart(old.todo) = <<e>> \o AuditPart(rest) /\ RunPart(old.todo) = RunPart(rest)
         /\ HasBundle(old.todo) <=> HasBundle(rest)
         /\ HasBundle(old.todo) =>
              /\ Len(AuditPart(Ahead(old.todo))) = 1 + Len(AuditPart(Ahead(rest)))
              /\ RunPart(Ahead(old.todo)) = RunPart(Ahead(rest))
    BY <1>1, <1>2, <1>3, <1>4, <1>5, PartsAfter, PartsAre, OneBundleTail
  <1>11. AuditPart(rest) \in Seq(AuditActions)
    BY <1>1, <1>2, PartSeq, PartsAre, HeadTailProperties
  <1>12. AuditsBy(new)' = AuditsBy(old)
    <2>1. Append(audits[s], e) \o AuditPart(rest) = audits[s] \o (<<e>> \o AuditPart(rest))
      <3>1. PICK t, one, more : t = audits[s] /\ one = <<e>> /\ more = AuditPart(rest)
        OBVIOUS
      <3>2. /\ t \in Seq(AuditActions) /\ one \in Seq(AuditActions)
            /\ more \in Seq(AuditActions) /\ Append(t, e) = t \o one
        BY <1>4, <1>7, <1>11, <3>1, AppendIsConcat
      <3>3. (t \o one) \o more = t \o (one \o more)
        BY <3>2, ConcatAssociative
      <3> QED
        BY <3>1, <3>2, <3>3, Zenon
    <2>2. audits'[s] \o AuditPart(rest) = audits[s] \o AuditPart(old.todo)
      BY <1>8, <1>10, <2>1, Zenon
    <2>3. PICK t, u : t = Append(audits[s], e) /\ u = audits[s] \o AuditPart(old.todo)
      OBVIOUS
    <2>4. /\ AuditsBy(old) = [audits EXCEPT ![s] = u] /\ audits' = [audits EXCEPT ![s] = t]
          /\ AuditsBy(new)' = [audits' EXCEPT ![s] = u]
      BY <1>2, <1>6, <2>2, <2>3, Zenon DEF DoneStreams
    <2> QED
      BY <1>7, <2>4
  <1>13. TrailBy(new)' = TrailBy(old)
    BY <1>2, <1>9, <1>10, Zenon DEF DoneStreams
  <1>14. BundleBy(new)' = BundleBy(old)
    <2>1. ASSUME HasBundle(rest) PROVE BundleOf(s, rest)' = BundleOf(s, old.todo)
      <3>1. Len(AuditPart(Ahead(rest))) \in Nat /\ Len(audits[s]) \in Nat
        <4>1. rest \in Seq(Effects) /\ rest # <<>> /\ OneBundle(rest)
          BY <1>1, <1>2, <1>5, <2>1, HeadTailProperties, OneBundleTail DEF HasBundle
        <4>2. AuditPart(Ahead(rest)) \in Seq(AuditActions)
          BY <2>1, <4>1, AheadTail, PartSeq, PartsAre
        <4> QED
          BY <1>7, <4>2, LenProperties
      <3>2. Len(audits'[s]) + Len(AuditPart(Ahead(rest))) =
              Len(audits[s]) + Len(AuditPart(Ahead(old.todo)))
        <4>1. PICK n, k \in Nat : n = Len(audits[s]) /\ k = Len(AuditPart(Ahead(rest)))
          BY <3>1
        <4>2. (n + 1) + k = n + (1 + k)
          OBVIOUS
        <4> QED
          BY <1>8, <1>10, <2>1, <4>1, <4>2, Zenon
      <3>3. Len(events'[s]) + Len(RunPart(Ahead(rest))) =
              Len(events[s]) + Len(RunPart(Ahead(old.todo)))
        BY <1>6, <1>10, <2>1
      <3> QED
        BY <3>2, <3>3 DEF BundleOf
    <2>2. CASE HasBundle(rest)
      BY <1>2, <1>9, <1>10, <2>1, <2>2, Zenon DEF DoneStreams
    <2>3. CASE ~HasBundle(rest)
      BY <1>2, <1>9, <1>10, <2>3, Zenon DEF DoneStreams
    <2> QED
      BY <2>2, <2>3
  <1>15. /\ SessionBy(new)' = SessionBy(old) /\ ApprovalBy(new)' = ApprovalBy(old)
         /\ EvidenceBy(disclosure, "saveDisclosure", new)'
              = EvidenceBy(disclosure, "saveDisclosure", old)
         /\ EvidenceBy(review, "saveReview", new)' = EvidenceBy(review, "saveReview", old)
    BY <1>2, <1>6, PerformRecords
  <1> QED
    BY <1>1, <1>12, <1>13, <1>14, <1>15, StillMaps

(* The bundle that is saved is the one that was to be.                     *)
LEMMA BundleMaps ==
  ASSUME NEW c \in Callers, Callers = {c}, TypeInv, TypeInv', BundlesRead,
         persistEvidenceBundle(c)
  PROVE  UNCHANGED Python!vars
  <1>1. PICK old, new, s, rest :
          old = call[c] /\ new = call'[c] /\ s = old.session /\ rest = Tail(old.todo)
    OBVIOUS
  <1>2. /\ s \in Sessions /\ old.todo \in Seq(Effects) /\ old.todo # <<>>
        /\ old.pc \in {"effects", "append", "saveBundle"} /\ new.pc \in {"idle", "effects"}
        /\ DoneStreams(old, new, s, rest)
    <2>1. s \in Sessions /\ old.todo \in Seq(Effects) /\ old.todo # <<>>
      BY <1>1, DoneMaps
    <2>2. old.pc \in {"effects", "append", "saveBundle"} /\ new.pc \in {"idle", "effects"}
      BY <1>1, DoneMaps
    <2>3. DoneStreams(old, new, s, rest)
      BY <1>1, DoneMaps
    <2> QED
      BY <2>1, <2>2, <2>3
  <1>3. /\ OneBundle(old.todo) /\ Head(old.todo) = "bundle"
        /\ old.bundle.runEvents = Len(events[s]) /\ old.bundle.auditEvents = Len(audits[s])
        /\ old.existing = IF bundles[s] = <<>> THEN 0 ELSE 1
    BY <1>1 DEF BundlesRead, BundleRead, persistEvidenceBundle
  <1>4. "bundle" \notin RunEventTypes /\ "bundle" \notin AuditActions
    BY DEF RunEventTypes, AuditActions
  <1>5. /\ UNCHANGED <<session, approval, disclosure, review, events, audits>>
        /\ bundles' = [bundles EXCEPT ![s] =
                         IF old.existing = 0 THEN Append(bundles[s], old.bundle)
                         ELSE [bundles[s] EXCEPT ![old.existing] = old.bundle]]
    BY <1>1 DEF persistEvidenceBundle
  <1>6. /\ bundles \in [Sessions -> Seq(EvidenceBundle)] /\ bundles[s] \in Seq(EvidenceBundle)
        /\ events[s] \in Seq(RunEvent) /\ audits[s] \in Seq(AuditActions)
        /\ old.bundle \in EvidenceBundle
    BY <1>1, <1>2 DEF TypeInv, TypeOK, Call
  <1>7. bundles'[s] # <<>> /\ bundles'[s][1] = old.bundle
    <2>1. CASE bundles[s] = <<>>
      <3>1. bundles'[s] = Append(<<>>, old.bundle)
        BY <1>2, <1>3, <1>5, <1>6, <2>1
      <3> QED
        BY <3>1
    <2>2. CASE bundles[s] # <<>>
      <3>1. bundles'[s] = [bundles[s] EXCEPT ![1] = old.bundle]
        BY <1>2, <1>3, <1>5, <1>6, <2>2
      <3>2. 1 \in DOMAIN bundles[s]
        BY <1>6, <2>2, EmptySeq, LenProperties
      <3>3. 1 \in DOMAIN bundles'[s] /\ bundles'[s][1] = old.bundle
        BY <3>1, <3>2
      <3> QED
        BY <3>3
    <2> QED
      BY <2>1, <2>2
  <1>8. Firsts' = [Firsts EXCEPT ![s] = old.bundle]
    <2>1. \A t \in Sessions \ {s} : bundles'[t] = bundles[t]
      BY <1>5, <1>6
    <2> QED
      BY <1>2, <1>7, <2>1 DEF Firsts
  <1>9. Trails' = Trails /\ Types(s)' = Types(s)
    BY <1>5 DEF Trails, Types
  <1>10. /\ RunPart(old.todo) = RunPart(rest) /\ AuditPart(old.todo) = AuditPart(rest)
         /\ HasBundle(old.todo) /\ ~HasBundle(rest)
         /\ RunPart(Ahead(old.todo)) = <<>> /\ AuditPart(Ahead(old.todo)) = <<>>
    BY <1>1, <1>2, <1>3, <1>4, PartsAfter, PartsAre, OneBundleTail
  <1>11. BundleOf(s, old.todo) = old.bundle
    <2>1. BundleOf(s, old.todo) = [runEvents |-> Len(events[s]), auditEvents |-> Len(audits[s])]
      BY <1>6, <1>10, LenProperties DEF BundleOf
    <2> QED
      BY <1>3, <1>6, <2>1 DEF EvidenceBundle
  <1>12. /\ TrailBy(new)' = TrailBy(old) /\ AuditsBy(new)' = AuditsBy(old)
         /\ BundleBy(new)' = BundleBy(old)
    <2>1. TrailBy(new)' = TrailBy(old)
      BY <1>2, <1>9, <1>10, Zenon DEF DoneStreams
    <2>2. AuditsBy(new)' = AuditsBy(old)
      BY <1>2, <1>5, <1>10, Zenon DEF DoneStreams
    <2>3. BundleBy(new)' = BundleBy(old)
      BY <1>2, <1>8, <1>10, <1>11, Zenon DEF DoneStreams
    <2> QED
      BY <2>1, <2>2, <2>3
  <1>13. /\ SessionBy(new)' = SessionBy(old) /\ ApprovalBy(new)' = ApprovalBy(old)
         /\ EvidenceBy(disclosure, "saveDisclosure", new)'
              = EvidenceBy(disclosure, "saveDisclosure", old)
         /\ EvidenceBy(review, "saveReview", new)' = EvidenceBy(review, "saveReview", old)
    BY <1>2, <1>5, PerformRecords
  <1> QED
    BY <1>1, <1>12, <1>13, StillMaps

LEMMA InitImplements ==
  ASSUME NEW c \in Callers, Callers = {c}, Init
  PROVE  Python!Init
  <1>1. TypeInv
    BY InitType
  <1>2. Mapped(call[c])
    BY <1>1, Mapping
  <1>3. call[c].pc = "idle"
    BY DEF Init, Idle
  <1>4. /\ WillBeSession = session /\ WillBeApproval = approval
        /\ WillBeEvidence(disclosure, "saveDisclosure") = disclosure
        /\ WillBeEvidence(review, "saveReview") = review
        /\ WillBeTrail = Trails /\ WillBeAudits = audits /\ WillBeBundle = Firsts
    BY <1>2, <1>3
    DEF Mapped, SessionBy, ApprovalBy, EvidenceBy, TrailBy, AuditsBy, BundleBy, Going, Resolving,
        Replacing, Completing
  <1>5. /\ Trails = [s \in Sessions |-> <<>>] /\ Firsts = [s \in Sessions |-> NoBundle]
    <2>1. \A s \in Sessions : events[s] = <<>> /\ bundles[s] = <<>>
      BY DEF Init
    <2>2. \A s \in Sessions : Types(s) = <<>>
      BY <1>1, <2>1, TypesSeq DEF TypeInv
    <2> QED
      BY <2>1, <2>2 DEF Trails, Firsts
  <1> QED
    BY <1>4, <1>5
    DEF Init, Python!Init, Python!NoSession, NoSession, Python!NoProfile, NoProfile,
        Python!NoApproval, NoApproval, Python!NoEvidence, NoEvidence, Python!NoBundle, NoBundle

LEMMA StepImplements ==
  ASSUME NEW c \in Callers, Callers = {c}, MaxFaults = 0, TypeInv, TypeInv', BundlesRead,
         [Next]_vars
  PROVE  [Python!Next]_(Python!vars)
  <1>1. CASE UNCHANGED vars
    <2>1. PICK old : old = call[c]
      OBVIOUS
    <2>2. /\ SessionBy(old)' = SessionBy(old) /\ ApprovalBy(old)' = ApprovalBy(old)
          /\ EvidenceBy(disclosure, "saveDisclosure", old)'
               = EvidenceBy(disclosure, "saveDisclosure", old)
          /\ EvidenceBy(review, "saveReview", old)' = EvidenceBy(review, "saveReview", old)
          /\ TrailBy(old)' = TrailBy(old) /\ AuditsBy(old)' = AuditsBy(old)
          /\ BundleBy(old)' = BundleBy(old)
      BY <1>1
      DEF vars, SessionBy, ApprovalBy, EvidenceBy, TrailBy, AuditsBy, BundleBy, Going, Accepted,
          DisclosureMet, ReviewsMet, Trails, Types, Firsts, BundleOf, Touched
    <2>3. old = call'[c]
      BY <1>1, <2>1 DEF vars
    <2> QED
      BY <2>1, <2>2, <2>3, StillMaps
  <1>2. ~Reject(c)
    BY DEF Reject, TypeInv, TypeOK
  <1> QED
    BY <1>1, <1>2, StartImplements, CheckMaps, SavesMap, ReadsMap, AppendMaps, AuditMaps,
       BundleMaps
    DEF Next, Rest, Continue

(* Driven by one client that awaits each call before the next, the         *)
(* TypeScript control plane does await by await what the Python control    *)
(* plane does in one step: the same guards, the same records, the same run *)
(* events and audit events in the same order, the same bundle.  No handler *)
(* is aborted; the client may repeat ids and report any events.            *)
THEOREM RunSessionsImplementPython ==
  ASSUME NEW c \in Callers, Callers = {c}, MaxFaults = 0
  PROVE  Spec => ImplementsPython
  <1>1. Init => Python!Init
    BY InitImplements
  <1>2. TypeInv /\ TypeInv' /\ BundlesRead /\ [Next]_vars => [Python!Next]_(Python!vars)
    BY StepImplements
  <1>3. Spec => []BundlesRead
    BY BundlesReadInvariant
  <1> QED
    BY <1>1, <1>2, <1>3, TypeInvariant, PTL DEF Spec, ImplementsPython, Python!Spec

=============================================================================
