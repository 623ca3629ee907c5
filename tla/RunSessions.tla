---------------------------- MODULE RunSessions ----------------------------
(***************************************************************************)
(* Governed run sessions of the TypeScript control plane                   *)
(* (typescript/packages/cip/src/services/cip-control-plane.ts): starting,  *)
(* pausing for approval, resuming, completing, the evidence a completion   *)
(* needs, the run-event and audit-event streams and the evidence bundle.   *)
(*                                                                         *)
(* Every handler is an async function over injected repositories, so each  *)
(* await lets every other call in flight run.  One action is what happens  *)
(* between two awaits: a local computation and one repository operation.   *)
(* What a handler has read before an await and uses after it is kept in    *)
(* its call record, and may be stale when it is used.  Once a handler has  *)
(* saved what it changes it owes a fixed list of effects (run events,      *)
(* audit events, the evidence bundle), kept in call[c].todo.               *)
(*                                                                         *)
(* A call the code refuses (it throws before its first save) changes       *)
(* nothing, so it is not a step.                                           *)
(*                                                                         *)
(* An operator Slip_... is a plausible slip in the definition that follows *)
(* it: the mutation runs put it in that definition's place.                *)
(***************************************************************************)
EXTENDS RunSessionRecords

CONSTANTS
  Callers,      \* clients of the control plane, each awaiting one call at a time
  MaxCalls,     \* bound: calls started
  MaxFaults     \* bound: handlers aborted by a rejected await

ASSUME RunSessionsBounds == MaxCalls \in Nat /\ MaxFaults \in Nat

VARIABLES
  session,      \* runSessions repository
  approval,     \* approvalRequests repository
  disclosure,   \* disclosureRecords repository
  review,       \* humanReviewRecords repository
  events,       \* runEvents repository, per session, in order of insertion
  audits,       \* auditEvents repository, per session, in order of insertion
  bundles,      \* evidenceBundles repository, per session, in order of insertion
  call,         \* the call each caller has in flight
  calls,        \* calls started so far
  faults        \* handlers aborted so far

stores == <<session, approval, disclosure, review, events, audits, bundles>>
vars == <<session, approval, disclosure, review, events, audits, bundles,
          call, calls, faults>>

-----------------------------------------------------------------------------
(* Events, and the calls in flight                                         *)
RunEvent == [type: RunEventTypes, sequence: Nat, by: Callers]

Call ==
  [pc: {"idle", "disclosures", "reviews", "saveRequest", "saveResolution",
        "reread", "saveSession", "saveDisclosure", "saveReview", "effects",
        "append", "trailAudits", "trailExisting", "saveBundle"},
   session: Sessions \cup {NoId},
   record: RunSession,      \* the session record it will save
   id: Approvals \cup Disclosures \cup Reviews \cup {NoId},
                            \* the approval request, disclosure or review it saves
   outcome: BOOLEAN,        \* approved, or acknowledged
   todo: Seq(Effects),      \* effects it still owes, in order
   count: Nat,              \* priorEvents.length it has read
   bundle: EvidenceBundle,  \* what it has read for the bundle
   existing: Nat]           \* place of the bundle it will replace, 0 for none

Idle ==
  [pc |-> "idle", session |-> NoId, record |-> NoSession, id |-> NoId,
   outcome |-> FALSE, todo |-> <<>>, count |-> 0,
   bundle |-> [runEvents |-> 0, auditEvents |-> 0], existing |-> 0]

Init ==
  /\ session = [s \in Sessions |-> NoSession]
  /\ approval = [a \in Approvals |-> NoApproval]
  /\ disclosure = [d \in Disclosures |-> NoEvidence]
  /\ review = [r \in Reviews |-> NoEvidence]
  /\ events = [s \in Sessions |-> <<>>]
  /\ audits = [s \in Sessions |-> <<>>]
  /\ bundles = [s \in Sessions |-> <<>>]
  /\ call = [c \in Callers |-> Idle]
  /\ calls = 0
  /\ faults = 0

(* No call in flight holds id as one it has made or is about to save.      *)
Unclaimed(id) == \A c \in Callers : call[c].id # id

(* Caller c goes on with the record r.                                     *)
Becomes(c, r) == call' = [call EXCEPT ![c] = r]

Exists(s) == session[s].status # "none"

Slip_SameRevision(s, status) ==
  [session[s] EXCEPT !.status = status, !.currentApproval = NoId]

Slip_ProfileDropped(s, status) ==
  [session[s] EXCEPT !.status = status, !.currentApproval = NoId,
                     !.revision = @ + 1, !.profile = NoProfile]

(* touchRecord: the next revision of a record, as this caller read it.     *)
(* Whatever status a handler gives a session, it drops the current request *)
(* (requestHumanApproval then sets its own).                               *)
Touched(s, status) ==
  [session[s] EXCEPT !.status = status,
                     !.currentApproval = NoId,
                     !.revision = @ + 1]

(* The first step of every handler: caller c starts the call r.            *)
Begin(c, r) ==
  /\ call[c].pc = "idle"
  /\ calls < MaxCalls
  /\ calls' = calls + 1
  /\ Becomes(c, r)
  /\ UNCHANGED <<stores, faults>>

(* A handler that has saved what it changes and owes the effects todo.     *)
Owing(s, todo) ==
  [Idle EXCEPT !.pc = "effects", !.session = s, !.todo = todo]

(* The events of a batch are counted once, not one by one.                 *)
Slip_CountOnce(c) ==
  LET rest == Tail(call[c].todo)
  IN Becomes(c, IF rest = <<>> THEN Idle
                ELSE IF call[c].pc = "append" /\ Head(rest) \in RunEventTypes
                       THEN [call[c] EXCEPT !.todo = rest]
                       ELSE Owing(call[c].session, rest))

(* Caller c has done the effect at the head of its list; the call returns  *)
(* when none is left.                                                      *)
AfterEffect(c) ==
  LET rest == Tail(call[c].todo)
  IN Becomes(c, IF rest = <<>> THEN Idle ELSE Owing(call[c].session, rest))

-----------------------------------------------------------------------------
(* Session handlers                                                        *)

StartedSession(p) ==
  [status |-> "running", currentApproval |-> NoId, revision |-> 1, profile |-> p]

startRunSession(c) ==
  \E s \in Sessions, p \in Profiles :
    /\ ReuseIds \/ (~Exists(s) /\ \A d \in Callers : call[d].session # s)
    /\ Begin(c, [Idle EXCEPT
         !.pc = "saveSession", !.session = s,
         !.record = StartedSession(p),
         !.todo = <<"run_started", "session.started">>])

Slip_FailedNotTerminal(s) == Exists(s) /\ session[s].status # "completed"

CanComplete(s) == Exists(s) /\ session[s].status \notin Terminal

Slip_BundleFirst(status) ==
  <<"bundle", IF status = "completed" THEN "run_completed" ELSE "run_failed",
    "session.completed">>

Slip_CompletionUnaudited(status) ==
  <<IF status = "completed" THEN "run_completed" ELSE "run_failed", "bundle">>

CompletionEffects(status) ==
  <<IF status = "completed" THEN "run_completed" ELSE "run_failed",
    "session.completed", "bundle">>

completeRunSession(c) ==
  \E s \in Sessions, status \in Terminal :
    /\ CanComplete(s)
    /\ Begin(c, [Idle EXCEPT
         !.pc = "disclosures", !.session = s,
         !.record = Touched(s, status),
         !.todo = CompletionEffects(status)])

(* The two halves of ensureSessionCompletionRequirements, each a list of   *)
(* one repository.                                                         *)
DisclosureMet(s, p) ==
  p.disclosure =>
    /\ \E d \in Disclosures : disclosure[d].session = s
    /\ p.acknowledgement =>
         \E d \in Disclosures : disclosure[d] = [session |-> s, outcome |-> TRUE]

ReviewsMet(s, p) ==
  p.reviewers <=
    Cardinality({r \in Reviews : review[r] = [session |-> s, outcome |-> TRUE]})

checkDisclosures(c) ==
  /\ call[c].pc = "disclosures"
  /\ Becomes(c, IF DisclosureMet(call[c].session, call[c].record.profile)
                  THEN [call[c] EXCEPT !.pc = "reviews"]
                  ELSE Idle)
  /\ UNCHANGED <<stores, calls, faults>>

Slip_ReviewsUnread(c) ==
  /\ call[c].pc = "reviews"
  /\ Becomes(c, [call[c] EXCEPT !.pc = "saveSession"])
  /\ UNCHANGED <<stores, calls, faults>>

checkReviews(c) ==
  /\ call[c].pc = "reviews"
  /\ Becomes(c, IF ReviewsMet(call[c].session, call[c].record.profile)
                  THEN [call[c] EXCEPT !.pc = "saveSession"]
                  ELSE Idle)
  /\ UNCHANGED <<stores, calls, faults>>

(* runSessions.save: an upsert of the whole record, whatever is stored.    *)
saveSession(c) ==
  /\ call[c].pc = "saveSession"
  /\ session' = [session EXCEPT ![call[c].session] = call[c].record]
  /\ Becomes(c, Owing(call[c].session, call[c].todo))
  /\ UNCHANGED <<approval, disclosure, review, events, audits, bundles,
                 calls, faults>>

-----------------------------------------------------------------------------
(* Approval handlers                                                       *)

Slip_RequestAgain(s) == Exists(s) /\ session[s].status \notin Terminal

CanRequestApproval(s) == session[s].status = "running"

(* buildRecordMetadata gives every request a fresh randomUUID.             *)
requestHumanApproval(c) ==
  \E s \in Sessions, a \in Approvals :
    /\ CanRequestApproval(s)
    /\ approval[a] = NoApproval /\ Unclaimed(a)
    /\ Begin(c, [Idle EXCEPT
         !.pc = "saveRequest", !.session = s, !.id = a,
         !.record = [Touched(s, "waiting-human") EXCEPT !.currentApproval = a],
         !.todo = <<"approval_requested", "approval.requested">>])

Slip_RequestNotSaved(c) ==
  /\ call[c].pc = "saveRequest"
  /\ Becomes(c, [call[c] EXCEPT !.pc = "saveSession"])
  /\ UNCHANGED <<stores, calls, faults>>

saveRequest(c) ==
  /\ call[c].pc = "saveRequest"
  /\ approval' = [approval EXCEPT ![call[c].id] =
                    [status |-> "pending", session |-> call[c].session]]
  /\ Becomes(c, [call[c] EXCEPT !.pc = "saveSession"])
  /\ UNCHANGED <<session, disclosure, review, events, audits, bundles,
                 calls, faults>>

Slip_ResolveAgain(a) == approval[a].status # "none"

CanResolve(a) == approval[a].status = "pending"

Slip_RejectionUnaudited(approved) ==
  IF approved
    THEN <<"approval_resolved:approved", "approval.resolved">>
    ELSE <<"approval_resolved:rejected", "run_failed", "bundle">>

Slip_RejectionWithoutBundle(approved) ==
  IF approved
    THEN <<"approval_resolved:approved", "approval.resolved">>
    ELSE <<"approval_resolved:rejected", "run_failed", "approval.resolved">>

ResolutionEffects(approved) ==
  IF approved
    THEN <<"approval_resolved:approved", "approval.resolved">>
    ELSE <<"approval_resolved:rejected", "run_failed", "bundle",
           "approval.resolved">>

resolveApprovalRequest(c) ==
  \E a \in Approvals, approved \in BOOLEAN :
    /\ CanResolve(a)
    /\ Begin(c, [Idle EXCEPT
         !.pc = "saveResolution", !.session = approval[a].session,
         !.id = a, !.outcome = approved,
         !.todo = ResolutionEffects(approved)])

saveResolution(c) ==
  /\ call[c].pc = "saveResolution"
  /\ LET status == IF call[c].outcome THEN "approved" ELSE "rejected"
     IN approval' = [approval EXCEPT ![call[c].id] =
                       [status |-> status, session |-> call[c].session]]
  /\ Becomes(c, [call[c] EXCEPT !.pc = "reread"])
  /\ UNCHANGED <<session, disclosure, review, events, audits, bundles,
                 calls, faults>>

(* The session is read only now, and its status is not looked at.          *)
rereadSession(c) ==
  /\ call[c].pc = "reread"
  /\ LET status == IF call[c].outcome THEN "running" ELSE "failed"
     IN Becomes(c, [call[c] EXCEPT !.pc = "saveSession",
                                   !.record = Touched(call[c].session, status)])
  /\ UNCHANGED <<stores, calls, faults>>

-----------------------------------------------------------------------------
(* Evidence handlers                                                       *)

DisclosureEffects(acknowledged) ==
  IF acknowledged
    THEN <<"disclosure_presented", "disclosure_acknowledged", "disclosure.recorded">>
    ELSE <<"disclosure_presented", "disclosure.recorded">>

(* input.id names the record when the client gives one and is a fresh      *)
(* randomUUID otherwise; save is an upsert by that id.                     *)
recordDisclosure(c) ==
  \E s \in Sessions, d \in Disclosures, acknowledged \in BOOLEAN :
    /\ Exists(s)
    /\ ReuseIds \/ (disclosure[d] = NoEvidence /\ Unclaimed(d))
    /\ Begin(c, [Idle EXCEPT
         !.pc = "saveDisclosure", !.session = s,
         !.id = d, !.outcome = acknowledged,
         !.todo = DisclosureEffects(acknowledged)])

saveDisclosure(c) ==
  /\ call[c].pc = "saveDisclosure"
  /\ disclosure' = [disclosure EXCEPT ![call[c].id] =
                      [session |-> call[c].session, outcome |-> call[c].outcome]]
  /\ Becomes(c, Owing(call[c].session, call[c].todo))
  /\ UNCHANGED <<session, approval, review, events, audits, bundles,
                 calls, faults>>

recordHumanReview(c) ==
  \E s \in Sessions, r \in Reviews, approved \in BOOLEAN :
    /\ Exists(s)
    /\ ReuseIds \/ (review[r] = NoEvidence /\ Unclaimed(r))
    /\ Begin(c, [Idle EXCEPT
         !.pc = "saveReview", !.session = s,
         !.id = r, !.outcome = approved,
         !.todo = <<"human_review_completed", "human_review.recorded">>])

saveReview(c) ==
  /\ call[c].pc = "saveReview"
  /\ review' = [review EXCEPT ![call[c].id] =
                  [session |-> call[c].session, outcome |-> call[c].outcome]]
  /\ Becomes(c, Owing(call[c].session, call[c].todo))
  /\ UNCHANGED <<session, approval, disclosure, events, audits, bundles,
                 calls, faults>>

-----------------------------------------------------------------------------
(* Effects: run events, audit events, the evidence bundle                  *)

(* LocalCipControlPlaneTransport.enqueueEvents: one event after another,   *)
(* whatever the status of the session.                                     *)
enqueueEvents(c) ==
  \E s \in Sessions, batch \in Batches :
    /\ Exists(s)
    /\ batch # <<>>
    /\ Begin(c, Owing(s, batch))

(* The list is not restricted to the session.                              *)
Slip_CountAllSessions(c) ==
  /\ call[c].pc = "effects"
  /\ Head(call[c].todo) \in RunEventTypes
  /\ Becomes(c, [call[c] EXCEPT
       !.pc = "append",
       !.count = Cardinality(UNION {{s} \X DOMAIN events[s] : s \in Sessions})])
  /\ UNCHANGED <<stores, calls, faults>>

(* appendRunEvent, up to the list of the session's events.                 *)
countRunEvents(c) ==
  /\ call[c].pc = "effects"
  /\ Head(call[c].todo) \in RunEventTypes
  /\ Becomes(c, [call[c] EXCEPT !.pc = "append",
                                !.count = Len(events[call[c].session])])
  /\ UNCHANGED <<stores, calls, faults>>

appendRunEvent(c) ==
  /\ call[c].pc = "append"
  /\ events' = [events EXCEPT ![call[c].session] =
                  Append(@, [type |-> Head(call[c].todo),
                             sequence |-> call[c].count + 1,
                             by |-> c])]
  /\ AfterEffect(c)
  /\ UNCHANGED <<session, approval, disclosure, review, audits, bundles,
                 calls, faults>>

recordAuditEvent(c) ==
  /\ call[c].pc = "effects"
  /\ Head(call[c].todo) \in AuditActions
  /\ audits' = [audits EXCEPT ![call[c].session] = Append(@, Head(call[c].todo))]
  /\ AfterEffect(c)
  /\ UNCHANGED <<session, approval, disclosure, review, events, bundles,
                 calls, faults>>

(* persistEvidenceBundle: list the run events, list the audit events, look *)
(* for a bundle to replace, save.                                          *)
readRunEvents(c) ==
  /\ call[c].pc = "effects"
  /\ Head(call[c].todo) = "bundle"
  /\ Becomes(c, [call[c] EXCEPT !.pc = "trailAudits",
                                !.bundle.runEvents = Len(events[call[c].session])])
  /\ UNCHANGED <<stores, calls, faults>>

readAuditEvents(c) ==
  /\ call[c].pc = "trailAudits"
  /\ Becomes(c, [call[c] EXCEPT !.pc = "trailExisting",
                                !.bundle.auditEvents = Len(audits[call[c].session])])
  /\ UNCHANGED <<stores, calls, faults>>

Slip_BundleNotReplaced(c) ==
  /\ call[c].pc = "trailExisting"
  /\ Becomes(c, [call[c] EXCEPT !.pc = "saveBundle"])
  /\ UNCHANGED <<stores, calls, faults>>

(* The first of the session's bundles, 0 when it has none.                 *)
readExistingBundle(c) ==
  /\ call[c].pc = "trailExisting"
  /\ Becomes(c, [call[c] EXCEPT !.pc = "saveBundle",
                                !.existing = IF bundles[call[c].session] = <<>>
                                               THEN 0 ELSE 1])
  /\ UNCHANGED <<stores, calls, faults>>

persistEvidenceBundle(c) ==
  /\ call[c].pc = "saveBundle"
  /\ bundles' = [bundles EXCEPT ![call[c].session] =
                   IF call[c].existing = 0
                     THEN Append(bundles[call[c].session], call[c].bundle)
                     ELSE [bundles[call[c].session] EXCEPT
                             ![call[c].existing] = call[c].bundle]]
  /\ AfterEffect(c)
  /\ UNCHANGED <<session, approval, disclosure, review, events, audits,
                 calls, faults>>

(* A repository or the telemetry sink rejects an await of the handler: the *)
(* exception leaves the handler, and nothing undoes what it has saved.     *)
Reject(c) ==
  /\ call[c].pc # "idle"
  /\ faults < MaxFaults
  /\ faults' = faults + 1
  /\ Becomes(c, Idle)
  /\ UNCHANGED <<stores, calls>>

-----------------------------------------------------------------------------
(* A client's call                                                         *)
Start(c) ==
  \/ startRunSession(c)
  \/ completeRunSession(c)
  \/ requestHumanApproval(c)
  \/ resolveApprovalRequest(c)
  \/ recordDisclosure(c)
  \/ recordHumanReview(c)
  \/ enqueueEvents(c)

(* What a call in flight does by itself.                                   *)
Continue(c) ==
  \/ checkDisclosures(c)
  \/ checkReviews(c)
  \/ saveSession(c)
  \/ saveRequest(c)
  \/ saveResolution(c)
  \/ rereadSession(c)
  \/ saveDisclosure(c)
  \/ saveReview(c)
  \/ countRunEvents(c)
  \/ appendRunEvent(c)
  \/ recordAuditEvent(c)
  \/ readRunEvents(c)
  \/ readAuditEvents(c)
  \/ readExistingBundle(c)
  \/ persistEvidenceBundle(c)

(* No call is in flight and no client makes another one.                   *)
Rest ==
  /\ \A c \in Callers : call[c].pc = "idle"
  /\ UNCHANGED vars

Next ==
  \/ \E c \in Callers : Start(c) \/ Continue(c) \/ Reject(c)
  \/ Rest

Spec == Init /\ [][Next]_vars

(* The event loop keeps running the continuations of pending promises; a   *)
(* client owes nobody a call.                                              *)
FairSpec == Spec /\ \A c \in Callers : WF_vars(Continue(c))

-----------------------------------------------------------------------------
(* replayRunSession: a fold over the events in the order of their sequence *)
(* numbers (a stable sort of the order of insertion).  Each event either   *)
(* fixes the status or leaves it, so the last that fixes it decides.       *)
Slip_RequestIgnored ==
  {"run_started", "approval_resolved:approved", "approval_resolved:rejected",
   "run_completed", "run_failed"}

StatusEvents ==
  {"run_started", "approval_requested", "approval_resolved:approved",
   "approval_resolved:rejected", "run_completed", "run_failed"}

StatusAfter(type) ==
  CASE type \in {"run_started", "approval_resolved:approved"} -> "running"
    [] type = "approval_requested" -> "waiting-human"
    [] type = "run_completed" -> "completed"
    [] type \in {"run_failed", "approval_resolved:rejected"} -> "failed"

ListedBefore(s, i, j) ==
  \/ events[s][i].sequence < events[s][j].sequence
  \/ events[s][i].sequence = events[s][j].sequence /\ i < j

replayRunSession(s) ==
  LET deciding == {i \in DOMAIN events[s] : events[s][i].type \in StatusEvents}
      last == CHOOSE i \in deciding :
                \A j \in deciding \ {i} : ListedBefore(s, j, i)
  IN IF deciding = {} THEN "queued" ELSE StatusAfter(events[s][last].type)

=============================================================================
