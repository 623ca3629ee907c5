------------------------- MODULE AtomicRunSessions --------------------------
(***************************************************************************)
(* Governed run sessions of the Python control plane                       *)
(* (python/packages/cip/.../control_plane.py).  A handler is a synchronous *)
(* method: for a client on one thread it is one step, and nothing comes    *)
(* between its guards, its saves and its events.  It is what a client that *)
(* awaits each call sees of the TypeScript control plane, too              *)
(* (RunSessionsRefinement).                                                *)
(***************************************************************************)
EXTENDS RunSessionRecords

VARIABLES
  session,      \* run_sessions repository
  approval,     \* approval_requests repository
  disclosure,   \* disclosure_records repository
  review,       \* human_review_records repository
  trail,        \* the types of each session's run events; the event at place
                \* i is the one with sequence i
  audits,       \* the actions of each session's audit events
  bundle        \* each session's evidence bundle

vars == <<session, approval, disclosure, review, trail, audits, bundle>>

Init ==
  /\ session = [s \in Sessions |-> NoSession]
  /\ approval = [a \in Approvals |-> NoApproval]
  /\ disclosure = [d \in Disclosures |-> NoEvidence]
  /\ review = [r \in Reviews |-> NoEvidence]
  /\ trail = [s \in Sessions |-> <<>>]
  /\ audits = [s \in Sessions |-> <<>>]
  /\ bundle = [s \in Sessions |-> NoBundle]

Exists(s) == session[s].status # "none"

(* What a handler appends, in order, and what a bundle that comes after    *)
(* the first n of these effects lists.                                     *)
Trail(s, effects) == trail[s] \o RunPart(effects)
Audits(s, effects) == audits[s] \o AuditPart(effects)

BundleAfter(s, effects) ==
  [runEvents |-> Len(Trail(s, effects)), auditEvents |-> Len(Audits(s, effects))]

(* The handler appends the run events and audit events before, persists    *)
(* the bundle if it ends a run, and appends those after.                   *)
Emits(s, before, ends, after) ==
  /\ trail' = [trail EXCEPT ![s] = Trail(s, before \o after)]
  /\ audits' = [audits EXCEPT ![s] = Audits(s, before \o after)]
  /\ bundle' = IF ends THEN [bundle EXCEPT ![s] = BundleAfter(s, before)] ELSE bundle

(* _touch_record, and the status every handler gives the session.          *)
Saves(s, status, request) ==
  session' = [session EXCEPT ![s].status = status,
                             ![s].currentApproval = request,
                             ![s].revision = @ + 1]

-----------------------------------------------------------------------------
start_run_session ==
  \E s \in Sessions, p \in Profiles :
    /\ ReuseIds \/ ~Exists(s)
    /\ session' = [session EXCEPT ![s] =
         [status |-> "running", currentApproval |-> NoId, revision |-> 1,
          profile |-> p]]
    /\ Emits(s, <<"run_started", "session.started">>, FALSE, <<>>)
    /\ UNCHANGED <<approval, disclosure, review>>

(* _ensure_session_completion_requirements                                 *)
RequirementsMet(s) ==
  LET profile == session[s].profile
      shown == {d \in Disclosures : disclosure[d].session = s}
      approvals == {r \in Reviews : review[r].session = s /\ review[r].outcome}
  IN /\ profile.disclosure =>
          /\ shown # {}
          /\ profile.acknowledgement => \E d \in shown : disclosure[d].outcome
     /\ Cardinality(approvals) >= profile.reviewers

complete_run_session ==
  \E s \in Sessions, status \in Terminal :
    /\ Exists(s)
    /\ session[s].status \notin Terminal
    /\ RequirementsMet(s)
    /\ Saves(s, status, NoId)
    /\ Emits(s, <<IF status = "completed" THEN "run_completed" ELSE "run_failed",
                  "session.completed">>, TRUE, <<>>)
    /\ UNCHANGED <<approval, disclosure, review>>

request_human_approval ==
  \E s \in Sessions, a \in Approvals :
    /\ session[s].status = "running"
    /\ approval[a] = NoApproval
    /\ approval' = [approval EXCEPT ![a] = [status |-> "pending", session |-> s]]
    /\ Saves(s, "waiting-human", a)
    /\ Emits(s, <<"approval_requested", "approval.requested">>, FALSE, <<>>)
    /\ UNCHANGED <<disclosure, review>>

(* A decision that is not "approved" fails the run, whatever the session's *)
(* status; its bundle is persisted before the audit event.                 *)
resolve_approval_request ==
  \E a \in Approvals, approved \in BOOLEAN :
    LET s == approval[a].session
    IN /\ approval[a].status = "pending"
       /\ approval' = [approval EXCEPT ![a].status =
                         IF approved THEN "approved" ELSE "rejected"]
       /\ Saves(s, IF approved THEN "running" ELSE "failed", NoId)
       /\ Emits(s, IF approved THEN <<"approval_resolved:approved">>
                               ELSE <<"approval_resolved:rejected", "run_failed">>,
                ~approved, <<"approval.resolved">>)
       /\ UNCHANGED <<disclosure, review>>

record_disclosure ==
  \E s \in Sessions, d \in Disclosures, acknowledged \in BOOLEAN :
    /\ Exists(s)
    /\ ReuseIds \/ disclosure[d] = NoEvidence
    /\ disclosure' = [disclosure EXCEPT ![d] = [session |-> s, outcome |-> acknowledged]]
    /\ Emits(s, <<"disclosure_presented">>
                  \o (IF acknowledged THEN <<"disclosure_acknowledged">> ELSE <<>>)
                  \o <<"disclosure.recorded">>, FALSE, <<>>)
    /\ UNCHANGED <<session, approval, review>>

record_human_review ==
  \E s \in Sessions, r \in Reviews, approved \in BOOLEAN :
    /\ Exists(s)
    /\ ReuseIds \/ review[r] = NoEvidence
    /\ review' = [review EXCEPT ![r] = [session |-> s, outcome |-> approved]]
    /\ Emits(s, <<"human_review_completed", "human_review.recorded">>, FALSE, <<>>)
    /\ UNCHANGED <<session, approval, disclosure>>

(* LocalCipControlPlaneTransport.enqueue_events                            *)
enqueue_events ==
  \E s \in Sessions, batch \in Batches :
    /\ Exists(s)
    /\ Emits(s, batch, FALSE, <<>>)
    /\ UNCHANGED <<session, approval, disclosure, review>>

Next ==
  \/ start_run_session
  \/ complete_run_session
  \/ request_human_approval
  \/ resolve_approval_request
  \/ record_disclosure
  \/ record_human_review
  \/ enqueue_events

Spec == Init /\ [][Next]_vars

=============================================================================
