------------------------- MODULE RunSessionRecords --------------------------
(***************************************************************************)
(* The records run sessions are made of, in both control planes            *)
(* (typescript .../domain/records.ts, python .../records.py), and the ids, *)
(* profiles and batches that clients choose from.                          *)
(***************************************************************************)
EXTENDS Naturals, Sequences, FiniteSets

CONSTANTS
  Sessions,     \* ids of run sessions
  Approvals,    \* ids of approval requests; no more can be made than these
  Disclosures,  \* ids of disclosure records, likewise
  Reviews,      \* ids of human review records, likewise
  Profiles,     \* compliance profiles a deployment may have when a run starts
  Batches,      \* event batches a producer may enqueue, sequences of effects
  NoId,         \* "no such record": an absent optional id
  ReuseIds      \* TRUE when clients may repeat an input.id they already used

RunEventTypes ==
  {"run_started", "tool_called", "tool_completed", "approval_requested",
   "approval_resolved:approved", "approval_resolved:rejected",
   "disclosure_presented", "disclosure_acknowledged",
   "human_review_completed", "run_completed", "run_failed"}

AuditActions ==
  {"session.started", "session.completed", "approval.requested",
   "approval.resolved", "disclosure.recorded", "human_review.recorded",
   "producer.reported"}

Effects == RunEventTypes \cup AuditActions \cup {"bundle"}

(* A compliance profile, reduced to what a completion is checked against.  *)
(* No profile is one that requires nothing; minimumHumanReviewers counts   *)
(* only when requireApprovalBeforeCompletion is set, so it is 0 otherwise. *)
ComplianceProfile ==
  [disclosure: BOOLEAN, acknowledgement: BOOLEAN, reviewers: Nat]

Terminal == {"completed", "failed"}

ASSUME RunSessionsAssumption ==
  /\ NoId \notin Sessions \cup Approvals \cup Disclosures \cup Reviews
  /\ Profiles \subseteq ComplianceProfile
  /\ Batches \subseteq Seq(RunEventTypes \cup AuditActions)
  /\ IsFiniteSet(Reviews)
  /\ ReuseIds \in BOOLEAN

-----------------------------------------------------------------------------
(* Records.  A record that is not in its repository has status "none".     *)

NoProfile == [disclosure |-> FALSE, acknowledgement |-> FALSE, reviewers |-> 0]

RunSession ==
  [status: {"none", "running", "waiting-human"} \cup Terminal,
   currentApproval: Approvals \cup {NoId},
   revision: Nat,
   profile: ComplianceProfile]

NoSession == [status |-> "none", currentApproval |-> NoId, revision |-> 0,
              profile |-> NoProfile]

ApprovalRequest ==
  [status: {"none", "pending", "approved", "rejected"},
   session: Sessions \cup {NoId}]

NoApproval == [status |-> "none", session |-> NoId]

(* outcome: for a disclosure whether it is acknowledged, for a review      *)
(* whether it approves the output.                                         *)
Evidence == [session: Sessions \cup {NoId}, outcome: BOOLEAN]

NoEvidence == [session |-> NoId, outcome |-> FALSE]

(* The run events and audit events a bundle lists are the ones stored when *)
(* it read them: a prefix of each stream.                                  *)
EvidenceBundle == [runEvents: Nat, auditEvents: Nat]

NoBundle == [runEvents |-> 0, auditEvents |-> 0]

-----------------------------------------------------------------------------
(* What a handler appends to one stream.  Chosen(wanted, effects)[i] is    *)
(* what is wanted of the last i effects, in their order.                   *)
Choose(wanted, e, rest) == IF e \in wanted THEN <<e>> \o rest ELSE rest

Chosen(wanted, effects) ==
  LET n == Len(effects)
      chosen[i \in 0..n] ==
        IF i = 0 THEN <<>> ELSE Choose(wanted, effects[n - i + 1], chosen[i - 1])
  IN chosen

RunPart(effects) == Chosen(RunEventTypes, effects)[Len(effects)]
AuditPart(effects) == Chosen(AuditActions, effects)[Len(effects)]

=============================================================================
