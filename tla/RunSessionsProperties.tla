----------------------- MODULE RunSessionsProperties -----------------------
(***************************************************************************)
(* What run sessions promise: the properties the runs check.               *)
(***************************************************************************)
EXTENDS RunSessions

(* Every repository and every call in flight holds what the code can put   *)
(* in it; no session is ever "queued", the status no handler assigns.      *)
TypeOK ==
  /\ session \in [Sessions -> RunSession]
  /\ approval \in [Approvals -> ApprovalRequest]
  /\ disclosure \in [Disclosures -> Evidence]
  /\ review \in [Reviews -> Evidence]
  /\ events \in [Sessions -> Seq(RunEvent)]
  /\ audits \in [Sessions -> Seq(AuditActions)]
  /\ bundles \in [Sessions -> Seq(EvidenceBundle)]
  /\ call \in [Callers -> Call]
  /\ calls \in Nat
  /\ faults \in Nat

AtRest == \A c \in Callers : call[c].pc = "idle"

-----------------------------------------------------------------------------
(* Under any interleaving of the callers and with handlers aborted midway  *)

(* A session is completed only with the disclosures, the acknowledgement   *)
(* and the approved reviews that the profile it was started under          *)
(* requires, though the gate reads them before two further awaits and a    *)
(* stale record of the session may be saved over a fresh one.              *)
CompletionGate ==
  \A s \in Sessions :
    session[s].status = "completed" =>
      /\ DisclosureMet(s, session[s].profile)
      /\ ReviewsMet(s, session[s].profile)

(* The request a record of session s names is stored and is the session's. *)
NamesRequest(record, s) ==
  /\ record.currentApproval \in Approvals
  /\ approval[record.currentApproval].status # "none"
  /\ approval[record.currentApproval].session = s

(* A session that waits for a human names an approval request that is      *)
(* stored and is its own, so that whoever finds the session waiting finds  *)
(* the request: it is saved before the session, and no failure between the *)
(* two saves leaves the session naming nothing.                            *)
WaitingNamesRequest ==
  \A s \in Sessions :
    session[s].status = "waiting-human" => NamesRequest(session[s], s)

(* Two events that one client caused in a session, in one batch or in two  *)
(* calls, have sequence numbers in the order it caused them, whatever the  *)
(* other clients append in between.                                        *)
ProducerOrder ==
  \A s \in Sessions : \A i, j \in DOMAIN events[s] :
    i < j /\ events[s][i].by = events[s][j].by =>
      events[s][i].sequence < events[s][j].sequence

(* The profile a session was started under stays the profile it is checked *)
(* against and its evidence names, whatever record of the session a caller *)
(* saves (clients that reuse a session id restart the session instead).    *)
ProfileSnapshotKept ==
  [][~ReuseIds => \A s \in Sessions :
       Exists(s) => session'[s].profile = session[s].profile]_vars

(* An evidence bundle lists an event that closes the run: it is generated  *)
(* after the closing event, by every handler that generates one.           *)
BundleListsClosing ==
  \A s \in Sessions : \A b \in DOMAIN bundles[s] :
    \E i \in 1..bundles[s][b].runEvents :
      events[s][i].type \in {"run_completed", "run_failed"}

-----------------------------------------------------------------------------
(* Under any interleaving and any aborted handler, when no id is repeated  *)

Count(s, action) == Cardinality({i \in DOMAIN audits[s] : audits[s][i] = action})

Happened(s, types) == Cardinality({i \in DOMAIN events[s] : events[s][i].type \in types})

(* The events that close a run, and those of them that a rejection causes. *)
Closings(s) == Happened(s, {"run_completed", "run_failed"})
Rejections(s) == Happened(s, {"approval_resolved:rejected"})

(* At rest every record that a handler has stored has its audit event: one *)
(* for each session, request, disclosure and review, and at least one for  *)
(* each resolved request.  So has every event that closes a run: a         *)
(* completion's is session.completed, a rejection's is approval.resolved.  *)
(* An aborted handler leaves what it stored without its audit event, and   *)
(* no more is ever missing than one event for each handler aborted.        *)
AuditTrailComplete ==
  AtRest => \A s \in Sessions :
    LET Audited(action, n) == Count(s, action) <= n /\ n <= Count(s, action) + faults
        closed == Count(s, "session.completed") + Rejections(s)
    IN /\ Audited("session.started", IF Exists(s) THEN 1 ELSE 0)
       /\ Audited("approval.requested",
                  Cardinality({a \in Approvals : approval[a].session = s}))
       /\ Count(s, "approval.resolved") + faults >=
            Cardinality({a \in Approvals :
              approval[a].session = s /\ approval[a].status # "pending"})
       /\ Audited("disclosure.recorded",
                  Cardinality({d \in Disclosures : disclosure[d].session = s}))
       /\ Audited("human_review.recorded",
                  Cardinality({r \in Reviews : review[r].session = s}))
       /\ Closings(s) <= closed + faults /\ closed <= Closings(s) + faults

(* Once a session is terminal an evidence bundle is eventually there for   *)
(* it, whichever handler made it terminal and whatever has become of its   *)
(* status since.                                                           *)
TerminalGetsBundle ==
  \A s \in Sessions : session[s].status \in Terminal ~> bundles[s] # <<>>

-----------------------------------------------------------------------------
(* One caller, one call at a time                                          *)

(* The sequence numbers of a session's events are 1, 2, 3, ...             *)
SequenceGapless ==
  \A s \in Sessions : \A i \in DOMAIN events[s] : events[s][i].sequence = i

(* Replaying the events of a session gives its status, as long as no       *)
(* producer sends the events that the control plane itself emits.          *)
ReplayAgrees ==
  AtRest => \A s \in Sessions : Exists(s) => replayRunSession(s) = session[s].status

(* At rest a session has at most one pending request, and when it waits    *)
(* for a human that is the one it names.                                   *)
WaitingNamesOpenRequest ==
  AtRest => \A s \in Sessions :
    LET open == {a \in Approvals : approval[a].session = s /\ approval[a].status = "pending"}
    IN /\ Cardinality(open) <= 1
       /\ session[s].status = "waiting-human" => open = {session[s].currentApproval}

(* The resolution of an approval request is final.                         *)
ResolutionFinal ==
  [][\A a \in Approvals :
       approval[a].status \in {"approved", "rejected"} => approval'[a] = approval[a]]_vars

(* Every save of a session is its next revision, and none is lost.         *)
RevisionStep ==
  [][\A s \in Sessions : session'[s] # session[s] =>
       session'[s].revision = session[s].revision + 1]_vars

(* A terminal session changes again only when a request that was left      *)
(* pending by the completion is resolved, and then it stops naming none.   *)
ReopenedOnlyByResolution ==
  [][\A s \in Sessions :
       session[s].status \in Terminal /\ session'[s] # session[s] =>
         \E c \in Callers, a \in Approvals :
           /\ call[c].id = a
           /\ approval[a].session = s
           /\ approval[a].status \in {"approved", "rejected"}]_vars

(* At rest a terminal session has exactly one bundle, and it lists every   *)
(* event up to one that closed the run.                                    *)
BundleUpToClosing ==
  AtRest => \A s \in Sessions :
    session[s].status \in Terminal =>
      /\ Len(bundles[s]) = 1
      /\ \A i \in DOMAIN events[s] :
           i > bundles[s][1].runEvents =>
             events[s][i].type \notin {"run_completed", "run_failed"}

(* The stream of an awaited client: its events are numbered without gaps,  *)
(* and a terminal session has one bundle that reaches a closing event.     *)
StreamAgrees == SequenceGapless /\ BundleUpToClosing

(* The status of a session is what its events replay to, and while it      *)
(* waits for a human the request it names is the only open one.            *)
StatusAgrees == ReplayAgrees /\ WaitingNamesOpenRequest

(* No step of an awaited client loses a save, revises a resolution or      *)
(* reopens a terminal session without one.                                 *)
AwaitedSteps == ResolutionFinal /\ RevisionStep /\ ReopenedOnlyByResolution

-----------------------------------------------------------------------------
(* What the specification documents say and the code does not keep         *)

(* spec/workflow-state.md: terminal states are final.                      *)
TerminalFinal ==
  [][\A s \in Sessions :
       session[s].status \in Terminal => session'[s].status = session[s].status]_vars

-----------------------------------------------------------------------------
(* Inductive strengthenings                                                *)

(* What the place of a call says of the rest of its record.                *)
CallConsistent(r) ==
  /\ r.pc # "idle" => r.session \in Sessions /\ r.todo # <<>>
  /\ r.pc = "append" => Head(r.todo) \in RunEventTypes
  /\ r.pc \in {"saveRequest", "saveResolution"} => r.id \in Approvals
  /\ r.pc = "saveDisclosure" => r.id \in Disclosures
  /\ r.pc = "saveReview" => r.id \in Reviews

TypeInv ==
  /\ TypeOK
  /\ \A c \in Callers : CallConsistent(call[c])
  /\ \A a \in Approvals : approval[a].status # "none" => approval[a].session \in Sessions

(* What a call in flight knows of the requests: the one it is about to     *)
(* make is not there yet, the one it resolves is, and the one that the     *)
(* record of a waiting session names is there before the record is saved.  *)
CallRequest(r) ==
  /\ r.pc = "saveRequest" =>
       approval[r.id] = NoApproval /\ r.record.currentApproval = r.id
  /\ r.pc = "saveResolution" =>
       approval[r.id].status # "none" /\ approval[r.id].session = r.session
  /\ r.pc \in {"disclosures", "reviews"} => r.record.status # "waiting-human"
  /\ r.pc = "saveSession" /\ r.record.status = "waiting-human" =>
       NamesRequest(r.record, r.session)

RequestInv ==
  /\ \A c \in Callers : CallRequest(call[c])
  /\ \A c, d \in Callers :
       c # d /\ call[c].pc = "saveRequest" /\ call[d].pc = "saveRequest" =>
         call[c].id # call[d].id
  /\ WaitingNamesRequest

(* The ids of evidence about to be saved, likewise.                        *)
EvidenceInv ==
  /\ \A c \in Callers : call[c].pc = "saveDisclosure" =>
       /\ disclosure[call[c].id] = NoEvidence
       /\ \A d \in Callers \ {c} : call[d].pc = "saveDisclosure" => call[d].id # call[c].id
  /\ \A c \in Callers : call[c].pc = "saveReview" =>
       /\ review[call[c].id] = NoEvidence
       /\ \A d \in Callers \ {c} : call[d].pc = "saveReview" => call[d].id # call[c].id

(* A caller that is past a half of the gate has found what it asks for,    *)
(* and one that requests approval completes nothing.                       *)
CallGate(r) ==
  r.record.status = "completed" =>
    /\ r.pc # "saveRequest"
    /\ r.pc \in {"reviews", "saveSession"} => DisclosureMet(r.session, r.record.profile)
    /\ r.pc = "saveSession" => ReviewsMet(r.session, r.record.profile)

GateInv ==
  /\ \A c \in Callers : CallGate(call[c])
  /\ CompletionGate

(* A count that is about to be used is one of the stream's earlier lengths,*)
(* at least the place of every event of the same caller.                   *)
OrderInv ==
  /\ \A s \in Sessions : \A i \in DOMAIN events[s] : events[s][i].sequence <= i
  /\ \A c \in Callers : call[c].pc = "append" =>
       /\ call[c].count <= Len(events[call[c].session])
       /\ \A i \in DOMAIN events[call[c].session] :
            events[call[c].session][i].by = c =>
              events[call[c].session][i].sequence <= call[c].count
  /\ ProducerOrder

(* A call in flight is about a session that is there, and what it will     *)
(* save over it has its profile; only the call that starts a session is    *)
(* about one that is not, and no other call is about the same.             *)
CallSnapshot(r) ==
  r.pc # "idle" =>
    /\ Exists(r.session) \/ r.pc = "saveSession"
    /\ r.pc \in {"disclosures", "reviews", "saveRequest", "saveSession"} =>
         /\ r.record.status # "none"
         /\ Exists(r.session) => r.record.profile = session[r.session].profile

SnapshotInv ==
  /\ \A a \in Approvals : approval[a].status # "none" => Exists(approval[a].session)
  /\ \A c \in Callers : CallSnapshot(call[c])
  /\ \A c, d \in Callers :
       c # d /\ call[c].pc # "idle" /\ ~Exists(call[c].session) =>
         call[d].session # call[c].session

-----------------------------------------------------------------------------
(* The audit trail: every record is audited, or a call in flight will      *)

(* The actions that the control plane audits when it stores a record.      *)
Counted ==
  {"session.started", "approval.requested", "approval.resolved",
   "disclosure.recorded", "human_review.recorded"}

(* The effects by which a run is closed, and which a completion audits.    *)
Closers == {"run_completed", "run_failed", "approval_resolved:rejected", "session.completed"}

(* What a producer reports, it reports about its own work.                 *)
OwnReports ==
  \A batch \in Batches : \A i \in DOMAIN batch : batch[i] \notin Counted \cup Closers

(* Where a call is when it is about to save what it will then audit.       *)
Before(x) ==
  CASE x = "session.started" -> "saveSession"
    [] x = "approval.requested" -> "saveRequest"
    [] x = "approval.resolved" -> "saveResolution"
    [] x = "disclosure.recorded" -> "saveDisclosure"
    [] x = "human_review.recorded" -> "saveReview"

(* The stored records of session s that x is the audit action of.          *)
Stored(s, x) ==
  CASE x = "session.started" -> IF Exists(s) THEN {s} ELSE {}
    [] x = "approval.requested" -> {a \in Approvals : approval[a].session = s}
    [] x = "approval.resolved" ->
         {a \in Approvals : approval[a].session = s /\ approval[a].status # "pending"}
    [] x = "disclosure.recorded" -> {d \in Disclosures : disclosure[d].session = s}
    [] x = "human_review.recorded" -> {r \in Reviews : review[r].session = s}

Reports(todo) == {x \in Counted : \E i \in DOMAIN todo : todo[i] = x}

(* A call in flight has saved the record it will audit as x in session s.  *)
Owes(r, s, x) == r.pc \notin {"idle", Before(x)} /\ r.session = s /\ x \in Reports(r.todo)

Owed(s, x) == {c \in Callers : Owes(call[c], s, x)}

(* A call audits an action once, and what it audits is what it saves.      *)
AuditsOnce(todo) ==
  \A i, j \in DOMAIN todo : todo[i] \in Counted /\ todo[i] = todo[j] => i = j

CallReports(r) ==
  /\ AuditsOnce(r.todo)
  /\ r.pc = "idle" => Reports(r.todo) = {}
  /\ r.pc \in {"disclosures", "reviews"} => Reports(r.todo) = {}
  /\ r.pc = "saveRequest" => Reports(r.todo) = {"approval.requested"}
  /\ r.pc \in {"saveResolution", "reread"} => Reports(r.todo) = {"approval.resolved"}
  /\ r.pc = "saveDisclosure" => Reports(r.todo) = {"disclosure.recorded"}
  /\ r.pc = "saveReview" => Reports(r.todo) = {"human_review.recorded"}
  /\ r.pc = "saveSession" =>
       Reports(r.todo) \in IF Exists(r.session)
                             THEN SUBSET {"approval.requested", "approval.resolved"}
                             ELSE {{"session.started"}}
  /\ r.pc \in {"trailAudits", "trailExisting", "saveBundle"} => Head(r.todo) = "bundle"

(* A resolution may be saved twice, by two calls that both found the       *)
(* request pending; every other record is stored once and audited at most  *)
(* once.  What is neither audited nor owed, an aborted handler has left.   *)
Balanced(s, x) ==
  /\ IsFiniteSet(Stored(s, x)) /\ IsFiniteSet(Owed(s, x))
  /\ Cardinality(Stored(s, x)) <= Count(s, x) + Cardinality(Owed(s, x)) + faults
  /\ x # "approval.resolved" =>
       Count(s, x) + Cardinality(Owed(s, x)) <= Cardinality(Stored(s, x))

AuditInv ==
  /\ \A c \in Callers : CallReports(call[c])
  /\ \A s \in Sessions, x \in Counted : Balanced(s, x)

(* What a call that closes a run still owes: once the closing event is     *)
(* there, and once the event of a rejection is.                            *)
Completed == <<"session.completed", "bundle">>
Rejected == <<"run_failed", "bundle", "approval.resolved">>

CallCloses(r) ==
  /\ \/ r.todo \in {Completed, Rejected,
                    <<"run_completed", "session.completed", "bundle">>,
                    <<"run_failed", "session.completed", "bundle">>,
                    <<"approval_resolved:rejected", "run_failed", "bundle", "approval.resolved">>}
     \/ \A i \in DOMAIN r.todo : r.todo[i] \notin Closers
  /\ r.todo \in {Completed, Rejected} => r.pc \in {"effects", "append"}

Doing(s, todo) == {c \in Callers : call[c].session = s /\ call[c].todo = todo}

Settling(s) ==
  LET audited == Count(s, "session.completed") + Rejections(s) + Cardinality(Doing(s, Completed))
      closed == Closings(s) + Cardinality(Doing(s, Rejected))
  IN /\ IsFiniteSet(Doing(s, Completed)) /\ IsFiniteSet(Doing(s, Rejected))
     /\ closed <= audited + faults /\ audited <= closed + faults

ClosingInv ==
  /\ \A c \in Callers : CallCloses(call[c])
  /\ \A s \in Sessions : Settling(s)

-----------------------------------------------------------------------------
(* One caller: what its call has read is what is there                     *)

Resolved(a, s) ==
  /\ a \in Approvals
  /\ approval[a].session = s
  /\ approval[a].status \in {"approved", "rejected"}

(* A call saves the next revision of the session it is about, which is not *)
(* terminal unless the call has resolved one of its requests, and resolves *)
(* a request that is pending.                                              *)
CallSteps(r) ==
  /\ r.pc \in {"disclosures", "reviews", "saveRequest", "saveSession"} =>
       r.record.revision = session[r.session].revision + 1
  /\ r.pc \in {"disclosures", "reviews", "saveRequest"} =>
       session[r.session].status \notin Terminal
  /\ r.pc = "saveResolution" => approval[r.id].status = "pending"
  /\ r.pc = "reread" => Resolved(r.id, r.session)
  /\ r.pc = "saveSession" /\ session[r.session].status \in Terminal =>
       Resolved(r.id, r.session)

StepsInv ==
  /\ \A c \in Callers : CallSteps(call[c])
  /\ \A s \in Sessions : ~Exists(s) => session[s].revision = 0

OpenRequests(s) == {a \in Approvals : approval[a].session = s /\ approval[a].status = "pending"}

(* The requests that are open while the session is as the record says.     *)
OpenFor(s, record) ==
  /\ record.status \in {"none", "running"} => OpenRequests(s) = {}
  /\ record.status = "waiting-human" => OpenRequests(s) = {record.currentApproval}
  /\ \A a, b \in OpenRequests(s) : a = b

Closing == {"run_completed", "run_failed"}

(* No producer reports an event that the control plane emits to tell the   *)
(* status of a session.                                                    *)
OwnEvents == \A batch \in Batches : \A i \in DOMAIN batch : batch[i] \notin StatusEvents

Plain(todo) == \A i \in DOMAIN todo : todo[i] \notin StatusEvents \cup {"bundle"}

(* The effects of a completion and of a rejection, down to the bundle: an  *)
(* event that closes the run is always followed by one.                    *)
Bundling ==
  {<<"run_completed", "session.completed", "bundle">>,
   <<"run_failed", "session.completed", "bundle">>,
   <<"session.completed", "bundle">>, <<"bundle">>,
   <<"approval_resolved:rejected", "run_failed", "bundle", "approval.resolved">>,
   <<"run_failed", "bundle", "approval.resolved">>, <<"bundle", "approval.resolved">>}

(* What a call may still owe.                                              *)
Planned(todo) ==
  \/ todo \in Bundling
  \/ Plain(todo)
  \/ /\ Head(todo) \in {"run_started", "approval_requested", "approval_resolved:approved"}
     /\ Plain(Tail(todo))

Performing(r) == r.pc \in {"effects", "append", "trailAudits", "trailExisting", "saveBundle"}

(* The only call in flight will append the event of the status the session *)
(* has been given; it will replace the bundle of the session.              *)
Announces(r, s) == Performing(r) /\ r.session = s /\ Head(r.todo) \in StatusEvents
Bundles(r, s) == Performing(r) /\ r.session = s /\ r.todo \in Bundling

CallStream(r) ==
  /\ r.pc # "idle" => Planned(r.todo)
  /\ r.pc \in {"disclosures", "reviews"} =>
       r.record.status \in Terminal /\ r.todo = CompletionEffects(r.record.status)
  /\ r.pc = "saveRequest" =>
       /\ session[r.session].status = "running" /\ r.record.status = "waiting-human"
       /\ r.todo = <<"approval_requested", "approval.requested">>
  /\ r.pc \in {"saveResolution", "reread"} => r.todo = ResolutionEffects(r.outcome)
  /\ r.pc = "reread" => OpenRequests(r.session) = {}
  /\ r.pc = "saveSession" =>
       /\ OpenFor(r.session, r.record)
       /\ Head(r.todo) \in StatusEvents /\ r.record.status = StatusAfter(Head(r.todo))
       /\ r.record.status \in Terminal => r.todo \in Bundling
  /\ r.pc \in {"saveDisclosure", "saveReview"} => Plain(r.todo)
  /\ Announces(r, r.session) => session[r.session].status = StatusAfter(Head(r.todo))
  /\ r.pc = "append" => r.count = Len(events[r.session])
  /\ r.pc \in {"trailAudits", "trailExisting", "saveBundle"} =>
       Head(r.todo) = "bundle" /\ r.bundle.runEvents = Len(events[r.session])
  /\ r.pc = "saveBundle" => r.existing = IF bundles[r.session] = <<>> THEN 0 ELSE 1

(* The last of the events that fix a status fixes this one.                *)
Replays(s, status) ==
  \E i \in DOMAIN events[s] :
    /\ events[s][i].type \in StatusEvents /\ StatusAfter(events[s][i].type) = status
    /\ \A j \in DOMAIN events[s] : j > i => events[s][j].type \notin StatusEvents

Covered(s) ==
  IF bundles[s] = <<>> THEN session[s].status \notin Terminal
  ELSE \A i \in DOMAIN events[s] :
         i > bundles[s][1].runEvents => events[s][i].type \notin Closing

(* Every session is as the only call r leaves it between its steps.        *)
Settled(s, r) ==
  /\ \A i \in DOMAIN events[s] : events[s][i].sequence = i
  /\ Len(bundles[s]) <= 1
  /\ (r.session = s /\ r.pc \in {"reread", "saveSession"}) \/ OpenFor(s, session[s])
  /\ Exists(s) => Announces(r, s) \/ Replays(s, session[s].status)
  /\ Bundles(r, s) \/ Covered(s)

StreamInv ==
  \A c \in Callers : CallStream(call[c]) /\ \A s \in Sessions : Settled(s, call[c])

=============================================================================
