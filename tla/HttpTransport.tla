---------------------------- MODULE HttpTransport ----------------------------
(***************************************************************************)
(* The HTTP transports of the Python SDK (python/packages/cip/.../         *)
(* client.py): every call of CipClient and CipAdminClient is a request     *)
(* that is repeated on the answers the retry policy names, whatever it     *)
(* asks for.  Only three routes can bear an idempotency key.               *)
(*                                                                         *)
(* Between the callers are gateways and the platform, which are not in the *)
(* repository: a gateway may answer while the request it gave up is still  *)
(* on its way to the platform.                                             *)
(***************************************************************************)
EXTENDS Naturals, FiniteSets

CONSTANTS
  Calls,                \* calls, each made at most once, by threads of their own
  Keys,                 \* idempotency keys of the callers
  Objects,              \* what calls are about: sessions, requests, deployments, jobs
  None,
  Held,                 \* the tokens of each call's transport, of "sdk" and "operator"
  MaxAttempts,          \* retry_policy.max_attempts
  RetryableStatusCodes, \* retry_policy.retryable_status_codes
  Refusals,             \* platform: statuses for what it will not do
  Failures              \* gateways: statuses for requests that do not get through

ASSUME HttpTransportAssumption ==
  /\ MaxAttempts \in Nat \ {0}
  /\ Held \in [Calls -> SUBSET {"sdk", "operator"}]
  /\ Refusals \subseteq 400..499 \ {401}
  /\ Failures \subseteq 500..599

VARIABLES
  call,         \* each call, as its thread knows it
  late,         \* requests of a call, given up, that may still reach the platform
  done,         \* platform: how often it did what a call asks for
  applied,      \* platform: the idempotency keys of what it did
  lost          \* history: requests of a call that a gateway gave up, and that went on

vars == <<call, late, done, applied, lost>>

platform == <<late, done, applied, lost>>

-----------------------------------------------------------------------------
(* The routes: the token a method sends, whether the request reads or      *)
(* writes, and whether it takes a key.  Only a key makes the platform      *)
(* recognise a request that comes again: it may write again or refuse,     *)
(* also what an object should do once.  Two resolutions of an approval can *)
(* both stand, and a session that runs again can be completed again.       *)
Route(auth, effect, keyed) == [auth |-> auth, effect |-> effect, keyed |-> keyed]

HttpCipControlPlaneTransport ==
  [create_session        |-> Route("sdk", "writes", TRUE),
   enqueue_events        |-> Route("sdk", "writes", TRUE),
   request_approval      |-> Route("sdk", "writes", FALSE),
   resolve_approval      |-> Route("operator", "writes", FALSE),
   record_disclosure     |-> Route("sdk", "writes", FALSE),
   record_human_review   |-> Route("operator", "writes", FALSE),
   complete_session      |-> Route("sdk", "writes", TRUE),
   transition_deployment |-> Route("operator", "writes", FALSE),
   rollback_deployment   |-> Route("operator", "writes", FALSE)]

(* get_compliance_profile, get_replay, get_evidence_bundle and             *)
(* get_ingest_job, get_tenant, list_deployments and list_audit_events.     *)
reads == {Route("sdk", "reads", FALSE), Route("operator", "reads", FALSE)}

(* The admin transport: creating and publishing records ...                *)
HttpCipAdminTransport ==
  [create_tenant                |-> Route("operator", "writes", FALSE),
   create_connector_definition  |-> Route("operator", "writes", FALSE),
   create_credential_binding    |-> Route("operator", "writes", FALSE),
   create_connector_binding     |-> Route("operator", "writes", FALSE),
   publish_policy_pack          |-> Route("operator", "writes", FALSE),
   publish_guardrail_definition |-> Route("operator", "writes", FALSE),
   register_agent_blueprint     |-> Route("operator", "writes", FALSE)]

(* ... deployments and what makes them compliant ...                       *)
deploymentRoutes ==
  [create_deployment          |-> Route("operator", "writes", FALSE),
   upsert_compliance_profile  |-> Route("operator", "writes", FALSE),
   create_compliance_artifact |-> Route("operator", "writes", FALSE)]

(* ... keys and jobs.                                                      *)
operationRoutes ==
  [issue_api_key           |-> Route("operator", "writes", FALSE),
   rotate_api_key          |-> Route("operator", "writes", FALSE),
   revoke_api_key          |-> Route("operator", "writes", FALSE),
   requeue_dead_letter_job |-> Route("operator", "writes", FALSE)]

RoutesOf(routes) == {routes[name] : name \in DOMAIN routes}

CipClient == RoutesOf(HttpCipControlPlaneTransport) \cup reads

CipAdminClient ==
  RoutesOf(HttpCipAdminTransport) \cup RoutesOf(deploymentRoutes)
    \cup RoutesOf(operationRoutes) \cup {Route("operator", "reads", FALSE)}

-----------------------------------------------------------------------------
(* status: of the answer that has come, 0 when none has; readable: whether *)
(* its body can be decoded and made a record.                              *)
CallRecord ==
  [pc: {"idle", "waiting", "answered", "sleeping", "returned", "raised"},
   route: CipClient \cup CipAdminClient \cup {None},
   object: Objects \cup {None}, key: Keys \cup {None}, attempt: Nat, status: Nat,
   readable: BOOLEAN, error: {"none", "auth", "validation", "conflict",
     "retryable", "api", "httpx", "decoding"}]

Idle ==
  [pc |-> "idle", route |-> None, object |-> None, key |-> None, attempt |-> 0,
   status |-> 0, readable |-> TRUE, error |-> "none"]

Init ==
  /\ call = [c \in Calls |-> Idle]
  /\ late = [c \in Calls |-> 0]
  /\ done = [c \in Calls |-> 0]
  /\ applied = {}
  /\ lost = [c \in Calls |-> 0]

Ended(c) == call[c].pc \in {"returned", "raised"}

Becomes(c, record) == call' = [call EXCEPT ![c] = record]

(* The caller's key, if it gives one, stands for one request: another call *)
(* bears it only to make that request again.                               *)
KeysFor(route, object) ==
  IF route.keyed
    THEN {None} \cup {k \in Keys : \A c \in Calls : call[c].key = k =>
                                     call[c].route = route /\ call[c].object = object}
    ELSE {None}

(* _request_json: the first request of a call.                             *)
begins(c, routes) ==
  /\ call[c].pc = "idle"
  /\ \E route \in routes : \E object \in Objects : \E k \in KeysFor(route, object) :
       Becomes(c, [Idle EXCEPT !.pc = "waiting", !.route = route, !.object = object,
                               !.key = k])
  /\ UNCHANGED platform

sdkCall(c) == begins(c, CipClient)

adminCall(c) == begins(c, CipAdminClient)

Token(c) == IF call[c].route.auth \in Held[c] THEN call[c].route.auth ELSE None

Slip_KeyOnce(c) ==
  [token |-> Token(c), key |-> IF call[c].attempt = 0 THEN call[c].key ELSE None]

(* _headers: built for every attempt anew, from what the call was given.   *)
headers(c) == [token |-> Token(c), key |-> call[c].key]

(* _build_error: what an answer is raised as, whatever codes the policy    *)
(* names.                                                                  *)
build_error(status) ==
  CASE status \in {401, 403} -> "auth"
    [] status \in {400, 422} -> "validation"
    [] status = 409 -> "conflict"
    [] status \in RetryableStatusCodes \ {400, 401, 403, 409, 422} -> "retryable"
    [] OTHER -> "api"

Slip_ConflictIsDone(status) == status \in 200..299 \cup {409}

is_success(status) == status \in 200..299

is_retryable(c) ==
  /\ build_error(call[c].status) = "retryable"
  /\ call[c].attempt + 1 < MaxAttempts

Slip_Uncounted(c) == [call[c] EXCEPT !.pc = "sleeping", !.status = 0]

(* The next attempt, after a sleep of a second at most.                    *)
Again(c) == [call[c] EXCEPT !.pc = "sleeping", !.attempt = @ + 1, !.status = 0]

Raised(c, error) == [call[c] EXCEPT !.pc = "raised", !.error = error]

Slip_RetriesUnreadable(c) ==
  /\ call[c].pc = "answered"
  /\ Becomes(c, IF is_success(call[c].status) /\ call[c].readable
                  THEN [call[c] EXCEPT !.pc = "returned"]
                ELSE IF is_retryable(c) \/ (~call[c].readable /\ call[c].attempt + 1 < MaxAttempts)
                  THEN Again(c)
                ELSE Raised(c, build_error(call[c].status)))
  /\ UNCHANGED platform

(* _request_json: what the thread does with an answer.  The body is        *)
(* decoded before anything is decided, so that an answer that cannot be    *)
(* read raises what json or the record's constructor raises, and no retry. *)
answered(c) ==
  /\ call[c].pc = "answered"
  /\ Becomes(c, IF ~call[c].readable THEN Raised(c, "decoding")
                ELSE IF is_success(call[c].status)
                  THEN [call[c] EXCEPT !.pc = "returned"]
                ELSE IF is_retryable(c) THEN Again(c)
                ELSE Raised(c, build_error(call[c].status)))
  /\ UNCHANGED platform

wakes(c) ==
  /\ call[c].pc = "sleeping"
  /\ Becomes(c, [call[c] EXCEPT !.pc = "waiting", !.readable = TRUE])
  /\ UNCHANGED platform

(* A timeout of httpx, or a lost connection: no attempt follows, and the   *)
(* request may be on its way all the same.                                 *)
times_out(c) ==
  /\ call[c].pc = "waiting"
  /\ Becomes(c, Raised(c, "httpx"))
  /\ late' = [late EXCEPT ![c] = @ + 1]
  /\ UNCHANGED <<done, applied, lost>>

-----------------------------------------------------------------------------
(* External: gateways and the platform.                                    *)
Answers(c, status) ==
  \E readable \in BOOLEAN :
    Becomes(c, [call[c] EXCEPT !.pc = "answered", !.status = status,
                               !.readable = readable])

Known(c) == headers(c).key # None /\ headers(c).key \in applied

Does(c) ==
  /\ done' = [done EXCEPT ![c] = @ + 1]
  /\ applied' = IF headers(c).key = None THEN applied ELSE applied \cup {headers(c).key}

(* What the platform does with a request, and the status it answers.       *)
Handles(c, status) ==
  IF headers(c).token # call[c].route.auth
    THEN status = 401 /\ UNCHANGED <<done, applied>>
  ELSE IF call[c].route.effect = "reads" \/ Known(c)
    THEN status = 200 /\ UNCHANGED <<done, applied>>
  ELSE \/ status = 200 /\ Does(c)
       \/ status \in Refusals /\ UNCHANGED <<done, applied>>

Statuses == {200, 401} \cup Refusals

handles(c) ==
  /\ call[c].pc = "waiting"
  /\ \E status \in Statuses : Handles(c, status) /\ Answers(c, status)
  /\ UNCHANGED <<late, lost>>

(* A request nobody waits for any more arrives, or is lost.                *)
arrivesLate(c) ==
  /\ late[c] > 0
  /\ late' = [late EXCEPT ![c] = @ - 1]
  /\ \/ \E status \in Statuses : Handles(c, status)
     \/ UNCHANGED <<done, applied>>
  /\ UNCHANGED <<call, lost>>

(* A gateway answers: the request never gets further, or is under way.     *)
gatewayFails(c) ==
  /\ call[c].pc = "waiting"
  /\ \E status \in Failures : Answers(c, status)
  /\ \/ UNCHANGED <<late, lost>>
     \/ /\ late[c] < MaxAttempts
        /\ late' = [late EXCEPT ![c] = @ + 1]
        /\ lost' = [lost EXCEPT ![c] = @ + 1]
  /\ UNCHANGED <<done, applied>>

-----------------------------------------------------------------------------
Proceeds(c) == answered(c) \/ wakes(c) \/ times_out(c)

(* Nothing is left to do.                                                  *)
Rest == (\A c \in Calls : Ended(c) /\ late[c] = 0) /\ UNCHANGED vars

Next ==
  \/ \E c \in Calls : \/ sdkCall(c) \/ adminCall(c)
                      \/ answered(c) \/ wakes(c) \/ times_out(c)
                      \/ handles(c) \/ arrivesLate(c) \/ gatewayFails(c)
  \/ Rest

Spec == Init /\ [][Next]_vars

(* Every thread goes on; the timeout bounds the wait for an answer.        *)
FairSpec == Spec /\ \A c \in Calls : WF_vars(Proceeds(c))

-----------------------------------------------------------------------------
TypeOK ==
  /\ call \in [Calls -> CallRecord]
  /\ late \in [Calls -> Nat] /\ done \in [Calls -> Nat] /\ lost \in [Calls -> Nat]
  /\ applied \subseteq Keys

(* What the platform did for the request of a call, whoever made it.       *)
SameRequest(c) == {c} \cup {d \in Calls : call[c].key # None /\ call[d].key = call[c].key}

(* What bears a key is done once, whatever is retried, by the transport or *)
(* by a caller with the same key, and however late a request arrives; what *)
(* bears none is done no more often than the transport sent it.            *)
EffectsOnce ==
  \A c \in Calls :
    /\ done[c] <= call[c].attempt + 1
    /\ done[c] > 1 => call[c].key = None
    /\ \A d \in SameRequest(c) \ {c} : done[c] + done[d] <= 1

(* A caller is told the truth: when a call that writes returns, what it    *)
(* asked for was done, and when its first attempt is refused it was not,   *)
(* and never will be.                                                      *)
ToldTheTruth ==
  \A c \in Calls :
    /\ call[c].pc = "returned" /\ call[c].route.effect # "reads" =>
         \E d \in SameRequest(c) : done[d] > 0
    /\ /\ call[c].pc = "raised" /\ call[c].attempt = 0
       /\ call[c].error \in {"auth", "validation", "conflict"}
       => done[c] = 0 /\ late[c] = 0

(* A thing is done over again only where the network made it necessary: no *)
(* attempt follows an answer to what the platform did, not even one that   *)
(* cannot be read.  Behind each repetition there is a request of the call  *)
(* that a gateway gave up and let go on.                                   *)
RepeatsOnlyWhatWasLost == \A c \in Calls : done[c] <= lost[c] + 1

(* Every call returns or raises, however long the platform is out of       *)
(* reach: the attempts are bounded and each has its timeout.               *)
EveryCallEnds == \A c \in Calls : call[c].pc = "waiting" ~> Ended(c)
=============================================================================
