----------------------- MODULE RunSessionsRefinement ------------------------
(***************************************************************************)
(* Driven by one client that awaits each call before the next, the         *)
(* TypeScript control plane, await by await, does what the Python control  *)
(* plane does in one step: same guards, same records, same events in the   *)
(* same order, same bundle.                                                *)
(*                                                                         *)
(* The state of the Python control plane is what the repositories will be  *)
(* when the call in flight has returned: the step of the abstract handler  *)
(* is the first step of the concrete one, and the rest of it stutters.  A  *)
(* completion that the gate will refuse is no step at all.                 *)
(***************************************************************************)
EXTENDS RunSessionsProperties

(* All of this is for one caller and no aborted handler: at most one call  *)
(* is pending.                                                             *)

Completing == {"disclosures", "reviews"}
Resolving == {"saveResolution", "reread"}
Replacing == Completing \cup {"saveRequest", "saveSession"}

(* The gate will let the call pass.                                        *)
Accepted(r) ==
  /\ r.pc = "disclosures" => DisclosureMet(r.session, r.record.profile)
  /\ r.pc \in Completing => ReviewsMet(r.session, r.record.profile)

(* The calls that still owe something to session s.                        *)
Pending(s) ==
  {r \in {call[c] : c \in Callers} : r.pc # "idle" /\ r.session = s /\ Accepted(r)}

At(s, pcs) == {r \in Pending(s) : r.pc \in pcs}

WillBeSession ==
  [s \in Sessions |->
     IF At(s, Resolving) # {}
       THEN LET r == CHOOSE r \in At(s, Resolving) : TRUE
            IN Touched(s, IF r.outcome THEN "running" ELSE "failed")
     ELSE IF At(s, Replacing) # {} THEN (CHOOSE r \in At(s, Replacing) : TRUE).record
     ELSE session[s]]

(* The calls at this place that save the record id.                        *)
Saving(pc, id) == {r \in {call[c] : c \in Callers} : r.pc = pc /\ r.id = id}

WillBeApproval ==
  [a \in Approvals |->
     IF Saving("saveRequest", a) # {}
       THEN LET r == CHOOSE r \in Saving("saveRequest", a) : TRUE
            IN [status |-> "pending", session |-> r.session]
     ELSE IF Saving("saveResolution", a) # {}
       THEN LET r == CHOOSE r \in Saving("saveResolution", a) : TRUE
            IN [status |-> IF r.outcome THEN "approved" ELSE "rejected",
                session |-> r.session]
     ELSE approval[a]]

WillBeEvidence(store, pc) ==
  [x \in DOMAIN store |->
     IF Saving(pc, x) = {} THEN store[x]
     ELSE LET r == CHOOSE r \in Saving(pc, x) : TRUE
          IN [session |-> r.session, outcome |-> r.outcome]]

(* The effects that are still to come in session s.                        *)
ToCome(s) == IF Pending(s) = {} THEN <<>> ELSE (CHOOSE r \in Pending(s) : TRUE).todo

Types(s) == [i \in DOMAIN events[s] |-> events[s][i].type]

WillBeTrail == [s \in Sessions |-> Types(s) \o RunPart(ToCome(s))]
WillBeAudits == [s \in Sessions |-> audits[s] \o AuditPart(ToCome(s))]

(* A bundle will list what is stored, and what comes before it.            *)
HasBundle(effects) == \E k \in DOMAIN effects : effects[k] = "bundle"

Ahead(effects) == SubSeq(effects, 1, CHOOSE k \in DOMAIN effects : effects[k] = "bundle")

BundleOf(s, effects) ==
  [runEvents |-> Len(events[s]) + Len(RunPart(Ahead(effects))),
   auditEvents |-> Len(audits[s]) + Len(AuditPart(Ahead(effects)))]

WillBeBundle ==
  [s \in Sessions |->
     IF HasBundle(ToCome(s)) THEN BundleOf(s, ToCome(s))
     ELSE IF bundles[s] = <<>> THEN NoBundle
     ELSE bundles[s][1]]

(* What a call reads for a bundle is still so when it saves it, and it owes *)
(* one bundle at most: with one caller, that is.                           *)
OneBundle(effects) ==
  \A i, j \in DOMAIN effects : effects[i] = "bundle" /\ effects[j] = "bundle" => i = j

BundleRead(r) ==
  /\ OneBundle(r.todo)
  /\ r.pc \in {"trailAudits", "trailExisting", "saveBundle"} =>
       Head(r.todo) = "bundle" /\ r.bundle.runEvents = Len(events[r.session])
  /\ r.pc \in {"trailExisting", "saveBundle"} =>
       r.bundle.auditEvents = Len(audits[r.session])
  /\ r.pc = "saveBundle" =>
       r.existing = IF bundles[r.session] = <<>> THEN 0 ELSE 1

BundlesRead == \A c \in Callers : BundleRead(call[c])

Python == INSTANCE AtomicRunSessions WITH
  session <- WillBeSession,
  approval <- WillBeApproval,
  disclosure <- WillBeEvidence(disclosure, "saveDisclosure"),
  review <- WillBeEvidence(review, "saveReview"),
  trail <- WillBeTrail,
  audits <- WillBeAudits,
  bundle <- WillBeBundle

(* Every step of the TypeScript control plane is one of the Python control *)
(* plane, or leaves what it will have done alone.                          *)
ImplementsPython == Python!Spec

=============================================================================
