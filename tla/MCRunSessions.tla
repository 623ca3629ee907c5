--------------------------- MODULE MCRunSessions ---------------------------
(* Small instances of RunSessions.                                         *)
EXTENDS RunSessionsRefinement, TLC

(* A deployment without a profile, and one whose profile asks for all.     *)
Strict == [disclosure |-> TRUE, acknowledgement |-> TRUE, reviewers |-> 1]

MCProfiles == {NoProfile, Strict}
MCStrict == {Strict}
MCLax == {NoProfile}

(* What a producer reports of its own work.                                *)
MCBatches == {<<"tool_called", "tool_completed">>}

(* No producer reports anything.                                           *)
MCNoBatches == {}

(* Every session has been started by a call that has returned, under any   *)
(* profile, and a caller may already have recorded what completing it      *)
(* needs: the calls that race from here know its id.                       *)
Evident(c) ==
  [events |-> <<[type |-> "disclosure_presented", sequence |-> 2, by |-> c],
                [type |-> "disclosure_acknowledged", sequence |-> 3, by |-> c],
                [type |-> "human_review_completed", sequence |-> 4, by |-> c]>>,
   audits |-> <<"disclosure.recorded", "human_review.recorded">>]

RunningInit ==
  \E s \in Sessions, p \in Profiles, c \in Callers, recorded \in BOOLEAN :
    LET evidence == [session |-> s, outcome |-> TRUE]
        done == IF recorded THEN Evident(c) ELSE [events |-> <<>>, audits |-> <<>>]
    IN /\ session = [t \in Sessions |->
            IF t = s THEN [status |-> "running", currentApproval |-> NoId,
                           revision |-> 1, profile |-> p]
                     ELSE NoSession]
       /\ disclosure = [d \in Disclosures |-> IF recorded THEN evidence ELSE NoEvidence]
       /\ review = [r \in Reviews |-> IF recorded THEN evidence ELSE NoEvidence]
       /\ events = [t \in Sessions |->
            IF t = s THEN <<[type |-> "run_started", sequence |-> 1, by |-> c]>>
                          \o done.events
                     ELSE <<>>]
       /\ audits = [t \in Sessions |->
            IF t = s THEN <<"session.started">> \o done.audits ELSE <<>>]
       /\ approval = [a \in Approvals |-> NoApproval]
       /\ bundles = [t \in Sessions |-> <<>>]
       /\ call = [d \in Callers |-> Idle]
       /\ calls = 0
       /\ faults = 0

RunningSpec == RunningInit /\ [][Next]_vars

FairRunningSpec == RunningSpec /\ \A c \in Callers : WF_vars(Continue(c))

Symmetry == Permutations(Callers)
=============================================================================
