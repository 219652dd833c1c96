------------------------------- MODULE Policy -------------------------------
(***************************************************************************)
(* The two tables of agc_runtime/policy.py: the lifecycle graph a formal   *)
(* memory moves along, with the validate_transition that guards every      *)
(* change of status MemoryStore makes, and evaluate_observation, which     *)
(* says what may be written at once, what waits for more evidence and what *)
(* nobody may store.                                                       *)
(***************************************************************************)
EXTENDS Naturals

Lifecycles == {"candidate", "active", "challenged", "dormant", "superseded",
               "historical", "rejected"}

LifecycleTransitions ==
  [candidate  |-> {"active", "challenged", "dormant", "rejected"},
   active     |-> {"challenged", "dormant", "superseded", "historical"},
   challenged |-> {"active", "dormant", "superseded", "historical", "rejected"},
   dormant    |-> {"active", "historical", "superseded"},
   superseded |-> {"historical"},
   historical |-> {},
   rejected   |-> {}]

\* validate_transition returns without raising.
ValidTransition(old, new) ==
  new = old \/ new \in LifecycleTransitions[old]

-----------------------------------------------------------------------------
(* An observation whose disposition needs an existing memory names one.    *)

Modes == {"direct", "behavior_observed", "agent_inferred", "quoted"}
Modalities == {"asserted", "hypothetical", "question", "example"}
Dispositions == {"ignore", "new", "reinforce", "update", "conflict",
                 "need_more_evidence"}
Confidences == {"tentative", "observed", "confirmed", "disputed"}
Sensitivities == {"normal", "personal", "sensitive", "secret"}

Confirmable(r) == r.mode = "direct" /\ r.modality = "asserted"

\* count of sources, distinct sessions, days between the first and the last
ThresholdSatisfied(evidence) ==
  evidence.count >= 3 /\ evidence.sessions >= 2 /\ evidence.days >= 7

Evaluate(r, evidence) ==
  CASE r.sensitivity \in {"sensitive", "secret"} ->
         [status |-> "rejected_policy", candidate |-> "candidate"]
    [] r.sensitivity \notin {"sensitive", "secret"} ->
         IF r.confidence = "confirmed" /\ ~Confirmable(r)
         THEN [status |-> "deferred", candidate |-> "candidate"]
         ELSE IF r.mode = "behavior_observed"
         THEN IF ThresholdSatisfied(evidence)
              THEN [status |-> "needs_adjudication",
                    candidate |-> "eligible_for_adjudication"]
              ELSE [status |-> "deferred", candidate |-> "candidate"]
         ELSE IF r.disposition = "need_more_evidence"
         THEN [status |-> "deferred", candidate |-> "candidate"]
         ELSE IF r.disposition = "ignore"
         THEN [status |-> "accepted", candidate |-> "candidate"]
         ELSE [status |-> "accepted", candidate |-> "accepted"]

=============================================================================
