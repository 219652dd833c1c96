--------------------------- MODULE MCWriteService ---------------------------
(* Instances of WriteService for TLC, and what is read from its catalog.    *)
EXTENDS WriteService, ReadService, TLC

CONSTANTS p1, p2, m1, m2, s1, s2, c1, o1, o2

Plain == [action |-> "observe", id |-> m1, source |-> s1, candidate |-> c1,
          observations |-> {}, disposition |-> "new", mode |-> "direct",
          modality |-> "asserted", confidence |-> "confirmed",
          sensitivity |-> "normal", impact |-> "low", outcome |-> "draft"]

Confirm(id, s, obs) ==
  [Plain EXCEPT !.action = "confirm", !.id = id, !.source = s, !.observations = obs]

\* Each source is about one memory.
ManyRequests == {
  Confirm(m1, s1, {o1}), Confirm(m1, s2, {o1, o2}),
  [Plain EXCEPT !.action = "update", !.source = s2, !.impact = "high"],
  [Plain EXCEPT !.disposition = "conflict", !.source = s2],
  [Plain EXCEPT !.disposition = "reinforce", !.source = s2, !.observations = {o1}],
  [Plain EXCEPT !.action = "archive", !.sensitivity = "secret"],
  [Plain EXCEPT !.action = "propose", !.mode = "behavior_observed",
                !.confidence = "observed"],
  [Plain EXCEPT !.action = "reject"],
  [Plain EXCEPT !.action = "capture_review", !.observations = {o2},
                !.outcome = "discard"]}

\* A source that is used for two memories.
SharedSource == {Confirm(m1, s1, {o1}), Confirm(m2, s1, {o2})}

Sessions == (s1 :> 1) @@ (s2 :> 2)
Days == (s1 :> 0) @@ (s2 :> 7)
-----------------------------------------------------------------------------

\* A short name and a long one.
Widths == 1 :> 3 @@ 2 :> 6

\* Estimates below and above a hundred, where they grow by a digit.
ASSUME EstimatesAreTrue ==
  \A chars \in 0 .. 400 \cup 2900 .. 3100 \cup 29900 .. 30100 : EstimateIsTrue(chars)

Lists == UNION {[1 .. n -> {1, 4}] : n \in 0 .. 2}

ASSUME OverviewsAreFitted ==
  \A cards, highImpact, byScope, byKind \in Lists : \A fixed \in {0, 285} :
    LET response == [fixed |-> fixed, cards |-> cards, highImpact |-> highImpact,
                     byScope |-> byScope, byKind |-> byKind]
    IN  \A budget \in {1, 4, 96, 99, 101} : OverviewIsFitted(response, budget)

Cards ==
  [lifecycle : {"active", "archived"}, exposure : {"core_card", "discoverable_only"}, impact : {"high"},
   kind : {1, 2}, scopes : {{1}, {1, 2}}, contains : {{""}}, chars : {5}]

ASSUME OverviewsAgree ==
  \A cards \in UNION {[1 .. n -> Cards] : n \in 0 .. 3} :
    OverviewAgreesWithSearch(cards, {1, 2})

=============================================================================
