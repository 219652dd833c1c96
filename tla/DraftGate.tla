----------------------------- MODULE DraftGate -----------------------------
(***************************************************************************)
(* Which of the observations an extractor drafts are kept:                 *)
(* persistence_gate of capture_safety.py.                                  *)
(*                                                                         *)
(* A proposition is a predicate class with an object (polarity is part of  *)
(* the class).  What the patterns read in a text is abstracted: a text     *)
(* tells the proposition it is if the user said it, the one it is if an    *)
(* answer said it of the user, whether it may tell one to a reader, and    *)
(* whether it asserts at all.  A draft has the wording of its statement    *)
(* and the proposition it states; it may open as one of a class and state  *)
(* none that can be read.                                                  *)
(***************************************************************************)
EXTENDS TaskCapsule, Integers

CONSTANT MaxAccepted  \* observations kept of one extraction

ASSUME AcceptedAssumption == MaxAccepted \in Nat

Text(name, said, told, candidate, assertive) ==
  [name |-> name, said |-> said, told |-> told, candidate |-> candidate,
   assertive |-> assertive]

Proposition(class, object) == [class |-> class, object |-> object]

\* Classes only the user's own words support.
Personal == {"preference", "avoidance", "goal", "principle", "identity"}

Modes == {"direct", "behavior_observed", "agent_inferred"}

\* ObservationDraft.from_mapping; "safe" is what _draft_is_unsafe denies, and
\* "plain" that the statement is an assertion, and one about the user.
Draft(states, text, mode, tentative, evidence, rank) ==
  [states |-> states, opens |-> IF states = None THEN None ELSE states.class,
   text |-> text, mode |-> mode, tentative |-> tentative, evidence |-> evidence,
   tier |-> 0, rank |-> rank, safe |-> TRUE, plain |-> TRUE, scope |-> None]

IsDraft(draft) ==
  /\ draft.mode = "agent_inferred" => draft.tentative
  /\ draft.evidence # {}

\* _capsule_evidence
Provenance(capsule, text) ==
  {r.kind : r \in {s \in Range(capsule.kept) :
                     s.kind \notin {"file_locator", "task_title"} /\ s.text = text}}

Allowed(mode) ==
  CASE mode = "direct" -> {"user_signal"}
    [] mode = "behavior_observed" -> {"decision_result", "reusable_method"}
    [] mode = "agent_inferred" -> {"user_signal", "decision_result", "reusable_method"}

UserSupports(draft, text, kinds) ==
  /\ "user_signal" \in kinds \cap Allowed(draft.mode)
  /\ \/ text.said = draft.states
     \/ /\ draft.mode = "agent_inferred" /\ draft.tentative
        /\ text.said = None /\ text.candidate

AnswerSupports(draft, text, kinds) ==
  LET answers == kinds \ {"user_signal"}
      class == draft.states.class
  IN  /\ answers \cap Allowed(draft.mode) # {}
      /\ text.told = draft.states
      /\ class \notin Personal
      /\ "reusable_method" \in answers => class = "method"
      /\ "decision_result" \in answers => class \in {"constraint", "ability", "trajectory"}

\* _provenance_supports_mode
IsSupported(draft, capsule) ==
  \A text \in draft.evidence :
    LET kinds == Provenance(capsule, text)
    IN  UserSupports(draft, text, kinds) \/ AnswerSupports(draft, text, kinds)

IsPolicyValid(draft, capsule, scope) ==
  /\ draft.scope = scope /\ draft.plain /\ draft.states # None
  /\ \A text \in draft.evidence : Provenance(capsule, text) # {} /\ text.assertive
  /\ IsSupported(draft, capsule)

\* _canonicalize_direct_chinese_statement: a direct draft of one text of the
\* user's that opens in the same class states what that text says.
Canonical(draft, capsule) ==
  LET text == CHOOSE t \in draft.evidence : TRUE
  IN  IF /\ draft.mode = "direct" /\ Cardinality(draft.evidence) = 1
         /\ "user_signal" \in Provenance(capsule, text)
         /\ text.said # None /\ text.said.class = draft.opens
      THEN [draft EXCEPT !.states = text.said, !.text = text.said.object]
      ELSE draft

\* _rank, the locator included in rank: no two drafts have the same.
RankKey(draft) ==
  <<IF draft.mode = "agent_inferred" THEN 3 ELSE draft.tier,
    0 - Cardinality(draft.evidence), draft.rank>>

Outranks(d, e) ==
  \E n \in 1 .. 3 : RankKey(d)[n] < RankKey(e)[n] /\ \A m \in 1 .. n - 1 : RankKey(d)[m] = RankKey(e)[m]

Best(drafts) == CHOOSE d \in drafts : \A e \in drafts : ~ Outranks(e, d)

Survivors(drafts, capsule, scope) ==
  {d \in {Canonical(draft, capsule) : draft \in {d \in drafts : IsDraft(d) /\ d.safe}} :
     IsPolicyValid(d, capsule, scope)}

Distinct(drafts) == {Best({e \in drafts : e.text = d.text}) : d \in drafts}

\* persistence_gate
Accepted(drafts, capsule, scope) ==
  LET distinct == Distinct(Survivors(drafts, capsule, scope))
  IN  {d \in distinct : Cardinality({e \in distinct : Outranks(e, d)}) < MaxAccepted}

-----------------------------------------------------------------------------
(* What the gate promises                                                  *)

\* Whatever the order and the words of the drafts, what is kept of them rests on
\* the capsule alone: a direct observation states what the user said, and what
\* is personal was not taken from an answer.
RestsOnCapsule(accepted, capsule) ==
  \A draft \in accepted : \A text \in draft.evidence :
    LET kinds == Provenance(capsule, text)
    IN  /\ kinds # {}
        /\ draft.mode = "direct" => "user_signal" \in kinds /\ text.said = draft.states
        /\ draft.states.class \in Personal => "user_signal" \in kinds
        /\ draft.mode # "direct" => "next_step" \notin kinds
        /\ kinds = {"user_signal"} => text.said \in {draft.states, None}

\* No statement twice, and a statement is given up only for better ones.
IsBest(accepted, survivors) ==
  /\ \A d, e \in accepted : d.text = e.text => d = e
  /\ \A d \in survivors : \A e \in accepted :
       Outranks(d, e) => \E f \in accepted : f.text = d.text
=============================================================================
