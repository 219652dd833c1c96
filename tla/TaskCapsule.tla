---------------------------- MODULE TaskCapsule ----------------------------
(***************************************************************************)
(* What of a turn the extractor is shown: the gate that picks the signals  *)
(* of a turn (pre_capsule_gate of capture_safety.py) and the capsule they  *)
(* are fitted into (build_capsule of capture_capsule.py).                  *)
(*                                                                         *)
(* The scrubbing of texts and the patterns that recognise a signal are     *)
(* abstracted: a message is the sequence of units left of its text, none   *)
(* when it held prohibited content, and a unit says whether it reads as a  *)
(* user's signal, which kind of answer it is, and what files it names.     *)
(* Sizes are in the unit the limits are in.                                *)
(***************************************************************************)
EXTENDS SessionFile

CONSTANTS
  TargetLimit,  \* what a capsule is filled up to
  HardLimit,    \* what it never exceeds
  MinPrefix     \* the least that is kept of a longer text

ASSUME CapsuleAssumption ==
  TargetLimit \in Nat /\ HardLimit \in Nat /\ MinPrefix \in Nat /\ TargetLimit <= HardLimit

Unit(text, len, user, assistant, locators) ==
  [text |-> text, len |-> len, user |-> user, assistant |-> assistant, locators |-> locators]

\* A record of the turn; role None for what is no message, was said by a
\* subagent, or is an answer that is not the final one.
Message(turn, role, units) ==
  [type |-> "item", turn |-> turn, role |-> role, units |-> units]

\* Session metadata; the unit is its title, if it is of the task.
Title(units) == [type |-> "meta", turn |-> None, role |-> None, units |-> units]

Kinds == <<"user_signal", "decision_result", "reusable_method", "next_step",
           "file_locator", "task_title">>

Priority(kind) == CHOOSE i \in DOMAIN Kinds : Kinds[i] = kind

-----------------------------------------------------------------------------
(* The gate                                                                *)

Heard(records, turn) ==
  LET said == {i \in DOMAIN records : OfTurn(<<records[i]>>, turn) # << >>}
      answers == {i \in said : records[i].role = "assistant"}
  IN  {i \in said : \/ records[i].role = "user"
                    \/ i \in answers /\ i = Max(answers)}

KindOf(role, unit) ==
  IF role = "assistant" THEN unit.assistant
  ELSE IF unit.user THEN "user_signal" ELSE None

Signal(kind, place, text, len) == [kind |-> kind, place |-> place, text |-> text, len |-> len]

SignalsOf(record, i) ==
  UNION {LET unit == record.units[j]
             kind == KindOf(record.role, unit)
         IN  IF kind = None THEN {}
             ELSE {Signal(kind, <<i, j, 0>>, unit.text, unit.len)} \cup
                  {Signal("file_locator", <<i, j, k>>, unit.locators[k], 1) :
                     k \in DOMAIN unit.locators} :
         j \in DOMAIN record.units}

\* Only the first title counts, whatever is left of it.
TitleOf(records) ==
  LET titles == {i \in DOMAIN records : records[i].type = "meta"}
  IN  IF titles = {} THEN {}
      ELSE {Signal("task_title", <<Min(titles), j, 0>>, unit.text, unit.len) :
              <<j, unit>> \in {<<k, records[Min(titles)].units[k]>> :
                                 k \in DOMAIN records[Min(titles)].units}}

Gated(records, turn) ==
  TitleOf(records) \cup
    UNION {SignalsOf(records[i], i) : i \in Heard(records, turn)}

-----------------------------------------------------------------------------
(* The capsule                                                             *)

Earlier(p, q) ==
  \E n \in 1 .. 3 : p[n] < q[n] /\ \A m \in 1 .. n - 1 : p[m] = q[m]

Before(r, s) ==
  \/ Priority(r.kind) < Priority(s.kind)
  \/ r.kind = s.kind /\ Earlier(r.place, s.place)

Room(capsule) == TargetLimit - capsule.size

Keep(capsule, signal) ==
  [capsule EXCEPT !.kept = Append(@, signal), !.size = @ + signal.len]

Omit(capsule, signal) == [capsule EXCEPT !.omitted = @ \cup {signal}]

IsNamed(capsule, signal) ==
  signal.kind = "file_locator" /\
    \E r \in Range(capsule.kept) : r.kind = signal.kind /\ r.text = signal.text

\* A text that does not fit is cut to what does, unless too little is left;
\* which text that makes is left open.
TakeSignal(capsule, signal) ==
  LET room == Room(capsule)
  IN  CASE IsNamed(capsule, signal) -> Omit(capsule, signal)
        [] signal.len <= room -> Keep(capsule, signal)
        [] signal.kind = "file_locator" \/ room < Min({MinPrefix, signal.len}) ->
             Omit(capsule, signal)
        [] OTHER -> Keep(capsule, [signal EXCEPT !.len = room, !.text = None])

\* base is what the identity of the revision takes up; None is an error.
Capsule(records, turn, base) ==
  IF base > HardLimit THEN None
  ELSE FoldLeft(TakeSignal, [kept |-> << >>, size |-> base, omitted |-> {}],
                SetToSortSeq(Gated(records, turn), Before))

\* capsule_has_durable_signal: titles and files alone are not extracted.
HasDurableSignal(capsule) ==
  \E r \in Range(capsule.kept) : r.kind \notin {"file_locator", "task_title"}

-----------------------------------------------------------------------------
(* What a capsule promises                                                 *)

\* It says nothing that the user or the final answer did not say in the turn,
\* and no answer reads as a signal of the user's.
IsFaithful(capsule, records, turn) ==
  \A r \in Range(capsule.kept) :
    LET record == records[r.place[1]]
        unit == record.units[r.place[2]]
    IN  /\ r.kind # "task_title" =>
             /\ record.turn = turn
             /\ r.kind # "file_locator" => (record.role = "user" <=> r.kind = "user_signal")
             /\ record.role = "assistant" =>
                  ~ \E i \in Heard(records, turn) : i > r.place[1] /\ records[i].role = "assistant"
        /\ r.kind # "file_locator" => (r.text = unit.text /\ r.len = unit.len)
                                      \/ (r.text = None /\ r.len < unit.len)

\* A signal is left out only when less room is left than is kept of any text;
\* at most one is cut, and never to less than that.
IsFilled(capsule, records, turn) ==
  /\ capsule.size <= HardLimit
  /\ Len(capsule.kept) + Cardinality(capsule.omitted) = Cardinality(Gated(records, turn))
  /\ \A r \in capsule.omitted :
       r.kind # "file_locator" => Room(capsule) < Min({MinPrefix, r.len})
  /\ LET cut == {r \in Range(capsule.kept) : r \notin Gated(records, turn)}
     IN  Cardinality(cut) <= 1 /\ \A r \in cut : r.len >= MinPrefix
=============================================================================
