--------------------------- MODULE MCCodexSource ---------------------------
(* Small instances of CodexSource for TLC. *)
EXTENDS CodexSource, DraftGate

CONSTANTS s1, a1, t1, t2

TheSessions == <<s1>>
TheArchived == <<a1>>

Main == Identity(t1, t1, "session", "main")
Legacy == Identity(t1, t1, "legacy", "main")
Other == Identity(t2, t2, "session", "main")
Sub == Identity(t2, t1, "session", "subagent")

File(lines) == [lines |-> lines, ended |-> TRUE, signature |-> 0, modified |-> 2]

\* A turn that is in progress; two turns of two sessions that were completed.
Opening == <<Meta(Main, 1), Event("task_started", "u", 2), Item(None, 2)>>

TheOpenings ==
  {(s1 :> File(Opening)) @@ (a1 :> None),
   (s1 :> File(<<Meta(Main, 1), Event("task_complete", "u", 2)>>)) @@
   (a1 :> File(<<Meta(Other, 1), Event("task_complete", "v", 2)>>))}

TheLines ==
  {Event("task_complete", "u", 2), Event("task_complete", "u", 3),
   Event("task_started", "v", 2), Item("v", 2)}

\* Every file of up to three lines, or of metadata and up to three lines.
AnyLines ==
  TheLines \cup {Meta(Main, 1), Meta(Legacy, 1), Meta(Sub, 1), Meta(None, 1), Malformed,
                Item(None, 2), Event("task_started", "u", 2), Event("other", "u", 2)}

AnyFiles ==
  UNION {{[lines |-> first \o lines, ended |-> ended, signature |-> 0, modified |-> 2] :
            first \in {<< >>, <<Meta(Main, 1)>>}, lines \in [1 .. n -> AnyLines],
            ended \in BOOLEAN} : n \in 1 .. 3}

\* A file that is read without a diagnostic gave all its completions, each with
\* one time, or it is of a subagent.
ASSUME ScanIsWhole ==
  \A file \in AnyFiles :
    LET scan == ScanOf(file)
        told == {[turn |-> line.turn, at |-> line.at] :
                   line \in {l \in Range(Decoded(file)) : Completes(l)}}
    IN  scan.code = None =>
          \/ scan.identity.kind = "subagent" /\ scan.completions = {}
          \/ /\ scan.completions = told
             /\ \A c, d \in told : c.turn = d.turn => c = d

\* A revision found in a file is loaded whole from the same file, or not at all;
\* never when the identity was upgraded in it (see README).
ASSUME LoadIsWhole ==
  \A file \in AnyFiles :
    LET scan == ScanOf(file)
    IN  scan.code = None => \A ref \in RevisionsOf(s1, scan) :
          LET load == LoadOf(file, ref)
          IN  /\ Agrees(load, scan) =>
                    OfTurn(load.records, ref.turn) = Whole(Decoded(file), ref)
              /\ {Meta(Main, 1), Meta(Legacy, 1)} \subseteq Range(file.lines) => load.fails

-----------------------------------------------------------------------------
(* The capsule of a turn, and what is kept of the drafts made from it      *)

Likes(object) == Proposition("preference", object)
Method == Proposition("method", "m")

\* What the user may say: a preference, something else, something unclear.  What
\* an answer may say: a method, a decision, a step, a preference of the user's.
SaidText(said) == Text("said", said, None, FALSE, TRUE)
Unclear == Text("unclear", None, None, TRUE, TRUE)
Asking == Text("asking", Likes("a"), None, FALSE, FALSE)
ToldText(kind, told) == Text(kind, None, told, FALSE, TRUE)

UserTexts == {SaidText(Likes("a")), SaidText(Method), Unclear, Asking}
Answers ==
  {<<"reusable_method", ToldText("method", Method)>>,
   <<"decision_result", ToldText("decision", Likes("a"))>>,
   <<"next_step", ToldText("next", Method)>>}

UserUnits(len) == {Unit(text, len, TRUE, None, <<"f">>) : text \in UserTexts}
AnswerUnits(len) == {Unit(a[2], len, FALSE, a[1], << >>) : a \in Answers}

\* A title, two things the user said, an answer that was not the last, and one.
AnyTurns ==
  {<<Title(<<Unit("title", 4, FALSE, None, << >>)>>),
     Message("u", "user", <<first>>), Message("v", "user", <<first>>),
     Message("u", "assistant", <<early>>), Message("u", "user", <<second>>),
     Message("u", "assistant", <<late>>)>> :
     first \in UserUnits(3), second \in UserUnits(5),
     early \in AnswerUnits(2), late \in AnswerUnits(6) \cup AnswerUnits(1)}

\* From a capsule with room for all to one with no room at all.
ASSUME CapsuleIsSound ==
  \A records \in AnyTurns : \A base \in {0, 8, 12, TargetLimit, HardLimit, HardLimit + 1} :
    LET capsule == Capsule(records, "u", base)
    IN  \/ capsule = None /\ base > HardLimit
        \/ IsFaithful(capsule, records, "u") /\ IsFilled(capsule, records, "u")

Drafts(evidence, rank) ==
  {Draft(states, states.object, mode, tentative, of, rank) :
     states \in {Likes("a"), Likes("b"), Method}, mode \in Modes, tentative \in BOOLEAN,
     of \in {{t} : t \in evidence} \cup {{t, u} : t \in evidence, u \in evidence}}

TextsOf(records) == {u.text : u \in UNION {Range(records[i].units) : i \in 2 .. 6}}

\* A draft that opens as a preference and states none that can be read.
Unread(evidence) ==
  [Draft(None, "?", "direct", FALSE, evidence, 2) EXCEPT !.opens = "preference"]

ASSUME DraftsRestOnCapsule ==
  \A records \in AnyTurns :
    LET capsule == Capsule(records, "u", 0)
        texts == TextsOf(records)
        drafts == Drafts(texts, 1) \cup {Unread({t}) : t \in texts}
    IN  RestsOnCapsule(Survivors(drafts, capsule, None), capsule)

\* Two drafts may be kept of any two and the second one in other words.
ASSUME AcceptedAreBest ==
  \A first \in UserUnits(3), second \in UserUnits(5) :
    LET capsule == Capsule(<<Message("u", "user", <<first, second>>)>>, "u", 0)
        texts == {first.text, second.text}
    IN  \A d \in Drafts(texts, 1), e \in Drafts(texts, 2) :
          LET drafts == {d, e, [e EXCEPT !.text = "other", !.rank = 3]}
          IN  IsBest(Accepted(drafts, capsule, None), Survivors(drafts, capsule, None))
=============================================================================
