--------------------------- MODULE ExtractorCall ---------------------------
(***************************************************************************)
(* One call of the external extractor: agc_runtime/codex_extractor.py.  A  *)
(* run of the process is a record of how it ended and of the events on its *)
(* output; what it says is abstracted to model values.                     *)
(***************************************************************************)
EXTENDS Naturals, FiniteSets, Sequences, SequencesExt

CONSTANTS
  Texts,     \* the final messages a process may print
  Payloads,  \* those of them that are well-formed answers
  Empty,     \* the payload without drafts
  None

\* The supported events: a thread with or without metadata, a turn, an item
\* -- the message or one that is passed over -- and the usage.  "bad" is any
\* line that is not of these forms.
Event(kind, value) == [kind |-> kind, value |-> value]

\* Model and provider are part of the metadata, or there are none.
Events(models) ==
  {Event("thread", m) : m \in models \cup {None}}
    \cup {Event("message", t) : t \in Texts}
    \cup {Event("usage", u) : u \in {1, 2, None}}
    \cup {Event(k, None) : k \in {"turn", "passed", "bad"}}

Values(events, kind) ==
  LET of == SelectSeq(events, LAMBDA e : e.kind = kind)
  IN  [i \in DOMAIN of |-> of[i].value]

Refused == [ok |-> FALSE, payload |-> None, usage |-> None, model |-> None]

\* _parse_events: the order of the events does not matter, their number does.
Parse(events) ==
  LET threads == Values(events, "thread")
      messages == ToSet(Values(events, "message"))
      usages == Values(events, "usage")
      text == CHOOSE t \in messages : TRUE
  IN  IF \/ Values(events, "bad") # << >>
         \/ Len(threads) # 1 \/ Len(Values(events, "turn")) > 1
         \/ Cardinality(messages) # 1 \/ Len(usages) > 1
         \/ text \notin Payloads
      THEN Refused
      ELSE [ok |-> TRUE, payload |-> text, model |-> threads[1],
            usage |-> IF usages = << >> THEN None ELSE usages[1]]

\* _run: how a process ends.  It is killed when it prints too much or runs
\* too long; what it had printed until then is kept.
Endings == {"spawn_failed", "timed_out", "over_limit", "nonzero", "zero"}

\* extract: a failure is told by its code and never has a usage.
Extraction(ending, events) ==
  IF ending # "zero" THEN Refused
  ELSE [Parse(events) EXCEPT !.model = None]

\* probe_capabilities: the version, the flags of the help text, and a call
\* without content that is repeated once if it takes too long.
Smoke(first, second) == IF first.ending = "timed_out" THEN second ELSE first

\* The model and provider the process reports, or else the explicit model.
\* Without either, or with drafts from no content, there is no probe.
Probe(version, help, first, second, explicit) ==
  LET smoke == Smoke(first, second)
      parsed == Parse(smoke.events)
      model == IF parsed.model = None THEN explicit ELSE parsed.model
  IN  IF /\ version = "zero" /\ help = "zero" /\ smoke.ending = "zero"
         /\ parsed.ok /\ parsed.payload = Empty /\ model # None
      THEN model ELSE None

-----------------------------------------------------------------------------
(* What a parse promises                                                   *)

\* Output that was cut off is refused, or says the same and at most leaves the
\* usage unknown: it never shows another answer or a smaller usage.
CutIsNeverCheaper(events) ==
  \A n \in 0 .. Len(events) :
    LET cut == Parse(SubSeq(events, 1, n))
    IN  Parse(events).ok /\ cut.ok =>
          /\ cut.payload = Parse(events).payload
          /\ cut.usage \in {None, Parse(events).usage}

=============================================================================
