------------------------- MODULE MCCaptureBackfill -------------------------
(* Small instances of CaptureBackfill for TLC. *)
EXTENDS CaptureBackfill, CaptureSelection, TLC

CONSTANTS r1, r2, m1, m2

Base == [mode |-> "scanner_only", paused |-> FALSE, backfill |-> 3,
         incremental |-> 3, model |-> m1, most |-> 2, attempts |-> 2]

\* The model of the executable instead of an explicit one, and the background
\* runner with the same capsule and with a smaller one.
FewConfigs ==
  {Base, [Base EXCEPT !.model = None], [Base EXCEPT !.mode = "runner"],
   [Base EXCEPT !.mode = "runner", !.most = 1]}

\* Every backlog of up to four receipts of three tasks, with ranks in any order.
Backlogs ==
  UNION {{[i \in 1 .. n |-> [task |-> tasks[i], rank |-> ranks[i]]] :
            tasks \in [1 .. n -> 1 .. 3],
            ranks \in {f \in [1 .. n -> 1 .. n] :
                        \A i, j \in 1 .. n : f[i] = f[j] => i = j}} : n \in 0 .. 4}

ASSUME SelectionKeepsItsPromise ==
  \A ready \in Backlogs : \A limit \in 1 .. 4 :
    /\ CandidatesAreFair(ready, limit)
    /\ \A max \in 1 .. 4 : SelectionIsFair(ready, limit, max)

Capsules ==
  [strong : 0 .. 1, categories : 0 .. 1, signals : 0 .. 1, size : 0 .. 1,
   at : {1}, id : 1 .. 2]

ASSUME RanksAreAnOrder ==
  \A a, b \in Capsules :
    /\ a # b <=> (Outranks(a, b) \/ Outranks(b, a))
    /\ \A c \in Capsules :
         Outranks(a, b) /\ Outranks(b, c) => Outranks(a, c)

\* Up to four events on the output of the extractor.
Extractor == INSTANCE ExtractorCall WITH
  Texts <- {"none", "one", "malformed"}, Payloads <- {"none", "one"}, Empty <- "none"

ASSUME OutputIsReadSafely ==
  \A n \in 0 .. 4 : \A events \in [1 .. n -> Extractor!Events({m1})] :
    Extractor!CutIsNeverCheaper(events)

\* Only a probe that ended well vouches for a model, and it is the model the
\* process reported whenever it reported one.
ASSUME ProbeReportsWhatItSaw ==
  \A n \in 0 .. 2 : \A events \in [1 .. n -> Extractor!Events({m1, m2})] :
  \A ending \in Extractor!Endings : \A explicit \in {m1, None} :
    LET smoke == [ending |-> ending, events |-> events]
        model == Extractor!Probe("zero", "zero", smoke, smoke, explicit)
    IN  model # None => /\ ending = "zero" /\ Extractor!Event("message", "none") \in Range(events)
                        /\ \A e \in Range(events) :
                             e.kind = "thread" => e.value \in {model, None}

Symmetric == Permutations({r1, r2})
=============================================================================
