------------------------------ MODULE MCRootLock ------------------------------
(* Two instances side by side: the lock files themselves, and the clean-up of *)
(* metrics results, which rests on what the root lock promises.  A behavior   *)
(* is of one of the two parts, and the other stands still.  Experiments, which *)
(* keep nothing, are checked beside them.                                      *)
EXTENDS FileLock, MetricsCleanup, CaptureExperiment, TLC

CONSTANTS
  l1, l2, l3, r1,     \* processes of this host and of another one
  e1, e2, u, d1, d2   \* evaluators, a user, output directories

VARIABLE part

\* The two steps of one case: required_claims, then align_candidates.
TwoSteps == <<0, 1>>

\* The second evaluator is given the first one's directory or another.
SameOrOther == (e1 :> {d1}) @@ (e2 :> {d1, d2})

PartsInit == part \in {"lock", "metrics"} /\ Init /\ MetricsInit

LockPart(A) == part = "lock" /\ A /\ UNCHANGED <<part, mvars>>
MetricsPart(A) == part = "metrics" /\ A /\ UNCHANGED <<part, vars>>

PartsSpec ==
  /\ PartsInit
  /\ [][LockPart(Next) \/ MetricsPart(MetricsNext)]_<<part, vars, mvars>>
  /\ \A p \in Evaluators : WF_mvars(MetricsPart(EvaluatorStep(p)))
  /\ WF_mvars(MetricsPart(UserStep(u)))
-------------------------------------------------------------------------------

CaseOf(case, family, input, split) ==
  [case |-> case, family |-> family, input |-> input, split |-> split]

Suites ==
  LET cases == {CaseOf(c, f, i, s) : c \in {"a", "b", "c"}, f \in {1, 2}, i \in {1, 2},
                                     s \in {"development", "holdout"}}
  IN  UNION {[1 .. n -> cases] : n \in 0 .. 3}

ASSUME SuitesAreApart == \A cases \in Suites : SplitsAreApart(cases)

\* Two cases, two prompts, and an extractor that may fail for one input.
TwoCases == <<CaseOf("b", 1, 1, "validation"), CaseOf("a", 2, 2, "validation"),
              CaseOf("c", 3, 3, "development")>>

RunsOf(prompt, took) ==
  {Batch(TwoCases, "validation", "model", prompt, outputs, took) :
     outputs \in [1 .. 3 -> {prompt, Unset}]}

Runs == RunsOf("old", 1) \cup RunsOf("new", 2)
          \cup {Batch(TwoCases, "development", "model", "old", <<"x", "x", "x">>, 3)}

Findings == [long_term_errors : 0 .. 1, durable_omissions : 0 .. 1, unsupported_claims : {0},
             classification_errors : {0}]

RowsOf(run, found) ==
  LET items == SetToSeq(run.body.items)
  IN  [i \in DOMAIN items |->
         [run |-> run.id, case |-> items[i].case, ref |-> items[i].ref, metrics |-> found[i]]]

Assessments(baseline, candidate) ==
  {RowsOf(baseline, <<a, b>>) \o RowsOf(candidate, <<c, c>>) : a, b, c \in Findings}
    \cup {<< >>, RowsOf(baseline, [i \in 1 .. 2 |-> [metric \in Metrics |-> 0]])}

ASSUME MayRun(TwoCases, "validation") /\ ~MayRun(TwoCases, "holdout")

ASSUME ComparisonsAreFair ==
  \A baseline, candidate \in Runs : AreComparable(baseline, candidate) =>
    \A rows \in Assessments(baseline, candidate) : ComparisonIsFair(baseline, candidate, rows)

\* Rounds that follow each other or rounds of other cases, evaluated whole, in
\* part, or by another profile, with results that were not all traced.
ASSUME RoundsAreComplete ==
  \A baseline, candidate \in Runs :
    AreComparable(baseline, candidate) =>
      \A rows \in {r \in Assessments(baseline, candidate) : MayCompare(baseline, candidate, r)} :
        LET report == Report(baseline, candidate, rows)
            of(run, profile) == Evaluation(run, profile, [case \in CasesOf(run) |-> case])
            results == {<<run.id, case>> : run \in {baseline, candidate}, case \in {"a", "b"}}
        IN  \A previous \in {Unset, Receipt(report, "before", Unset),
                              Sealed([Receipt(report, "before", Unset).body EXCEPT
                                        !.context = Unset])} :
            \A other \in {of(candidate, "p"), of(candidate, "q"),
                           [of(candidate, "p") EXCEPT !.body.items = {}]} :
            \A traced \in {results, {}} :
              LET evaluations == <<of(baseline, "p"), other>>
                  receipt == Receipt(report, "lesson", previous)
              IN  /\ OnlyCompleteRoundsAreKept(report, "lesson", previous, evaluations,
                                               results, traced)
                  /\ MaySave(receipt, report, evaluations, results, traced)
                       <=> /\ ~HasErrors(baseline) /\ ~HasErrors(candidate)
                           /\ other = of(candidate, "p") /\ traced = results
                  /\ IsKept(<< >>, receipt, evaluations)
                  /\ ~IsKept(receipt.id :> evaluations, receipt, << >>)
===============================================================================
