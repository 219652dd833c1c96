------------------------- MODULE CaptureExperiment -------------------------
(***************************************************************************)
(* Experiments with the prompt of the extractor on synthetic cases         *)
(* (capture_experiment.py) and the record of a round that is kept in a     *)
(* Wiki (capture_experiment_integration.py).  Records are passed from hand *)
(* to hand; each carries a digest of its content under which later ones    *)
(* name it.  A digest is modelled by the content itself, so a record that  *)
(* was changed is one whose id is not its body.                            *)
(*                                                                         *)
(* The evaluation service, its store, the traces and the Wiki are not part *)
(* of the repository: what a batch refers to there is given as two sets.   *)
(***************************************************************************)
EXTENDS Naturals, Sequences, FiniteSets, SequencesExt

CONSTANT Unset   \* no output, no totals, no earlier round

Metrics == {"long_term_errors", "durable_omissions", "unsupported_claims",
            "classification_errors"}

Sealed(body) == [id |-> body, body |-> body]

IsSealed(record) == record.id = record.body

-----------------------------------------------------------------------------
(* Cases and runs                                                          *)

\* What validate_suite has registered for a name that earlier cases had: the
\* split of the last of them.
Registered(cases, i, key) ==
  LET earlier == {j \in 1 .. i - 1 : cases[j][key] = cases[i][key]}
  IN  IF earlier = {} THEN Unset
      ELSE cases[CHOOSE j \in earlier : \A k \in earlier : k <= j].split

\* validate_suite.
IsSuite(cases) ==
  /\ cases # << >>
  /\ \A i \in DOMAIN cases :
       /\ Registered(cases, i, "case") = Unset
       /\ \A key \in {"family", "input"} :
            Registered(cases, i, key) \in {Unset, cases[i].split}

\* Answered says of each input what the extractor returns, Unset if it fails.
\* A holdout is never run here, nor a split without cases.
MayRun(cases, split) ==
  /\ IsSuite(cases)
  /\ split \in {"development", "validation"}
  /\ \E i \in DOMAIN cases : cases[i].split = split

\* An item is known under what it says.
Item(case, output) ==
  [case |-> case, output |-> output, ref |-> <<case, output>>]

\* run_batch.  The times it took tell two runs apart that had the same outputs.
Batch(cases, split, conditions, prompt, Answered, took) ==
  LET selected == {cases[i] : i \in {j \in DOMAIN cases : cases[j].split = split}}
  IN  Sealed([split |-> split, dataset |-> selected, conditions |-> conditions,
              prompt |-> prompt, took |-> took,
              items |-> {Item(c.case, Answered[c.input]) : c \in selected}])

CasesOf(run) == {item.case : item \in run.body.items}

\* _check_run.
IsRun(run) ==
  /\ IsSealed(run) /\ run.body.items # {}
  /\ Cardinality(CasesOf(run)) = Cardinality(run.body.items)
  /\ \A item \in run.body.items : item.ref = <<item.case, item.output>>

-----------------------------------------------------------------------------
(* Comparisons                                                             *)

Context(run) ==
  [dataset |-> run.body.dataset, split |-> run.body.split,
   conditions |-> run.body.conditions]

\* Same cases and conditions, whatever the prompt.
AreComparable(baseline, candidate) ==
  /\ IsRun(baseline) /\ IsRun(candidate)
  /\ Context(baseline) = Context(candidate)
  /\ CasesOf(baseline) = CasesOf(candidate)

HasErrors(run) == \E item \in run.body.items : item.output = Unset

\* Each output of both sides is assessed once, from what it says.
AreAssessed(baseline, candidate, rows) ==
  LET expected == UNION {{<<run.id, item.case, item.ref>> : item \in run.body.items} :
                           run \in {baseline, candidate}}
  IN  /\ baseline.id # candidate.id
      /\ Len(rows) = Cardinality(expected)
      /\ {<<rows[i].run, rows[i].case, rows[i].ref>> : i \in DOMAIN rows} = expected

\* What the rows find on one side, of one metric.
Total(run, rows, metric) ==
  FoldSeq(LAMBDA row, sum : sum + row.metrics[metric], 0,
          SelectSeq(rows, LAMBDA row : row.run = run.id))

Totals(run, rows) == [metric \in Metrics |-> Total(run, rows, metric)]

Recommendation(before, after) ==
  IF \E metric \in Metrics : after[metric] > before[metric] THEN "reject"
  ELSE IF after["long_term_errors"] < before["long_term_errors"] THEN "rerun_required"
  ELSE "inconclusive"

\* compare_runs accepts its arguments; with a failed item the assessments are
\* not even looked at.
MayCompare(baseline, candidate, rows) ==
  /\ AreComparable(baseline, candidate)
  /\ HasErrors(baseline) \/ HasErrors(candidate) \/ AreAssessed(baseline, candidate, rows)

Report(baseline, candidate, rows) ==
  LET failed == HasErrors(baseline) \/ HasErrors(candidate)
      before == Totals(baseline, rows)
      after == Totals(candidate, rows)
  IN  Sealed([baseline |-> baseline.id, candidate |-> candidate.id,
              context |-> Context(baseline), count |-> Cardinality(CasesOf(baseline)),
              deltas |-> IF failed THEN {} ELSE CasesOf(baseline),
              totals |-> IF failed THEN Unset ELSE <<before, after>>,
              recommendation |-> IF failed THEN "inconclusive" ELSE Recommendation(before, after)])

-----------------------------------------------------------------------------
(* Rounds                                                                  *)

\* round_receipt: of an earlier round, if there is one, in the same context.
MayReceive(report, previous) ==
  /\ IsSealed(report)
  /\ previous # Unset => IsSealed(previous) /\ previous.body.context = report.body.context

Receipt(report, lesson, previous) ==
  Sealed([report |-> report.id, recommendation |-> report.body.recommendation,
          lesson |-> lesson, context |-> report.body.context,
          previous |-> IF previous = Unset THEN Unset ELSE previous.id])

\* evaluate_batch, for a run without failures: a result of each case, stored
\* and traced.
Evaluation(run, profile, ResultOf) ==
  Sealed([run |-> run.id, profile |-> profile,
          items |-> {[case |-> case, result |-> ResultOf[case]] : case \in CasesOf(run)}])

IsCovered(evaluation, report, stored, traced) ==
  LET items == evaluation.body.items
      results == {<<evaluation.body.run, item.result>> : item \in items}
  IN  /\ IsSealed(evaluation)
      /\ Cardinality(items) = report.body.count
      /\ {item.case : item \in items} = report.body.deltas
      /\ results \subseteq stored \cap traced

\* save_round, up to the Wiki.
MaySave(receipt, report, evaluations, stored, traced) ==
  /\ IsSealed(receipt) /\ IsSealed(report) /\ receipt.body.report = report.id
  /\ Len(evaluations) = 2
  /\ {e.body.run : e \in Range(evaluations)} = {report.body.baseline, report.body.candidate}
  /\ Cardinality({e.body.profile : e \in Range(evaluations)}) = 1
  /\ \A e \in Range(evaluations) : IsCovered(e, report, stored, traced)

\* A record is only ever created: another one under the same receipt is refused.
IsKept(wiki, receipt, content) == receipt.id \notin DOMAIN wiki \/ wiki[receipt.id] = content

-----------------------------------------------------------------------------
(* Properties                                                              *)

\* To compare each case with the last one before it that has the same family
\* or input is enough to keep the splits apart.
SplitsAreApart(cases) ==
  IsSuite(cases) <=>
    /\ cases # << >>
    /\ \A i, j \in DOMAIN cases : i # j =>
         /\ cases[i].case # cases[j].case
         /\ cases[i].family = cases[j].family \/ cases[i].input = cases[j].input
              => cases[i].split = cases[j].split

\* A prompt that is called better than another one is not called so the other
\* way round, on the same assessments; and where both ways are inconclusive the
\* totals are equal or an extraction failed.
ComparisonIsFair(baseline, candidate, rows) ==
  LET forth == Report(baseline, candidate, rows).body
      back == Report(candidate, baseline, rows).body
  IN  MayCompare(baseline, candidate, rows) =>
        /\ MayCompare(candidate, baseline, rows)
        /\ forth.recommendation = "rerun_required" => back.recommendation = "reject"
        /\ forth.recommendation = "inconclusive" /\ back.recommendation = "inconclusive"
             => forth.totals = Unset \/ forth.totals[1] = forth.totals[2]

\* Only a round whose every output was produced, assessed and evaluated is kept
\* (so the lesson of a round in which an extraction failed never is), and all
\* that one goes back to is of the same cases and conditions.
OnlyCompleteRoundsAreKept(report, lesson, previous, evaluations, stored, traced) ==
  LET receipt == Receipt(report, lesson, previous)
  IN  MayReceive(report, previous) /\ MaySave(receipt, report, evaluations, stored, traced) =>
        /\ report.body.totals # Unset
        /\ previous # Unset => previous.body.context = receipt.body.context
        /\ \A e \in Range(evaluations) :
             Cardinality({item.case : item \in e.body.items}) = report.body.count

=============================================================================
