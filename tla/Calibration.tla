---------------------------- MODULE Calibration ----------------------------
(***************************************************************************)
(* Calibrating an LLM judge (judge.py, calibration.py): the judge answers  *)
(* each human-labeled example or fails on it, and its agreement with the   *)
(* labels is counted over the answers.                                     *)
(*                                                                         *)
(* A ratio is <<numerator, denominator>>, an undefined one <<>>.           *)
(***************************************************************************)
EXTENDS Records

Undefined == <<>>

CalibrationSchema ==
    Schema({"provider", "model", "examples"},
           [name |-> Null, temperature |-> Null, base_url |-> Null],
           {"id", "created_at", "judge_provider", "judge_model", "judge_name",
            "judge_temperature", "rubric_id", "metrics", "cases"})

ExampleSchema == Schema({"input", "output", "human_pass"}, [reference |-> Null], {})

ValidExample(e) == Written(e.input) /\ Written(e.output)

(* What a judge's reply can be: a verdict, with a score or none; a JSON      *)
(* object with something else in either place; or no JSON object.  A         *)
(* reasoning that is missing, blank or no text is "none".                    *)
Replies == [object : BOOLEAN, verdict : {"pass", "fail", "other"},
            score : {"none", "in_range", "out_of_range", "not_a_number"},
            reasoning : {"none", "text"}]

Parsed(reply) ==
    /\ reply.object
    /\ reply.verdict \in {"pass", "fail"}
    /\ reply.score \in {"none", "in_range"}

(* A reply without a score is a whole or no point.                           *)
parse_judge_verdict(reply) ==
    [passed |-> reply.verdict = "pass",
     score  |-> IF reply.score = "in_range" THEN "graded"
                ELSE IF reply.verdict = "pass" THEN "one" ELSE "zero",
     reasoning |-> IF reply.reasoning = "text" THEN "text" ELSE Null]

(* The outcomes of LLMJudge.judge that a calibration goes on from: a verdict, *)
(* the JudgeError of a reply that does not parse, or the provider's own error. *)
Verdicts == {parse_judge_verdict(r) : r \in {r \in Replies : Parsed(r)}}
Failures == {[error |-> "provider_error"], [error |-> "judge_error"]}

(* A case keeps the example and the verdict, or the error instead of one.    *)
CalibrationCase(example, outcome) ==
    LET common == [input |-> example.input, output |-> example.output,
                   reference |-> example.reference, human_pass |-> example.human_pass]
    IN  Merge(common,
              IF "error" \in DOMAIN outcome
                THEN [judge_pass |-> Null, judge_score |-> Null, judge_reasoning |-> Null,
                      error |-> outcome.error]
                ELSE [judge_pass |-> IF outcome.passed THEN "pass" ELSE "fail",
                      judge_score |-> outcome.score, judge_reasoning |-> outcome.reasoning,
                      error |-> Null])

CalibrationCaseFields ==
    {"input", "output", "reference", "human_pass", "judge_pass", "judge_score",
     "judge_reasoning", "error"}

ValidCalibrationCase(c) == Unset(c.judge_pass) <=> ~ Unset(c.error)

Ratio(a, b) == IF b = 0 THEN Undefined ELSE <<a, b>>

(* Mutant: a failed judge counts as having said fail.                        *)
FailureCountsAsFail(cases) ==
    LET Count(human, judge) ==
            Cardinality({i \in DOMAIN cases : /\ cases[i].human_pass = human
                                              /\ (cases[i].judge_pass = "pass") = judge})
        tp == Count(TRUE, TRUE)    tn == Count(FALSE, FALSE)
        fp == Count(FALSE, TRUE)   fn == Count(TRUE, FALSE)
    IN  [total |-> Len(cases), scored |-> Len(cases), failures |-> 0,
         agreements |-> tp + tn, agreement_rate |-> Ratio(tp + tn, Len(cases)),
         true_positives |-> tp, true_negatives |-> tn,
         false_positives |-> fp, false_negatives |-> fn,
         precision |-> Ratio(tp, tp + fp), recall |-> Ratio(tp, tp + fn),
         f1 |-> Ratio(2 * tp, 2 * tp + fp + fn)]

compute_metrics(cases) ==
    LET scored == {i \in DOMAIN cases : ~ Unset(cases[i].judge_pass)}
        Count(human, judge) ==
            Cardinality({i \in scored : cases[i].human_pass = human /\ cases[i].judge_pass = judge})
        tp == Count(TRUE, "pass")    tn == Count(FALSE, "fail")
        fp == Count(FALSE, "pass")   fn == Count(TRUE, "fail")
    IN  [total |-> Len(cases), scored |-> Cardinality(scored),
         failures |-> Len(cases) - Cardinality(scored),
         agreements |-> tp + tn, agreement_rate |-> Ratio(tp + tn, Cardinality(scored)),
         true_positives |-> tp, true_negatives |-> tn,
         false_positives |-> fp, false_negatives |-> fn,
         precision |-> Ratio(tp, tp + fp), recall |-> Ratio(tp, tp + fn),
         f1 |-> IF tp = 0 THEN Undefined ELSE Ratio(2 * tp, 2 * tp + fp + fn)]

ValidMetrics(m) ==
    /\ \A f \in {"total", "scored", "failures", "agreements"} : m[f] >= 0
    /\ m.scored + m.failures = m.total
    /\ m.true_positives + m.true_negatives + m.false_positives + m.false_negatives = m.scored

ValidCalibration(v) ==
    /\ v.judge_provider \in ProviderNames
    /\ Written(v.judge_model) /\ Written(v.judge_name)
    /\ Unsigned(v.judge_temperature)
    /\ v.metrics.total = Len(v.cases)

(* The metrics are columns of the calibration's own row.                     *)
MetricFields ==
    {"total", "scored", "failures", "agreements", "agreement_rate", "true_positives",
     "true_negatives", "false_positives", "false_negatives", "precision", "recall", "f1"}

CalibrationMapping ==
    InPlace({"id", "created_at", "judge_provider", "judge_model", "judge_name",
             "judge_temperature", "rubric_id"})

CalibrationRow(v) == Merge(Restrict(v.metrics, MetricFields), ToRow(CalibrationMapping, v))

CalibrationCaseRows(v) == {Merge([calibration_id |-> v.id], row) : row \in Numbered(v.cases)}

CalibrationFromRows(row, caseRows) ==
    LET rows == ByPosition({r \in caseRows : r.calibration_id = row.id})
    IN  Merge([metrics |-> Restrict(row, MetricFields),
               cases   |-> [i \in DOMAIN rows |-> Restrict(rows[i], CalibrationCaseFields)]],
              FromRow(CalibrationMapping, row))

CalibrationTable(row) ==
    /\ Unsigned(row.judge_temperature)
    /\ row.total >= 0 /\ row.scored >= 0 /\ row.failures >= 0

CalibrationCaseTable(row) == Unset(row.judge_pass) <=> ~ Unset(row.error)
=============================================================================
