---------------------------- MODULE StoredResult ----------------------------
(***************************************************************************)
(* What an evaluation stores and what is read back: the runs with their    *)
(* scores, and the result with its metrics and evidence.  The decision is  *)
(* not stored: GET /results computes it again from the rows and the policy.*)
(*                                                                         *)
(* A row is a record of its columns.  Ids are positions in the runs; an    *)
(* optional number is a sequence of at most one.  Of a sample summary only *)
(* the baseline's mean is kept, which is all the gate reads.               *)
(***************************************************************************)
EXTENDS Diagnostics, Records

CONSTANT FullScore    \* a score of 1.0, in the units of a response's score

ASSUME FullScoreAssumption == FullScore \in Nat \ {0}

(* EvaluatorScore refuses a score above 1 when an evaluator constructs it.   *)
ASSUME ScoreAssumption == \A p \in Plans : \A r \in p.responses : r.score <= FullScore

NoValue == <<>>

(* EvaluationRun and the EvaluatorScores of its CaseResult; a failed run has *)
(* a case result without scores.                                             *)
RunRow(i) ==
    [id |-> i, system_version_id |-> Version(i), case_id |-> Key(i)[1],
     repeat_index |-> Key(i)[2], error |-> runs[i].error,
     cost_usd |-> runs[i].cost, latency_ms |-> runs[i].latency]

Score(run) == [evaluator |-> Evaluator, score |-> run.score, passed |-> run.passed]

ScoreRows(i) ==
    LET scores == IF runs[i].error THEN <<>> ELSE <<Score(runs[i])>>
    IN  {Merge([case_result_id |-> i], row) : row \in Numbered(scores)}

UsageAdmitted(row) == row.cost_usd >= 0 /\ row.latency_ms >= 0

RunTable(rows) ==
    /\ \A r \in rows : r.repeat_index >= 0 /\ UsageAdmitted(r)
    /\ \A r, s \in rows : /\ r.system_version_id = s.system_version_id
                          /\ r.case_id = s.case_id
                          /\ r.repeat_index = s.repeat_index
                          => r = s

ScoreTable(rows) ==
    /\ \A r \in rows : r.score \in 0..FullScore
    /\ \A r, s \in rows : /\ r.case_result_id = s.case_result_id
                          /\ r.evaluator = s.evaluator \/ r.position = s.position
                          => r = s

RunFromRows(row, scoreRows) ==
    LET scores == ByPosition({s \in scoreRows : s.case_result_id = row.id})
    IN  IF row.error THEN FailedRun
        ELSE [error |-> FALSE, passed |-> scores[1].passed, score |-> scores[1].score,
              latency |-> row.latency_ms, cost |-> row.cost_usd]

----------------------------------------------------------------------------
(* EvaluationResult: the metrics in the order of expected_metric_names, and  *)
(* the evidence of those that have a paired series.                          *)

MetricOrder == <<"success_rate", "ev.pass_rate", "ev.mean_score",
                 "latency_ms.mean", "latency_ms.p95", "cost_usd.total">>

Comparison(m) ==
    [metric |-> m, baseline_value |-> Value(runs, "baseline", m),
     candidate_value |-> Value(runs, "candidate", m)]

(* The evidence of a metric, if it has a paired series that is read.         *)
Recorded(m) ==
    IF evidence[m].kind = "none" THEN <<>> ELSE <<[metric |-> m, of |-> evidence[m]]>>

Result ==
    [metrics  |-> [i \in DOMAIN MetricOrder |-> Comparison(MetricOrder[i])],
     evidence |-> Recorded("success_rate") \o Recorded("ev.pass_rate")
                      \o Recorded("ev.mean_score") \o Recorded("latency_ms.mean")]

EvidenceColumns(e) ==
    LET bound(x) == IF e.of.kind = "no_ci" THEN NoValue ELSE <<x>>
    IN  [metric |-> e.metric, n_pairs |-> e.of.n_pairs, baseline_mean |-> e.of.ref,
         ci_low |-> bound(e.of.low), ci_high |-> bound(e.of.high),
         insufficient_evidence |-> e.of.kind = "no_ci"]

(* Mutant: the upper bound is read from the column of the lower one.         *)
LowBoundTwice(row) ==
    [metric |-> row.metric,
     of |-> [kind    |-> IF row.insufficient_evidence THEN "no_ci" ELSE "ci",
             n_pairs |-> row.n_pairs, ref |-> row.baseline_mean,
             low  |-> IF row.ci_low = NoValue THEN Zero ELSE row.ci_low[1],
             high |-> IF row.ci_low = NoValue THEN Zero ELSE row.ci_low[1]]]

EvidenceFromRow(row) ==
    [metric |-> row.metric,
     of |-> [kind    |-> IF row.insufficient_evidence THEN "no_ci" ELSE "ci",
             n_pairs |-> row.n_pairs, ref |-> row.baseline_mean,
             low  |-> IF row.ci_low = NoValue THEN Zero ELSE row.ci_low[1],
             high |-> IF row.ci_high = NoValue THEN Zero ELSE row.ci_high[1]]]

MetricRows(result) == Numbered(result.metrics)

EvidenceRows(result) ==
    Numbered([i \in DOMAIN result.evidence |-> EvidenceColumns(result.evidence[i])])

(* The primary key of both tables is the result and the metric.              *)
OneRowPerMetric(rows) ==
    \A r, s \in rows : r.metric = s.metric \/ r.position = s.position => r = s

MetricTable(rows) == OneRowPerMetric(rows)

EvidenceTable(rows) == OneRowPerMetric(rows) /\ \A r \in rows : r.n_pairs >= 0

NotAbove(a, b) == a.num * b.den <= b.num * a.den

(* MetricEvidence.__post_init__, which runs again on every read.             *)
ValidEvidence(row) ==
    /\ row.n_pairs >= 0
    /\ row.ci_low = NoValue <=> row.ci_high = NoValue
    /\ row.ci_low # NoValue => NotAbove(row.ci_low[1], row.ci_high[1])

ResultFromRows(metricRows, evidenceRows) ==
    LET ms == ByPosition(metricRows)
        es == ByPosition(evidenceRows)
    IN  [metrics  |-> [i \in DOMAIN ms |->
                          [metric |-> ms[i].metric, baseline_value |-> ms[i].baseline_value,
                           candidate_value |-> ms[i].candidate_value]],
         evidence |-> [i \in DOMAIN es |-> EvidenceFromRow(es[i])]]

----------------------------------------------------------------------------
(* evaluate_gate on a result, and the metric lines of an answer.             *)

GateOf(result) ==
    LET names   == {c.metric : c \in Range(result.metrics)}
        line(m) == CHOOSE c \in Range(result.metrics) : c.metric = m
        base    == [m \in names |-> line(m).baseline_value]
        cand    == [m \in names |-> line(m).candidate_value]
        ev      == [m \in names |->
                       IF \E e \in Range(result.evidence) : e.metric = m
                         THEN (CHOOSE e \in Range(result.evidence) : e.metric = m).of
                         ELSE NoEvidence]
    IN  [reasons    |-> Reasons(names, base, cand, thresholds, ev),
         advisories |-> Advisories(names, base, cand, thresholds, ev)]

MetricLines(result, gate) ==
    [i \in DOMAIN result.metrics |->
        LET c == result.metrics[i]
        IN  [line         |-> c,
             direction    |-> Direction(c.metric),
             regression   |-> c.metric \in gate.reasons,
             held_back    |-> c.metric \in gate.advisories]]

Answer(result, gate) ==
    [decision |-> Decision(gate.reasons), reasons |-> gate.reasons,
     advisories |-> gate.advisories, metrics |-> MetricLines(result, gate),
     evidence |-> result.evidence]

(* RunResponse: from the evaluation itself.                                  *)
RunResponse ==
    [Answer(Result, [reasons |-> reasons, advisories |-> advisories]) EXCEPT !.decision = stage]

(* EvaluationResultRead: from the rows and the policy.                       *)
EvaluationResultRead(metricRows, evidenceRows) ==
    LET result == ResultFromRows(metricRows, evidenceRows)
    IN  Answer(result, GateOf(result))

----------------------------------------------------------------------------
(* Everything an evaluation decided is storable, and reading it back gives   *)
(* the decision, reasons, advisories, metric lines and evidence of the run's *)
(* own response, and to the diagnostics the very runs that were gated: a     *)
(* refreshed view matches the original one.                                  *)
RefreshMatchesResponse ==
    Decided =>
        LET runRows   == {RunRow(i) : i \in DOMAIN runs}
            scoreRows == UNION {ScoreRows(i) : i \in DOMAIN runs}
            metricRows   == MetricRows(Result)
            evidenceRows == EvidenceRows(Result)
            at(i) == CHOOSE r \in runRows : /\ r.system_version_id = Version(i)
                                            /\ <<r.case_id, r.repeat_index>> = Key(i)
        IN  /\ RunTable(runRows) /\ ScoreTable(scoreRows)
            /\ MetricTable(metricRows) /\ EvidenceTable(evidenceRows)
            /\ \A row \in evidenceRows : ValidEvidence(row)
            /\ EvaluationResultRead(metricRows, evidenceRows) = RunResponse
            /\ \A i \in DOMAIN runs : RunFromRows(at(i), scoreRows) = runs[i]
=============================================================================
