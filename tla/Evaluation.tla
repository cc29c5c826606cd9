----------------------------- MODULE Evaluation -----------------------------
(***************************************************************************)
(* run_evaluation: the runner executes the plan of an experiment one run at*)
(* a time, then the runs are aggregated into metrics (aggregate.py), paired*)
(* into statistical evidence (stats.py) and gated (gate.py).               *)
(*                                                                         *)
(* One evaluator stands for any number of them: each adds the same two     *)
(* metrics.  A provider's answer is one of a small set of responses.       *)
(***************************************************************************)
EXTENDS Gate, Sequences, FiniteSetsExt

CONSTANTS
    Plans,             \* [caller, cases, repeats, thresholds, responses]: "cli"
                       \* (config.py) or "service" (execution_service.py), an
                       \* experiment, its policy by every metric one may name, and the
                       \* [passed, score, latency, cost] its successful runs can have
    MinPairsForCI      \* MIN_PAIRS_FOR_CI

ASSUME CIAssumption == MinPairsForCI \in Nat \ {0} /\ MinPairsForCI <= MinPairsToBlock

Rates   == {"success_rate", "ev.pass_rate", "ev.mean_score"}
Metrics == Rates \cup LowerIsBetter

(* The metrics that have a paired series under the same name; the cost       *)
(* series is called cost_usd.mean and matches no metric.                     *)
Paired == Rates \cup {"latency_ms.mean"}

ASSUME PlanAssumption ==
    \A p \in Plans :
        /\ p.cases \in Nat \ {0} /\ p.repeats \in Nat \ {0}
        /\ Metrics \subseteq DOMAIN p.thresholds
        /\ \A m \in Metrics : p.thresholds[m] \in Nat \cup {Ungated}
        /\ p.responses \subseteq [passed : BOOLEAN, score : Nat, latency : Nat, cost : Nat]

VARIABLES
    plan,        \* what is evaluated and gated
    stage,       \* where run_evaluation is, or how it ended
    runs,        \* the runs so far, in execution order
    evidence,    \* by metric, once computed
    reasons, advisories

vars == <<plan, stage, runs, evidence, reasons, advisories>>

----------------------------------------------------------------------------
(* The runner's plan: baseline then candidate; within a version the cases in *)
(* dataset order; within a case the repeats.                                 *)

thresholds == plan.thresholds

PerVersion == plan.cases * plan.repeats
PlanLength == 2 * PerVersion
Keys == (1..plan.cases) \X (0..plan.repeats - 1)

Version(i) == IF i <= PerVersion THEN "baseline" ELSE "candidate"

(* Mutant: the repeat index runs over both versions.                         *)
RepeatNotReset(i) ==
    <<((i - 1) % PerVersion) \div plan.repeats + 1, (i - 1) \div plan.cases>>

Key(i) == LET k == (i - 1) % PerVersion IN <<k \div plan.repeats + 1, k % plan.repeats>>

FailedRun == [error |-> TRUE, passed |-> FALSE, score |-> 0, latency |-> 0, cost |-> 0]

ScoredRun(r) == [error |-> FALSE, passed |-> r.passed, score |-> r.score,
                 latency |-> r.latency, cost |-> r.cost]

----------------------------------------------------------------------------
(* aggregate_results: rs is the sequence of all runs, v a version.           *)

Side(rs, v) == {i \in DOMAIN rs : Version(i) = v}
Succeeded(rs, v) == {i \in Side(rs, v) : ~ rs[i].error}

Fraction(a, b) == [num |-> a, den |-> b]

(* Mutant: the pass rate is over the successful runs.                        *)
FailuresNotCounted(rs, v) ==
    IF Succeeded(rs, v) = {} THEN Zero
    ELSE Fraction(Cardinality({i \in Succeeded(rs, v) : rs[i].passed}),
                  Cardinality(Succeeded(rs, v)))

SuccessRate(rs, v) == Fraction(Cardinality(Succeeded(rs, v)), Cardinality(Side(rs, v)))

PassRate(rs, v) == Fraction(Cardinality({i \in Succeeded(rs, v) : rs[i].passed}),
                            Cardinality(Side(rs, v)))

MeanScore(rs, v) ==
    Fraction(SumFunction([i \in Succeeded(rs, v) |-> rs[i].score]), Cardinality(Side(rs, v)))

LatencyMean(rs, v) ==
    IF Succeeded(rs, v) = {} THEN Zero
    ELSE Fraction(SumFunction([i \in Succeeded(rs, v) |-> rs[i].latency]),
                  Cardinality(Succeeded(rs, v)))

(* Nearest rank: the ceil(0.95 n)-th smallest.                               *)
LatencyP95(rs, v) ==
    LET ok == Succeeded(rs, v)
        rank == (95 * Cardinality(ok) + 99) \div 100
    IN  IF ok = {} THEN Zero
        ELSE Fraction(CHOOSE x \in {rs[i].latency : i \in ok} :
                          /\ Cardinality({i \in ok : rs[i].latency <= x}) >= rank
                          /\ Cardinality({i \in ok : rs[i].latency < x}) < rank, 1)

CostTotal(rs, v) == Fraction(SumFunction([i \in Side(rs, v) |-> rs[i].cost]), 1)

Value(rs, v, m) ==
    CASE m = "success_rate"    -> SuccessRate(rs, v)
      [] m = "ev.pass_rate"    -> PassRate(rs, v)
      [] m = "ev.mean_score"   -> MeanScore(rs, v)
      [] m = "latency_ms.mean" -> LatencyMean(rs, v)
      [] m = "latency_ms.p95"  -> LatencyP95(rs, v)
      [] m = "cost_usd.total"  -> CostTotal(rs, v)

----------------------------------------------------------------------------
(* paired_observations and metric_evidence.                                  *)

RunAt(rs, v, k) == rs[CHOOSE i \in Side(rs, v) : Key(i) = k]

Matched(rs) == {k \in Keys : /\ \E i \in Side(rs, "baseline") : Key(i) = k
                             /\ \E i \in Side(rs, "candidate") : Key(i) = k}

(* A pair counts for latency only when both sides succeeded.                 *)
Comparable(rs, m) ==
    IF m = "latency_ms.mean"
      THEN {k \in Matched(rs) : /\ ~ RunAt(rs, "baseline", k).error
                                /\ ~ RunAt(rs, "candidate", k).error}
      ELSE Matched(rs)

Observed(run, m) ==
    CASE m = "success_rate"    -> IF run.error THEN 0 ELSE 1
      [] m = "ev.pass_rate"    -> IF ~ run.error /\ run.passed THEN 1 ELSE 0
      [] m = "ev.mean_score"   -> IF run.error THEN 0 ELSE run.score
      [] m = "latency_ms.mean" -> run.latency

Diff(rs, m, k) == Observed(RunAt(rs, "candidate", k), m) - Observed(RunAt(rs, "baseline", k), m)
Diffs(rs, m) == {Diff(rs, m, k) : k \in Comparable(rs, m)}

(* Mutant: the mean of no observation is not guarded.                        *)
MeanOfNothing(rs, m) ==
    LET obs == [k \in Comparable(rs, m) |-> Observed(RunAt(rs, "baseline", k), m)]
    IN  Fraction(SumFunction(obs), Cardinality(Comparable(rs, m)))

BaselineMean(rs, m) ==
    LET obs == [k \in Comparable(rs, m) |-> Observed(RunAt(rs, "baseline", k), m)]
    IN  IF Comparable(rs, m) = {} THEN Zero
        ELSE Fraction(SumFunction(obs), Cardinality(Comparable(rs, m)))

(* paired_bootstrap_ci: equal differences give a point; otherwise resampling *)
(* may give any interval of means of n differences, in steps of 1/n.  A      *)
(* percentile interpolated between two of them is on one side of a boundary  *)
(* or the other, as one of the two is.                                       *)
Intervals(rs, m) ==
    LET n == Cardinality(Comparable(rs, m))
        D == Diffs(rs, m)
    IN  IF Cardinality(D) = 1 THEN {<<n * d, n * d>> : d \in D}
        ELSE {i \in ((n * Min(D))..(n * Max(D))) \X ((n * Min(D))..(n * Max(D))) : i[1] <= i[2]}

MetricEvidence(rs, m) ==
    LET n == Cardinality(Comparable(rs, m))
        Record(kind, low, high) ==
            [kind |-> kind, n_pairs |-> n, ref |-> BaselineMean(rs, m),
             low |-> low, high |-> high]
    IN  IF m \notin Paired THEN {NoEvidence}
        ELSE IF n < MinPairsForCI THEN {Record("no_ci", Zero, Zero)}
        ELSE {Record("ci", Fraction(i[1], n), Fraction(i[2], n)) : i \in Intervals(rs, m)}

----------------------------------------------------------------------------
Init ==
    /\ plan \in Plans
    /\ stage = "configured"
    /\ runs = <<>>
    /\ evidence = [m \in Metrics |-> NoEvidence]
    /\ reasons = {} /\ advisories = {}

(* load_config checks the policy against expected_metric_names before it     *)
(* returns; the execution service has no such check.                         *)
Accepts(who) == who = "cli" => UnknownMetrics(Metrics, thresholds) = {}

Begin ==
    /\ stage = "configured"
    /\ stage' = IF Accepts(plan.caller) THEN "running" ELSE "rejected"
    /\ UNCHANGED <<plan, runs, evidence, reasons, advisories>>

(* provider.complete and the evaluators, for the next run of the plan.  A    *)
(* ProviderError is a failed run; any other exception ends the evaluation.   *)
Execute ==
    /\ stage = "running"
    /\ Len(runs) < PlanLength
    /\ \/ /\ \E r \in plan.responses : runs' = Append(runs, ScoredRun(r))
          /\ UNCHANGED stage
       \/ /\ runs' = Append(runs, FailedRun)
          /\ UNCHANGED stage
       \/ /\ stage' = "raised"
          /\ UNCHANGED runs
    /\ UNCHANGED <<plan, evidence, reasons, advisories>>

(* aggregate_results, build_statistical_evidence, evaluate_gate.  Evidence   *)
(* of a metric without a threshold is read by nothing and left out.          *)
Conclude ==
    /\ stage = "running"
    /\ Len(runs) = PlanLength
    /\ LET base == [m \in Metrics |-> Value(runs, "baseline", m)]
           cand == [m \in Metrics |-> Value(runs, "candidate", m)]
           ev(a, b, c, d) ==
               [m \in Metrics |-> CASE m = "success_rate" -> a
                                    [] m = "ev.pass_rate" -> b
                                    [] m = "ev.mean_score" -> c
                                    [] m = "latency_ms.mean" -> d
                                    [] OTHER -> NoEvidence]
           Possible(m) == IF thresholds[m] = Ungated THEN {NoEvidence} ELSE MetricEvidence(runs, m)
       IN  IF UnknownMetrics(Metrics, thresholds) # {}
             THEN /\ stage' = "config_error"
                  /\ UNCHANGED <<evidence, reasons, advisories>>
             ELSE /\ \E a \in Possible("success_rate"), b \in Possible("ev.pass_rate"),
                        c \in Possible("ev.mean_score"), d \in Possible("latency_ms.mean") :
                         evidence' = ev(a, b, c, d)
                  /\ reasons' = Reasons(Metrics, base, cand, thresholds, evidence')
                  /\ advisories' = Advisories(Metrics, base, cand, thresholds, evidence')
                  /\ stage' = Decision(reasons')
    /\ UNCHANGED <<plan, runs>>

Ended == stage \in {"rejected", "raised", "config_error", "PASS", "BLOCK"}

Finished == Ended /\ UNCHANGED vars

Next == Begin \/ Execute \/ Conclude \/ Finished

Spec == Init /\ [][Next]_vars

----------------------------------------------------------------------------
RunRecords == {FailedRun} \cup {ScoredRun(r) : r \in plan.responses}

(* Types of the variables.                                                   *)
TypeOK ==
    /\ plan \in Plans
    /\ stage \in {"configured", "running", "rejected", "raised", "config_error", "PASS", "BLOCK"}
    /\ Len(runs) <= PlanLength
    /\ \A i \in DOMAIN runs : runs[i] \in RunRecords
    /\ \A m \in Metrics : evidence[m] \in EvidenceRecords
    /\ reasons \subseteq Metrics /\ advisories \subseteq Metrics

Decided == stage \in {"PASS", "BLOCK"}

Gated == {m \in Metrics : Decided /\ thresholds[m] # Ungated}

(* No two runs of a version share a case and repeat, and every pair is       *)
(* matched at the end: an execution alone never meets the unique constraint  *)
(* on evaluation_run, and pairing drops nothing.                             *)
EveryKeyOnce ==
    /\ \A i, j \in DOMAIN runs : Version(i) = Version(j) /\ Key(i) = Key(j) => i = j
    /\ Gated # {} => Matched(runs) = Keys

(* A metric with evidence blocks only if enough pairs were compared and some *)
(* pair itself moved past the tolerated boundary: noise cannot invent one.   *)
BlockHasWitness ==
    \A m \in reasons \cap Paired :
        LET ref == evidence[m].ref
            beyond(d) == IF Direction(m) = "higher_is_better"
                         THEN Scale * (d * ref.den) < -(thresholds[m] * ref.num)
                         ELSE Scale * (d * ref.den) > thresholds[m] * ref.num
        IN  /\ evidence[m].n_pairs >= MinPairsToBlock
            /\ \E k \in Comparable(runs, m) : beyond(Diff(runs, m, k))

(* The statistical guard only removes noise: when all pairs moved alike and  *)
(* there are enough of them, a breached threshold blocks.                    *)
UniformRegressionBlocks ==
    \A m \in Gated \cap Paired :
        /\ ThresholdBreached(Direction(m), Value(runs, "baseline", m),
                             Value(runs, "candidate", m), thresholds[m])
        /\ Cardinality(Comparable(runs, m)) >= MinPairsToBlock
        /\ Comparable(runs, m) = Keys
        /\ Cardinality(Diffs(runs, m)) = 1
        => m \in reasons

(* The two independent computations of a metric agree: with no pair dropped, *)
(* the evidence's reference and mean delta are the aggregated values the     *)
(* threshold is applied to.                                                  *)
EvidenceMatchesMetric ==
    \A m \in Gated \cap Paired :
        LET b == Value(runs, "baseline", m)
            c == Value(runs, "candidate", m)
            ref == evidence[m].ref
            total == SumFunction([k \in Keys |-> Diff(runs, m, k)])
        IN  Comparable(runs, m) = Keys =>
                /\ ref.num * b.den = b.num * ref.den
                /\ c.num * b.den - b.num * c.den = total * c.den

Failing(rs, i) == [rs EXCEPT ![i] = FailedRun]

(* A provider failure of the candidate never repairs a rate:                 *)
(* had one more of its runs failed, a breached threshold stays breached.     *)
FailureNeverHides ==
    \A m \in Gated \cap Rates : \A i \in Side(runs, "candidate") :
        ThresholdBreached(Direction(m), Value(runs, "baseline", m),
                          Value(runs, "candidate", m), thresholds[m])
        => ThresholdBreached(Direction(m), Value(runs, "baseline", m),
                             Value(Failing(runs, i), "candidate", m), thresholds[m])

(* The CLI never executes a run under a policy that names a metric the       *)
(* evaluation cannot produce.                                                *)
CliRejectsUnknownMetric ==
    plan.caller = "cli" /\ UnknownMetrics(Metrics, thresholds) # {} =>
        runs = <<>> /\ stage \in {"configured", "rejected"}

Cheaper(rs, i) == [rs EXCEPT ![i].cost = 0, ![i].latency = 0]

(* A baseline that costs or takes less, down to nothing, never turns a       *)
(* breached threshold into a kept one: the relative change is undefined at a *)
(* zero baseline, and the gate must not read that as no change.              *)
CheaperBaselineNeverHides ==
    \A m \in Gated \cap LowerIsBetter : \A i \in Succeeded(runs, "baseline") :
        ThresholdBreached(Direction(m), Value(runs, "baseline", m),
                          Value(runs, "candidate", m), thresholds[m])
        => ThresholdBreached(Direction(m), Value(Cheaper(runs, i), "baseline", m),
                             Value(runs, "candidate", m), thresholds[m])

(* One more failed candidate run never repairs a rate, and a cheaper baseline*)
(* never repairs a cost or latency.  A failed run has neither cost nor       *)
(* latency, so it may repair those, and the first half is about rates only.  *)
WorseNeverHides == FailureNeverHides /\ CheaperBaselineNeverHides
=============================================================================
