-------------------------------- MODULE Gate --------------------------------
(***************************************************************************)
(* The release gate (gate.py): one verdict per metric from its baseline and*)
(* candidate values, the policy's threshold and the paired-bootstrap       *)
(* evidence; BLOCK when some verdict is a regression.                      *)
(*                                                                         *)
(* Values are exact fractions [num, den] with den > 0, thresholds whole    *)
(* numbers of 1/Scale, so every comparison is a product of integers. Float *)
(* rounding is not modelled.                                               *)
(***************************************************************************)
EXTENDS Integers

CONSTANTS
    Scale,             \* a threshold t stands for t / Scale
    MinPairsToBlock    \* MIN_PAIRS_TO_BLOCK

ASSUME ScaleAssumption == Scale \in Nat \ {0}
ASSUME MinPairsAssumption == MinPairsToBlock \in Nat

Fractions == [num : Int, den : Nat \ {0}]
Values    == [num : Nat, den : Nat \ {0}]

(* A metric the policy does not list has no threshold; listed thresholds are *)
(* not negative (ReleasePolicy.__post_init__).                               *)
Ungated == -1

LowerIsBetter == {"latency_ms.mean", "latency_ms.p95", "cost_usd.total"}

Direction(metric) ==
    IF metric \in LowerIsBetter THEN "lower_is_better" ELSE "higher_is_better"

(* Evidence: "none" for a metric without a paired series, "no_ci" below      *)
(* MIN_PAIRS_FOR_CI, otherwise the interval [low, high] of the paired delta  *)
(* and the baseline mean ref of the pairs it was computed from.              *)
EvidenceRecords == [kind : {"none", "no_ci", "ci"}, n_pairs : Nat, ref : Values,
                    low : Fractions, high : Fractions]

Zero == [num |-> 0, den |-> 1]

NoEvidence == [kind |-> "none", n_pairs |-> 0, ref |-> Zero, low |-> Zero, high |-> Zero]

(* Mutant: a zero baseline never breaches.                                   *)
ZeroBaselinePasses(direction, b, c, t) ==
    /\ t # Ungated /\ b.num # 0
    /\ IF direction = "higher_is_better"
         THEN Scale * (b.num * c.den - c.num * b.den) > t * (b.num * c.den)
         ELSE Scale * (c.num * b.den - b.num * c.den) > t * (b.num * c.den)

(* The adverse change, as a fraction of the baseline, exceeds the threshold; *)
(* any increase from a zero baseline of a lower-is-better metric does.       *)
ThresholdBreached(direction, b, c, t) ==
    /\ t # Ungated
    /\ IF direction = "higher_is_better"
         THEN b.num # 0 /\ Scale * (b.num * c.den - c.num * b.den) > t * (b.num * c.den)
         ELSE IF b.num = 0 THEN c.num # 0
              ELSE Scale * (c.num * b.den - b.num * c.den) > t * (b.num * c.den)

(* Mutant: the boundary of a higher-is-better metric is not mirrored.        *)
DirectionIgnored(ev, direction, t) ==
    Scale * (ev.low.num * ev.ref.den) > t * (ev.ref.num * ev.low.den)

(* The whole interval lies beyond t * ref on the adverse side.               *)
CIConfirmsRegression(ev, direction, t) ==
    IF direction = "higher_is_better"
      THEN Scale * (ev.high.num * ev.ref.den) < -(t * (ev.ref.num * ev.high.den))
      ELSE Scale * (ev.low.num * ev.ref.den) > t * (ev.ref.num * ev.low.den)

(* Mutant: any interval is enough to block.                                  *)
NoPairMinimum(breached, t, direction, ev) ==
    IF ~ breached THEN "pass"
    ELSE IF ev.kind = "none" THEN "regression"
    ELSE IF ev.kind = "no_ci" THEN "regression_low_evidence"
    ELSE IF CIConfirmsRegression(ev, direction, t) THEN "regression"
    ELSE "regression_inconclusive"

Outcome(breached, t, direction, ev) ==
    IF ~ breached THEN "pass"
    ELSE IF ev.kind = "none" THEN "regression"
    ELSE IF ev.n_pairs < MinPairsToBlock \/ ev.kind = "no_ci" THEN "regression_low_evidence"
    ELSE IF CIConfirmsRegression(ev, direction, t) THEN "regression"
    ELSE "regression_inconclusive"

Verdict(metric, b, c, t, ev) ==
    Outcome(ThresholdBreached(Direction(metric), b, c, t), t, Direction(metric), ev)

(* evaluate_gate over the metrics of a result.  base, cand, ev: by metric;   *)
(* thresholds: by every metric a policy can name, produced or not.           *)
UnknownMetrics(metrics, thresholds) ==
    {m \in DOMAIN thresholds : thresholds[m] # Ungated /\ m \notin metrics}

Reasons(metrics, base, cand, thresholds, ev) ==
    {m \in metrics : Verdict(m, base[m], cand[m], thresholds[m], ev[m]) = "regression"}

Advisories(metrics, base, cand, thresholds, ev) ==
    {m \in metrics : Verdict(m, base[m], cand[m], thresholds[m], ev[m])
                        \in {"regression_inconclusive", "regression_low_evidence"}}

Decision(reasons) == IF reasons = {} THEN "PASS" ELSE "BLOCK"
=============================================================================
