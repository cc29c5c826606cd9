-------------------------- MODULE EvaluationProofs --------------------------
(***************************************************************************)
(* Proofs about the gate, the evaluation it decides on, the diagnosis of   *)
(* its regressions and the rows that store it, for all plans, responses,   *)
(* policies and intervals.                                                 *)
(***************************************************************************)
EXTENDS StoredResult, DataInduction, TLAPS

Directions == {"higher_is_better", "lower_is_better"}

(* x / y <= z / w for non-negative fractions.                                *)
AtMost(x, y) == x.num * y.den <= y.num * x.den

(* Multiplication is monotone.                                               *)
LEMMA TimesMonotone ==
    ASSUME NEW a \in Int, NEW b \in Int, NEW k \in Nat, a <= b
    PROVE  a * k <= b * k
  OBVIOUS

(* A loose threshold that is breached breaches every tighter one.            *)
LEMMA BreachAntitone ==
    ASSUME NEW d \in Directions, NEW b \in Values, NEW c \in Values,
           NEW t \in Nat, NEW u \in Nat, t <= u,
           ThresholdBreached(d, b, c, u)
    PROVE  ThresholdBreached(d, b, c, t)
<1> DEFINE scale == b.num * c.den
<1>1. b.num \in Nat /\ c.num \in Nat /\ b.den \in Nat \ {0} /\ c.den \in Nat \ {0}
  BY DEF Values
<1>2. scale \in Nat
  BY <1>1
<1>3. t * scale <= u * scale
  BY <1>2, TimesMonotone
<1>4. t # Ungated
  BY DEF Ungated
<1>5. Scale * (b.num * c.den - c.num * b.den) \in Int
      /\ Scale * (c.num * b.den - b.num * c.den) \in Int
      /\ t * scale \in Int /\ u * scale \in Int
  BY <1>1, <1>2, ScaleAssumption
<1> HIDE DEF scale
<1>6. CASE d = "higher_is_better"
  <2>1. b.num # 0 /\ Scale * (b.num * c.den - c.num * b.den) > u * scale
    BY <1>6 DEF ThresholdBreached, scale
  <2>2. Scale * (b.num * c.den - c.num * b.den) > t * scale
    BY <2>1, <1>3, <1>5
  <2> QED BY <1>4, <1>6, <2>1, <2>2 DEF ThresholdBreached, scale
<1>7. CASE d = "lower_is_better" /\ b.num = 0
  BY <1>4, <1>7 DEF ThresholdBreached
<1>8. CASE d = "lower_is_better" /\ b.num # 0
  <2>1. Scale * (c.num * b.den - b.num * c.den) > u * scale
    BY <1>8 DEF ThresholdBreached, scale
  <2>2. Scale * (c.num * b.den - b.num * c.den) > t * scale
    BY <2>1, <1>3, <1>5
  <2> QED BY <1>4, <1>8, <2>2 DEF ThresholdBreached, scale
<1> QED BY <1>6, <1>7, <1>8 DEF Directions

(* An interval that confirms a regression at a loose threshold confirms it   *)
(* at every tighter one.                                                     *)
LEMMA ConfirmationAntitone ==
    ASSUME NEW ev \in EvidenceRecords, NEW d \in Directions,
           NEW t \in Nat, NEW u \in Nat, t <= u,
           CIConfirmsRegression(ev, d, u)
    PROVE  CIConfirmsRegression(ev, d, t)
<1> DEFINE high == ev.ref.num * ev.high.den
           low  == ev.ref.num * ev.low.den
<1>1. /\ ev.ref.num \in Nat /\ ev.ref.den \in Nat
      /\ ev.high.num \in Int /\ ev.high.den \in Nat
      /\ ev.low.num \in Int /\ ev.low.den \in Nat
  BY DEF EvidenceRecords, Values, Fractions
<1>2. high \in Nat /\ low \in Nat
  BY <1>1
<1>3. t * high <= u * high /\ t * low <= u * low
  BY <1>2, TimesMonotone
<1>4. /\ Scale * (ev.high.num * ev.ref.den) \in Int
      /\ Scale * (ev.low.num * ev.ref.den) \in Int
      /\ t * high \in Int /\ u * high \in Int /\ t * low \in Int /\ u * low \in Int
  BY <1>1, <1>2, ScaleAssumption
<1> HIDE DEF high, low
<1>5. CASE d = "higher_is_better"
  <2>1. Scale * (ev.high.num * ev.ref.den) < -(u * high)
    BY <1>5 DEF CIConfirmsRegression, high
  <2>2. Scale * (ev.high.num * ev.ref.den) < -(t * high)
    BY <2>1, <1>3, <1>4
  <2> QED BY <1>5, <2>2 DEF CIConfirmsRegression, high
<1>6. CASE d = "lower_is_better"
  <2>1. Scale * (ev.low.num * ev.ref.den) > u * low
    BY <1>6 DEF CIConfirmsRegression, low
  <2>2. Scale * (ev.low.num * ev.ref.den) > t * low
    BY <2>1, <1>3, <1>4
  <2> QED BY <1>6, <2>2 DEF CIConfirmsRegression, low
<1> QED BY <1>5, <1>6 DEF Directions

(* A policy q is looser than p: it gates no metric p leaves alone and        *)
(* tolerates at least as much of each.                                       *)
Looser(p, q, metrics) ==
    \A m \in metrics : q[m] = Ungated \/ (p[m] # Ungated /\ p[m] <= q[m])

(* One metric: a regression under a looser threshold is one under a tighter. *)
LEMMA RegressionAntitone ==
    ASSUME NEW m, NEW b \in Values, NEW c \in Values, NEW ev \in EvidenceRecords,
           NEW t \in Nat, NEW u \in Nat, t <= u,
           Verdict(m, b, c, u, ev) = "regression"
    PROVE  Verdict(m, b, c, t, ev) = "regression"
<1> DEFINE d == Direction(m)
<1>1. d \in Directions
  BY DEF Direction, Directions
<1>2. ThresholdBreached(d, b, c, u)
  BY DEF Verdict, Outcome
<1>3. ThresholdBreached(d, b, c, t)
  BY <1>1, <1>2, BreachAntitone
<1>4. CASE ev.kind = "none"
  BY <1>3, <1>4 DEF Verdict, Outcome
<1>5. CASE ev.kind # "none"
  <2>1. ~ (ev.n_pairs < MinPairsToBlock \/ ev.kind = "no_ci")
    BY <1>2, <1>5 DEF Verdict, Outcome
  <2>2. CIConfirmsRegression(ev, d, u)
    BY <1>2, <1>5, <2>1 DEF Verdict, Outcome
  <2>3. CIConfirmsRegression(ev, d, t)
    BY <1>1, <2>2, ConfirmationAntitone
  <2> QED BY <1>3, <1>5, <2>1, <2>3 DEF Verdict, Outcome
<1> QED BY <1>4, <1>5

(* Loosening the policy never adds a blocking reason, so it never turns a    *)
(* PASS of the same values and evidence into a BLOCK: thresholds and the     *)
(* statistical guard of evaluate_gate pull in one direction.                 *)
THEOREM LoosePolicyBlocksLess ==
    ASSUME NEW metrics, NEW base \in [metrics -> Values], NEW cand \in [metrics -> Values],
           NEW ev \in [metrics -> EvidenceRecords],
           NEW p \in [metrics -> Nat \cup {Ungated}], NEW q \in [metrics -> Nat \cup {Ungated}],
           Looser(p, q, metrics)
    PROVE  /\ Reasons(metrics, base, cand, q, ev) \subseteq Reasons(metrics, base, cand, p, ev)
           /\ Decision(Reasons(metrics, base, cand, p, ev)) = "PASS"
                => Decision(Reasons(metrics, base, cand, q, ev)) = "PASS"
<1>1. ASSUME NEW m \in metrics,
             Verdict(m, base[m], cand[m], q[m], ev[m]) = "regression"
      PROVE  Verdict(m, base[m], cand[m], p[m], ev[m]) = "regression"
  <2>1. q[m] # Ungated
    BY <1>1 DEF Verdict, Outcome, ThresholdBreached
  <2>2. p[m] # Ungated /\ p[m] <= q[m]
    BY <2>1 DEF Looser
  <2>3. p[m] \in Nat /\ q[m] \in Nat
    BY <2>1, <2>2
  <2>4. base[m] \in Values /\ cand[m] \in Values /\ ev[m] \in EvidenceRecords
    OBVIOUS
  <2> QED BY <1>1, <2>2, <2>3, <2>4, RegressionAntitone
<1>2. Reasons(metrics, base, cand, q, ev) \subseteq Reasons(metrics, base, cand, p, ev)
  BY <1>1 DEF Reasons
<1> QED BY <1>2 DEF Decision

----------------------------------------------------------------------------
(* A better baseline: for lower-is-better metrics, any smaller value down to *)
(* zero; the breach stays.                                                   *)
THEOREM LowerBaselineKeepsBreach ==
    ASSUME NEW a \in Values, NEW b \in Values, NEW c \in Values, NEW t \in Nat,
           AtMost(a, b), ThresholdBreached("lower_is_better", b, c, t)
    PROVE  ThresholdBreached("lower_is_better", a, c, t)
<1>1. /\ a.num \in Nat /\ b.num \in Nat /\ c.num \in Nat
      /\ a.den \in Nat \ {0} /\ b.den \in Nat \ {0} /\ c.den \in Nat \ {0}
      /\ Scale \in Nat \ {0}
  BY ScaleAssumption DEF Values
<1>2. t # Ungated
  BY DEF Ungated
<1>3. c.num # 0
  <2>1. CASE b.num = 0
    BY <2>1 DEF ThresholdBreached
  <2>2. CASE b.num # 0
    <3>1. Scale * (c.num * b.den - b.num * c.den) > t * (b.num * c.den)
      BY <2>2 DEF ThresholdBreached
    <3>2. t * (b.num * c.den) >= 0 /\ b.num * c.den >= 0
      BY <1>1
    <3>3. SUFFICES ASSUME c.num = 0 PROVE FALSE
      OBVIOUS
    <3>4. c.num * b.den - b.num * c.den <= 0
      BY <1>1, <3>2, <3>3
    <3>5. Scale * (c.num * b.den - b.num * c.den) <= 0
      BY <1>1, <3>4
    <3> QED BY <1>1, <3>1, <3>2, <3>5
  <2> QED BY <2>1, <2>2
<1>4. CASE a.num = 0
  BY <1>2, <1>3, <1>4 DEF ThresholdBreached
<1>5. CASE a.num # 0
  <2> DEFINE x == a.num  y == a.den  z == b.num  w == b.den  v == c.num  k == c.den
             s == Scale
  <2>1. z # 0 /\ s * (v * w - z * k) > t * (z * k)
    <3>1. a.num * b.den > 0
      BY <1>1, <1>5
    <3>2. b.num * a.den > 0
      BY <1>1, <3>1 DEF AtMost
    <3>3. b.num # 0
      BY <1>1, <3>2
    <3> QED BY <3>3 DEF ThresholdBreached
  <2>2. /\ x \in Nat /\ y \in Nat \ {0} /\ z \in Nat /\ w \in Nat \ {0}
        /\ v \in Nat /\ k \in Nat \ {0} /\ s \in Nat \ {0} /\ x * w <= z * y
    BY <1>1 DEF AtMost
  <2> HIDE DEF x, y, z, w, v, k, s
  <2>3. s * (v * w) > (s + t) * (z * k)
    BY <2>1, <2>2
  <2>4. (s * (v * w)) * y > ((s + t) * (z * k)) * y
    BY <2>2, <2>3
  <2>5. ((s + t) * k) * (x * w) <= ((s + t) * k) * (z * y)
    BY <2>2
  <2>6. ((s + t) * (z * k)) * y = ((s + t) * k) * (z * y)
    BY <2>2
  <2>7. (s * (v * w)) * y > ((s + t) * k) * (x * w)
    BY <2>2, <2>4, <2>5, <2>6
  <2>8. (s * (v * y)) * w > ((s + t) * (x * k)) * w
    BY <2>2, <2>7
  <2>9. s * (v * y) > (s + t) * (x * k)
    BY <2>2, <2>8
  <2>10. s * (v * y - x * k) > t * (x * k)
    BY <2>2, <2>9
  <2> QED BY <1>2, <1>5, <2>10 DEF ThresholdBreached, x, y, v, k, s
<1> QED BY <1>4, <1>5

----------------------------------------------------------------------------
(* What makes the check inductive: before Begin nothing has run, and Begin   *)
(* rejects for the command line.                                             *)
CliInv ==
    /\ stage \in {"configured", "rejected"} => runs = <<>>
    /\ plan.caller = "cli" /\ UnknownMetrics(Metrics, thresholds) # {} =>
           stage \in {"configured", "rejected"}

(* Nothing has run before the first step, whoever the caller is.          *)
LEMMA CliInvInit == Init => CliInv
  BY DEF Init, CliInv

(* No step takes a CLI plan with an unknown metric past load_run_plan.    *)
LEMMA CliInvStep == CliInv /\ [Next]_vars => CliInv'
<1> SUFFICES ASSUME CliInv, [Next]_vars PROVE CliInv'
  OBVIOUS
<1> USE DEF CliInv
<1>1. CASE Begin
  <2>1. plan' = plan /\ runs' = runs
    BY <1>1 DEF Begin
  <2>2. stage = "configured"
    BY <1>1 DEF Begin
  <2>3. UnknownMetrics(Metrics, thresholds)' = UnknownMetrics(Metrics, thresholds)
    BY <2>1 DEF UnknownMetrics, thresholds
  <2>4. plan.caller = "cli" /\ UnknownMetrics(Metrics, thresholds) # {} => stage' = "rejected"
    BY <1>1 DEF Begin, Accepts
  <2> QED BY <2>1, <2>2, <2>3, <2>4
<1>2. CASE Execute
  <2>1. plan' = plan /\ stage = "running"
        /\ stage' \in {"running", "raised"}
    BY <1>2 DEF Execute
  <2>2. UnknownMetrics(Metrics, thresholds)' = UnknownMetrics(Metrics, thresholds)
    BY <2>1 DEF UnknownMetrics, thresholds
  <2> QED BY <2>1, <2>2
<1>3. CASE Conclude
  <2>1. plan' = plan /\ stage = "running"
    BY <1>3 DEF Conclude
  <2>2. stage' \in {"config_error", "PASS", "BLOCK"}
    BY <1>3 DEF Conclude, Decision
  <2>3. UnknownMetrics(Metrics, thresholds)' = UnknownMetrics(Metrics, thresholds)
    BY <2>1 DEF UnknownMetrics, thresholds
  <2> QED BY <2>1, <2>2, <2>3
<1>4. CASE UNCHANGED vars
  BY <1>4 DEF vars, UnknownMetrics, thresholds
<1> QED BY <1>1, <1>2, <1>3, <1>4 DEF Next, Finished

(* A configuration whose policy names a metric the run cannot produce never  *)
(* reaches a provider through the command line.                              *)
THEOREM CliNeverRunsUnknownMetric == Spec => []CliRejectsUnknownMetric
<1>1. CliInv => CliRejectsUnknownMetric
  BY DEF CliInv, CliRejectsUnknownMetric
<1> QED BY <1>1, CliInvInit, CliInvStep, PTL DEF Spec

----------------------------------------------------------------------------
(* The versions, and what every run records.                                 *)
Versions == {"baseline", "candidate"}

RunType == [error : BOOLEAN, passed : BOOLEAN, score : Nat, latency : Nat, cost : Nat]

(* All runs of the plan.                                                     *)
Full(rs) == rs \in [1..PlanLength -> RunType]

(* The numbers of a plan: both versions run each case the same number of  *)
(* times, one after the other.                                            *)
LEMMA PlanTypes ==
    ASSUME plan \in Plans
    PROVE  /\ plan.cases \in Nat \ {0} /\ plan.repeats \in Nat \ {0}
           /\ PerVersion \in Nat \ {0} /\ PerVersion = plan.cases * plan.repeats
           /\ PlanLength = 2 * PerVersion
           /\ \A m \in Metrics : thresholds[m] \in Nat \cup {Ungated}
           /\ RunRecords \subseteq RunType
<1>1. /\ plan.cases \in Nat \ {0} /\ plan.repeats \in Nat \ {0}
      /\ \A m \in Metrics : plan.thresholds[m] \in Nat \cup {Ungated}
      /\ plan.responses \subseteq [passed : BOOLEAN, score : Nat, latency : Nat, cost : Nat]
  BY PlanAssumption
<1>2. \A a, b \in Nat \ {0} : a * b \in Nat \ {0}
  OBVIOUS
<1>3. PerVersion \in Nat \ {0}
  BY <1>1, <1>2 DEF PerVersion
<1>4. FailedRun \in RunType
  BY DEF FailedRun, RunType
<1>5. \A r \in plan.responses : ScoredRun(r) \in RunType
  BY <1>1 DEF ScoredRun, RunType
<1> QED
  BY <1>1, <1>3, <1>4, <1>5 DEF PerVersion, PlanLength, thresholds, RunRecords

(* Where a run stands within its version.                                    *)
Offset(i) == (i - 1) % PerVersion

(* The candidate's runs are the baseline's places over again.             *)
LEMMA OffsetOf ==
    ASSUME plan \in Plans, NEW i \in 1..PlanLength
    PROVE  /\ Offset(i) = IF i <= PerVersion THEN i - 1 ELSE i - 1 - PerVersion
           /\ Offset(i) \in 0..PerVersion - 1
<1>1. PerVersion \in Nat \ {0} /\ PlanLength = 2 * PerVersion
  BY PlanTypes
<1>2. ASSUME NEW n \in Nat \ {0}, NEW x \in 0..n - 1
      PROVE  x % n = x /\ (x + n) % n = x
  OBVIOUS
<1>3. CASE i <= PerVersion
  <2>1. i - 1 \in 0..PerVersion - 1
    BY <1>1, <1>3
  <2> QED
    BY <1>1, <1>2, <1>3, <2>1 DEF Offset
<1>4. CASE i > PerVersion
  <2>1. i - 1 - PerVersion \in 0..PerVersion - 1
    BY <1>1, <1>4
  <2>2. (i - 1 - PerVersion) + PerVersion = i - 1
    BY <1>1
  <2>3. (i - 1) % PerVersion = i - 1 - PerVersion
    BY <1>1, <1>2, <2>1, <2>2
  <2> QED
    BY <1>1, <1>4, <2>1, <2>3 DEF Offset
<1> QED
  BY <1>1, <1>3, <1>4

(* Case and repeat determine the place within a version, and each pair has   *)
(* one.                                                                      *)
LEMMA KeyOf ==
    ASSUME plan \in Plans
    PROVE  /\ \A i \in 1..PlanLength : Key(i) \in Keys
           /\ \A i, j \in 1..PlanLength : Version(i) = Version(j) /\ Key(i) = Key(j) => i = j
           /\ \A v \in Versions : \A k \in Keys :
                  \E i \in 1..PlanLength : Version(i) = v /\ Key(i) = k
<1> DEFINE c == plan.cases  r == plan.repeats  n == PerVersion
<1>1. c \in Nat \ {0} /\ r \in Nat \ {0} /\ n \in Nat \ {0} /\ n = c * r /\ PlanLength = 2 * n
  BY PlanTypes
<1>2. \A i : Key(i) = <<Offset(i) \div r + 1, Offset(i) % r>>
  BY DEF Key, Offset
<1>3. Keys = (1..c) \X (0..r - 1)
  BY DEF Keys
<1> HIDE DEF c, r, n
<1>4. ASSUME NEW o \in 0..n - 1
      PROVE  /\ o \div r \in 0..c - 1 /\ o % r \in 0..r - 1
             /\ o = r * (o \div r) + (o % r)
  <2>1. o \in Nat /\ o < c * r /\ r > 0
    BY <1>1
  <2>2. o \div r \in 0..c - 1
    BY <1>1, <2>1, DivisionRange
  <2> QED
    BY <1>1, <2>1, <2>2
<1>5. \A i \in 1..PlanLength : Offset(i) \in 0..n - 1
  BY OffsetOf DEF n
<1>6. ASSUME NEW i \in 1..PlanLength PROVE Key(i) \in Keys
  <2>1. Offset(i) \div r + 1 \in 1..c /\ Offset(i) % r \in 0..r - 1
    BY <1>1, <1>4, <1>5
  <2> QED
    BY <1>2, <1>3, <2>1
<1>7. ASSUME NEW i \in 1..PlanLength, NEW j \in 1..PlanLength,
             Version(i) = Version(j), Key(i) = Key(j)
      PROVE  i = j
  <2>1. Offset(i) \div r + 1 = Offset(j) \div r + 1 /\ Offset(i) % r = Offset(j) % r
    BY <1>2, <1>7
  <2>2. Offset(i) \div r \in Int /\ Offset(j) \div r \in Int
    BY <1>4, <1>5
  <2>3. Offset(i) \div r = Offset(j) \div r
    BY <2>1, <2>2
  <2>4. Offset(i) = Offset(j)
    BY <1>4, <1>5, <2>1, <2>3
  <2>5. i <= n <=> j <= n
    BY <1>7 DEF Version, n
  <2>6. /\ Offset(i) = IF i <= n THEN i - 1 ELSE i - 1 - n
        /\ Offset(j) = IF j <= n THEN j - 1 ELSE j - 1 - n
    BY OffsetOf DEF n
  <2>7. i \in Int /\ j \in Int /\ n \in Int
    BY <1>1
  <2>8. CASE i <= n
    <3>1. i - 1 = j - 1
      BY <2>4, <2>5, <2>6, <2>8
    <3> QED
      BY <2>7, <3>1
  <2>9. CASE ~ (i <= n)
    <3>1. i - 1 - n = j - 1 - n
      BY <2>4, <2>5, <2>6, <2>9
    <3> QED
      BY <2>7, <3>1
  <2> QED
    BY <2>8, <2>9
<1>8. ASSUME NEW v \in Versions, NEW k \in Keys
      PROVE  \E i \in 1..PlanLength : Version(i) = v /\ Key(i) = k
  <2> DEFINE o == r * (k[1] - 1) + k[2]
             i == (IF v = "baseline" THEN 0 ELSE n) + o + 1
  <2>1. k[1] \in 1..c /\ k[2] \in 0..r - 1 /\ k = <<k[1], k[2]>>
    BY <1>3
  <2>2. o \in 0..n - 1
    <3> DEFINE x == r * (k[1] - 1)
    <3>1. x \in Nat
      BY <1>1, <2>1
    <3>2. x <= r * (c - 1)
      BY <1>1, <2>1
    <3>3. r * (c - 1) = n - r
      BY <1>1
    <3> HIDE DEF x
    <3>4. x + k[2] \in 0..n - 1
      BY <1>1, <2>1, <3>1, <3>2, <3>3
    <3> QED
      BY <3>4 DEF x
  <2>3. o \div r = k[1] - 1 /\ o % r = k[2]
    <3>1. o = r * (o \div r) + (o % r) /\ o \div r \in Nat /\ o % r \in 0..r - 1
      BY <1>4, <2>2
    <3> DEFINE q == o \div r  s == o % r  p == k[1] - 1  t == k[2]
    <3>2. r * q + s = r * p + t /\ q \in Nat /\ p \in Nat /\ s \in 0..r - 1 /\ t \in 0..r - 1
      BY <2>1, <3>1
    <3> HIDE DEF q, s, p, t
    <3>3. q = p
      <4>1. CASE q < p
        <5>1. r * q + r <= r * p
          BY <1>1, <3>2, <4>1
        <5> QED
          BY <1>1, <3>2, <5>1
      <4>2. CASE p < q
        <5>1. r * p + r <= r * q
          BY <1>1, <3>2, <4>2
        <5> QED
          BY <1>1, <3>2, <5>1
      <4> QED
        BY <3>2, <4>1, <4>2
    <3>4. s = t
      BY <1>1, <3>2, <3>3
    <3> QED
      BY <3>3, <3>4 DEF q, s, p, t
  <2> HIDE DEF o
  <2>4. i \in 1..PlanLength /\ (i <= n <=> v = "baseline")
    BY <1>1, <2>2 DEF Versions
  <2>5. Version(i) = v
    BY <2>4 DEF Version, Versions, n
  <2>6. Offset(i) = o
    <3>1. Offset(i) = IF i <= n THEN i - 1 ELSE i - 1 - n
      BY <2>4, OffsetOf DEF n
    <3> QED
      BY <1>1, <2>2, <2>4, <3>1
  <2>7. Key(i) = k
    BY <1>2, <2>1, <2>3, <2>6
  <2> HIDE DEF i
  <2> QED
    BY <2>4, <2>5, <2>7
<1> QED
  BY <1>6, <1>7, <1>8

(* The runs of a version, once all have run: one for each case and repeat.   *)
Places(v) == {i \in 1..PlanLength : Version(i) = v}

(* Each version has one run for each case and repeat, and no key twice.   *)
LEMMA PlacesOf ==
    ASSUME plan \in Plans, NEW v \in Versions
    PROVE  /\ IsFiniteSet(Places(v)) /\ Cardinality(Places(v)) = PerVersion
           /\ IsFiniteSet(Keys) /\ Cardinality(Keys) = PerVersion
           /\ [i \in Places(v) |-> Key(i)] \in Bijection(Places(v), Keys)
<1>1. PerVersion \in Nat \ {0} /\ PlanLength = 2 * PerVersion
  BY PlanTypes
<1>2. IsFiniteSet(Places(v)) /\ Cardinality(Places(v)) = PerVersion
  <2>1. CASE v = "baseline"
    <3>1. Places(v) = 1..PerVersion
      BY <1>1, <2>1 DEF Places, Version
    <3> QED
      BY <1>1, <3>1, FS_Interval
  <2>2. CASE v = "candidate"
    <3>1. Places(v) = PerVersion + 1..2 * PerVersion
      BY <1>1, <2>2 DEF Places, Version
    <3>2. /\ IsFiniteSet(PerVersion + 1..2 * PerVersion)
          /\ Cardinality(PerVersion + 1..2 * PerVersion)
                = IF PerVersion + 1 > 2 * PerVersion THEN 0
                  ELSE 2 * PerVersion - (PerVersion + 1) + 1
      BY <1>1, FS_Interval
    <3> QED
      BY <1>1, <3>1, <3>2
  <2> QED
    BY <2>1, <2>2 DEF Versions
<1>3. [i \in Places(v) |-> Key(i)] \in Bijection(Places(v), Keys)
  <2> DEFINE b == [i \in Places(v) |-> Key(i)]
  <2>1. /\ \A i \in Places(v) : b[i] \in Keys
        /\ \A i, j \in Places(v) : b[i] = b[j] => i = j
        /\ \A k \in Keys : \E i \in Places(v) : b[i] = k
    BY KeyOf DEF Places
  <2>2. b \in [Places(v) -> Keys]
    BY <2>1
  <2>3. DOMAIN b = Places(v)
    OBVIOUS
  <2> HIDE DEF b
  <2>4. b \in Injection(Places(v), Keys)
    BY <2>1, <2>2, <2>3 DEF Injection, IsInjective
  <2>5. b \in Surjection(Places(v), Keys)
    BY <2>1, <2>2 DEF Surjection
  <2>6. b \in Bijection(Places(v), Keys)
    BY <2>4, <2>5 DEF Bijection
  <2> QED
    BY <2>6 DEF b
<1>4. IsFiniteSet(Keys) /\ Cardinality(Keys) = PerVersion
  <2>1. ExistsBijection(Places(v), Keys)
    BY <1>3 DEF ExistsBijection
  <2> QED
    BY <1>2, <2>1, FS_Bijection
<1> QED
  BY <1>2, <1>3, <1>4

(* Over the runs of a whole plan, grouping by version and looking up by   *)
(* key find every run at its place, and the pairing is total (runner.py,  *)
(* statistics.py).                                                        *)
LEMMA SideOf ==
    ASSUME plan \in Plans, NEW rs, Full(rs)
    PROVE  /\ \A v \in Versions : Side(rs, v) = Places(v)
           /\ \A v \in Versions : \A i \in Places(v) :
                  RunAt(rs, v, Key(i)) = rs[i] /\ rs[i] \in RunType
           /\ \A v \in Versions : \A k \in Keys : RunAt(rs, v, k) \in RunType
           /\ Matched(rs) = Keys
<1>1. DOMAIN rs = 1..PlanLength /\ \A i \in 1..PlanLength : rs[i] \in RunType
  BY DEF Full
<1>2. \A v : Side(rs, v) = Places(v)
  BY <1>1 DEF Side, Places
<1>3. ASSUME NEW v \in Versions, NEW i \in Places(v)
      PROVE  RunAt(rs, v, Key(i)) = rs[i] /\ rs[i] \in RunType
  <2>1. i \in Side(rs, v) /\ \A j \in Side(rs, v) : Key(j) = Key(i) => j = i
    BY <1>2, KeyOf DEF Places
  <2>2. (CHOOSE j \in Side(rs, v) : Key(j) = Key(i)) = i
    BY <2>1
  <2> QED
    BY <1>1, <2>2 DEF RunAt, Places
<1>4. ASSUME NEW v \in Versions, NEW k \in Keys
      PROVE  \E i \in Places(v) : Key(i) = k
  BY KeyOf DEF Places
<1>5. ASSUME NEW v \in Versions, NEW k \in Keys
      PROVE  RunAt(rs, v, k) \in RunType
  BY <1>3, <1>4
<1>6. Matched(rs) = Keys
  <2>1. \A k \in Keys : /\ \E i \in Side(rs, "baseline") : Key(i) = k
                        /\ \E i \in Side(rs, "candidate") : Key(i) = k
    <3>1. "baseline" \in Versions /\ "candidate" \in Versions
      BY DEF Versions
    <3> QED
      BY <1>2, <1>4, <3>1
  <2> QED
    BY <2>1 DEF Matched
<1> QED
  BY <1>2, <1>3, <1>5, <1>6

(* A sum over the runs of a version is a sum over the pairs.                 *)
LEMMA SumByKey ==
    ASSUME plan \in Plans, NEW v \in Versions,
           NEW g \in [Places(v) -> Int], NEW f \in [Keys -> Int],
           \A i \in Places(v) : g[i] = f[Key(i)]
    PROVE  SumFunction(g) = SumFunction(f)
<1> DEFINE b == [i \in Places(v) |-> Key(i)]
<1>1. b \in Bijection(Places(v), Keys) /\ IsFiniteSet(Places(v)) /\ IsFiniteSet(Keys)
  BY PlacesOf
<1>2. \A i \in Places(v) : g[i] = f[b[i]]
  OBVIOUS
<1> HIDE DEF b
<1> QED
  BY <1>1, <1>2, SumRename

----------------------------------------------------------------------------
(* The inductive invariant: what an evaluation has decided is what its runs  *)
(* and its policy make of the evidence chosen, and nothing is decided before.*)

ValuesOf(v) == [m \in Metrics |-> Value(runs, v, m)]

PossibleEvidence(m) ==
    IF thresholds[m] = Ungated THEN {NoEvidence} ELSE MetricEvidence(runs, m)

Verdicts ==
    /\ Len(runs) = PlanLength
    /\ stage = Decision(reasons)
    /\ \A m \in Metrics : evidence[m] \in PossibleEvidence(m)
    /\ reasons = Reasons(Metrics, ValuesOf("baseline"), ValuesOf("candidate"), thresholds, evidence)
    /\ advisories = Advisories(Metrics, ValuesOf("baseline"), ValuesOf("candidate"), thresholds, evidence)

NoVerdicts ==
    /\ \A m \in Metrics : evidence[m] = NoEvidence
    /\ reasons = {} /\ advisories = {}

EvalInv ==
    /\ plan \in Plans
    /\ stage \in {"configured", "running", "rejected", "raised", "config_error", "PASS", "BLOCK"}
    /\ runs \in Seq(RunRecords) /\ Len(runs) <= PlanLength
    /\ IF Decided THEN Verdicts ELSE NoVerdicts

(* The value of nearest rank among the latencies of some runs.               *)
NearestRank(rs, ok) ==
    CHOOSE x \in {rs[i].latency : i \in ok} :
        /\ Cardinality({i \in ok : rs[i].latency <= x}) >= (95 * Cardinality(ok) + 99) \div 100
        /\ Cardinality({i \in ok : rs[i].latency < x}) < (95 * Cardinality(ok) + 99) \div 100

(* The 95th percentile is the latency at the nearest rank, zero when no   *)
(* run succeeded (_percentile in aggregation.py).                         *)
LEMMA P95IsNearestRank ==
    ASSUME NEW rs, NEW v
    PROVE  LatencyP95(rs, v) = IF Succeeded(rs, v) = {} THEN Zero
                               ELSE Fraction(NearestRank(rs, Succeeded(rs, v)), 1)
  BY DEF LatencyP95, NearestRank

(* What is computed from plan and runs does not change while they do      *)
(* not.                                                                   *)
LEMMA Stays ==
    ASSUME plan' = plan, runs' = runs
    PROVE  /\ ValuesOf("baseline")' = ValuesOf("baseline")
           /\ ValuesOf("candidate")' = ValuesOf("candidate")
           /\ thresholds' = thresholds
           /\ PlanLength' = PlanLength
           /\ RunRecords' = RunRecords
           /\ \A m \in Metrics : PossibleEvidence(m)' = PossibleEvidence(m)
<1>1. thresholds' = thresholds /\ PlanLength' = PlanLength /\ RunRecords' = RunRecords
  BY DEF thresholds, PlanLength, PerVersion, RunRecords
<1>2. \A i : Version(i)' = Version(i) /\ Key(i)' = Key(i)
  BY DEF Version, Key, PerVersion
<1>3. \A v : Side(runs, v)' = Side(runs, v)
  BY <1>2 DEF Side
<1>4. \A v : Succeeded(runs, v)' = Succeeded(runs, v)
  BY <1>3 DEF Succeeded
<1>5. ASSUME NEW v PROVE ValuesOf(v)' = ValuesOf(v)
  <2>1. SuccessRate(runs, v)' = SuccessRate(runs, v)
    BY <1>3, <1>4 DEF SuccessRate
  <2>2. PassRate(runs, v)' = PassRate(runs, v)
    BY <1>3, <1>4 DEF PassRate
  <2>3. MeanScore(runs, v)' = MeanScore(runs, v)
    BY <1>3, <1>4 DEF MeanScore
  <2>4. LatencyMean(runs, v)' = LatencyMean(runs, v)
    BY <1>4 DEF LatencyMean
  <2>5. LatencyP95(runs, v)' = LatencyP95(runs, v)
    <3>1. \A rs : LatencyP95(rs, v) = IF Succeeded(rs, v) = {} THEN Zero
                                     ELSE Fraction(NearestRank(rs, Succeeded(rs, v)), 1)
      BY P95IsNearestRank
    <3>2. LatencyP95(runs, v) = IF Succeeded(runs, v) = {} THEN Zero
                                ELSE Fraction(NearestRank(runs, Succeeded(runs, v)), 1)
      BY <3>1
    <3>3. LatencyP95(runs, v)' = IF Succeeded(runs, v)' = {} THEN Zero
                                ELSE Fraction(NearestRank(runs', Succeeded(runs, v)'), 1)
      BY DEF LatencyP95, NearestRank
    <3> QED
      BY <1>4, <3>2, <3>3
  <2>6. CostTotal(runs, v)' = CostTotal(runs, v)
    BY <1>3 DEF CostTotal
  <2>7. \A m : Value(runs, v, m)' = Value(runs, v, m)
    BY <2>1, <2>2, <2>3, <2>4, <2>5, <2>6 DEF Value
  <2> QED
    BY <2>7 DEF ValuesOf
<1>6. \A v, k : RunAt(runs, v, k)' = RunAt(runs, v, k)
  BY <1>2, <1>3 DEF RunAt
<1>7. Matched(runs)' = Matched(runs)
  BY <1>2, <1>3 DEF Matched, Keys
<1>8. \A m : Comparable(runs, m)' = Comparable(runs, m)
  BY <1>6, <1>7 DEF Comparable
<1>9. \A m, k : Diff(runs, m, k)' = Diff(runs, m, k)
  BY <1>6 DEF Diff
<1>10. \A m : Diffs(runs, m)' = Diffs(runs, m)
  BY <1>8, <1>9 DEF Diffs
<1>11. \A m : BaselineMean(runs, m)' = BaselineMean(runs, m)
  BY <1>6, <1>8 DEF BaselineMean
<1>12. \A m : Intervals(runs, m)' = Intervals(runs, m)
  BY <1>8, <1>10 DEF Intervals
<1>13. \A m : MetricEvidence(runs, m)' = MetricEvidence(runs, m)
  BY <1>8, <1>11, <1>12 DEF MetricEvidence
<1>14. \A m \in Metrics : PossibleEvidence(m)' = PossibleEvidence(m)
  BY <1>1, <1>13 DEF PossibleEvidence
<1> QED
  BY <1>1, <1>5, <1>14

----------------------------------------------------------------------------
(* The aggregated values.                                                    *)
Rank(n) == (95 * n + 99) \div 100

Latencies(rs, ok) == [i \in ok |-> rs[i].latency]

(* There is a latency at the nearest rank: the definition chooses one.    *)
LEMMA NearestRankIs ==
    ASSUME NEW rs, NEW ok, IsFiniteSet(ok), ok # {}, \A i \in ok : rs[i].latency \in Nat
    PROVE  /\ NearestRank(rs, ok) \in Nat
           /\ Rank(Cardinality(ok)) \in Nat
           /\ HasRank(NearestRank(rs, ok), Rank(Cardinality(ok)), Latencies(rs, ok), ok)
<1> DEFINE n == Cardinality(ok)
           l == Latencies(rs, ok)
           V == {rs[i].latency : i \in ok}
<1>1. n \in Nat \ {0}
  BY FS_CardinalityType, FS_EmptySet
<1>2. Rank(n) \in 1..n
  <2> HIDE DEF n
  <2> QED
    BY <1>1 DEF Rank
<1>3. l \in [ok -> Nat] /\ V = {l[i] : i \in ok}
  BY DEF Latencies
<1>4. \E x \in V : HasRank(x, Rank(n), l, ok)
  <2> HIDE DEF l, V
  <2> QED
    BY <1>2, <1>3, RankExists
<1>5. \A x : /\ UpTo(l, ok, x) = {i \in ok : rs[i].latency <= x}
             /\ Below(l, ok, x) = {i \in ok : rs[i].latency < x}
  BY DEF UpTo, Below, Latencies
<1>6. \A x : HasRank(x, Rank(n), l, ok) <=>
                 /\ Cardinality({i \in ok : rs[i].latency <= x}) >= (95 * Cardinality(ok) + 99) \div 100
                 /\ Cardinality({i \in ok : rs[i].latency < x}) < (95 * Cardinality(ok) + 99) \div 100
  BY <1>5 DEF HasRank, Rank
<1> HIDE DEF l
<1>7. NearestRank(rs, ok) \in V /\ HasRank(NearestRank(rs, ok), Rank(n), l, ok)
  <2>1. \E x \in V : /\ Cardinality({i \in ok : rs[i].latency <= x}) >= (95 * Cardinality(ok) + 99) \div 100
                     /\ Cardinality({i \in ok : rs[i].latency < x}) < (95 * Cardinality(ok) + 99) \div 100
    BY <1>4, <1>6
  <2>2. /\ NearestRank(rs, ok) \in V
        /\ Cardinality({i \in ok : rs[i].latency <= NearestRank(rs, ok)})
               >= (95 * Cardinality(ok) + 99) \div 100
        /\ Cardinality({i \in ok : rs[i].latency < NearestRank(rs, ok)})
               < (95 * Cardinality(ok) + 99) \div 100
    BY <2>1 DEF NearestRank
  <2> QED
    BY <1>6, <2>2
<1> QED
  BY <1>2, <1>7 DEF l

(* The runs of a version that succeeded are finitely many of its places.  *)
LEMMA SucceededOf ==
    ASSUME plan \in Plans, NEW rs, Full(rs), NEW v \in Versions
    PROVE  /\ Succeeded(rs, v) = {i \in Places(v) : ~ rs[i].error}
           /\ Succeeded(rs, v) \in SUBSET Places(v)
           /\ IsFiniteSet(Succeeded(rs, v))
           /\ Cardinality(Succeeded(rs, v)) \in Nat
           /\ Succeeded(rs, v) # {} => Cardinality(Succeeded(rs, v)) # 0
           /\ Cardinality(Side(rs, v)) = PerVersion
           /\ \A i \in Places(v) : rs[i] \in RunType
<1>1. Side(rs, v) = Places(v) /\ \A i \in Places(v) : rs[i] \in RunType
  BY SideOf
<1>2. Succeeded(rs, v) = {i \in Places(v) : ~ rs[i].error}
  BY <1>1 DEF Succeeded
<1>3. Succeeded(rs, v) \in SUBSET Places(v)
  BY <1>2
<1>4. IsFiniteSet(Places(v)) /\ Cardinality(Places(v)) = PerVersion
  BY PlacesOf
<1>5. IsFiniteSet(Succeeded(rs, v))
  BY <1>3, <1>4, FS_Subset
<1>6. Cardinality(Succeeded(rs, v)) \in Nat
  BY <1>5, FS_CardinalityType
<1>7. Succeeded(rs, v) # {} => Cardinality(Succeeded(rs, v)) # 0
  BY <1>5, FS_EmptySet
<1> QED
  BY <1>1, <1>2, <1>3, <1>4, <1>5, <1>6, <1>7

(* A fraction of a natural number is a value.                             *)
LEMMA FractionType ==
    ASSUME NEW a \in Nat, NEW b \in Nat \ {0}
    PROVE  Fraction(a, b) \in Values /\ Zero \in Values
  BY DEF Fraction, Values, Zero

(* Every aggregated metric of a whole plan is a value with a positive     *)
(* denominator.                                                           *)
LEMMA ValueType ==
    ASSUME plan \in Plans, NEW rs, Full(rs), NEW v \in Versions, NEW m \in Metrics
    PROVE  Value(rs, v, m) \in Values
<1> DEFINE ok == Succeeded(rs, v)
<1>1. PerVersion \in Nat \ {0}
  BY PlanTypes
<1>2. /\ ok \in SUBSET Places(v) /\ IsFiniteSet(ok) /\ Cardinality(ok) \in Nat
      /\ ok # {} => Cardinality(ok) # 0
      /\ Cardinality(Side(rs, v)) = PerVersion
      /\ Side(rs, v) = Places(v)
      /\ IsFiniteSet(Places(v))
      /\ \A i \in Places(v) : rs[i] \in RunType
  BY SucceededOf, SideOf, PlacesOf
<1>3. \A i \in Places(v) : rs[i].score \in Nat /\ rs[i].latency \in Nat /\ rs[i].cost \in Nat
  BY <1>2 DEF RunType
<1>4. CASE m = "success_rate"
  BY <1>1, <1>2, <1>4, FractionType DEF Value, SuccessRate
<1>5. CASE m = "ev.pass_rate"
  <2> DEFINE P == {i \in ok : rs[i].passed}
  <2>1. P \in SUBSET ok
    OBVIOUS
  <2> HIDE DEF P, ok
  <2>2. IsFiniteSet(P)
    BY <1>2, <2>1, FS_Subset
  <2>3. Cardinality(P) \in Nat
    BY <2>2, FS_CardinalityType
  <2>4. Value(rs, v, m) = Fraction(Cardinality(P), PerVersion)
    BY <1>2, <1>5 DEF Value, PassRate, P, ok
  <2> QED
    BY <1>1, <2>3, <2>4, FractionType
<1>6. CASE m = "ev.mean_score"
  <2> DEFINE g == [i \in ok |-> rs[i].score]
  <2>1. g \in [ok -> Nat]
    BY <1>2, <1>3
  <2> HIDE DEF g, ok
  <2>2. SumFunction(g) \in Nat
    BY <1>2, <2>1, SumNatural
  <2>3. Value(rs, v, m) = Fraction(SumFunction(g), PerVersion)
    BY <1>2, <1>6 DEF Value, MeanScore, g, ok
  <2> QED
    BY <1>1, <2>2, <2>3, FractionType
<1>7. CASE m = "latency_ms.mean"
  <2> DEFINE g == [i \in ok |-> rs[i].latency]
  <2>1. g \in [ok -> Nat]
    BY <1>2, <1>3
  <2> HIDE DEF g, ok
  <2>2. SumFunction(g) \in Nat
    BY <1>2, <2>1, SumNatural
  <2>3. Value(rs, v, m) = IF ok = {} THEN Zero ELSE Fraction(SumFunction(g), Cardinality(ok))
    BY <1>7 DEF Value, LatencyMean, g, ok
  <2> QED
    BY <1>1, <1>2, <2>2, <2>3, FractionType
<1>8. CASE m = "latency_ms.p95"
  <2>1. Value(rs, v, m) = IF ok = {} THEN Zero ELSE Fraction(NearestRank(rs, ok), 1)
    BY <1>8, P95IsNearestRank DEF Value
  <2>2. \A i \in ok : rs[i].latency \in Nat
    BY <1>2, <1>3
  <2> HIDE DEF ok
  <2>3. ok # {} => NearestRank(rs, ok) \in Nat
    BY <1>2, <2>2, NearestRankIs
  <2> QED
    BY <1>1, <2>1, <2>3, FractionType
<1>9. CASE m = "cost_usd.total"
  <2> DEFINE g == [i \in Places(v) |-> rs[i].cost]
  <2>1. g \in [Places(v) -> Nat]
    BY <1>3
  <2> HIDE DEF g
  <2>2. SumFunction(g) \in Nat
    BY <1>2, <2>1, SumNatural
  <2>3. Value(rs, v, m) = Fraction(SumFunction(g), 1)
    BY <1>2, <1>9 DEF Value, CostTotal, g
  <2> QED
    BY <2>2, <2>3, FractionType
<1> QED
  BY <1>4, <1>5, <1>6, <1>7, <1>8, <1>9 DEF Metrics, Rates, LowerIsBetter

----------------------------------------------------------------------------
(* The paired evidence.                                                      *)
LEMMA PairsCompared ==
    ASSUME plan \in Plans, NEW rs, Full(rs), NEW m \in Paired
    PROVE  /\ Comparable(rs, m) \in SUBSET Keys
           /\ IsFiniteSet(Comparable(rs, m)) /\ Cardinality(Comparable(rs, m)) \in Nat
           /\ Comparable(rs, m) # {} => Cardinality(Comparable(rs, m)) # 0
           /\ \A v \in Versions : \A k \in Keys : Observed(RunAt(rs, v, k), m) \in Nat
           /\ \A k \in Keys : Diff(rs, m, k) \in Int
           /\ Diffs(rs, m) \in SUBSET Int /\ IsFiniteSet(Diffs(rs, m))
           /\ Comparable(rs, m) # {} => Diffs(rs, m) # {}
           /\ BaselineMean(rs, m) \in Values
<1> DEFINE C == Comparable(rs, m)
<1>1. C \in SUBSET Keys
  BY SideOf DEF Comparable
<1>2. IsFiniteSet(C) /\ Cardinality(C) \in Nat /\ (C # {} => Cardinality(C) # 0)
  <2> HIDE DEF C
  <2>1. IsFiniteSet(Keys)
    BY PlacesOf DEF Versions
  <2>2. IsFiniteSet(C)
    BY <1>1, <2>1, FS_Subset
  <2> QED
    BY <2>2, FS_CardinalityType, FS_EmptySet
<1>3. ASSUME NEW v \in Versions, NEW k \in Keys PROVE Observed(RunAt(rs, v, k), m) \in Nat
  <2>1. RunAt(rs, v, k) \in RunType
    BY SideOf
  <2>2. \A r \in RunType : Observed(r, m) \in Nat
    BY DEF Observed, RunType, Paired, Rates
  <2> QED
    BY <2>1, <2>2
<1>4. \A k \in Keys : Diff(rs, m, k) \in Int
  BY <1>3 DEF Diff, Versions
<1>5. Diffs(rs, m) = {Diff(rs, m, k) : k \in C}
  BY DEF Diffs
<1> HIDE DEF C
<1>6. IsFiniteSet(Diffs(rs, m))
  <2> DEFINE f == [k \in C |-> Diff(rs, m, k)]
  <2>1. DOMAIN f = C /\ Diffs(rs, m) = {f[k] : k \in DOMAIN f}
    BY <1>5
  <2>2. IsFiniteSet(DOMAIN f)
    BY <1>2, <2>1
  <2> HIDE DEF f
  <2>3. IsFiniteSet({f[k] : k \in DOMAIN f})
    BY <2>2, ImageFinite
  <2> QED
    BY <2>1, <2>3
<1>7. BaselineMean(rs, m) \in Values
  <2> DEFINE g == [k \in C |-> Observed(RunAt(rs, "baseline", k), m)]
  <2>1. g \in [C -> Nat]
    BY <1>1, <1>3 DEF Versions
  <2>2. BaselineMean(rs, m) = IF C = {} THEN Zero ELSE Fraction(SumFunction(g), Cardinality(C))
    BY DEF BaselineMean, C
  <2> HIDE DEF g
  <2>3. SumFunction(g) \in Nat
    BY <1>2, <2>1, SumNatural
  <2> QED
    BY <1>2, <2>2, <2>3, FractionType
<1> QED
  BY <1>1, <1>2, <1>3, <1>4, <1>5, <1>6, <1>7 DEF C

(* An interval lies between the smallest and the largest difference.         *)
LEMMA IntervalBounds ==
    ASSUME plan \in Plans, NEW rs, Full(rs), NEW m \in Paired,
           Comparable(rs, m) # {}, NEW i \in Intervals(rs, m)
    PROVE  /\ i[1] \in Int /\ i[2] \in Int
           /\ \E a \in Diffs(rs, m) : Cardinality(Comparable(rs, m)) * a <= i[2]
           /\ \E a \in Diffs(rs, m) : i[1] <= Cardinality(Comparable(rs, m)) * a
           /\ \A d : Diffs(rs, m) = {d} =>
                  /\ i[1] = Cardinality(Comparable(rs, m)) * d
                  /\ i[2] = Cardinality(Comparable(rs, m)) * d
<1> DEFINE D == Diffs(rs, m)
           n == Cardinality(Comparable(rs, m))
<1>1. n \in Nat /\ D \in SUBSET Int /\ IsFiniteSet(D) /\ D # {}
  BY PairsCompared
<1>2. Intervals(rs, m) =
        IF Cardinality(D) = 1 THEN {<<n * d, n * d>> : d \in D}
        ELSE {j \in ((n * Min(D))..(n * Max(D))) \X ((n * Min(D))..(n * Max(D))) : j[1] <= j[2]}
  BY DEF Intervals
<1> HIDE DEF D, n
<1>3. CASE Cardinality(D) = 1
  <2>1. PICK d \in D : i = <<n * d, n * d>>
    BY <1>2, <1>3
  <2>2. d \in Int /\ n * d \in Int
    BY <1>1
  <2>3. i[1] = n * d /\ i[2] = n * d
    BY <2>1
  <2>4. \A e : D = {e} => e = d
    OBVIOUS
  <2> QED
    BY <2>2, <2>3, <2>4 DEF D, n
<1>4. CASE Cardinality(D) # 1
  <2>1. PICK a \in D, b \in D : \A x \in D : a <= x /\ x <= b
    BY <1>1, HasExtremes
  <2>2. Min(D) \in D /\ Max(D) \in D
    <3>1. \E x \in D : \A y \in D : x <= y
      BY <2>1
    <3>2. \E x \in D : \A y \in D : x >= y
      BY <1>1, <2>1
    <3> QED
      BY <3>1, <3>2 DEF Min, Max
  <2> DEFINE l == n * Min(D)  h == n * Max(D)
  <2>3. l \in Int /\ h \in Int
    <3>1. Min(D) \in Int /\ Max(D) \in Int
      BY <1>1, <2>2
    <3> QED
      BY <1>1, <3>1
  <2>4. i \in (l..h) \X (l..h) /\ i[1] <= i[2]
    BY <1>2, <1>4
  <2>5. \A d : D # {d}
    BY <1>4, FS_Singleton
  <2> HIDE DEF l, h
  <2>6. i[1] \in Int /\ i[2] \in Int /\ l <= i[2] /\ i[1] <= h
    BY <2>3, <2>4
  <2> QED
    BY <2>2, <2>5, <2>6 DEF D, n, l, h
<1> QED
  BY <1>3, <1>4

(* What the evidence of a paired metric is.                                  *)
LEMMA EvidenceOf ==
    ASSUME plan \in Plans, NEW rs, Full(rs), NEW m \in Paired, NEW ev \in MetricEvidence(rs, m)
    PROVE  /\ ev \in EvidenceRecords
           /\ ev.n_pairs = Cardinality(Comparable(rs, m))
           /\ ev.ref = BaselineMean(rs, m)
           /\ ev.kind \in {"no_ci", "ci"}
           /\ ev.n_pairs >= MinPairsForCI <=> ev.kind = "ci"
           /\ ev.kind = "ci" =>
                  /\ Comparable(rs, m) # {}
                  /\ \E i \in Intervals(rs, m) :
                        /\ ev.low = Fraction(i[1], Cardinality(Comparable(rs, m)))
                        /\ ev.high = Fraction(i[2], Cardinality(Comparable(rs, m)))
<1> DEFINE n == Cardinality(Comparable(rs, m))
           Rec(k, low, high) == [kind |-> k, n_pairs |-> n, ref |-> BaselineMean(rs, m),
                                 low |-> low, high |-> high]
<1>1. n \in Nat /\ BaselineMean(rs, m) \in Values /\ IsFiniteSet(Comparable(rs, m))
  BY PairsCompared
<1>2. MetricEvidence(rs, m) =
         IF n < MinPairsForCI THEN {Rec("no_ci", Zero, Zero)}
         ELSE {Rec("ci", Fraction(i[1], n), Fraction(i[2], n)) : i \in Intervals(rs, m)}
  BY DEF MetricEvidence
<1>3. CASE n < MinPairsForCI
  <2>1. ev = Rec("no_ci", Zero, Zero)
    BY <1>2, <1>3
  <2>2. Zero \in Fractions
    BY DEF Zero, Fractions
  <2> QED
    BY <1>1, <1>3, <2>1, <2>2, CIAssumption DEF EvidenceRecords
<1>4. CASE ~ (n < MinPairsForCI)
  <2>1. PICK i \in Intervals(rs, m) : ev = Rec("ci", Fraction(i[1], n), Fraction(i[2], n))
    BY <1>2, <1>4
  <2>2. n >= MinPairsForCI /\ n \in Nat \ {0}
    BY <1>1, <1>4, CIAssumption
  <2>3. Comparable(rs, m) # {}
    BY <2>2, FS_EmptySet
  <2>4. i[1] \in Int /\ i[2] \in Int
    BY <2>3, IntervalBounds
  <2> HIDE DEF n
  <2>5. Fraction(i[1], n) \in Fractions /\ Fraction(i[2], n) \in Fractions
    BY <2>2, <2>4 DEF Fraction, Fractions
  <2> QED
    BY <1>1, <2>1, <2>2, <2>3, <2>5 DEF EvidenceRecords, n
<1> QED
  BY <1>3, <1>4

----------------------------------------------------------------------------

(* The initial states satisfy the invariant.                              *)
LEMMA EvalInvInit == Init => EvalInv
<1> SUFFICES ASSUME Init PROVE EvalInv
  OBVIOUS
<1>1. plan \in Plans /\ stage = "configured" /\ runs = <<>>
      /\ (\A m \in Metrics : evidence[m] = NoEvidence) /\ reasons = {} /\ advisories = {}
  BY DEF Init
<1>2. PlanLength \in Nat
  BY <1>1, PlanTypes
<1>3. runs \in Seq(RunRecords) /\ Len(runs) <= PlanLength
  BY <1>1, <1>2
<1> QED
  BY <1>1, <1>3 DEF EvalInv, Decided, NoVerdicts

(* Running, aggregating and deciding keep it.                             *)
LEMMA EvalInvStep == EvalInv /\ [Next]_vars => EvalInv'
<1> SUFFICES ASSUME EvalInv, [Next]_vars PROVE EvalInv'
  OBVIOUS
<1>0. plan \in Plans /\ runs \in Seq(RunRecords) /\ Len(runs) <= PlanLength
  BY DEF EvalInv
<1>00. PlanLength \in Nat
  BY <1>0, PlanTypes
<1>1. CASE Begin
  <2>1. stage = "configured" /\ stage' \in {"running", "rejected"}
        /\ plan' = plan /\ runs' = runs /\ evidence' = evidence
        /\ reasons' = reasons /\ advisories' = advisories
    BY <1>1 DEF Begin
  <2>2. NoVerdicts /\ NoVerdicts'
    BY <2>1 DEF EvalInv, Decided, NoVerdicts
  <2>3. PlanLength' = PlanLength /\ RunRecords' = RunRecords
    BY <2>1, Stays
  <2> QED
    BY <1>0, <2>1, <2>2, <2>3 DEF EvalInv, Decided
<1>2. CASE Execute
  <2>1. /\ stage = "running" /\ stage' \in {"running", "raised"}
        /\ plan' = plan /\ evidence' = evidence
        /\ reasons' = reasons /\ advisories' = advisories
        /\ Len(runs) < PlanLength
        /\ runs' = runs \/ \E r \in RunRecords : runs' = Append(runs, r)
    BY <1>2 DEF Execute, RunRecords
  <2>2. NoVerdicts /\ NoVerdicts'
    BY <2>1 DEF EvalInv, Decided, NoVerdicts
  <2>3. PlanLength' = PlanLength /\ RunRecords' = RunRecords
    BY <2>1 DEF PlanLength, PerVersion, RunRecords
  <2>4. runs' \in Seq(RunRecords) /\ Len(runs') <= PlanLength
    <3>1. CASE runs' = runs
      BY <1>0, <3>1
    <3>2. ASSUME NEW r \in RunRecords, runs' = Append(runs, r)
          PROVE  runs' \in Seq(RunRecords) /\ Len(runs') <= PlanLength
      <4>1. runs' \in Seq(RunRecords) /\ Len(runs') = Len(runs) + 1 /\ Len(runs) \in Nat
        BY <1>0, <3>2
      <4> QED
        BY <1>00, <2>1, <4>1
    <3> QED
      BY <2>1, <3>1, <3>2
  <2> QED
    BY <1>0, <2>1, <2>2, <2>3, <2>4 DEF EvalInv, Decided
<1>3. CASE Conclude
  <2>1. plan' = plan /\ runs' = runs /\ stage = "running" /\ Len(runs) = PlanLength
    BY <1>3 DEF Conclude
  <2>2. /\ ValuesOf("baseline")' = ValuesOf("baseline")
        /\ ValuesOf("candidate")' = ValuesOf("candidate")
        /\ thresholds' = thresholds /\ PlanLength' = PlanLength /\ RunRecords' = RunRecords
        /\ \A m \in Metrics : PossibleEvidence(m)' = PossibleEvidence(m)
    BY <2>1, Stays
  <2>3. NoVerdicts
    BY <2>1 DEF EvalInv, Decided
  <2>4. CASE UnknownMetrics(Metrics, thresholds) # {}
    <3>1. stage' = "config_error" /\ evidence' = evidence
          /\ reasons' = reasons /\ advisories' = advisories
      BY <1>3, <2>4 DEF Conclude
    <3>2. NoVerdicts'
      BY <2>3, <3>1 DEF NoVerdicts
    <3> QED
      BY <1>0, <2>1, <2>2, <3>1, <3>2 DEF EvalInv, Decided
  <2>5. CASE UnknownMetrics(Metrics, thresholds) = {}
    <3>1. PICK a \in PossibleEvidence("success_rate"), b \in PossibleEvidence("ev.pass_rate"),
               c \in PossibleEvidence("ev.mean_score"), d \in PossibleEvidence("latency_ms.mean") :
            evidence' = [m \in Metrics |-> CASE m = "success_rate" -> a
                                    [] m = "ev.pass_rate" -> b
                                    [] m = "ev.mean_score" -> c
                                    [] m = "latency_ms.mean" -> d
                                    [] OTHER -> NoEvidence]
      BY <1>3, <2>5 DEF Conclude, PossibleEvidence
    <3>2. /\ reasons' = Reasons(Metrics, ValuesOf("baseline"), ValuesOf("candidate"), thresholds, evidence')
          /\ advisories' = Advisories(Metrics, ValuesOf("baseline"), ValuesOf("candidate"),
                                      thresholds, evidence')
          /\ stage' = Decision(reasons')
      BY <1>3, <2>5 DEF Conclude, ValuesOf
    <3>3. stage' \in {"PASS", "BLOCK"}
      BY <3>2 DEF Decision
    <3>4. \A m \in Metrics : evidence'[m] \in PossibleEvidence(m)
      <4>1. \A m \in Metrics \ Paired : PossibleEvidence(m) = {NoEvidence}
        BY DEF PossibleEvidence, MetricEvidence
      <4>2. Metrics \ Paired = {"latency_ms.p95", "cost_usd.total"}
            /\ Metrics = {"success_rate", "ev.pass_rate", "ev.mean_score", "latency_ms.mean",
                          "latency_ms.p95", "cost_usd.total"}
        BY DEF Metrics, Paired, Rates, LowerIsBetter
      <4> QED
        BY <3>1, <4>1, <4>2
    <3>5. Verdicts'
      <4>1. Len(runs') = PlanLength'
        BY <2>1, <2>2
      <4>2. \A m \in Metrics : evidence'[m] \in PossibleEvidence(m)'
        BY <2>2, <3>4
      <4> QED
        BY <2>2, <3>2, <4>1, <4>2 DEF Verdicts
    <3> QED
      BY <1>0, <2>1, <2>2, <3>3, <3>5 DEF EvalInv, Decided
  <2> QED
    BY <2>4, <2>5
<1>4. CASE UNCHANGED vars
  <2>1. plan' = plan /\ stage' = stage /\ runs' = runs /\ evidence' = evidence
        /\ reasons' = reasons /\ advisories' = advisories
    BY <1>4 DEF vars
  <2>2. /\ ValuesOf("baseline")' = ValuesOf("baseline")
        /\ ValuesOf("candidate")' = ValuesOf("candidate")
        /\ thresholds' = thresholds /\ PlanLength' = PlanLength /\ RunRecords' = RunRecords
        /\ \A m \in Metrics : PossibleEvidence(m)' = PossibleEvidence(m)
    BY <2>1, Stays
  <2>3. Verdicts => Verdicts'
    BY <2>1, <2>2 DEF Verdicts
  <2>4. NoVerdicts => NoVerdicts'
    BY <2>1 DEF NoVerdicts
  <2> QED
    BY <1>0, <2>1, <2>2, <2>3, <2>4 DEF EvalInv, Decided
<1> QED
  BY <1>1, <1>2, <1>3, <1>4 DEF Next, Finished

(* A decision is made about all runs of the plan.                         *)
LEMMA DecidedRuns ==
    ASSUME EvalInv, Decided
    PROVE  plan \in Plans /\ Full(runs) /\ Verdicts
<1>1. plan \in Plans /\ runs \in Seq(RunRecords) /\ Verdicts
  BY DEF EvalInv
<1>2. Len(runs) = PlanLength /\ RunRecords \subseteq RunType
  BY <1>1, PlanTypes DEF Verdicts
<1>3. runs \in [1..Len(runs) -> RunRecords]
  BY <1>1
<1> QED
  BY <1>1, <1>2, <1>3 DEF Full

(* What the metrics and the evidence of a decision are.                      *)
LEMMA DecidedEvidence ==
    ASSUME EvalInv, NEW m \in Metrics
    PROVE  /\ evidence[m] \in EvidenceRecords
           /\ Decided /\ m \in Paired /\ thresholds[m] # Ungated => evidence[m] \in MetricEvidence(runs, m)
<1>1. NoEvidence \in EvidenceRecords
  BY DEF NoEvidence, EvidenceRecords, Zero, Values, Fractions
<1>2. CASE ~ Decided
  BY <1>1, <1>2 DEF EvalInv, NoVerdicts
<1>3. CASE Decided
  <2>1. plan \in Plans /\ Full(runs) /\ evidence[m] \in PossibleEvidence(m)
    BY <1>3, DecidedRuns DEF Verdicts
  <2>2. CASE thresholds[m] = Ungated \/ m \notin Paired
    <3>1. evidence[m] = NoEvidence
      BY <2>1, <2>2 DEF PossibleEvidence, MetricEvidence
    <3> QED
      BY <1>1, <2>2, <3>1
  <2>3. CASE thresholds[m] # Ungated /\ m \in Paired
    <3>1. evidence[m] \in MetricEvidence(runs, m)
      BY <2>1, <2>3 DEF PossibleEvidence
    <3>2. evidence[m] \in EvidenceRecords
      BY <2>1, <2>3, <3>1, EvidenceOf
    <3> QED
      BY <3>1, <3>2
  <2> QED
    BY <2>2, <2>3
<1> QED
  BY <1>2, <1>3

(* Every variable has its type.                                              *)
THEOREM EvaluationTypeCorrect == Spec => []TypeOK
<1>1. EvalInv => TypeOK
  <2> SUFFICES ASSUME EvalInv PROVE TypeOK
    OBVIOUS
  <2>1. /\ plan \in Plans
        /\ stage \in {"configured", "running", "rejected", "raised", "config_error", "PASS", "BLOCK"}
        /\ Len(runs) <= PlanLength
        /\ runs \in [1..Len(runs) -> RunRecords]
    BY DEF EvalInv
  <2>2. \A m \in Metrics : evidence[m] \in EvidenceRecords
    BY DecidedEvidence
  <2>3. reasons \subseteq Metrics /\ advisories \subseteq Metrics
    BY DEF EvalInv, Verdicts, NoVerdicts, Reasons, Advisories
  <2> QED
    BY <2>1, <2>2, <2>3 DEF TypeOK
<1> QED
  BY <1>1, EvalInvInit, EvalInvStep, PTL DEF Spec

(* No two runs of a version share a case and repeat, and pairing drops none: *)
(* the index arithmetic of the runner's loops, for any cases and repeats.    *)
THEOREM EachKeyRunsOnce == Spec => []EveryKeyOnce
<1>1. EvalInv => EveryKeyOnce
  <2> SUFFICES ASSUME EvalInv PROVE EveryKeyOnce
    OBVIOUS
  <2>1. plan \in Plans /\ runs \in Seq(RunRecords) /\ Len(runs) <= PlanLength
    BY DEF EvalInv
  <2>2. PlanLength \in Nat /\ Len(runs) \in Nat /\ DOMAIN runs = 1..Len(runs)
    BY <2>1, PlanTypes
  <2>3. DOMAIN runs \subseteq 1..PlanLength
    BY <2>1, <2>2
  <2>4. \A i, j \in DOMAIN runs : Version(i) = Version(j) /\ Key(i) = Key(j) => i = j
    BY <2>1, <2>3, KeyOf
  <2>5. Gated # {} => Matched(runs) = Keys
    <3>1. Gated # {} => Decided
      BY DEF Gated, Decided
    <3>2. Decided => Matched(runs) = Keys
      BY DecidedRuns, SideOf
    <3> QED
      BY <3>1, <3>2
  <2> QED
    BY <2>4, <2>5 DEF EveryKeyOnce
<1> QED
  BY <1>1, EvalInvInit, EvalInvStep, PTL DEF Spec

----------------------------------------------------------------------------
(* A bound on a mean of n differences carries over to one of them.           *)
LEMMA BelowBoundary ==
    ASSUME NEW s \in Nat \ {0}, NEW n \in Nat \ {0}, NEW q \in Nat \ {0}, NEW t \in Nat, NEW r \in Nat,
           NEW h \in Int, NEW a \in Int, n * a <= h, s * (h * q) < -(t * (r * n))
    PROVE  s * (a * q) < -(t * r)
<1>1. (s * q) * (n * a) <= (s * q) * h
  OBVIOUS
<1>2. (s * q) * (n * a) = n * (s * (a * q))
  OBVIOUS
<1>3. (s * q) * h = s * (h * q) /\ -(t * (r * n)) = n * (-(t * r))
  OBVIOUS
<1>4. n * (s * (a * q)) < n * (-(t * r))
  BY <1>1, <1>2, <1>3
<1> QED
  BY <1>4

(* The same for a metric of which lower is better: when the least         *)
(* possible mean is above the boundary, so is the largest single delta.   *)
LEMMA AboveBoundary ==
    ASSUME NEW s \in Nat \ {0}, NEW n \in Nat \ {0}, NEW q \in Nat \ {0}, NEW t \in Nat, NEW r \in Nat,
           NEW l \in Int, NEW a \in Int, l <= n * a, s * (l * q) > t * (r * n)
    PROVE  s * (a * q) > t * r
<1>1. (s * q) * l <= (s * q) * (n * a)
  OBVIOUS
<1>2. (s * q) * (n * a) = n * (s * (a * q))
  OBVIOUS
<1>3. (s * q) * l = s * (l * q) /\ t * (r * n) = n * (t * r)
  OBVIOUS
<1>4. n * (t * r) < n * (s * (a * q))
  BY <1>1, <1>2, <1>3
<1> QED
  BY <1>4

(* A block has enough pairs and a pair that itself moved past the         *)
(* boundary: the interval's worse end bounds some pair from beyond        *)
(* (statistics.py, gate.py).                                              *)
LEMMA WitnessedBlock == EvalInv => BlockHasWitness
<1> SUFFICES ASSUME EvalInv, NEW m \in reasons \cap Paired
             PROVE  /\ evidence[m].n_pairs >= MinPairsToBlock
                    /\ \E k \in Comparable(runs, m) :
                          IF Direction(m) = "higher_is_better"
                            THEN Scale * (Diff(runs, m, k) * evidence[m].ref.den)
                                     < -(thresholds[m] * evidence[m].ref.num)
                            ELSE Scale * (Diff(runs, m, k) * evidence[m].ref.den)
                                     > thresholds[m] * evidence[m].ref.num
  BY DEF BlockHasWitness
<1> DEFINE ev == evidence[m]
           t == thresholds[m]
           n == Cardinality(Comparable(runs, m))
<1>1. Decided
  BY DEF EvalInv, NoVerdicts
<1>2. plan \in Plans /\ Full(runs) /\ Verdicts
  BY <1>1, DecidedRuns
<1>3. /\ m \in Metrics /\ m \in Paired
      /\ Verdict(m, ValuesOf("baseline")[m], ValuesOf("candidate")[m], t, ev) = "regression"
  BY <1>2 DEF Verdicts, Reasons
<1>4. t # Ungated
  BY <1>3 DEF Verdict, Outcome, ThresholdBreached
<1>5. ev \in MetricEvidence(runs, m)
  BY <1>1, <1>3, <1>4, DecidedEvidence
<1>6. t \in Nat
  BY <1>2, <1>3, <1>4, PlanTypes
<1> HIDE DEF ev, t
<1>7. /\ ev \in EvidenceRecords /\ ev.n_pairs = n /\ ev.kind \in {"no_ci", "ci"}
      /\ ev.kind = "ci" =>
              /\ Comparable(runs, m) # {}
              /\ \E i \in Intervals(runs, m) : /\ ev.low = Fraction(i[1], n)
                                               /\ ev.high = Fraction(i[2], n)
  BY <1>2, <1>5, EvidenceOf
<1>8. ~ (ev.n_pairs < MinPairsToBlock) /\ ev.kind = "ci" /\ CIConfirmsRegression(ev, Direction(m), t)
  BY <1>3, <1>7 DEF Verdict, Outcome
<1>9. PICK i \in Intervals(runs, m) : ev.low = Fraction(i[1], n) /\ ev.high = Fraction(i[2], n)
  BY <1>7, <1>8
<1>10. /\ Comparable(runs, m) # {} /\ n \in Nat \ {0}
       /\ Diffs(runs, m) \in SUBSET Int
  BY <1>2, <1>7, <1>8, PairsCompared
<1> HIDE DEF n
<1>11. /\ i[1] \in Int /\ i[2] \in Int
       /\ \E a \in Diffs(runs, m) : n * a <= i[2]
       /\ \E a \in Diffs(runs, m) : i[1] <= n * a
  BY <1>2, <1>10, IntervalBounds DEF n
<1>12. ev.low.num = i[1] /\ ev.low.den = n /\ ev.high.num = i[2] /\ ev.high.den = n
  BY <1>9 DEF Fraction
<1>13. ev.ref.num \in Nat /\ ev.ref.den \in Nat \ {0} /\ Scale \in Nat \ {0}
  BY <1>7, ScaleAssumption DEF EvidenceRecords, Values
<1>14. ev.n_pairs >= MinPairsToBlock
  BY <1>7, <1>8, <1>10, MinPairsAssumption
<1>15. CASE Direction(m) = "higher_is_better"
  <2>1. Scale * (i[2] * ev.ref.den) < -(t * (ev.ref.num * n))
    BY <1>8, <1>12, <1>15 DEF CIConfirmsRegression
  <2>2. PICK a \in Diffs(runs, m) : n * a <= i[2]
    BY <1>11
  <2>3. a \in Int
    BY <1>10
  <2>4. Scale * (a * ev.ref.den) < -(t * ev.ref.num)
    BY <1>6, <1>10, <1>11, <1>13, <2>1, <2>2, <2>3, BelowBoundary
  <2>5. PICK k \in Comparable(runs, m) : Diff(runs, m, k) = a
    BY DEF Diffs
  <2> QED
    BY <1>14, <1>15, <2>4, <2>5 DEF ev, t
<1>16. CASE Direction(m) # "higher_is_better"
  <2>1. Scale * (i[1] * ev.ref.den) > t * (ev.ref.num * n)
    BY <1>8, <1>12, <1>16 DEF CIConfirmsRegression
  <2>2. PICK a \in Diffs(runs, m) : i[1] <= n * a
    BY <1>11
  <2>3. a \in Int
    BY <1>10
  <2>4. Scale * (a * ev.ref.den) > t * ev.ref.num
    BY <1>6, <1>10, <1>11, <1>13, <2>1, <2>2, <2>3, AboveBoundary
  <2>5. PICK k \in Comparable(runs, m) : Diff(runs, m, k) = a
    BY DEF Diffs
  <2> QED
    BY <1>14, <1>16, <2>4, <2>5 DEF ev, t
<1> QED
  BY <1>15, <1>16

(* No metric with evidence blocks a release unless one of at least the    *)
(* minimum number of pairs itself moved past the threshold, whatever the  *)
(* plan, the outcomes and the interval the bootstrap gives.               *)
THEOREM BlocksAreWitnessed == Spec => []BlockHasWitness
  BY WitnessedBlock, EvalInvInit, EvalInvStep, PTL DEF Spec

----------------------------------------------------------------------------
(* The two computations of a metric: a value aggregated over the runs of a   *)
(* version is the mean of what is observed of it pair by pair, when no pair  *)
(* is dropped.                                                               *)
ObservedBy(rs, v, m) == [k \in Keys |-> Observed(RunAt(rs, v, k), m)]

(* The aggregated value is the mean over the pairs.                       *)
LEMMA ValueIsMeanObserved ==
    ASSUME plan \in Plans, NEW rs, Full(rs), NEW v \in Versions, NEW m \in Paired,
           Comparable(rs, m) = Keys
    PROVE  Value(rs, v, m) = Fraction(SumFunction(ObservedBy(rs, v, m)), PerVersion)
<1> DEFINE f == ObservedBy(rs, v, m)
           g == [i \in Places(v) |-> Observed(rs[i], m)]
           ok == Succeeded(rs, v)
           P == {i \in ok : rs[i].passed}
<1>1. PerVersion \in Nat \ {0} /\ IsFiniteSet(Places(v)) /\ Side(rs, v) = Places(v)
      /\ Cardinality(Side(rs, v)) = PerVersion /\ Cardinality(Places(v)) = PerVersion
  BY PlanTypes, PlacesOf, SideOf
<1>2. \A i \in Places(v) : Key(i) \in Keys /\ RunAt(rs, v, Key(i)) = rs[i] /\ rs[i] \in RunType
  BY SideOf, KeyOf DEF Places
<1>3. f \in [Keys -> Int] /\ \A k \in Keys : f[k] \in Nat
  BY PairsCompared DEF ObservedBy
<1>4. \A i \in Places(v) : g[i] = f[Key(i)]
  BY <1>2 DEF ObservedBy
<1>5. g \in [Places(v) -> Int]
  BY <1>2, <1>3, <1>4
<1>6. \A i \in Places(v) : g[i] = Observed(rs[i], m)
  OBVIOUS
<1> HIDE DEF f, g
<1>7. SumFunction(g) = SumFunction(f)
  BY <1>3, <1>4, <1>5, SumByKey
<1>8. ok = {i \in Places(v) : ~ rs[i].error} /\ ok \in SUBSET Places(v)
  BY SucceededOf
<1>9. \A i \in Places(v) : rs[i].score \in Nat /\ rs[i].latency \in Nat
  BY <1>2 DEF RunType
<1>10. CASE m = "success_rate"
  <2>1. \A i \in Places(v) : g[i] = IF i \in ok THEN 1 ELSE 0
    BY <1>6, <1>8, <1>10 DEF Observed
  <2> HIDE DEF ok
  <2>2. SumFunction(g) = Cardinality(ok)
    BY <1>1, <1>5, <1>8, <2>1, SumCounts
  <2> QED
    BY <1>1, <1>7, <1>10, <2>2 DEF Value, SuccessRate, ok, f
<1>11. CASE m = "ev.pass_rate"
  <2>1. P \in SUBSET Places(v) /\ \A i \in Places(v) : g[i] = IF i \in P THEN 1 ELSE 0
    BY <1>6, <1>8, <1>11 DEF Observed
  <2> HIDE DEF P
  <2>2. SumFunction(g) = Cardinality(P)
    BY <1>1, <1>5, <2>1, SumCounts
  <2> QED
    BY <1>1, <1>7, <1>11, <2>2 DEF Value, PassRate, P, f
<1>12. CASE m = "ev.mean_score"
  <2> DEFINE h == [i \in ok |-> rs[i].score]
  <2>1. \A i \in Places(v) : g[i] = IF i \in ok THEN h[i] ELSE 0
    BY <1>6, <1>8, <1>9, <1>12 DEF Observed
  <2>2. ok \in SUBSET Places(v)
    BY <1>8
  <2>4. IsFiniteSet(Places(v))
    BY <1>1
  <2>5. h \in [ok -> Int]
    BY <1>8, <1>9
  <2> HIDE DEF ok, h
  <2>3. SumFunction(g) = SumFunction(h)
    BY <1>5, <2>1, <2>2, <2>4, <2>5, SumZeros
  <2> QED
    BY <1>1, <1>7, <1>12, <2>3 DEF Value, MeanScore, h, ok, f
<1>13. CASE m = "latency_ms.mean"
  <2>1. \A k \in Keys : ~ RunAt(rs, "baseline", k).error /\ ~ RunAt(rs, "candidate", k).error
    BY <1>13 DEF Comparable
  <2>2. \A i \in Places(v) : ~ rs[i].error
    BY <1>2, <2>1 DEF Versions
  <2>3. ok = Places(v)
    BY <1>8, <2>2
  <2>4. g = [i \in Places(v) |-> rs[i].latency]
    BY <1>13 DEF g, Observed
  <2>5. Cardinality(ok) = PerVersion /\ ok # {}
    BY <1>1, <2>3, FS_EmptySet
  <2> HIDE DEF ok
  <2>6. LatencyMean(rs, v) = Fraction(SumFunction([i \in ok |-> rs[i].latency]), Cardinality(ok))
    BY <2>5 DEF LatencyMean, ok
  <2>7. LatencyMean(rs, v) = Fraction(SumFunction(g), PerVersion)
    BY <2>3, <2>4, <2>5, <2>6
  <2> QED
    BY <1>7, <1>13, <2>7 DEF Value, f
<1> QED
  BY <1>10, <1>11, <1>12, <1>13 DEF Paired, Rates

(* The same for the baseline mean of the evidence, and for the difference of *)
(* the two values.                                                           *)
LEMMA SameMean ==
    ASSUME plan \in Plans, NEW rs, Full(rs), NEW m \in Paired, Comparable(rs, m) = Keys
    PROVE  /\ BaselineMean(rs, m) = Value(rs, "baseline", m)
           /\ Value(rs, "baseline", m).den = PerVersion
           /\ Value(rs, "candidate", m).den = PerVersion
           /\ Value(rs, "candidate", m).num - Value(rs, "baseline", m).num
                = SumFunction([k \in Keys |-> Diff(rs, m, k)])
           /\ Value(rs, "candidate", m).num \in Nat /\ Value(rs, "baseline", m).num \in Nat
<1> DEFINE a == ObservedBy(rs, "baseline", m)
           b == ObservedBy(rs, "candidate", m)
           d == [k \in Keys |-> Diff(rs, m, k)]
<1>1. PerVersion \in Nat \ {0} /\ IsFiniteSet(Keys) /\ Cardinality(Keys) = PerVersion
      /\ Keys # {}
  BY PlanTypes, PlacesOf, FS_EmptySet DEF Versions
<1>2. "baseline" \in Versions /\ "candidate" \in Versions
  BY DEF Versions
<1>3. a \in [Keys -> Nat] /\ b \in [Keys -> Nat] /\ d \in [Keys -> Int]
      /\ \A k \in Keys : d[k] = b[k] - a[k]
  BY <1>2, PairsCompared DEF ObservedBy, Diff
<1>4. BaselineMean(rs, m) = Fraction(SumFunction(a), PerVersion)
  BY <1>1 DEF BaselineMean, ObservedBy
<1>5. Value(rs, "baseline", m) = Fraction(SumFunction(a), PerVersion)
      /\ Value(rs, "candidate", m) = Fraction(SumFunction(b), PerVersion)
  BY <1>2, ValueIsMeanObserved
<1> HIDE DEF a, b, d
<1>6. SumFunction(a) \in Nat /\ SumFunction(b) \in Nat
  BY <1>1, <1>3, SumNatural
<1>7. SumFunction(d) = SumFunction(b) - SumFunction(a)
  <2>1. a \in [Keys -> Int] /\ b \in [Keys -> Int]
    BY <1>3
  <2> QED
    BY <1>1, <1>3, <2>1, SumDifference
<1> QED
  BY <1>4, <1>5, <1>6, <1>7 DEF Fraction, d

(* The evidence's reference and mean delta are the aggregated values.     *)
LEMMA MeansAgree == EvalInv => EvidenceMatchesMetric
<1> SUFFICES ASSUME EvalInv, NEW m \in Gated \cap Paired, Comparable(runs, m) = Keys
             PROVE  /\ evidence[m].ref.num * Value(runs, "baseline", m).den
                         = Value(runs, "baseline", m).num * evidence[m].ref.den
                    /\ Value(runs, "candidate", m).num * Value(runs, "baseline", m).den
                            - Value(runs, "baseline", m).num * Value(runs, "candidate", m).den
                         = SumFunction([k \in Keys |-> Diff(runs, m, k)]) * Value(runs, "candidate", m).den
  BY DEF EvidenceMatchesMetric
<1>1. Decided /\ m \in Metrics /\ m \in Paired /\ thresholds[m] # Ungated
  BY DEF Gated, Decided
<1>2. plan \in Plans /\ Full(runs)
  BY <1>1, DecidedRuns
<1>3. evidence[m] \in MetricEvidence(runs, m)
  BY <1>1, DecidedEvidence
<1>4. evidence[m].ref = BaselineMean(runs, m)
  BY <1>1, <1>2, <1>3, EvidenceOf
<1> DEFINE b == Value(runs, "baseline", m)
           c == Value(runs, "candidate", m)
           total == SumFunction([k \in Keys |-> Diff(runs, m, k)])
<1>5. BaselineMean(runs, m) = b /\ b.den = PerVersion /\ c.den = PerVersion
      /\ c.num - b.num = total /\ c.num \in Nat /\ b.num \in Nat
  BY <1>1, <1>2, SameMean
<1>6. PerVersion \in Nat
  BY <1>2, PlanTypes
<1> HIDE DEF b, c, total
<1>7. c.num * PerVersion - b.num * PerVersion = total * PerVersion
  BY <1>5, <1>6
<1> QED
  BY <1>4, <1>5, <1>7 DEF b, c, total

(* With no pair dropped, the evidence's reference and mean delta are the     *)
(* aggregated values the threshold is applied to (aggregate.py, stats.py).   *)
THEOREM EvidenceIsOfTheMetric == Spec => []EvidenceMatchesMetric
  BY MeansAgree, EvalInvInit, EvalInvStep, PTL DEF Spec

----------------------------------------------------------------------------
(* When all n pairs moved by d, a breached threshold is also passed by the   *)
(* interval, which is the one point d.                                       *)
LEMMA UniformConfirms ==
    ASSUME NEW s \in Nat \ {0}, NEW n \in Nat \ {0}, NEW t \in Nat,
           NEW b \in Nat, NEW c \in Nat, NEW d \in Int, c - b = n * d
    PROVE  /\ s * (b * n - c * n) > t * (b * n) => s * ((n * d) * n) < -(t * (b * n))
           /\ s * (c * n - b * n) > t * (b * n) => s * ((n * d) * n) > t * (b * n)
           /\ b = 0 /\ c # 0 => s * ((n * d) * n) > t * (b * n)
<1> DEFINE x == n * d
<1>1. x \in Int /\ c = b + x
  OBVIOUS
<1> HIDE DEF x
<1>2. c * n - b * n = x * n /\ b * n - c * n = -(x * n)
  BY <1>1
<1>3. ASSUME s * (b * n - c * n) > t * (b * n) PROVE s * (x * n) < -(t * (b * n))
  <2> DEFINE y == s * (x * n)  z == t * (b * n)
  <2>1. s * (b * n - c * n) = -y /\ y \in Int /\ z \in Int
    BY <1>1, <1>2
  <2>2. s * (b * n - c * n) > z
    BY <1>3
  <2> HIDE DEF y, z
  <2>3. y < -z
    BY <2>1, <2>2
  <2> QED
    BY <2>3 DEF y, z
<1>4. ASSUME b = 0, c # 0 PROVE s * (x * n) > t * (b * n)
  <2>1. x > 0 /\ t * (b * n) = 0
    BY <1>1, <1>4
  <2>2. \A p, q \in Nat \ {0} : p * q \in Nat \ {0}
    OBVIOUS
  <2>3. x * n \in Nat \ {0}
    BY <1>1, <2>1, <2>2
  <2>4. s * (x * n) \in Nat \ {0}
    BY <2>2, <2>3
  <2> QED
    BY <2>1, <2>4
<1> QED
  BY <1>2, <1>3, <1>4 DEF x

(* When all pairs moved alike, every resample has their delta as its      *)
(* mean: a breached threshold cannot stay an advisory.                    *)
LEMMA UniformBlocks == EvalInv => UniformRegressionBlocks
<1> DEFINE B(m) == Value(runs, "baseline", m)
           C(m) == Value(runs, "candidate", m)
<1> SUFFICES ASSUME EvalInv, NEW m \in Gated \cap Paired,
                    ThresholdBreached(Direction(m), B(m), C(m), thresholds[m]),
                    Cardinality(Comparable(runs, m)) >= MinPairsToBlock,
                    Comparable(runs, m) = Keys,
                    Cardinality(Diffs(runs, m)) = 1
             PROVE  m \in reasons
  BY DEF UniformRegressionBlocks
<1>1. Decided /\ m \in Metrics /\ m \in Paired /\ thresholds[m] # Ungated
  BY DEF Gated, Decided
<1>2. plan \in Plans /\ Full(runs) /\ Verdicts
  BY <1>1, DecidedRuns
<1>3. evidence[m] \in MetricEvidence(runs, m)
  BY <1>1, DecidedEvidence
<1> DEFINE ev == evidence[m]
           t == thresholds[m]
           n == PerVersion
           b == B(m).num
           c == C(m).num
<1>4. n \in Nat \ {0} /\ Cardinality(Keys) = n /\ IsFiniteSet(Keys) /\ t \in Nat
      /\ Scale \in Nat \ {0}
  BY <1>1, <1>2, PlanTypes, PlacesOf, ScaleAssumption DEF Versions
<1>5. /\ BaselineMean(runs, m) = B(m) /\ B(m).den = n /\ C(m).den = n
      /\ c - b = SumFunction([k \in Keys |-> Diff(runs, m, k)])
      /\ c \in Nat /\ b \in Nat
  BY <1>1, <1>2, SameMean
<1>6. PICK d \in Int : Diffs(runs, m) = {d}
  <2>1. IsFiniteSet(Diffs(runs, m)) /\ Diffs(runs, m) \in SUBSET Int
    BY <1>1, <1>2, PairsCompared
  <2>2. \E d : Diffs(runs, m) = {d}
    BY <2>1, FS_Singleton
  <2> QED
    BY <2>1, <2>2
<1>7. c - b = n * d
  <2> DEFINE g == [k \in Keys |-> Diff(runs, m, k)]
  <2>1. \A k \in Keys : Diff(runs, m, k) = d
    BY <1>6 DEF Diffs
  <2>2. g \in [Keys -> Int] /\ \A k \in Keys : g[k] = d
    BY <2>1
  <2>3. c - b = SumFunction(g)
    BY <1>5
  <2> HIDE DEF g, b, c
  <2>4. SumFunction(g) = Cardinality(Keys) * d
    BY <1>4, <2>2, SumConstant
  <2> QED
    BY <1>4, <2>3, <2>4
<1>8. /\ ev \in EvidenceRecords /\ ev.n_pairs = n /\ ev.ref = B(m)
      /\ ev.kind \in {"no_ci", "ci"} /\ (ev.n_pairs >= MinPairsForCI <=> ev.kind = "ci")
      /\ ev.kind = "ci" =>
              \E i \in Intervals(runs, m) : ev.low = Fraction(i[1], n) /\ ev.high = Fraction(i[2], n)
  BY <1>1, <1>2, <1>3, <1>4, <1>5, EvidenceOf
<1>9. n >= MinPairsToBlock /\ n >= MinPairsForCI /\ ~ (n < MinPairsToBlock)
  BY <1>4, CIAssumption, MinPairsAssumption
<1>10. ev.kind = "ci"
  BY <1>8, <1>9
<1>11. PICK i \in Intervals(runs, m) : ev.low = Fraction(i[1], n) /\ ev.high = Fraction(i[2], n)
  BY <1>8, <1>10
<1>12. i[1] = n * d /\ i[2] = n * d
  <2>1. Comparable(runs, m) # {}
    BY <1>4, FS_EmptySet
  <2>2. Cardinality(Comparable(runs, m)) = n
    BY <1>4
  <2> QED
    BY <1>1, <1>2, <1>6, <2>1, <2>2, IntervalBounds
<1>13. /\ ev.low.num = n * d /\ ev.low.den = n /\ ev.high.num = n * d /\ ev.high.den = n
       /\ ev.ref.num = b /\ ev.ref.den = n
  BY <1>5, <1>8, <1>11, <1>12 DEF Fraction
<1>14. CIConfirmsRegression(ev, Direction(m), t)
  <2>1. Direction(m) \in {"higher_is_better", "lower_is_better"}
    BY DEF Direction
  <2>2. ThresholdBreached(Direction(m), B(m), C(m), t)
    OBVIOUS
  <2>3. CASE Direction(m) = "higher_is_better"
    <3>1. Scale * (b * n - c * n) > t * (b * n)
      BY <1>5, <2>2, <2>3 DEF ThresholdBreached
    <3> HIDE DEF b, c, n, t, ev
    <3>2. Scale * ((n * d) * n) < -(t * (b * n))
      BY <1>4, <1>5, <1>7, <3>1, UniformConfirms
    <3> QED
      BY <1>13, <2>3, <3>2 DEF CIConfirmsRegression
  <2>4. CASE Direction(m) = "lower_is_better"
    <3>1. IF b = 0 THEN c # 0 ELSE Scale * (c * n - b * n) > t * (b * n)
      BY <1>5, <2>2, <2>4 DEF ThresholdBreached
    <3> HIDE DEF b, c, n, t, ev
    <3>2. Scale * ((n * d) * n) > t * (b * n)
      BY <1>4, <1>5, <1>7, <3>1, UniformConfirms
    <3> QED
      BY <1>13, <2>4, <3>2 DEF CIConfirmsRegression
  <2> QED
    BY <2>1, <2>3, <2>4
<1>15. Verdict(m, B(m), C(m), t, ev) = "regression"
  <2>1. ThresholdBreached(Direction(m), B(m), C(m), t)
    OBVIOUS
  <2> HIDE DEF B, C, t, ev, n
  <2> QED
    BY <1>8, <1>9, <1>10, <1>14, <2>1 DEF Verdict, Outcome
<1> QED
  BY <1>1, <1>2, <1>15 DEF Verdicts, Reasons, ValuesOf

(* The statistical guard only removes noise: with enough pairs that all      *)
(* moved alike, a breached threshold blocks.                                 *)
THEOREM UniformRegressionsBlock == Spec => []UniformRegressionBlocks
  BY UniformBlocks, EvalInvInit, EvalInvStep, PTL DEF Spec

----------------------------------------------------------------------------
(* A worse candidate: for higher-is-better metrics, any smaller sum over the *)
(* same runs; the breach stays.                                              *)
LEMMA LowerCandidateKeepsBreach ==
    ASSUME NEW b \in Values, NEW c \in Values, NEW e \in Values, NEW t \in Nat,
           e.den = c.den, e.num <= c.num,
           ThresholdBreached("higher_is_better", b, c, t)
    PROVE  ThresholdBreached("higher_is_better", b, e, t)
<1> DEFINE p == b.num * c.den
           x == c.num * b.den
           y == e.num * b.den
           lim == t * p
<1>1. /\ b.num \in Nat /\ c.num \in Nat /\ e.num \in Nat
      /\ b.den \in Nat /\ c.den \in Nat /\ e.den \in Nat /\ Scale \in Nat
  BY ScaleAssumption DEF Values
<1>2. p \in Nat /\ x \in Nat /\ y \in Nat /\ y <= x /\ lim \in Nat
  BY <1>1, TimesMonotone
<1>3. b.num # 0 /\ Scale * (p - x) > lim
  BY DEF ThresholdBreached
<1> HIDE DEF p, x, y, lim
<1>4. Scale * (p - x) <= Scale * (p - y)
  BY <1>1, <1>2
<1>5. Scale * (p - y) > lim
  <2>1. Scale * (p - x) \in Int /\ Scale * (p - y) \in Int
    BY <1>1, <1>2
  <2> QED
    BY <1>2, <1>3, <1>4, <2>1
<1>6. t # Ungated
  BY DEF Ungated
<1> QED
  BY <1>3, <1>5, <1>6 DEF ThresholdBreached, p, y, lim

(* One more failure lowers every rate, over the same number of runs.         *)
LEMMA FailureLowers ==
    ASSUME plan \in Plans, NEW rs, Full(rs), NEW m \in Rates, NEW i \in Places("candidate")
    PROVE  /\ Value(rs, "candidate", m) \in Values
           /\ Value(Failing(rs, i), "candidate", m) \in Values
           /\ Value(Failing(rs, i), "candidate", m).den = Value(rs, "candidate", m).den
           /\ Value(Failing(rs, i), "candidate", m).num <= Value(rs, "candidate", m).num
<1> DEFINE ft == Failing(rs, i)
           v == "candidate"
<1>1. v \in Versions /\ m \in Paired /\ m \in Metrics /\ m # "latency_ms.mean"
  BY DEF Versions, Paired, Metrics, Rates
<1>2. FailedRun \in RunType
  BY DEF FailedRun, RunType
<1>3. Full(ft) /\ i \in 1..PlanLength
      /\ \A j \in 1..PlanLength : ft[j] = IF j = i THEN FailedRun ELSE rs[j]
  BY <1>2 DEF Full, Failing, Places
<1>4. Comparable(rs, m) = Keys
  BY <1>1, SideOf DEF Comparable
<1>5. Comparable(ft, m) = Keys
  BY <1>1, <1>3, SideOf DEF Comparable
<1> HIDE DEF ft, v
<1>6. Value(rs, v, m) = Fraction(SumFunction(ObservedBy(rs, v, m)), PerVersion)
  BY <1>1, <1>4, ValueIsMeanObserved
<1>7. Value(ft, v, m) = Fraction(SumFunction(ObservedBy(ft, v, m)), PerVersion)
  BY <1>1, <1>3, <1>5, ValueIsMeanObserved
<1>8. Value(rs, v, m) \in Values /\ Value(ft, v, m) \in Values
  BY <1>1, <1>3, ValueType
<1>9. /\ \A k \in Keys : Observed(RunAt(rs, v, k), m) \in Nat
      /\ \A k \in Keys : Observed(RunAt(ft, v, k), m) \in Nat
  BY <1>1, <1>3, PairsCompared
<1>10. ASSUME NEW k \in Keys PROVE Observed(RunAt(ft, v, k), m) <= Observed(RunAt(rs, v, k), m)
  <2>1. PICK j \in Places(v) : Key(j) = k
    BY <1>1, KeyOf DEF Places
  <2>2. RunAt(rs, v, k) = rs[j]
    BY <1>1, <2>1, SideOf
  <2>3. RunAt(ft, v, k) = ft[j]
    BY <1>1, <1>3, <2>1, SideOf
  <2>4. ft[j] = IF j = i THEN FailedRun ELSE rs[j]
    BY <1>3, <2>1 DEF Places
  <2>5. Observed(FailedRun, m) = 0
    BY DEF Observed, FailedRun, Rates
  <2>6. CASE j = i
    BY <1>9, <2>3, <2>4, <2>5, <2>6
  <2>7. CASE j # i
    BY <1>9, <2>2, <2>3, <2>4, <2>7
  <2> QED
    BY <2>6, <2>7
<1> DEFINE f == ObservedBy(ft, v, m)
           g == ObservedBy(rs, v, m)
<1>11. f \in [Keys -> Int] /\ g \in [Keys -> Int] /\ \A k \in Keys : f[k] <= g[k]
  BY <1>9, <1>10 DEF ObservedBy
<1>12. IsFiniteSet(Keys)
  BY <1>1, PlacesOf
<1> HIDE DEF f, g
<1>13. SumFunction(f) <= SumFunction(g)
  BY <1>11, <1>12, SumMonotone
<1> QED
  BY <1>6, <1>7, <1>8, <1>13 DEF Fraction, f, g, ft, v

(* One more failure of the candidate never turns a breach into none, for  *)
(* any paired metric.                                                     *)
LEMMA FailuresNeverHide == EvalInv => FailureNeverHides
<1> SUFFICES ASSUME EvalInv, NEW m \in Gated \cap Rates, NEW i \in Side(runs, "candidate"),
                    ThresholdBreached(Direction(m), Value(runs, "baseline", m),
                                      Value(runs, "candidate", m), thresholds[m])
             PROVE  ThresholdBreached(Direction(m), Value(runs, "baseline", m),
                                      Value(Failing(runs, i), "candidate", m), thresholds[m])
  BY DEF FailureNeverHides
<1>1. Decided /\ m \in Metrics /\ m \in Rates /\ thresholds[m] # Ungated
  BY DEF Gated
<1>2. plan \in Plans /\ Full(runs)
  BY <1>1, DecidedRuns
<1>3. "baseline" \in Versions /\ "candidate" \in Versions
  BY DEF Versions
<1>4. i \in Places("candidate")
  BY <1>2, <1>3, SideOf
<1>5. thresholds[m] \in Nat /\ Value(runs, "baseline", m) \in Values
  BY <1>1, <1>2, <1>3, PlanTypes, ValueType
<1>6. Direction(m) = "higher_is_better"
  BY <1>1 DEF Direction, Rates, LowerIsBetter
<1>7. /\ Value(runs, "candidate", m) \in Values
      /\ Value(Failing(runs, i), "candidate", m) \in Values
      /\ Value(Failing(runs, i), "candidate", m).den = Value(runs, "candidate", m).den
      /\ Value(Failing(runs, i), "candidate", m).num <= Value(runs, "candidate", m).num
  BY <1>1, <1>2, <1>4, FailureLowers
<1> QED
  BY <1>5, <1>6, <1>7, LowerCandidateKeepsBreach

(* A cheaper run of the baseline lowers every lower-is-better metric.        *)
LEMMA CheaperLowers ==
    ASSUME plan \in Plans, NEW rs, Full(rs), NEW m \in LowerIsBetter,
           NEW i \in Succeeded(rs, "baseline")
    PROVE  /\ Value(rs, "baseline", m) \in Values
           /\ Value(Cheaper(rs, i), "baseline", m) \in Values
           /\ AtMost(Value(Cheaper(rs, i), "baseline", m), Value(rs, "baseline", m))
<1> DEFINE ch == Cheaper(rs, i)
           v == "baseline"
           ok == Succeeded(rs, v)
           S == Places(v)
<1>1. v \in Versions /\ m \in Metrics
  BY DEF Versions, Metrics
<1>2. /\ ok = {j \in S : ~ rs[j].error} /\ ok \in SUBSET S /\ IsFiniteSet(ok)
      /\ Cardinality(ok) \in Nat /\ (ok # {} => Cardinality(ok) # 0)
      /\ IsFiniteSet(S) /\ Side(rs, v) = S /\ \A j \in S : rs[j] \in RunType
  BY <1>1, SucceededOf, PlacesOf, SideOf
<1>3. i \in ok /\ i \in S /\ S \subseteq 1..PlanLength
  BY <1>2 DEF Places
<1>4. DOMAIN rs = 1..PlanLength /\ DOMAIN ch = 1..PlanLength
      /\ \A j \in 1..PlanLength : rs[j] \in RunType
  BY DEF Full, Cheaper
<1>5. ASSUME NEW j \in 1..PlanLength
      PROVE  /\ ch[j] \in RunType /\ ch[j].error = rs[j].error
             /\ ch[j].latency \in Nat /\ rs[j].latency \in Nat /\ ch[j].latency <= rs[j].latency
             /\ ch[j].cost \in Nat /\ rs[j].cost \in Nat /\ ch[j].cost <= rs[j].cost
  <2>1. CASE j # i
    <3>1. ch[j] = rs[j]
      BY <1>4, <2>1 DEF Cheaper
    <3> QED
      BY <1>4, <3>1 DEF RunType
  <2>2. CASE j = i
    <3> DEFINE Cheap(r) == [[r EXCEPT !.cost = 0] EXCEPT !.latency = 0]
    <3>1. ch[j] = Cheap(rs[j])
      BY <1>4, <2>2 DEF Cheaper
    <3>2. ASSUME NEW r \in RunType
          PROVE  /\ Cheap(r) \in RunType /\ Cheap(r).error = r.error
                 /\ Cheap(r).latency = 0 /\ Cheap(r).cost = 0
                 /\ r.latency \in Nat /\ r.cost \in Nat
      BY DEF RunType
    <3>3. rs[j] \in RunType
      BY <1>4
    <3> HIDE DEF Cheap, ch
    <3>4. /\ ch[j] \in RunType /\ ch[j].error = rs[j].error
          /\ ch[j].latency = 0 /\ ch[j].cost = 0
          /\ rs[j].latency \in Nat /\ rs[j].cost \in Nat
      BY <3>1, <3>2, <3>3
    <3> QED
      BY <3>4
  <2> QED
    BY <2>1, <2>2
<1>6. Full(ch)
  <2>1. ch = [j \in 1..PlanLength |-> ch[j]]
    BY <1>4 DEF Cheaper
  <2> HIDE DEF ch
  <2> QED
    BY <1>5, <2>1 DEF Full
<1>7. Succeeded(ch, v) = ok /\ Side(ch, v) = S
  <2>1. Succeeded(ch, v) = {j \in S : ~ ch[j].error} /\ Side(ch, v) = S
    BY <1>1, <1>6, SucceededOf, SideOf
  <2> HIDE DEF ch, v, ok, S
  <2> QED
    BY <1>2, <1>3, <1>5, <2>1
<1> HIDE DEF ch, v, ok, S
<1>8. Value(rs, v, m) \in Values /\ Value(ch, v, m) \in Values
  BY <1>1, <1>6, ValueType
<1>9. \A x, y \in Values : x.den = y.den /\ x.num <= y.num => AtMost(x, y)
  <2> SUFFICES ASSUME NEW x \in Values, NEW y \in Values, x.den = y.den, x.num <= y.num
               PROVE  x.num * y.den <= y.num * x.den
    BY DEF AtMost
  <2>1. x.num \in Nat /\ y.num \in Nat /\ x.den \in Nat
    BY DEF Values
  <2> QED
    BY <2>1, TimesMonotone
<1>10. CASE m = "cost_usd.total"
  <2> DEFINE f == [j \in S |-> ch[j].cost]
             g == [j \in S |-> rs[j].cost]
  <2>1. f \in [S -> Int] /\ g \in [S -> Int] /\ \A j \in S : f[j] <= g[j]
    <3>1. \A j \in S : ch[j].cost \in Int /\ rs[j].cost \in Int /\ ch[j].cost <= rs[j].cost
      BY <1>3, <1>5
    <3> QED
      BY <3>1
  <2>2. Value(ch, v, m) = Fraction(SumFunction(f), 1) /\ Value(rs, v, m) = Fraction(SumFunction(g), 1)
    BY <1>2, <1>7, <1>10 DEF Value, CostTotal
  <2> HIDE DEF f, g
  <2>3. SumFunction(f) <= SumFunction(g)
    BY <1>2, <2>1, SumMonotone
  <2>4. Value(ch, v, m).den = Value(rs, v, m).den /\ Value(ch, v, m).num <= Value(rs, v, m).num
    BY <2>2, <2>3 DEF Fraction
  <2> QED
    BY <1>8, <1>9, <2>4 DEF ch, v
<1>11. CASE m = "latency_ms.mean"
  <2> DEFINE f == [j \in ok |-> ch[j].latency]
             g == [j \in ok |-> rs[j].latency]
  <2>1. f \in [ok -> Int] /\ g \in [ok -> Int] /\ \A j \in ok : f[j] <= g[j]
    <3>1. \A j \in ok : /\ ch[j].latency \in Int /\ rs[j].latency \in Int
                       /\ ch[j].latency <= rs[j].latency
      BY <1>2, <1>3, <1>5
    <3> QED
      BY <3>1
  <2>2. /\ Value(ch, v, m) = IF ok = {} THEN Zero ELSE Fraction(SumFunction(f), Cardinality(ok))
        /\ Value(rs, v, m) = IF ok = {} THEN Zero ELSE Fraction(SumFunction(g), Cardinality(ok))
    BY <1>2, <1>7, <1>11 DEF Value, LatencyMean, ok
  <2> HIDE DEF f, g
  <2>3. SumFunction(f) <= SumFunction(g)
    BY <1>2, <2>1, SumMonotone
  <2>4. Value(ch, v, m).den = Value(rs, v, m).den /\ Value(ch, v, m).num <= Value(rs, v, m).num
    BY <1>3, <2>2, <2>3 DEF Fraction
  <2> QED
    BY <1>8, <1>9, <2>4 DEF ch, v
<1>12. CASE m = "latency_ms.p95"
  <2> DEFINE f == Latencies(ch, ok)
             g == Latencies(rs, ok)
             r == Rank(Cardinality(ok))
             x == NearestRank(ch, ok)
             y == NearestRank(rs, ok)
  <2>1. ok # {}
    BY <1>3
  <2>2. /\ Value(ch, v, m) = Fraction(x, 1)
        /\ Value(rs, v, m) = Fraction(y, 1)
    BY <1>7, <1>12, <2>1, P95IsNearestRank DEF Value, ok
  <2>3. f \in [ok -> Nat] /\ g \in [ok -> Nat] /\ \A j \in ok : f[j] <= g[j]
    BY <1>2, <1>3, <1>5 DEF Latencies
  <2>4. /\ \A j \in ok : ch[j].latency \in Nat
        /\ \A j \in ok : rs[j].latency \in Nat
    BY <1>2, <1>3, <1>5
  <2>5. x \in Nat /\ r \in Nat /\ HasRank(x, r, f, ok)
    BY <1>2, <2>1, <2>4, NearestRankIs
  <2>6. y \in Nat /\ HasRank(y, r, g, ok)
    BY <1>2, <2>1, <2>4, NearestRankIs
  <2> HIDE DEF f, g, r, x, y
  <2>7. x <= y
    BY <1>2, <2>3, <2>5, <2>6, RankMonotone
  <2>8. Value(ch, v, m).den = Value(rs, v, m).den /\ Value(ch, v, m).num <= Value(rs, v, m).num
    BY <2>2, <2>7 DEF Fraction
  <2> QED
    BY <1>8, <1>9, <2>8 DEF ch, v
<1> QED
  BY <1>8, <1>10, <1>11, <1>12 DEF LowerIsBetter, ch, v

(* A cheaper or faster baseline never turns a breach into none.           *)
LEMMA CheaperNeverHides == EvalInv => CheaperBaselineNeverHides
<1> SUFFICES ASSUME EvalInv, NEW m \in Gated \cap LowerIsBetter, NEW i \in Succeeded(runs, "baseline"),
                    ThresholdBreached(Direction(m), Value(runs, "baseline", m),
                                      Value(runs, "candidate", m), thresholds[m])
             PROVE  ThresholdBreached(Direction(m), Value(Cheaper(runs, i), "baseline", m),
                                      Value(runs, "candidate", m), thresholds[m])
  BY DEF CheaperBaselineNeverHides
<1>1. Decided /\ m \in Metrics /\ m \in LowerIsBetter /\ thresholds[m] # Ungated
  BY DEF Gated
<1>2. plan \in Plans /\ Full(runs)
  BY <1>1, DecidedRuns
<1>3. "candidate" \in Versions
  BY DEF Versions
<1>4. thresholds[m] \in Nat /\ Value(runs, "candidate", m) \in Values
  BY <1>1, <1>2, <1>3, PlanTypes, ValueType
<1>5. Direction(m) = "lower_is_better"
  BY <1>1 DEF Direction
<1>6. /\ Value(runs, "baseline", m) \in Values
      /\ Value(Cheaper(runs, i), "baseline", m) \in Values
      /\ AtMost(Value(Cheaper(runs, i), "baseline", m), Value(runs, "baseline", m))
  BY <1>1, <1>2, CheaperLowers
<1> QED
  BY <1>4, <1>5, <1>6, LowerBaselineKeepsBreach

(* Making a comparison worse never hides a breach of a gated metric: neither *)
(* a further failure of the candidate nor a run of the baseline that costs   *)
(* or takes nothing (aggregate.py, gate.py: the relative change).            *)
THEOREM WorseIsNeverHidden == Spec => []WorseNeverHides
<1>1. EvalInv => WorseNeverHides
  BY FailuresNeverHide, CheaperNeverHides DEF WorseNeverHides
<1> QED
  BY <1>1, EvalInvInit, EvalInvStep, PTL DEF Spec

----------------------------------------------------------------------------
(* The findings of a pair: the candidate failed alone, an evaluator passed   *)
(* and now fails, or a score dropped without that.                           *)
FailedAlone(b, c) == c.error /\ ~ b.error
Fell(b, c)        == ~ b.error /\ ~ c.error /\ b.passed /\ ~ c.passed
Dropped(b, c)     == ~ b.error /\ ~ c.error /\ ~ (b.passed /\ ~ c.passed)
                     /\ c.score < b.score - MinScoreDrop

FailureOf(k) == Finding(k, "provider_execution_failure", "provider_failure", "none")
FallOf(k)    == Finding(k, CategoryFor(Evaluator), "evaluator_pass_to_fail", Evaluator)
DropOf(k)    == Finding(k, CategoryFor(Evaluator), "evaluator_score_drop", Evaluator)

(* The findings of a pair are at most three, one of each kind.            *)
LEMMA PairFindingsAre ==
    ASSUME NEW k, NEW b \in RunType, NEW c \in RunType
    PROVE  PairFindings(k, b, c) = {x \in {FailureOf(k)} : FailedAlone(b, c)}
                                   \cup {x \in {FallOf(k)} : Fell(b, c)}
                                   \cup {x \in {DropOf(k)} : Dropped(b, c)}
<1> DEFINE common == DOMAIN ScoreMap(b) \cap DOMAIN ScoreMap(c)
           old(e) == ScoreMap(b)[e]
           new(e) == ScoreMap(c)[e]
           failed == {e \in common : old(e).passed /\ ~ new(e).passed}
           dropped == {e \in common \ failed : new(e).score < old(e).score - MinScoreDrop}
<1>1. PairFindings(k, b, c) =
          {FailureOf(k) : x \in {y \in {k} : c.error /\ ~ b.error}}
          \cup {Finding(k, CategoryFor(e), "evaluator_pass_to_fail", e) : e \in failed}
          \cup {Finding(k, CategoryFor(e), "evaluator_score_drop", e) : e \in dropped}
  BY DEF PairFindings, FailureOf
<1>2. \A r \in RunType :
          IF r.error THEN DOMAIN ScoreMap(r) = {}
          ELSE /\ DOMAIN ScoreMap(r) = {Evaluator}
               /\ ScoreMap(r)[Evaluator].passed = r.passed
               /\ ScoreMap(r)[Evaluator].score = r.score
  BY DEF ScoreMap
<1>3. failed = {e \in {Evaluator} : Fell(b, c)}
  BY <1>2 DEF Fell
<1>4. dropped = {e \in {Evaluator} : Dropped(b, c)}
  BY <1>2, <1>3 DEF Fell, Dropped
<1> HIDE DEF failed, dropped
<1>5. {Finding(k, CategoryFor(e), "evaluator_pass_to_fail", e) : e \in failed}
        = {x \in {FallOf(k)} : Fell(b, c)}
  BY <1>3 DEF FallOf
<1>6. {Finding(k, CategoryFor(e), "evaluator_score_drop", e) : e \in dropped}
        = {x \in {DropOf(k)} : Dropped(b, c)}
  BY <1>4 DEF DropOf
<1>7. {FailureOf(k) : x \in {y \in {k} : c.error /\ ~ b.error}}
        = {x \in {FailureOf(k)} : FailedAlone(b, c)}
  BY DEF FailedAlone
<1> QED
  BY <1>1, <1>5, <1>6, <1>7

(* The findings of all pairs, for the runs of a whole plan.                  *)
BaseRun(rs, k) == RunAt(rs, "baseline", k)
CandRun(rs, k) == RunAt(rs, "candidate", k)

(* Every finding of a report belongs to a pair of the plan, and each      *)
(* pair that shows one has it.                                            *)
LEMMA FindingsAre ==
    ASSUME plan \in Plans, NEW rs, Full(rs)
    PROVE  /\ \A k \in Keys : BaseRun(rs, k) \in RunType /\ CandRun(rs, k) \in RunType
           /\ IsFiniteSet(Findings(rs))
           /\ \A k \in Keys :
                 /\ FailedAlone(BaseRun(rs, k), CandRun(rs, k)) => FailureOf(k) \in Findings(rs)
                 /\ Fell(BaseRun(rs, k), CandRun(rs, k)) => FallOf(k) \in Findings(rs)
                 /\ Dropped(BaseRun(rs, k), CandRun(rs, k)) => DropOf(k) \in Findings(rs)
           /\ \A f \in Findings(rs) : \E k \in Keys :
                 \/ f = FailureOf(k) /\ FailedAlone(BaseRun(rs, k), CandRun(rs, k))
                 \/ f = FallOf(k) /\ Fell(BaseRun(rs, k), CandRun(rs, k))
                 \/ f = DropOf(k) /\ Dropped(BaseRun(rs, k), CandRun(rs, k))
<1> DEFINE At(k) == PairFindings(k, BaseRun(rs, k), CandRun(rs, k))
<1>1. \A k \in Keys : BaseRun(rs, k) \in RunType /\ CandRun(rs, k) \in RunType
  BY SideOf DEF BaseRun, CandRun, Versions
<1>2. Findings(rs) = UNION {At(k) : k \in Keys}
  BY SideOf DEF Findings, BaseRun, CandRun
<1>3. \A k \in Keys : At(k) = {x \in {FailureOf(k)} : FailedAlone(BaseRun(rs, k), CandRun(rs, k))}
                              \cup {x \in {FallOf(k)} : Fell(BaseRun(rs, k), CandRun(rs, k))}
                              \cup {x \in {DropOf(k)} : Dropped(BaseRun(rs, k), CandRun(rs, k))}
  BY <1>1, PairFindingsAre
<1> HIDE DEF At
<1>4. IsFiniteSet(Findings(rs))
  <2> DEFINE a == [k \in Keys |-> At(k)]
  <2>1. DOMAIN a = Keys /\ IsFiniteSet(Keys) /\ {At(k) : k \in Keys} = {a[k] : k \in DOMAIN a}
    BY PlacesOf DEF Versions
  <2>2. IsFiniteSet(DOMAIN a)
    BY <2>1
  <2>3. IsFiniteSet({a[k] : k \in DOMAIN a})
    <3> HIDE DEF a
    <3> QED
      BY <2>2, ImageFinite
  <2>4. IsFiniteSet({At(k) : k \in Keys})
    <3> HIDE DEF a
    <3> QED
      BY <2>1, <2>3
  <2>5. ASSUME NEW k \in Keys PROVE IsFiniteSet(At(k))
    <3>1. At(k) \subseteq {FailureOf(k), FallOf(k), DropOf(k)}
      BY <1>3
    <3>2. IsFiniteSet({FailureOf(k), FallOf(k), DropOf(k)})
      <4>1. IsFiniteSet({FailureOf(k)} \cup {FallOf(k)})
        BY FS_Singleton, FS_AddElement
      <4>2. IsFiniteSet(({FailureOf(k)} \cup {FallOf(k)}) \cup {DropOf(k)})
        BY <4>1, FS_AddElement
      <4>3. ({FailureOf(k)} \cup {FallOf(k)}) \cup {DropOf(k)} = {FailureOf(k), FallOf(k), DropOf(k)}
        OBVIOUS
      <4> QED
        BY <4>2, <4>3
    <3> QED
      BY <3>1, <3>2, FS_Subset
  <2>6. \A T \in {At(k) : k \in Keys} : IsFiniteSet(T)
    BY <2>5
  <2>7. IsFiniteSet(UNION {At(k) : k \in Keys})
    BY <2>4, <2>6, FS_UNION
  <2> QED
    BY <1>2, <2>7
<1>5. ASSUME NEW k \in Keys
      PROVE  /\ FailedAlone(BaseRun(rs, k), CandRun(rs, k)) => FailureOf(k) \in Findings(rs)
             /\ Fell(BaseRun(rs, k), CandRun(rs, k)) => FallOf(k) \in Findings(rs)
             /\ Dropped(BaseRun(rs, k), CandRun(rs, k)) => DropOf(k) \in Findings(rs)
  BY <1>2, <1>3
<1>6. ASSUME NEW f \in Findings(rs)
      PROVE  \E k \in Keys :
                 \/ f = FailureOf(k) /\ FailedAlone(BaseRun(rs, k), CandRun(rs, k))
                 \/ f = FallOf(k) /\ Fell(BaseRun(rs, k), CandRun(rs, k))
                 \/ f = DropOf(k) /\ Dropped(BaseRun(rs, k), CandRun(rs, k))
  <2>1. PICK k \in Keys : f \in At(k)
    BY <1>2
  <2> QED
    BY <1>3, <2>1
<1> QED
  BY <1>1, <1>4, <1>5, <1>6

(* A finding names its pair and its kind.                                    *)
LEMMA FindingFields ==
    ASSUME plan \in Plans, NEW rs, Full(rs), NEW f \in Findings(rs)
    PROVE  /\ <<f.case, f.repeat>> \in Keys
           /\ f.case \in 1..plan.cases
           /\ LET b == BaseRun(rs, <<f.case, f.repeat>>)
                  c == CandRun(rs, <<f.case, f.repeat>>)
              IN  \/ f.kind = "provider_failure" /\ FailedAlone(b, c)
                  \/ f.kind = "evaluator_pass_to_fail" /\ Fell(b, c)
                  \/ f.kind = "evaluator_score_drop" /\ Dropped(b, c)
<1>1. PICK k \in Keys :
        \/ f = FailureOf(k) /\ FailedAlone(BaseRun(rs, k), CandRun(rs, k))
        \/ f = FallOf(k) /\ Fell(BaseRun(rs, k), CandRun(rs, k))
        \/ f = DropOf(k) /\ Dropped(BaseRun(rs, k), CandRun(rs, k))
  BY FindingsAre
<1>2. f.case = k[1] /\ f.repeat = k[2]
  BY <1>1 DEF FailureOf, FallOf, DropOf, Finding
<1>3. k = <<k[1], k[2]>> /\ k[1] \in 1..plan.cases
  BY DEF Keys
<1>4. <<f.case, f.repeat>> = k
  BY <1>2, <1>3
<1>5. \/ f.kind = "provider_failure" /\ f = FailureOf(k)
      \/ f.kind = "evaluator_pass_to_fail" /\ f = FallOf(k)
      \/ f.kind = "evaluator_score_drop" /\ f = DropOf(k)
  BY <1>1 DEF FailureOf, FallOf, DropOf, Finding
<1>6. /\ FailureOf(k).kind = "provider_failure" /\ FallOf(k).kind = "evaluator_pass_to_fail"
      /\ DropOf(k).kind = "evaluator_score_drop"
  BY DEF FailureOf, FallOf, DropOf, Finding
<1> QED
  BY <1>1, <1>2, <1>3, <1>4, <1>5, <1>6

(* What the pairs of a kind of finding cover: the lost sum is at most the    *)
(* number of pairs that lost.                                                *)
LEMMA LostAtMost ==
    ASSUME plan \in Plans, NEW g \in [Keys -> Int], NEW R \in SUBSET Keys,
           \A k \in Keys : g[k] <= 1 /\ (k \notin R => g[k] <= 0)
    PROVE  SumFunction(g) <= Cardinality(R)
<1> DEFINE one == [k \in Keys |-> IF k \in R THEN 1 ELSE 0]
<1>1. IsFiniteSet(Keys)
  BY PlacesOf DEF Versions
<1>2. /\ one \in [Keys -> Int] /\ \A k \in Keys : one[k] = IF k \in R THEN 1 ELSE 0
      /\ \A k \in Keys : g[k] <= one[k]
  OBVIOUS
<1> HIDE DEF one
<1>3. SumFunction(g) <= SumFunction(one)
  BY <1>1, <1>2, SumMonotone
<1>4. SumFunction(one) = Cardinality(R)
  BY <1>1, <1>2, SumCounts
<1>5. SumFunction(g) \in Int /\ SumFunction(one) \in Int
  BY <1>1, <1>2, SumType
<1> QED
  BY <1>3, <1>4, <1>5

(* A delta beyond the tolerated change is a loss, and one of more than d0     *)
(* when d0 is tolerated.                                                     *)
LEMMA BeyondIsLoss ==
    ASSUME NEW s \in Nat \ {0}, NEW q \in Nat \ {0}, NEW t \in Nat, NEW r \in Nat,
           NEW d \in Int, s * (d * q) < -(t * r)
    PROVE  /\ d < 0
           /\ \A d0 \in Nat : s * (d0 * q) <= t * r => d < -d0
<1>1. t * r \in Nat /\ s * q \in Nat \ {0} /\ (s * q) * d < -(t * r)
  <2>1. s * (d * q) = (s * q) * d
    OBVIOUS
  <2>2. t * r \in Nat /\ s * q \in Nat \ {0}
    OBVIOUS
  <2> QED
    BY <2>1, <2>2
<1>2. d < 0
  <2>1. d >= 0 => (s * q) * d >= 0
    BY <1>1
  <2> QED
    BY <1>1, <2>1
<1>3. ASSUME NEW d0 \in Nat, s * (d0 * q) <= t * r PROVE d < -d0
  <2>1. s * (d0 * q) = (s * q) * d0
    OBVIOUS
  <2>2. d + d0 >= 0 => (s * q) * (d + d0) >= 0
    BY <1>1
  <2>3. (s * q) * (d + d0) = (s * q) * d + (s * q) * d0
    OBVIOUS
  <2>4. (s * q) * (d + d0) < 0
    BY <1>1, <1>3, <2>1, <2>3
  <2> QED
    BY <2>2, <2>4
<1> QED
  BY <1>2, <1>3

(* A rate that blocks has a pair that lost, in the mean score by more than   *)
(* MinScoreDrop where the policy tolerates that.                             *)
LEMMA BlockedRatePair ==
    ASSUME EvalInv, Decided, NEW m \in reasons \cap Rates, Visible(m)
    PROVE  \E k \in Keys : /\ Diff(runs, m, k) < 0
                           /\ m = "ev.mean_score" => Diff(runs, m, k) < -MinScoreDrop
<1>1. plan \in Plans /\ Full(runs) /\ Verdicts
  BY DecidedRuns
<1>2. m \in Paired /\ m \in Metrics /\ Direction(m) = "higher_is_better" /\ m # "latency_ms.mean"
  BY DEF Rates, Paired, Metrics, LowerIsBetter, Direction
<1>3. thresholds[m] # Ungated
  BY <1>1 DEF Verdicts, Reasons, Verdict, Outcome, ThresholdBreached
<1>4. thresholds[m] \in Nat /\ MinScoreDrop \in Nat /\ Scale \in Nat \ {0}
  BY <1>1, <1>2, <1>3, PlanTypes, ScaleAssumption, ScoreDropAssumption
<1>5. evidence[m].ref.num \in Nat /\ evidence[m].ref.den \in Nat \ {0}
  BY <1>2, DecidedEvidence DEF EvidenceRecords, Values
<1>6. PICK k \in Comparable(runs, m) :
          Scale * (Diff(runs, m, k) * evidence[m].ref.den) < -(thresholds[m] * evidence[m].ref.num)
  BY <1>2, WitnessedBlock DEF BlockHasWitness
<1>7. k \in Keys /\ Diff(runs, m, k) \in Int
  BY <1>1, <1>2, PairsCompared
<1> QED
  BY <1>4, <1>5, <1>6, <1>7, BeyondIsLoss DEF Visible

(* The pairs with findings are those that lost, and the counts cover it.     *)
LEMMA LossExplained == EvalInv => FindingsAccountForLoss
<1> SUFFICES ASSUME EvalInv, Decided PROVE FindingsAccountForLoss
  BY DEF FindingsAccountForLoss
<1>1. plan \in Plans /\ Full(runs)
  BY DecidedRuns
<1> DEFINE fs == Findings(runs)
           report == Diagnose(runs)
           lost(m) == SumFunction([k \in Matched(runs) |-> -Diff(runs, m, k)])
           Pairs(cat) == IF cat \in DOMAIN report.categories THEN report.categories[cat].pairs ELSE 0
           failures == Pairs("provider_execution_failure")
           fails == IF Evaluator \in DOMAIN report.evaluators
                      THEN report.evaluators[Evaluator].pass_to_fail ELSE 0
           b(k) == BaseRun(runs, k)
           c(k) == CandRun(runs, k)
           F == {k \in Keys : FailedAlone(b(k), c(k))}
           G == {k \in Keys : Fell(b(k), c(k))}
           loss(m) == [k \in Keys |-> -Diff(runs, m, k)]
<1>2. IsFiniteSet(Keys) /\ Cardinality(Keys) = PerVersion /\ PerVersion \in Nat \ {0} /\ Matched(runs) = Keys
  BY <1>1, PlacesOf, PlanTypes, SideOf DEF Versions
<1>3. \A k \in Keys : b(k) \in RunType /\ c(k) \in RunType
  BY <1>1, FindingsAre
<1>4. \A m \in Rates : \A k \in Keys : Diff(runs, m, k) \in Int
  BY <1>1, PairsCompared DEF Paired
<1>5. \A m \in Rates : loss(m) \in [Keys -> Int] /\ \A k \in Keys : loss(m)[k] = -Diff(runs, m, k)
  BY <1>4
<1>6. \A m \in Rates : lost(m) = SumFunction(loss(m))
  BY <1>2
<1>7. F \in SUBSET Keys /\ G \in SUBSET Keys /\ IsFiniteSet(F) /\ IsFiniteSet(G)
      /\ Cardinality(F) \in Nat /\ Cardinality(G) \in Nat
  <2>1. F \in SUBSET Keys /\ G \in SUBSET Keys
    OBVIOUS
  <2> HIDE DEF F, G
  <2>2. IsFiniteSet(F) /\ IsFiniteSet(G)
    BY <1>2, <2>1, FS_Subset
  <2> QED
    BY <2>1, <2>2, FS_CardinalityType
<1>8. IsFiniteSet(fs)
  BY <1>1, FindingsAre
<1>9. /\ \A k \in F : FailureOf(k) \in fs
      /\ \A k \in G : FallOf(k) \in fs
  BY <1>1, FindingsAre
<1>10. Cardinality(F) <= failures
  <2> DEFINE cat == "provider_execution_failure"
             group == {f \in fs : f.category = cat}
  <2>1. \A k \in F : /\ FailureOf(k) \in group
                     /\ k = <<FailureOf(k).case, FailureOf(k).repeat>>
    BY <1>9 DEF FailureOf, Finding, Keys
  <2>2. CASE F = {}
    <3>1. Cardinality(F) = 0
      BY <2>2, FS_EmptySet
    <3>2. cat \in DOMAIN report.categories =>
              failures = Cardinality(PairsOf(group)) /\ IsFiniteSet(PairsOf(group))
      <4>1. ASSUME cat \in DOMAIN report.categories
            PROVE  failures = Cardinality(PairsOf(group))
        BY <4>1 DEF Diagnose, CategoryCounts
      <4>2. PairsOf(group) \subseteq Keys
        BY <1>1, FindingFields DEF PairsOf
      <4>3. IsFiniteSet(PairsOf(group))
        BY <1>2, <4>2, FS_Subset
      <4> QED
        BY <4>1, <4>3
    <3> QED
      BY <3>1, <3>2, FS_CardinalityType
  <2>3. CASE F # {}
    <3>1. cat \in DOMAIN report.categories /\ failures = Cardinality(PairsOf(group))
      <4>1. \E f \in fs : f.category = cat
        BY <2>1, <2>3
      <4> QED
        BY <4>1 DEF Diagnose, CategoryCounts
    <3>2. F \subseteq PairsOf(group)
      <4> HIDE DEF group
      <4> QED
        BY <2>1 DEF PairsOf
    <3>3. PairsOf(group) \subseteq Keys
      BY <1>1, FindingFields DEF PairsOf
    <3>4. IsFiniteSet(PairsOf(group))
      BY <1>2, <3>3, FS_Subset
    <3>5. Cardinality(F) <= Cardinality(PairsOf(group))
      BY <3>2, <3>4, FS_Subset
    <3> QED
      BY <3>1, <3>5
  <2> QED
    BY <2>2, <2>3
<1>11. Cardinality(G) <= fails
  <2> DEFINE group == {f \in fs : f.evaluator = Evaluator}
             H == {f \in group : f.kind = "evaluator_pass_to_fail"}
             at == [f \in H |-> <<f.case, f.repeat>>]
  <2>1. \A k \in G : /\ FallOf(k) \in H
                     /\ k = <<FallOf(k).case, FallOf(k).repeat>>
    BY <1>9 DEF FallOf, Finding, Keys
  <2>2. IsFiniteSet(H)
    BY <1>8, FS_Subset
  <2>3. Evaluator \in DOMAIN report.evaluators => fails = Cardinality(H)
    BY DEF Diagnose, EvaluatorCounts
  <2>4. CASE G = {}
    <3>1. Cardinality(G) = 0
      BY <2>4, FS_EmptySet
    <3>2. Cardinality(H) \in Nat
      BY <2>2, FS_CardinalityType
    <3> QED
      BY <2>3, <3>1, <3>2
  <2>5. CASE G # {}
    <3>1. Evaluator \in DOMAIN report.evaluators
      <4>1. \E f \in fs : f.evaluator = Evaluator
        BY <2>1, <2>5
      <4>2. Evaluator # "none"
        BY DEF Evaluator
      <4> QED
        BY <4>1, <4>2 DEF Diagnose, EvaluatorCounts
    <3> DEFINE T == {at[f] : f \in DOMAIN at}
    <3>2. G \subseteq T
      BY <2>1
    <3>3. DOMAIN at = H /\ IsFiniteSet(DOMAIN at)
      BY <2>2
    <3> HIDE DEF at
    <3>4. IsFiniteSet(T) /\ Cardinality(T) <= Cardinality(H)
      BY <3>3, ImageFinite
    <3> HIDE DEF T, H
    <3>5. Cardinality(G) <= Cardinality(T) /\ Cardinality(T) \in Nat /\ Cardinality(H) \in Nat
      BY <2>2, <3>2, <3>4, FS_Subset, FS_CardinalityType
    <3> QED
      BY <1>7, <2>3, <3>1, <3>4, <3>5
  <2> QED
    BY <2>4, <2>5
<1>12. \A k \in Keys :
           /\ Diff(runs, "success_rate", k) =
                  (IF c(k).error THEN 0 ELSE 1) - (IF b(k).error THEN 0 ELSE 1)
           /\ Diff(runs, "ev.pass_rate", k) =
                  (IF ~ c(k).error /\ c(k).passed THEN 1 ELSE 0)
                      - (IF ~ b(k).error /\ b(k).passed THEN 1 ELSE 0)
           /\ Diff(runs, "ev.mean_score", k) =
                  (IF c(k).error THEN 0 ELSE c(k).score) - (IF b(k).error THEN 0 ELSE b(k).score)
  BY DEF Diff, Observed, BaseRun, CandRun
<1>13. {"success_rate", "ev.pass_rate", "ev.mean_score"} = Rates
  BY DEF Rates
<1> HIDE DEF b, c, lost, loss
<1>14. lost("success_rate") <= Cardinality(F)
  <2>1. \A k \in Keys : /\ loss("success_rate")[k] <= 1
                        /\ k \notin F => loss("success_rate")[k] <= 0
    BY <1>3, <1>5, <1>12, <1>13 DEF FailedAlone
  <2>2. loss("success_rate") \in [Keys -> Int]
    BY <1>5, <1>13
  <2> HIDE DEF F
  <2>3. SumFunction(loss("success_rate")) <= Cardinality(F)
    BY <1>1, <1>7, <2>1, <2>2, LostAtMost
  <2> QED
    BY <1>6, <1>13, <2>3
<1>15. lost("ev.pass_rate") <= Cardinality(F) + Cardinality(G)
  <2>1. \A k \in Keys : /\ loss("ev.pass_rate")[k] <= 1
                        /\ k \notin F \cup G => loss("ev.pass_rate")[k] <= 0
    BY <1>3, <1>5, <1>12, <1>13 DEF FailedAlone, Fell
  <2>2. loss("ev.pass_rate") \in [Keys -> Int]
    BY <1>5, <1>13
  <2> HIDE DEF F, G
  <2>3. F \cup G \in SUBSET Keys
    BY <1>7
  <2>4. SumFunction(loss("ev.pass_rate")) <= Cardinality(F \cup G)
    BY <1>1, <2>1, <2>2, <2>3, LostAtMost
  <2>5. Cardinality(F \cup G) <= Cardinality(F) + Cardinality(G)
    <3>1. Cardinality(F \cup G) = Cardinality(F) + Cardinality(G) - Cardinality(F \cap G)
      BY <1>7, FS_Union
    <3>2. IsFiniteSet(F \cap G)
      BY <1>7, FS_Intersection
    <3>3. Cardinality(F \cap G) \in Nat
      BY <3>2, FS_CardinalityType
    <3> QED
      BY <1>7, <3>1, <3>3
  <2>6. Cardinality(F \cup G) \in Nat /\ SumFunction(loss("ev.pass_rate")) \in Int
    <3>1. IsFiniteSet(F \cup G)
      BY <1>2, <2>3, FS_Subset
    <3> QED
      BY <1>2, <2>2, <3>1, FS_CardinalityType, SumType
  <2>7. SumFunction(loss("ev.pass_rate")) <= Cardinality(F) + Cardinality(G)
    BY <1>7, <2>4, <2>5, <2>6
  <2> QED
    BY <1>6, <1>13, <2>7
<1>16. PairsOf(fs) = WorsePairs
  <2>1. ASSUME NEW k \in Keys
        PROVE  FailedAlone(b(k), c(k)) \/ Fell(b(k), c(k)) \/ Dropped(b(k), c(k)) <=>
                   \/ Diff(runs, "success_rate", k) < 0
                   \/ Diff(runs, "ev.pass_rate", k) < 0
                   \/ Diff(runs, "ev.mean_score", k) < -MinScoreDrop
    <3>1. /\ b(k).error \in BOOLEAN /\ c(k).error \in BOOLEAN
          /\ b(k).passed \in BOOLEAN /\ c(k).passed \in BOOLEAN
          /\ b(k).score \in Nat /\ c(k).score \in Nat /\ MinScoreDrop \in Nat
      BY <1>3, ScoreDropAssumption DEF RunType
    <3>2. CASE c(k).error
      BY <1>12, <3>1, <3>2 DEF FailedAlone, Fell, Dropped
    <3>3. CASE ~ c(k).error /\ b(k).error
      BY <1>12, <3>1, <3>3 DEF FailedAlone, Fell, Dropped
    <3>4. CASE ~ c(k).error /\ ~ b(k).error
      BY <1>12, <3>1, <3>4 DEF FailedAlone, Fell, Dropped
    <3> QED
      BY <3>2, <3>3, <3>4, <3>1
  <2>2. ASSUME NEW k \in PairsOf(fs)
        PROVE  k \in Keys /\ (FailedAlone(b(k), c(k)) \/ Fell(b(k), c(k)) \/ Dropped(b(k), c(k)))
    <3>1. PICK f \in fs : k = <<f.case, f.repeat>>
      BY DEF PairsOf
    <3> QED
      BY <1>1, <3>1, FindingFields DEF b, c
  <2>3. ASSUME NEW k \in Keys, FailedAlone(b(k), c(k)) \/ Fell(b(k), c(k)) \/ Dropped(b(k), c(k))
        PROVE  k \in PairsOf(fs)
    <3>1. FailureOf(k) \in fs \/ FallOf(k) \in fs \/ DropOf(k) \in fs
      BY <1>1, <2>3, FindingsAre DEF b, c
    <3>2. \E f \in fs : f.case = k[1] /\ f.repeat = k[2]
      BY <3>1 DEF FailureOf, FallOf, DropOf, Finding
    <3>3. k = <<k[1], k[2]>>
      BY DEF Keys
    <3> QED
      BY <3>2, <3>3 DEF PairsOf
  <2> HIDE DEF fs
  <2>4. \A k \in Keys : k \in PairsOf(fs) <=> k \in WorsePairs
    BY <1>2, <2>1, <2>2, <2>3 DEF WorsePairs
  <2>5. WorsePairs \subseteq Keys
    BY <1>2 DEF WorsePairs
  <2> QED
    BY <2>2, <2>4, <2>5
<1>17. report.available
  <2>1. Keys # {}
    BY <1>2, FS_EmptySet
  <2> QED
    BY <1>2, <2>1 DEF Diagnose
<1>18. lost("success_rate") \in Int /\ lost("ev.pass_rate") \in Int
  BY <1>2, <1>5, <1>6, <1>13, SumType
<1>19. failures \in Nat /\ fails \in Nat
  <2>1. failures \in Nat
    <3> DEFINE cat == "provider_execution_failure"
               group == {f \in fs : f.category = cat}
    <3>1. PairsOf(group) \subseteq Keys
      BY <1>1, FindingFields DEF PairsOf
    <3>2. IsFiniteSet(PairsOf(group))
      BY <1>2, <3>1, FS_Subset
    <3>3. Cardinality(PairsOf(group)) \in Nat
      BY <3>2, FS_CardinalityType
    <3>4. cat \in DOMAIN report.categories => failures = Cardinality(PairsOf(group))
      BY DEF Diagnose, CategoryCounts
    <3>5. cat \notin DOMAIN report.categories => failures = 0
      OBVIOUS
    <3> HIDE DEF failures
    <3> QED
      BY <3>3, <3>4, <3>5
  <2>2. fails \in Nat
    <3> DEFINE H == {f \in {f \in fs : f.evaluator = Evaluator} : f.kind = "evaluator_pass_to_fail"}
    <3>1. IsFiniteSet(H)
      BY <1>8, FS_Subset
    <3>2. Cardinality(H) \in Nat
      BY <3>1, FS_CardinalityType
    <3>3. Evaluator \in DOMAIN report.evaluators => fails = Cardinality(H)
      BY DEF Diagnose, EvaluatorCounts
    <3>4. Evaluator \notin DOMAIN report.evaluators => fails = 0
      OBVIOUS
    <3> HIDE DEF fails
    <3> QED
      BY <3>2, <3>3, <3>4
  <2> QED
    BY <2>1, <2>2
<1> HIDE DEF report, failures, fails, F, G
<1>20. /\ lost("success_rate") <= failures
       /\ lost("ev.pass_rate") <= failures + fails
  BY <1>7, <1>10, <1>11, <1>14, <1>15, <1>18, <1>19
<1>21. ASSUME NEW m \in reasons \cap Rates, Visible(m)
       PROVE  \E k \in PairsOf(fs) : Diff(runs, m, k) < 0
  <2>1. PICK k \in Keys : /\ Diff(runs, m, k) < 0
                          /\ m = "ev.mean_score" => Diff(runs, m, k) < -MinScoreDrop
    BY <1>21, BlockedRatePair
  <2>2. k \in WorsePairs
    BY <1>2, <1>13, <2>1 DEF WorsePairs
  <2> QED
    BY <1>16, <2>1, <2>2
<1>22. LossCounted(report)
  BY <1>20 DEF LossCounted, failures, fails, lost
<1> QED
  BY <1>16, <1>17, <1>21, <1>22 DEF FindingsAccountForLoss, report

(* For every plan, diagnostics tell the gate's story: what the rates lost is *)
(* counted, the pairs with findings are those the gate's series see worse,   *)
(* and a BLOCK on a rate whose cause they can see points to one (gate.py,    *)
(* stats.py and diagnostics.py compute this separately).                     *)
THEOREM LossesAreExplained == Spec => []FindingsAccountForLoss
  BY EvalInvInit, EvalInvStep, LossExplained, PTL DEF Spec

(* The representative of a case with findings is a repeat with one.          *)
LEMMA RepresentativeFound ==
    ASSUME plan \in Plans, NEW rs, Full(rs), NEW f0 \in Findings(rs)
    PROVE  \E f \in Findings(rs) :
               f.case = f0.case /\ f.repeat = Representative(Findings(rs), f0.case)
<1> DEFINE fs == Findings(rs)
           case == f0.case
           count(r) == Cardinality({f \in fs : f.case = case /\ f.repeat = r})
           found == {f.repeat : f \in {f \in fs : f.case = case}}
           Most(r) == \A q \in found : count(q) < count(r) \/ (count(q) = count(r) /\ r <= q)
           S == {count(r) : r \in found}
<1>1. found \in SUBSET Nat /\ IsFiniteSet(found) /\ found # {}
  <2>1. plan.repeats \in Nat \ {0}
    BY PlanTypes
  <2>2. found \subseteq 0..plan.repeats - 1
    BY FindingFields DEF Keys
  <2>3. IsFiniteSet(0..plan.repeats - 1)
    BY <2>1, FS_Interval
  <2>4. found # {}
    OBVIOUS
  <2> HIDE DEF found
  <2>5. IsFiniteSet(found)
    BY <2>2, <2>3, FS_Subset
  <2> QED
    BY <2>1, <2>2, <2>4, <2>5
<1>2. \A r : count(r) \in Nat
  <2> SUFFICES ASSUME NEW r PROVE count(r) \in Nat
    OBVIOUS
  <2>1. IsFiniteSet(fs)
    BY FindingsAre
  <2>2. IsFiniteSet({f \in fs : f.case = case /\ f.repeat = r})
    BY <2>1, FS_Subset
  <2> QED
    BY <2>2, FS_CardinalityType
<1> HIDE DEF count, found
<1>3. IsFiniteSet(S)
  <2> DEFINE a == [r \in found |-> count(r)]
  <2>1. IsFiniteSet(DOMAIN a) /\ S = {a[r] : r \in DOMAIN a}
    BY <1>1
  <2> HIDE DEF a, S
  <2> QED
    BY <2>1, ImageFinite
<1>4. S \in SUBSET Int /\ S # {}
  <2>1. \A r \in found : count(r) \in Int
    BY <1>2
  <2> QED
    BY <1>1, <2>1
<1>5. PICK top \in S : \A x \in S : x <= top
  <2> HIDE DEF S
  <2> QED
    BY <1>3, <1>4, HasExtremes
<1> DEFINE T == {r \in found : count(r) = top}
<1>6. T \in SUBSET Nat /\ T # {}
  BY <1>1
<1>7. PICK r \in T : \A q \in T : r <= q
  <2> HIDE DEF T
  <2> QED
    BY <1>6, LeastNumber
<1>8. r \in found /\ Most(r)
  <2>1. ASSUME NEW q \in found
        PROVE  count(q) < count(r) \/ (count(q) = count(r) /\ r <= q)
    BY <1>2, <1>5, <1>7
  <2> QED
    BY <1>7, <2>1
<1> HIDE DEF Most
<1>9. \E q \in found : Most(q)
  BY <1>8
<1>10. Representative(fs, case) = CHOOSE q \in found : Most(q)
  BY DEF Representative, Most, count, found
<1>11. Representative(fs, case) \in found
  BY <1>9, <1>10
<1> QED
  BY <1>11 DEF found

(* What a finding shows of its pair.                                         *)
LEMMA FindingRegressed ==
    ASSUME plan \in Plans, NEW rs, Full(rs), NEW f \in Findings(rs)
    PROVE  /\ \E m \in Rates : Diff(rs, m, <<f.case, f.repeat>>) < 0
           /\ f.kind = "provider_failure" => Diff(rs, "success_rate", <<f.case, f.repeat>>) < 0
<1> DEFINE k == <<f.case, f.repeat>>
           b == BaseRun(rs, k)
           c == CandRun(rs, k)
<1>1. k \in Keys /\ b \in RunType /\ c \in RunType
  <2>1. k \in Keys
    BY FindingFields
  <2> QED
    BY <2>1, FindingsAre
<1>2. \/ f.kind = "provider_failure" /\ FailedAlone(b, c)
      \/ f.kind = "evaluator_pass_to_fail" /\ Fell(b, c)
      \/ f.kind = "evaluator_score_drop" /\ Dropped(b, c)
  BY FindingFields
<1>3. /\ Diff(rs, "success_rate", k) = (IF c.error THEN 0 ELSE 1) - (IF b.error THEN 0 ELSE 1)
      /\ Diff(rs, "ev.pass_rate", k) =
             (IF ~ c.error /\ c.passed THEN 1 ELSE 0) - (IF ~ b.error /\ b.passed THEN 1 ELSE 0)
      /\ Diff(rs, "ev.mean_score", k) =
             (IF c.error THEN 0 ELSE c.score) - (IF b.error THEN 0 ELSE b.score)
  BY DEF Diff, Observed, BaseRun, CandRun
<1>4. {"success_rate", "ev.pass_rate", "ev.mean_score"} = Rates
  BY DEF Rates
<1>5. /\ b.error \in BOOLEAN /\ c.error \in BOOLEAN /\ b.passed \in BOOLEAN /\ c.passed \in BOOLEAN
      /\ b.score \in Nat /\ c.score \in Nat /\ MinScoreDrop \in Nat
  BY <1>1, ScoreDropAssumption DEF RunType
<1> HIDE DEF b, c, k
<1>6. CASE f.kind = "provider_failure" /\ FailedAlone(b, c)
  <2>1. Diff(rs, "success_rate", k) < 0
    BY <1>3, <1>5, <1>6 DEF FailedAlone
  <2> QED
    BY <1>4, <2>1 DEF k
<1>7. CASE f.kind = "evaluator_pass_to_fail" /\ Fell(b, c)
  <2>1. Diff(rs, "ev.pass_rate", k) < 0
    BY <1>3, <1>5, <1>7 DEF Fell
  <2> QED
    BY <1>4, <1>7, <2>1 DEF k
<1>8. CASE f.kind = "evaluator_score_drop" /\ Dropped(b, c)
  <2>1. c.score < b.score
    BY <1>5, <1>8 DEF Dropped
  <2>2. Diff(rs, "ev.mean_score", k) = c.score - b.score
    BY <1>3, <1>8 DEF Dropped
  <2>3. Diff(rs, "ev.mean_score", k) < 0
    BY <1>5, <2>1, <2>2
  <2> QED
    BY <1>4, <1>8, <2>3 DEF k
<1> QED
  BY <1>2, <1>6, <1>7, <1>8

(* A case the diagnostics point to shows a regression in its pair.        *)
LEMMA CasesShowRegressions == EvalInv => RepresentativeRegressed
<1> SUFFICES ASSUME EvalInv, Decided PROVE RepresentativeRegressed
  BY DEF RepresentativeRegressed
<1>1. plan \in Plans /\ Full(runs)
  BY DecidedRuns
<1> DEFINE fs == Findings(runs)
           report == Diagnose(runs)
           count == [case \in DOMAIN report.cases |-> report.cases[case].finding_count]
           of(case) == {f \in fs : f.case = case}
           lost(case) == \E r \in 0..plan.repeats - 1 : Diff(runs, "success_rate", <<case, r>>) < 0
<1>2. report.cases = RegressingCases(fs) /\ report.regressing_pairs = Cardinality(PairsOf(fs))
  BY DEF Diagnose
<1>3. DOMAIN report.cases = CasesOf(fs)
  BY <1>2 DEF RegressingCases
<1>4. ASSUME NEW case \in CasesOf(fs)
      PROVE  /\ report.cases[case].representative = <<case, Representative(fs, case)>>
             /\ report.cases[case].provider_failure = (\E f \in of(case) : f.kind = "provider_failure")
             /\ report.cases[case].finding_count = Cardinality(of(case))
  <2> DEFINE entry == [categories       |-> {f.category : f \in of(case)},
                       evaluators       |-> {f.evaluator : f \in of(case)} \ {"none"},
                       provider_failure |-> \E f \in of(case) : f.kind = "provider_failure",
                       finding_count    |-> Cardinality(of(case)),
                       representative   |-> <<case, Representative(fs, case)>>]
  <2>1. RegressingCases(fs)[case] = entry
    BY DEF RegressingCases
  <2>2. report.cases[case] = entry
    BY <1>2, <2>1
  <2> HIDE DEF of, fs, report
  <2> QED
    BY <2>2
<1>5. IsFiniteSet(fs)
  BY <1>1, FindingsAre
<1>6. \A case \in CasesOf(fs) : \E m \in Rates :
          Diff(runs, m, report.cases[case].representative) < 0
  <2> SUFFICES ASSUME NEW case \in CasesOf(fs)
               PROVE  \E m \in Rates : Diff(runs, m, report.cases[case].representative) < 0
    OBVIOUS
  <2>1. PICK f0 \in fs : f0.case = case
    BY DEF CasesOf
  <2>2. PICK f \in fs : f.case = case /\ f.repeat = Representative(fs, case)
    BY <1>1, <2>1, RepresentativeFound
  <2>3. \E m \in Rates : Diff(runs, m, <<f.case, f.repeat>>) < 0
    BY <1>1, FindingRegressed
  <2>4. report.cases[case].representative = <<f.case, f.repeat>>
    BY <1>4, <2>2
  <2> QED
    BY <2>3, <2>4
<1>7. \A case \in CasesOf(fs) : report.cases[case].provider_failure <=> lost(case)
  <2> SUFFICES ASSUME NEW case \in CasesOf(fs)
               PROVE  (\E f \in of(case) : f.kind = "provider_failure") <=> lost(case)
    BY <1>4
  <2>0. case \in 1..plan.cases
    BY <1>1, FindingFields DEF CasesOf
  <2>1. ASSUME NEW f \in of(case), f.kind = "provider_failure" PROVE lost(case)
    <3>1. f \in fs /\ f.case = case
      OBVIOUS
    <3>2. Diff(runs, "success_rate", <<f.case, f.repeat>>) < 0
      BY <1>1, <2>1, <3>1, FindingRegressed
    <3>3. <<f.case, f.repeat>> \in Keys
      BY <1>1, <3>1, FindingFields
    <3>4. f.repeat \in 0..plan.repeats - 1
      BY <3>3 DEF Keys
    <3> QED
      BY <3>1, <3>2, <3>4
  <2>2. ASSUME NEW r \in 0..plan.repeats - 1, Diff(runs, "success_rate", <<case, r>>) < 0
        PROVE  \E f \in of(case) : f.kind = "provider_failure"
    <3> DEFINE k == <<case, r>>
    <3>1. k \in Keys
      BY <2>0 DEF Keys
    <3>2. Diff(runs, "success_rate", k) =
              (IF CandRun(runs, k).error THEN 0 ELSE 1) - (IF BaseRun(runs, k).error THEN 0 ELSE 1)
      BY DEF Diff, Observed, BaseRun, CandRun
    <3>3. FailedAlone(BaseRun(runs, k), CandRun(runs, k))
      BY <2>2, <3>2 DEF FailedAlone
    <3>4. FailureOf(k) \in fs
      BY <1>1, <3>1, <3>3, FindingsAre
    <3>5. FailureOf(k).case = case /\ FailureOf(k).kind = "provider_failure"
      BY DEF FailureOf, Finding
    <3> QED
      BY <3>4, <3>5
  <2> QED
    BY <2>1, <2>2
<1>8. SumFunction(count) = Cardinality(fs)
  <2> DEFINE C == CasesOf(fs)
             c == [f \in fs |-> f.case]
  <2>1. DOMAIN c = fs /\ C = {c[f] : f \in DOMAIN c} /\ c \in [fs -> C]
    BY DEF CasesOf
  <2>2. IsFiniteSet(C)
    <3> HIDE DEF c, C
    <3> QED
      BY <1>5, <2>1, ImageFinite
  <2>3. \A case \in C : Cardinality(of(case)) \in Nat
    <3> SUFFICES ASSUME NEW case \in C PROVE Cardinality(of(case)) \in Nat
      OBVIOUS
    <3>1. IsFiniteSet(of(case))
      BY <1>5, FS_Subset
    <3> QED
      BY <3>1, FS_CardinalityType
  <2>4. \A case \in C : of(case) = {f \in fs : c[f] = case}
    OBVIOUS
  <2>5. \A case \in C : count[case] = Cardinality(of(case))
    BY <1>3, <1>4
  <2>6. \A case \in C : count[case] = Cardinality({f \in fs : c[f] = case})
    BY <2>4, <2>5
  <2>7. count \in [C -> Int]
    <3>1. \A case \in C : count[case] \in Int
      <4> SUFFICES ASSUME NEW case \in C PROVE count[case] \in Int
        OBVIOUS
      <4>1. Cardinality(of(case)) \in Nat /\ count[case] = Cardinality(of(case))
        BY <2>3, <2>5
      <4> HIDE DEF of, count, C
      <4> QED
        BY <4>1
    <3>2. DOMAIN count = C /\ count = [case \in C |-> count[case]]
      BY <1>3
    <3> HIDE DEF count
    <3> QED
      BY <3>1, <3>2
  <2> HIDE DEF count, c, C, fs
  <2> QED
    BY <1>5, <2>1, <2>2, <2>6, <2>7, SumOfClasses
<1>9. Cardinality(PairsOf(fs)) <= Cardinality(fs)
  <2> DEFINE at == [f \in fs |-> <<f.case, f.repeat>>]
  <2>1. DOMAIN at = fs /\ PairsOf(fs) = {at[f] : f \in DOMAIN at}
    BY DEF PairsOf
  <2> HIDE DEF at
  <2> QED
    BY <1>5, <2>1, ImageFinite
<1> HIDE DEF fs, report, count
<1>10. SumFunction(count) >= report.regressing_pairs
  <2>1. Cardinality(fs) \in Nat
    BY <1>5, FS_CardinalityType
  <2>2. IsFiniteSet(PairsOf(fs))
    <3>1. PairsOf(fs) \subseteq Keys /\ IsFiniteSet(Keys)
      BY <1>1, FindingFields, PlacesOf DEF PairsOf, fs, Versions
    <3> QED
      BY <3>1, FS_Subset
  <2>3. Cardinality(PairsOf(fs)) \in Nat
    BY <2>2, FS_CardinalityType
  <2> QED
    BY <1>2, <1>8, <1>9, <2>1, <2>3
<1>11. \A case \in DOMAIN report.cases :
          /\ \E m \in Rates : Diff(runs, m, report.cases[case].representative) < 0
          /\ report.cases[case].provider_failure <=> lost(case)
  BY <1>3, <1>6, <1>7
<1> QED
  BY <1>10, <1>11 DEF RepresentativeRegressed, report, count

(* Every case the report points to shows a regression in the pair it links   *)
(* to, and says so of a provider failure, for every plan.                    *)
THEOREM PointersShowRegressions == Spec => []RepresentativeRegressed
  BY EvalInvInit, EvalInvStep, CasesShowRegressions, PTL DEF Spec

----------------------------------------------------------------------------
(* Rows and what is read back from them.                                     *)

(* A numbered row has its position and the columns of what is numbered.      *)
LEMMA RowColumns ==
    ASSUME NEW value, NEW v
    PROVE  LET row == Merge([position |-> value], v)
           IN  /\ row.position = value
               /\ \A x \in DOMAIN v : x # "position" => row[x] = v[x]
  BY DEF Merge

(* Numbered rows are read in the order they were numbered in.                *)
LEMMA NumberedLoads ==
    ASSUME NEW s, NEW n \in Nat, DOMAIN s = 1..n
    PROVE  /\ \A r \in Numbered(s) : \E i \in 1..n : r = Merge([position |-> i - 1], s[i])
           /\ \A i \in 1..n : Merge([position |-> i - 1], s[i]) \in Numbered(s)
           /\ DOMAIN ByPosition(Numbered(s)) = 1..n
           /\ \A i \in 1..n : ByPosition(Numbered(s))[i] = Merge([position |-> i - 1], s[i])
<1> DEFINE row == [i \in 1..n |-> Merge([position |-> i - 1], s[i])]
           rows == Numbered(s)
<1>1. rows = {row[i] : i \in 1..n}
  BY DEF Numbered
<1>2. \A i \in 1..n : row[i].position = i - 1
  BY DEF Merge
<1> HIDE DEF row, rows
<1>3. InOrder(rows, row, n)
  BY <1>1, <1>2 DEF InOrder
<1>4. Cardinality(rows) = n /\ \A i \in 1..n : AtPosition(rows, i) = row[i]
  BY <1>3, PositionsFound
<1>5. ByPosition(rows) = [i \in 1..Cardinality(rows) |-> AtPosition(rows, i)]
  BY DEF ByPosition, AtPosition, Before
<1> QED
  BY <1>1, <1>4, <1>5 DEF row, rows

(* The six metrics, each in one place.                                       *)
LEMMA MetricPlaces ==
    /\ DOMAIN MetricOrder = 1..6 /\ \A i \in 1..6 : MetricOrder[i] \in Metrics
    /\ \A i, j \in 1..6 : MetricOrder[i] = MetricOrder[j] => i = j
    /\ \A m \in Metrics : \E i \in 1..6 : MetricOrder[i] = m
<1>1. /\ DOMAIN MetricOrder = 1..6
      /\ MetricOrder[1] = "success_rate" /\ MetricOrder[2] = "ev.pass_rate"
      /\ MetricOrder[3] = "ev.mean_score" /\ MetricOrder[4] = "latency_ms.mean"
      /\ MetricOrder[5] = "latency_ms.p95" /\ MetricOrder[6] = "cost_usd.total"
  BY DEF MetricOrder
<1>2. \A i \in 1..6 : i \in {1, 2, 3, 4, 5, 6}
  OBVIOUS
<1> QED
  BY <1>1, <1>2 DEF Metrics, Rates, LowerIsBetter

----------------------------------------------------------------------------
(* The evidence of a result.                                                 *)
Line(m) == [metric |-> m, of |-> evidence[m]]

(* s has one line for each metric of M that has evidence.                    *)
Lists(s, M) ==
    /\ s \in Seq({Line(m) : m \in {x \in M : evidence[x].kind # "none"}})
    /\ \A i, j \in 1..Len(s) : s[i].metric = s[j].metric => i = j
    /\ \A m \in M : evidence[m].kind # "none" => \E i \in 1..Len(s) : s[i] = Line(m)

LEMMA OneListed == ASSUME NEW m PROVE Lists(Recorded(m), {m})
<1>1. CASE evidence[m].kind = "none"
  BY <1>1 DEF Lists, Recorded
<1>2. CASE evidence[m].kind # "none"
  <2>1. Recorded(m) = <<Line(m)>> /\ Line(m).metric = m
    BY <1>2 DEF Recorded, Line
  <2>2. Line(m) \in {Line(x) : x \in {y \in {m} : evidence[y].kind # "none"}}
    BY <1>2
  <2>3. Len(Recorded(m)) = 1 /\ Recorded(m)[1] = Line(m)
    BY <2>1
  <2> QED
    BY <2>1, <2>2, <2>3 DEF Lists
<1> QED
  BY <1>1, <1>2

LEMMA BothListed ==
    ASSUME NEW M, NEW N, NEW s, NEW t, Lists(s, M), Lists(t, N), M \cap N = {}
    PROVE  Lists(s \o t, M \cup N)
<1> DEFINE L(K) == {Line(m) : m \in {x \in K : evidence[x].kind # "none"}}
           u == s \o t
<1>1. s \in Seq(L(M)) /\ t \in Seq(L(N))
  BY DEF Lists
<1>2. L(M) \subseteq L(M \cup N) /\ L(N) \subseteq L(M \cup N)
  OBVIOUS
<1>3. s \in Seq(L(M \cup N)) /\ t \in Seq(L(M \cup N))
  <2>1. ASSUME NEW A, NEW B, A \subseteq B, NEW x \in Seq(A) PROVE x \in Seq(B)
    <3>1. x \in [1..Len(x) -> A] /\ Len(x) \in Nat
      BY <2>1
    <3>2. x \in [1..Len(x) -> B]
      BY <2>1, <3>1
    <3> QED
      BY <3>1, <3>2
  <2> HIDE DEF L
  <2> QED
    BY <1>1, <1>2, <2>1
<1>4. /\ u \in Seq(L(M \cup N)) /\ Len(u) = Len(s) + Len(t)
      /\ Len(s) \in Nat /\ Len(t) \in Nat
      /\ \A i \in 1..Len(s) : u[i] = s[i] /\ s[i] \in L(M)
      /\ \A i \in 1..Len(t) : u[Len(s) + i] = t[i] /\ t[i] \in L(N)
  <2> HIDE DEF L
  <2> QED
    BY <1>1, <1>3
<1>5. \A x \in L(M) : x.metric \in M
  BY DEF Line
<1>6. \A x \in L(N) : x.metric \in N
  BY DEF Line
<1> HIDE DEF u, L
<1>7. ASSUME NEW i \in 1..Len(u)
      PROVE  i \in 1..Len(s) \/ \E k \in 1..Len(t) : i = Len(s) + k
  <2>1. CASE i <= Len(s)
    BY <1>4, <2>1
  <2>2. CASE ~ (i <= Len(s))
    <3>1. i - Len(s) \in 1..Len(t) /\ i = Len(s) + (i - Len(s))
      BY <1>4, <2>2
    <3> QED
      BY <3>1
  <2> QED
    BY <2>1, <2>2
<1>8. ASSUME NEW i \in 1..Len(u), NEW j \in 1..Len(u), u[i].metric = u[j].metric PROVE i = j
  <2>1. CASE i \in 1..Len(s) /\ j \in 1..Len(s)
    BY <1>4, <1>8, <2>1 DEF Lists
  <2>2. ASSUME NEW k \in 1..Len(t), NEW l \in 1..Len(t), i = Len(s) + k, j = Len(s) + l PROVE i = j
    BY <1>4, <1>8, <2>2 DEF Lists
  <2>3. ASSUME NEW k \in 1..Len(t), i \in 1..Len(s), j = Len(s) + k PROVE FALSE
    BY <1>4, <1>5, <1>6, <1>8, <2>3
  <2>4. ASSUME NEW k \in 1..Len(t), j \in 1..Len(s), i = Len(s) + k PROVE FALSE
    BY <1>4, <1>5, <1>6, <1>8, <2>4
  <2> QED
    BY <1>7, <2>1, <2>2, <2>3, <2>4
<1>9. ASSUME NEW m \in M \cup N, evidence[m].kind # "none" PROVE \E i \in 1..Len(u) : u[i] = Line(m)
  <2>1. CASE m \in M
    <3>1. PICK i \in 1..Len(s) : s[i] = Line(m)
      BY <1>9, <2>1 DEF Lists
    <3> QED
      BY <1>4, <3>1
  <2>2. CASE m \in N
    <3>1. PICK i \in 1..Len(t) : t[i] = Line(m)
      BY <1>9, <2>2 DEF Lists
    <3>2. Len(s) + i \in 1..Len(u)
      BY <1>4
    <3> QED
      BY <1>4, <3>1, <3>2
  <2> QED
    BY <2>1, <2>2
<1> QED
  BY <1>4, <1>8, <1>9 DEF Lists, L, u

LEMMA EvidenceListed == Lists(Result.evidence, Paired)
<1>1. Lists(Recorded("success_rate") \o Recorded("ev.pass_rate"), {"success_rate"} \cup {"ev.pass_rate"})
  BY OneListed, BothListed
<1>2. Lists(Recorded("success_rate") \o Recorded("ev.pass_rate") \o Recorded("ev.mean_score"),
            {"success_rate"} \cup {"ev.pass_rate"} \cup {"ev.mean_score"})
  BY <1>1, OneListed, BothListed
<1>3. Lists(Recorded("success_rate") \o Recorded("ev.pass_rate") \o Recorded("ev.mean_score")
                \o Recorded("latency_ms.mean"),
            {"success_rate"} \cup {"ev.pass_rate"} \cup {"ev.mean_score"} \cup {"latency_ms.mean"})
  BY <1>2, OneListed, BothListed
<1>4. Paired = {"success_rate"} \cup {"ev.pass_rate"} \cup {"ev.mean_score"} \cup {"latency_ms.mean"}
  BY DEF Paired, Rates
<1> QED
  BY <1>3, <1>4 DEF Result

(* What a decision keeps of a metric: nothing, or its evidence, an interval  *)
(* only where there is one.                                                  *)
LEMMA KeptEvidence ==
    ASSUME EvalInv, Decided, NEW m \in Metrics
    PROVE  /\ evidence[m].kind = "none" => evidence[m] = NoEvidence
           /\ evidence[m].kind # "none" =>
                  /\ m \in Paired /\ evidence[m] \in EvidenceRecords
                  /\ evidence[m].kind \in {"no_ci", "ci"}
                  /\ evidence[m].kind = "no_ci" => evidence[m].low = Zero /\ evidence[m].high = Zero
                  /\ evidence[m].kind = "ci" => NotAbove(evidence[m].low, evidence[m].high)
<1>1. plan \in Plans /\ Full(runs) /\ evidence[m] \in PossibleEvidence(m)
  BY DecidedRuns DEF Verdicts
<1>2. CASE thresholds[m] = Ungated \/ m \notin Paired
  BY <1>1, <1>2 DEF PossibleEvidence, MetricEvidence, NoEvidence
<1>3. CASE thresholds[m] # Ungated /\ m \in Paired
  <2> DEFINE ev == evidence[m]
             n == Cardinality(Comparable(runs, m))
  <2>1. ev \in MetricEvidence(runs, m)
    BY <1>1, <1>3 DEF PossibleEvidence
  <2>2. ev \in EvidenceRecords /\ ev.kind \in {"no_ci", "ci"}
    BY <1>1, <1>3, <2>1, EvidenceOf
  <2>3. ASSUME ev.kind = "no_ci" PROVE ev.low = Zero /\ ev.high = Zero
    <3>1. n < MinPairsForCI
      <4>1. ~ (ev.n_pairs >= MinPairsForCI) /\ ev.n_pairs = n /\ n \in Nat
        BY <1>1, <1>3, <2>1, <2>3, EvidenceOf, PairsCompared
      <4> QED
        BY <4>1, CIAssumption
    <3>2. ev = [kind |-> "no_ci", n_pairs |-> n, ref |-> BaselineMean(runs, m), low |-> Zero, high |-> Zero]
      BY <1>3, <2>1, <3>1 DEF MetricEvidence
    <3> QED
      BY <3>2
  <2>4. ASSUME ev.kind = "ci" PROVE NotAbove(ev.low, ev.high)
    <3>1. PICK i \in Intervals(runs, m) : ev.low = Fraction(i[1], n) /\ ev.high = Fraction(i[2], n)
      BY <1>1, <1>3, <2>1, <2>4, EvidenceOf
    <3>2. Comparable(runs, m) # {}
      BY <1>1, <1>3, <2>1, <2>4, EvidenceOf
    <3>3. i[1] \in Int /\ i[2] \in Int /\ n \in Nat
      BY <1>1, <1>3, <3>2, IntervalBounds, PairsCompared
    <3>4. i[1] <= i[2]
      <4>1. CASE Cardinality(Diffs(runs, m)) = 1
        <5>1. PICK d \in Diffs(runs, m) : i = <<n * d, n * d>>
          BY <4>1 DEF Intervals
        <5>2. i[1] = i[2]
          BY <5>1
        <5> QED
          BY <3>3, <5>2
      <4>2. CASE Cardinality(Diffs(runs, m)) # 1
        BY <4>2 DEF Intervals
      <4> QED
        BY <4>1, <4>2
    <3> HIDE DEF n
    <3>5. i[1] * n <= i[2] * n
      BY <3>3, <3>4, TimesMonotone
    <3> QED
      BY <3>1, <3>5 DEF NotAbove, Fraction
  <2> QED
    BY <1>3, <2>2, <2>3, <2>4
<1> QED
  BY <1>2, <1>3

(* A line of evidence stored as a row is valid and reads as the line it was. *)
LEMMA EvidenceLoads ==
    ASSUME EvalInv, Decided, NEW m \in Metrics, evidence[m].kind # "none", NEW p
    PROVE  LET row == Merge([position |-> p], EvidenceColumns(Line(m)))
           IN  /\ row.position = p /\ row.metric = m
               /\ row.n_pairs \in Nat /\ ValidEvidence(row) /\ EvidenceFromRow(row) = Line(m)
<1> DEFINE ev == evidence[m]
           cols == EvidenceColumns(Line(m))
           row == Merge([position |-> p], cols)
<1>1. /\ ev \in EvidenceRecords /\ ev.kind \in {"no_ci", "ci"}
      /\ ev.kind = "no_ci" => ev.low = Zero /\ ev.high = Zero
      /\ ev.kind = "ci" => NotAbove(ev.low, ev.high)
  BY KeptEvidence
<1>2. cols = [metric |-> m, n_pairs |-> ev.n_pairs, baseline_mean |-> ev.ref,
              ci_low |-> IF ev.kind = "no_ci" THEN NoValue ELSE <<ev.low>>,
              ci_high |-> IF ev.kind = "no_ci" THEN NoValue ELSE <<ev.high>>,
              insufficient_evidence |-> ev.kind = "no_ci"]
  BY DEF EvidenceColumns, Line
<1>3. /\ row.position = p /\ row.metric = m /\ row.n_pairs = ev.n_pairs /\ row.baseline_mean = ev.ref
      /\ row.ci_low = cols.ci_low /\ row.ci_high = cols.ci_high
      /\ row.insufficient_evidence = cols.insufficient_evidence
  <2> HIDE DEF cols
  <2>1. row.position = p /\ \A x \in DOMAIN cols : x # "position" => row[x] = cols[x]
    BY RowColumns
  <2> HIDE DEF row
  <2> QED
    BY <1>2, <2>1
<1>4. ev.n_pairs \in Nat /\ ev = [kind |-> ev.kind, n_pairs |-> ev.n_pairs, ref |-> ev.ref,
                                  low |-> ev.low, high |-> ev.high]
  BY <1>1 DEF EvidenceRecords
<1> HIDE DEF row, cols
<1>5. /\ cols.ci_low = IF ev.kind = "no_ci" THEN NoValue ELSE <<ev.low>>
      /\ cols.ci_high = IF ev.kind = "no_ci" THEN NoValue ELSE <<ev.high>>
      /\ cols.insufficient_evidence = (ev.kind = "no_ci")
  BY <1>2
<1>6. /\ row.ci_low = IF ev.kind = "no_ci" THEN NoValue ELSE <<ev.low>>
      /\ row.ci_high = IF ev.kind = "no_ci" THEN NoValue ELSE <<ev.high>>
      /\ row.insufficient_evidence = (ev.kind = "no_ci")
  BY <1>3, <1>5
<1>7. CASE ev.kind = "no_ci"
  <2>1. row.insufficient_evidence /\ row.ci_low = NoValue /\ row.ci_high = NoValue
    BY <1>7, <1>6
  <2>2. ValidEvidence(row)
    BY <1>3, <1>4, <2>1 DEF ValidEvidence
  <2>3. EvidenceFromRow(row).of = ev
    BY <1>1, <1>3, <1>4, <1>7, <2>1 DEF EvidenceFromRow
  <2> QED
    BY <1>3, <1>4, <2>2, <2>3 DEF EvidenceFromRow, Line, row, cols
<1>8. CASE ev.kind = "ci"
  <2>1. ~ row.insufficient_evidence /\ row.ci_low = <<ev.low>> /\ row.ci_high = <<ev.high>>
    BY <1>8, <1>6
  <2>2. row.ci_low # NoValue /\ row.ci_high # NoValue /\ row.ci_low[1] = ev.low /\ row.ci_high[1] = ev.high
    BY <2>1 DEF NoValue
  <2>3. ValidEvidence(row)
    BY <1>1, <1>3, <1>4, <1>8, <2>2 DEF ValidEvidence
  <2>4. EvidenceFromRow(row).of = ev
    BY <1>3, <1>4, <1>8, <2>1, <2>2 DEF EvidenceFromRow
  <2> QED
    BY <1>3, <1>4, <2>3, <2>4 DEF EvidenceFromRow, Line, row, cols
<1> QED
  BY <1>1, <1>7, <1>8

(* The lines of a result.                                                    *)
LEMMA ResultLines ==
    ASSUME EvalInv, Decided
    PROVE  /\ DOMAIN Result = {"metrics", "evidence"} /\ Result = [metrics |-> Result.metrics, evidence |-> Result.evidence]
           /\ DOMAIN Result.metrics = 1..6
           /\ Result.metrics = [i \in 1..6 |-> Comparison(MetricOrder[i])]
           /\ Len(Result.evidence) \in Nat /\ DOMAIN Result.evidence = 1..Len(Result.evidence)
           /\ Result.evidence = [i \in 1..Len(Result.evidence) |-> Result.evidence[i]]
           /\ \A i \in 1..Len(Result.evidence) :
                  \E m \in Paired : evidence[m].kind # "none" /\ Result.evidence[i] = Line(m)
<1>1. Result.metrics = [i \in DOMAIN MetricOrder |-> Comparison(MetricOrder[i])]
  BY DEF Result
<1>2. DOMAIN Result = {"metrics", "evidence"} /\ Result = [metrics |-> Result.metrics, evidence |-> Result.evidence]
  BY DEF Result
<1> DEFINE L == {Line(m) : m \in {x \in Paired : evidence[x].kind # "none"}}
           es == Result.evidence
<1>3. es \in Seq(L)
  BY EvidenceListed DEF Lists
<1> HIDE DEF L, es
<1>4. Len(es) \in Nat /\ es \in [1..Len(es) -> L]
  BY <1>3
<1>5. DOMAIN es = 1..Len(es) /\ es = [i \in 1..Len(es) |-> es[i]] /\ \A i \in 1..Len(es) : es[i] \in L
  BY <1>4
<1> QED
  BY <1>1, <1>2, <1>4, <1>5, MetricPlaces DEF L, es

(* The stored metrics: one row each, read in their order.                    *)
LEMMA MetricsLoad ==
    ASSUME EvalInv, Decided
    PROVE  /\ MetricTable(MetricRows(Result))
           /\ LET ms == ByPosition(MetricRows(Result))
              IN  /\ DOMAIN ms = 1..6
                  /\ \A i \in 1..6 : /\ ms[i].metric = Result.metrics[i].metric
                                     /\ ms[i].baseline_value = Result.metrics[i].baseline_value
                                     /\ ms[i].candidate_value = Result.metrics[i].candidate_value
<1> DEFINE s == Result.metrics
           row(i) == Merge([position |-> i - 1], s[i])
<1>1. DOMAIN s = 1..6 /\ \A i \in 1..6 : s[i] = Comparison(MetricOrder[i])
  BY ResultLines
<1>2. /\ \A r \in Numbered(s) : \E i \in 1..6 : r = row(i)
      /\ DOMAIN ByPosition(Numbered(s)) = 1..6
      /\ \A i \in 1..6 : ByPosition(Numbered(s))[i] = row(i)
  BY <1>1, NumberedLoads
<1>3. ASSUME NEW i \in 1..6
      PROVE  /\ row(i).position = i - 1 /\ row(i).metric = s[i].metric
             /\ row(i).baseline_value = s[i].baseline_value
             /\ row(i).candidate_value = s[i].candidate_value
             /\ s[i].metric = MetricOrder[i]
  <2>1. /\ DOMAIN s[i] = {"metric", "baseline_value", "candidate_value"}
        /\ s[i].metric = MetricOrder[i]
    BY <1>1 DEF Comparison
  <2>2. row(i).position = i - 1 /\ \A x \in DOMAIN s[i] : x # "position" => row(i)[x] = s[i][x]
    <3> HIDE DEF s
    <3> QED
      BY RowColumns
  <2> HIDE DEF row, s
  <2> QED
    BY <2>1, <2>2
<1> HIDE DEF row, s
<1>4. MetricTable(Numbered(s))
  <2> SUFFICES ASSUME NEW q \in Numbered(s), NEW r \in Numbered(s),
                      q.metric = r.metric \/ q.position = r.position
               PROVE  q = r
    BY DEF MetricTable, OneRowPerMetric
  <2>1. PICK i \in 1..6, j \in 1..6 : q = row(i) /\ r = row(j)
    BY <1>2
  <2>2. i = j
    <3>1. CASE q.metric = r.metric
      BY <1>3, <2>1, <3>1, MetricPlaces
    <3>2. CASE q.position = r.position
      <4>1. i - 1 = j - 1
        BY <1>3, <2>1, <3>2
      <4> QED
        BY <4>1
    <3> QED
      BY <3>1, <3>2
  <2> QED
    BY <2>1, <2>2
<1> QED
  BY <1>2, <1>3, <1>4 DEF MetricRows, s

(* The stored evidence: one valid row for each metric that has any.          *)
LEMMA EvidenceTableLoads ==
    ASSUME EvalInv, Decided
    PROVE  /\ EvidenceTable(EvidenceRows(Result))
           /\ \A r \in EvidenceRows(Result) : ValidEvidence(r)
           /\ LET es == ByPosition(EvidenceRows(Result))
              IN  /\ DOMAIN es = 1..Len(Result.evidence)
                  /\ \A i \in 1..Len(Result.evidence) : EvidenceFromRow(es[i]) = Result.evidence[i]
<1> DEFINE s == Result.evidence
           n == Len(s)
           cols == [i \in DOMAIN s |-> EvidenceColumns(s[i])]
           row(i) == Merge([position |-> i - 1], cols[i])
<1>1. /\ n \in Nat /\ DOMAIN s = 1..n
      /\ \A i \in 1..n : \E m \in Paired : evidence[m].kind # "none" /\ s[i] = Line(m)
  BY ResultLines
<1>2. \A i, j \in 1..n : s[i].metric = s[j].metric => i = j
  BY EvidenceListed DEF Lists
<1>3. DOMAIN cols = 1..n
  BY <1>1
<1>4. /\ \A r \in Numbered(cols) : \E i \in 1..n : r = row(i)
      /\ DOMAIN ByPosition(Numbered(cols)) = 1..n
      /\ \A i \in 1..n : ByPosition(Numbered(cols))[i] = row(i)
  <2> HIDE DEF cols
  <2> QED
    BY <1>1, <1>3, NumberedLoads
<1>5. ASSUME NEW i \in 1..n
      PROVE  /\ row(i).position = i - 1 /\ row(i).metric = s[i].metric /\ row(i).n_pairs \in Nat
             /\ ValidEvidence(row(i)) /\ EvidenceFromRow(row(i)) = s[i]
  <2>1. PICK m \in Paired : evidence[m].kind # "none" /\ s[i] = Line(m)
    BY <1>1
  <2>2. m \in Metrics /\ s[i].metric = m
    BY <2>1 DEF Paired, Metrics, LowerIsBetter, Line
  <2>3. row(i) = Merge([position |-> i - 1], EvidenceColumns(Line(m)))
    BY <1>1, <2>1
  <2> HIDE DEF row
  <2> QED
    BY <2>1, <2>2, <2>3, EvidenceLoads
<1> HIDE DEF row, cols, s, n
<1>6. EvidenceTable(Numbered(cols))
  <2>1. ASSUME NEW q \in Numbered(cols), NEW r \in Numbered(cols),
               q.metric = r.metric \/ q.position = r.position
        PROVE  q = r
    <3>1. PICK i \in 1..n, j \in 1..n : q = row(i) /\ r = row(j)
      BY <1>4
    <3>2. CASE q.metric = r.metric
      BY <1>2, <1>5, <3>1, <3>2
    <3>3. CASE q.position = r.position
      <4>1. i - 1 = j - 1 /\ n \in Nat
        BY <1>1, <1>5, <3>1, <3>3
      <4>2. i = j
        BY <4>1
      <4> QED
        BY <3>1, <4>2
    <3> QED
      BY <2>1, <3>2, <3>3
  <2>2. \A r \in Numbered(cols) : r.n_pairs >= 0
    BY <1>4, <1>5
  <2> QED
    BY <2>1, <2>2 DEF EvidenceTable, OneRowPerMetric
<1>7. \A r \in Numbered(cols) : ValidEvidence(r)
  BY <1>4, <1>5
<1> QED
  BY <1>4, <1>5, <1>6, <1>7 DEF EvidenceRows, cols, s, n

(* A result is read back as it was.                                          *)
LEMMA ResultLoads ==
    ASSUME EvalInv, Decided
    PROVE  ResultFromRows(MetricRows(Result), EvidenceRows(Result)) = Result
<1> DEFINE ms == ByPosition(MetricRows(Result))
           es == ByPosition(EvidenceRows(Result))
           n == Len(Result.evidence)
<1>1. DOMAIN ms = 1..6 /\ \A i \in 1..6 : /\ ms[i].metric = Result.metrics[i].metric
                                          /\ ms[i].baseline_value = Result.metrics[i].baseline_value
                                          /\ ms[i].candidate_value = Result.metrics[i].candidate_value
  BY MetricsLoad
<1>2. DOMAIN es = 1..n /\ \A i \in 1..n : EvidenceFromRow(es[i]) = Result.evidence[i]
  BY EvidenceTableLoads
<1>3. /\ Result.metrics = [i \in 1..6 |-> Comparison(MetricOrder[i])]
      /\ Result.evidence = [i \in 1..n |-> Result.evidence[i]]
      /\ Result = [metrics |-> Result.metrics, evidence |-> Result.evidence]
  BY ResultLines
<1>4. ResultFromRows(MetricRows(Result), EvidenceRows(Result))
        = [metrics |-> [i \in DOMAIN ms |-> [metric |-> ms[i].metric, baseline_value |-> ms[i].baseline_value,
                                             candidate_value |-> ms[i].candidate_value]],
           evidence |-> [i \in DOMAIN es |-> EvidenceFromRow(es[i])]]
  BY DEF ResultFromRows
<1> HIDE DEF ms, es
<1>5. \A i \in 1..6 : [metric |-> ms[i].metric, baseline_value |-> ms[i].baseline_value,
                       candidate_value |-> ms[i].candidate_value] = Comparison(MetricOrder[i])
  <2> TAKE i \in 1..6
  <2>1. Result.metrics[i] = Comparison(MetricOrder[i])
    BY <1>3
  <2> QED
    BY <1>1, <2>1 DEF Comparison
<1>6. [i \in DOMAIN ms |-> [metric |-> ms[i].metric, baseline_value |-> ms[i].baseline_value,
                            candidate_value |-> ms[i].candidate_value]] = Result.metrics
  BY <1>1, <1>3, <1>5
<1>7. [i \in DOMAIN es |-> EvidenceFromRow(es[i])] = Result.evidence
  <2> HIDE DEF n
  <2>1. [i \in DOMAIN es |-> EvidenceFromRow(es[i])] = [i \in 1..n |-> Result.evidence[i]]
    BY <1>2
  <2> QED
    BY <1>3, <2>1
<1> QED
  BY <1>3, <1>4, <1>6, <1>7

(* Deciding again on a result gives the reasons and advisories of its run.   *)
LEMMA GateAgain ==
    ASSUME EvalInv, Decided
    PROVE  GateOf(Result) = [reasons |-> reasons, advisories |-> advisories]
<1> DEFINE M == Range(Result.metrics)
           E == Range(Result.evidence)
           names == {c.metric : c \in M}
           line(m) == CHOOSE c \in M : c.metric = m
           base == [m \in names |-> line(m).baseline_value]
           cand == [m \in names |-> line(m).candidate_value]
           ev == [m \in names |-> IF \E e \in E : e.metric = m
                                    THEN (CHOOSE e \in E : e.metric = m).of ELSE NoEvidence]
<1>1. M = {Comparison(m) : m \in Metrics}
  <2>1. DOMAIN Result.metrics = 1..6 /\ \A i \in 1..6 : Result.metrics[i] = Comparison(MetricOrder[i])
    BY ResultLines
  <2>2. M = {Result.metrics[i] : i \in 1..6}
    BY <2>1 DEF Range
  <2> HIDE DEF M
  <2> QED
    BY <2>1, <2>2, MetricPlaces
<1>2. E = {Line(m) : m \in {x \in Paired : evidence[x].kind # "none"}}
  <2> DEFINE s == Result.evidence  n == Len(s)
  <2>1. DOMAIN s = 1..n /\ \A i \in 1..n : \E m \in Paired : evidence[m].kind # "none" /\ s[i] = Line(m)
    BY ResultLines
  <2>2. \A m \in Paired : evidence[m].kind # "none" => \E i \in 1..n : s[i] = Line(m)
    BY EvidenceListed DEF Lists
  <2>3. E = {s[i] : i \in 1..n}
    BY <2>1 DEF Range
  <2> HIDE DEF E, s, n
  <2> QED
    BY <2>1, <2>2, <2>3
<1>3. \A m : Comparison(m).metric = m /\ Line(m).metric = m /\ Line(m).of = evidence[m]
             /\ Comparison(m).baseline_value = Value(runs, "baseline", m)
             /\ Comparison(m).candidate_value = Value(runs, "candidate", m)
  BY DEF Comparison, Line
<1> HIDE DEF M, E
<1>4. names = Metrics
  BY <1>1, <1>3
<1>5. \A m \in Metrics : line(m) = Comparison(m)
  BY <1>1, <1>3
<1>6. base = ValuesOf("baseline") /\ cand = ValuesOf("candidate")
  <2> HIDE DEF names, line
  <2> QED
    BY <1>3, <1>4, <1>5 DEF ValuesOf
<1>7. ASSUME NEW m \in Metrics PROVE ev[m] = evidence[m]
  <2>1. CASE evidence[m].kind = "none"
    <3>1. ~ \E e \in E : e.metric = m
      BY <1>2, <1>3, <2>1
    <3>2. evidence[m] = NoEvidence
      BY <2>1, KeptEvidence
    <3> HIDE DEF names
    <3> QED
      BY <1>4, <3>1, <3>2
  <2>2. CASE evidence[m].kind # "none"
    <3>1. m \in Paired
      BY <2>2, KeptEvidence
    <3>2. Line(m) \in E /\ \A e \in E : e.metric = m => e = Line(m)
      BY <1>2, <1>3, <2>2, <3>1
    <3>3. (CHOOSE e \in E : e.metric = m) = Line(m)
      BY <1>3, <3>2
    <3> HIDE DEF names
    <3> QED
      BY <1>3, <1>4, <3>2, <3>3
  <2> QED
    BY <2>1, <2>2
<1> HIDE DEF ev, base, cand, names
<1>8. /\ Reasons(Metrics, ValuesOf("baseline"), ValuesOf("candidate"), thresholds, ev) = reasons
      /\ Advisories(Metrics, ValuesOf("baseline"), ValuesOf("candidate"), thresholds, ev) = advisories
  <2>1. Verdicts
    BY DecidedRuns
  <2> QED
    BY <1>7, <2>1 DEF Verdicts, Reasons, Advisories
<1>9. GateOf(Result) = [reasons |-> Reasons(names, base, cand, thresholds, ev),
                        advisories |-> Advisories(names, base, cand, thresholds, ev)]
  BY DEF GateOf, names, base, cand, ev, line, M, E
<1> QED
  BY <1>4, <1>6, <1>8, <1>9

(* A result read back is answered as its run was.                            *)
LEMMA AnswerAgain ==
    ASSUME EvalInv, Decided
    PROVE  EvaluationResultRead(MetricRows(Result), EvidenceRows(Result)) = RunResponse
<1> DEFINE gate == [reasons |-> reasons, advisories |-> advisories]
<1>1. EvaluationResultRead(MetricRows(Result), EvidenceRows(Result)) = Answer(Result, gate)
  BY ResultLoads, GateAgain DEF EvaluationResultRead
<1>2. Answer(Result, gate).decision = stage
  BY DecidedRuns DEF Answer, Verdicts
<1>3. RunResponse = [Answer(Result, gate) EXCEPT !.decision = stage]
  BY DEF RunResponse
<1>4. [Answer(Result, gate) EXCEPT !.decision = stage] = Answer(Result, gate)
  BY <1>2 DEF Answer
<1> QED
  BY <1>1, <1>3, <1>4

----------------------------------------------------------------------------
(* The rows of the runs.                                                     *)

(* What a run of a decided plan is.                                          *)
LEMMA RunsDecided ==
    ASSUME EvalInv, Decided
    PROVE  /\ plan \in Plans /\ DOMAIN runs = 1..PlanLength
           /\ \A i \in DOMAIN runs :
                  /\ runs[i] \in RunType /\ runs[i].score \in 0..FullScore
                  /\ Key(i) \in Keys /\ Key(i)[2] \in Nat /\ Key(i) = <<Key(i)[1], Key(i)[2]>>
                  /\ runs[i].error => runs[i] = FailedRun
           /\ \A i, j \in DOMAIN runs : Version(i) = Version(j) /\ Key(i) = Key(j) => i = j
<1>1. plan \in Plans /\ Full(runs) /\ runs \in Seq(RunRecords)
  BY DecidedRuns DEF EvalInv
<1>2. DOMAIN runs = 1..PlanLength /\ \A i \in 1..PlanLength : runs[i] \in RunType
  BY <1>1 DEF Full
<1>3. \A i \in DOMAIN runs : runs[i] \in RunRecords
  BY <1>1
<1>4. ASSUME NEW i \in DOMAIN runs
      PROVE  runs[i].score \in 0..FullScore /\ (runs[i].error => runs[i] = FailedRun)
  <2>1. CASE runs[i] = FailedRun
    BY <2>1, FullScoreAssumption DEF FailedRun
  <2>2. ASSUME NEW r \in plan.responses, runs[i] = ScoredRun(r) PROVE <1>4!2
    <3>1. runs[i].score = r.score /\ ~ runs[i].error
      BY <2>2 DEF ScoredRun
    <3>2. r.score <= FullScore /\ runs[i].score \in Nat /\ FullScore \in Nat
      BY <1>1, <1>2, ScoreAssumption, FullScoreAssumption DEF RunType
    <3> QED
      BY <3>1, <3>2
  <2> QED
    BY <1>3, <2>1, <2>2 DEF RunRecords
<1>5. ASSUME NEW i \in DOMAIN runs PROVE Key(i) \in Keys /\ Key(i)[2] \in Nat /\ Key(i) = <<Key(i)[1], Key(i)[2]>>
  <2>1. Key(i) \in Keys
    BY <1>1, <1>2, KeyOf
  <2>2. plan.repeats \in Nat \ {0}
    BY <1>1, PlanTypes
  <2> QED
    BY <2>1, <2>2 DEF Keys
<1>6. \A i, j \in DOMAIN runs : Version(i) = Version(j) /\ Key(i) = Key(j) => i = j
  BY <1>1, <1>2, KeyOf
<1> QED
  BY <1>1, <1>2, <1>4, <1>5, <1>6

(* The row of the one score of a successful run.                             *)
ScoreRow(i) == Merge([case_result_id |-> i], Merge([position |-> 0], Score(runs[i])))

LEMMA ScoreColumns ==
    ASSUME NEW i
    PROVE  /\ ScoreRow(i).case_result_id = i /\ ScoreRow(i).position = 0
           /\ ScoreRow(i).evaluator = Evaluator
           /\ ScoreRow(i).score = runs[i].score /\ ScoreRow(i).passed = runs[i].passed
<1> DEFINE s == Score(runs[i])
           r == Merge([position |-> 0], s)
<1>1. /\ DOMAIN s = {"evaluator", "score", "passed"} /\ s.evaluator = Evaluator
      /\ s.score = runs[i].score /\ s.passed = runs[i].passed
  BY DEF Score
<1>2. /\ DOMAIN r = {"position"} \cup DOMAIN s /\ r.position = 0
      /\ \A x \in DOMAIN s : x # "position" => r[x] = s[x]
  <2> QED
    BY DEF Merge
<1>3. /\ ScoreRow(i).case_result_id = i
      /\ \A x \in DOMAIN r : x # "case_result_id" => ScoreRow(i)[x] = r[x]
  <2> HIDE DEF r
  <2> QED
    BY DEF Merge, ScoreRow, r
<1> HIDE DEF s, r
<1> QED
  BY <1>1, <1>2, <1>3

(* A failed run has no score, any other has one.                             *)
LEMMA ScoresStored ==
    ASSUME NEW i
    PROVE  ScoreRows(i) = IF runs[i].error THEN {} ELSE {ScoreRow(i)}
<1> DEFINE s == Score(runs[i])
<1>1. CASE runs[i].error
  BY <1>1 DEF ScoreRows, Numbered
<1>2. CASE ~ runs[i].error
  <2>1. Numbered(<<s>>) = {Merge([position |-> 0], s)}
    <3> HIDE DEF s
    <3>1. DOMAIN <<s>> = {1} /\ <<s>>[1] = s /\ 1 - 1 = 0
      OBVIOUS
    <3> QED
      BY <3>1 DEF Numbered
  <2>2. ScoreRows(i) = {Merge([case_result_id |-> i], row) : row \in Numbered(<<s>>)}
    BY <1>2 DEF ScoreRows
  <2> QED
    BY <1>2, <2>1, <2>2 DEF ScoreRow
<1> QED
  BY <1>1, <1>2

(* A single row numbered 0 is the first.                                     *)
LEMMA OneLoads ==
    ASSUME NEW r, r.position = 0
    PROVE  ByPosition({r})[1] = r
<1> DEFINE row == [i \in 1..1 |-> r]
           rows == {r}
<1>1. \A i \in 1..1 : i = 1 /\ row[i] = r
  OBVIOUS
<1> HIDE DEF row
<1>2. InOrder(rows, row, 1)
  BY <1>1 DEF InOrder
<1> HIDE DEF rows
<1>3. Cardinality(rows) = 1 /\ AtPosition(rows, 1) = row[1]
  BY <1>2, PositionsFound
<1>4. ByPosition(rows) = [i \in 1..Cardinality(rows) |-> AtPosition(rows, i)]
  BY DEF ByPosition, AtPosition, Before
<1> QED
  BY <1>1, <1>3, <1>4 DEF rows

(* The rows of the runs are admitted, and each run is read back as it was.   *)
LEMMA RunsLoad ==
    ASSUME EvalInv, Decided
    PROVE  LET runRows   == {RunRow(i) : i \in DOMAIN runs}
               scoreRows == UNION {ScoreRows(i) : i \in DOMAIN runs}
               at(i) == CHOOSE r \in runRows : /\ r.system_version_id = Version(i)
                                               /\ <<r.case_id, r.repeat_index>> = Key(i)
           IN  /\ RunTable(runRows) /\ ScoreTable(scoreRows)
               /\ \A i \in DOMAIN runs : RunFromRows(at(i), scoreRows) = runs[i]
<1> DEFINE runRows   == {RunRow(i) : i \in DOMAIN runs}
           scoreRows == UNION {ScoreRows(i) : i \in DOMAIN runs}
           at(i) == CHOOSE r \in runRows : /\ r.system_version_id = Version(i)
                                           /\ <<r.case_id, r.repeat_index>> = Key(i)
           ok == {i \in DOMAIN runs : ~ runs[i].error}
<1>1. \A i \in DOMAIN runs :
          /\ runs[i] \in RunType /\ runs[i].score \in 0..FullScore
          /\ Key(i)[2] \in Nat /\ Key(i) = <<Key(i)[1], Key(i)[2]>>
          /\ runs[i].error => runs[i] = FailedRun
  BY RunsDecided
<1>2. \A i, j \in DOMAIN runs : Version(i) = Version(j) /\ Key(i) = Key(j) => i = j
  BY RunsDecided
<1>3. \A i : /\ RunRow(i).id = i /\ RunRow(i).system_version_id = Version(i)
             /\ RunRow(i).case_id = Key(i)[1] /\ RunRow(i).repeat_index = Key(i)[2]
             /\ RunRow(i).error = runs[i].error
             /\ RunRow(i).cost_usd = runs[i].cost /\ RunRow(i).latency_ms = runs[i].latency
  BY DEF RunRow
<1>4. RunTable(runRows)
  <2>1. ASSUME NEW r \in runRows PROVE r.repeat_index >= 0 /\ UsageAdmitted(r)
    <3>1. PICK i \in DOMAIN runs : r = RunRow(i)
      OBVIOUS
    <3>2. runs[i].cost \in Nat /\ runs[i].latency \in Nat /\ Key(i)[2] \in Nat
      BY <1>1 DEF RunType
    <3>3. r.repeat_index = Key(i)[2] /\ r.cost_usd = runs[i].cost /\ r.latency_ms = runs[i].latency
      BY <1>3, <3>1
    <3> QED
      BY <3>2, <3>3 DEF UsageAdmitted
  <2>2. ASSUME NEW r \in runRows, NEW q \in runRows,
               r.system_version_id = q.system_version_id,
               r.case_id = q.case_id, r.repeat_index = q.repeat_index
        PROVE  r = q
    <3>1. PICK i \in DOMAIN runs, j \in DOMAIN runs : r = RunRow(i) /\ q = RunRow(j)
      OBVIOUS
    <3>2. Version(i) = Version(j) /\ Key(i)[1] = Key(j)[1] /\ Key(i)[2] = Key(j)[2]
      BY <1>3, <2>2, <3>1
    <3>3. Key(i) = Key(j)
      BY <1>1, <3>2
    <3> QED
      BY <1>2, <3>1, <3>2, <3>3
  <2> QED
    BY <2>1, <2>2 DEF RunTable
<1>5. scoreRows = {ScoreRow(i) : i \in ok}
  BY ScoresStored
<1> HIDE DEF scoreRows
<1>6. ScoreTable(scoreRows)
  <2>1. \A r \in scoreRows : r.score \in 0..FullScore
    BY <1>1, <1>5, ScoreColumns
  <2>2. \A r, q \in scoreRows : r.case_result_id = q.case_result_id => r = q
    BY <1>5, ScoreColumns
  <2> QED
    BY <2>1, <2>2 DEF ScoreTable
<1>7. ASSUME NEW i \in DOMAIN runs PROVE RunFromRows(at(i), scoreRows) = runs[i]
  <2>1. at(i) = RunRow(i)
    <3>1. /\ RunRow(i) \in runRows /\ RunRow(i).system_version_id = Version(i)
          /\ <<RunRow(i).case_id, RunRow(i).repeat_index>> = Key(i)
      BY <1>1, <1>3
    <3>2. \A r \in runRows : r.system_version_id = Version(i) /\ <<r.case_id, r.repeat_index>> = Key(i)
                                 => r = RunRow(i)
      <4> SUFFICES ASSUME NEW j \in DOMAIN runs, RunRow(j).system_version_id = Version(i),
                          <<RunRow(j).case_id, RunRow(j).repeat_index>> = Key(i)
                   PROVE  RunRow(j) = RunRow(i)
        OBVIOUS
      <4>1. Version(j) = Version(i) /\ Key(j) = Key(i)
        BY <1>1, <1>3
      <4> QED
        BY <1>2, <4>1
    <3> QED
      BY <3>1, <3>2
  <2> HIDE DEF at
  <2>2. CASE runs[i].error
    <3>1. runs[i] = FailedRun
      BY <1>1, <2>2
    <3>2. RunRow(i).error
      BY <1>3, <2>2
    <3>3. RunFromRows(RunRow(i), scoreRows) = FailedRun
      BY <3>2 DEF RunFromRows
    <3> QED
      BY <2>1, <3>1, <3>3
  <2>3. CASE ~ runs[i].error
    <3>1. {s \in scoreRows : s.case_result_id = RunRow(i).id} = {ScoreRow(i)}
      BY <1>3, <1>5, <2>3, ScoreColumns
    <3>2. ByPosition({ScoreRow(i)})[1] = ScoreRow(i)
      BY ScoreColumns, OneLoads
    <3>3. RunFromRows(RunRow(i), scoreRows)
            = [error |-> FALSE, passed |-> ScoreRow(i).passed, score |-> ScoreRow(i).score,
               latency |-> RunRow(i).latency_ms, cost |-> RunRow(i).cost_usd]
      BY <1>3, <2>3, <3>1, <3>2 DEF RunFromRows
    <3>4. RunFromRows(RunRow(i), scoreRows)
            = [error |-> FALSE, passed |-> runs[i].passed, score |-> runs[i].score,
               latency |-> runs[i].latency, cost |-> runs[i].cost]
      BY <1>3, <3>3, ScoreColumns
    <3>5. runs[i] = [error |-> runs[i].error, passed |-> runs[i].passed, score |-> runs[i].score,
                     latency |-> runs[i].latency, cost |-> runs[i].cost] /\ runs[i].error = FALSE
      BY <1>1, <2>3 DEF RunType
    <3> QED
      BY <2>1, <3>4, <3>5
  <2> QED
    BY <2>2, <2>3
<1> QED
  BY <1>4, <1>6, <1>7 DEF scoreRows

----------------------------------------------------------------------------
LEMMA RefreshShowsTheRun == EvalInv => RefreshMatchesResponse
<1> SUFFICES ASSUME EvalInv, Decided PROVE RefreshMatchesResponse
  BY DEF RefreshMatchesResponse
<1>1. /\ MetricTable(MetricRows(Result)) /\ EvidenceTable(EvidenceRows(Result))
      /\ \A row \in EvidenceRows(Result) : ValidEvidence(row)
  BY MetricsLoad, EvidenceTableLoads
<1> QED
  BY <1>1, AnswerAgain, RunsLoad DEF RefreshMatchesResponse

(* For any plan, whatever an evaluation decided is accepted by the tables    *)
(* and read back as its own response: decision, reasons, advisories, metric  *)
(* lines, evidence and runs (db/mapping.py, GET /results).                   *)
THEOREM RefreshShowsResponse == Spec => []RefreshMatchesResponse
  BY EvalInvInit, EvalInvStep, RefreshShowsTheRun, PTL DEF Spec
=============================================================================
