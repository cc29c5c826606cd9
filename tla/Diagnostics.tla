---------------------------- MODULE Diagnostics ----------------------------
(***************************************************************************)
(* diagnose_regressions: an explanation of the candidate's regressions, one*)
(* pair of runs at a time, computed from the same runs as the metrics and  *)
(* the evidence but on its own.  It changes nothing; the question is       *)
(* whether its story fits the gate's.                                      *)
(***************************************************************************)
EXTENDS Evaluation

CONSTANTS
    MinScoreDrop,         \* MIN_SCORE_DROP, in the units of a response's score
    GroundednessNames     \* evaluator names that start with "groundedness"

ASSUME ScoreDropAssumption == MinScoreDrop \in Nat

(* The evaluator of Evaluation, by name.                                     *)
Evaluator == "ev"

KnownCategory ==
    [retrieval_recall     |-> "retrieval_regression",
     context_precision    |-> "retrieval_regression",
     groundedness_lexical |-> "groundedness_regression",
     tool_selection       |-> "tool_selection_regression",
     tool_arguments       |-> "tool_argument_regression",
     tool_success         |-> "tool_execution_failure",
     tool_trajectory      |-> "trajectory_regression"]

CategoryFor(name) ==
    IF name \in DOMAIN KnownCategory THEN KnownCategory[name]
    ELSE IF name \in GroundednessNames THEN "groundedness_regression"
    ELSE "evaluator_regression"

(* A failed run has no scores.                                               *)
ScoreMap(run) ==
    IF run.error THEN <<>>
    ELSE [e \in {Evaluator} |-> [passed |-> run.passed, score |-> run.score]]

Finding(k, category, kind, evaluator) ==
    [case |-> k[1], repeat |-> k[2], category |-> category, kind |-> kind, evaluator |-> evaluator]

(* Mutant: only pairs whose both sides succeeded are compared.               *)
ScoredPairsOnly(k, b, c) ==
    LET common == DOMAIN ScoreMap(b) \cap DOMAIN ScoreMap(c)
        old(e) == ScoreMap(b)[e]
        new(e) == ScoreMap(c)[e]
    IN  {Finding(k, CategoryFor(e), "evaluator_pass_to_fail", e) :
                e \in {e \in common : old(e).passed /\ ~ new(e).passed}}

PairFindings(k, b, c) ==
    LET common == DOMAIN ScoreMap(b) \cap DOMAIN ScoreMap(c)
        old(e) == ScoreMap(b)[e]
        new(e) == ScoreMap(c)[e]
        failed == {e \in common : old(e).passed /\ ~ new(e).passed}
        dropped == {e \in common \ failed : new(e).score < old(e).score - MinScoreDrop}
    IN  {Finding(k, "provider_execution_failure", "provider_failure", "none") :
                x \in {y \in {k} : c.error /\ ~ b.error}}
        \cup {Finding(k, CategoryFor(e), "evaluator_pass_to_fail", e) : e \in failed}
        \cup {Finding(k, CategoryFor(e), "evaluator_score_drop", e) : e \in dropped}

Findings(rs) ==
    UNION {PairFindings(k, RunAt(rs, "baseline", k), RunAt(rs, "candidate", k)) : k \in Matched(rs)}

PairsOf(fs) == {<<f.case, f.repeat>> : f \in fs}
CasesOf(fs) == {f.case : f \in fs}

(* Pairs and distinct cases by category, and by evaluator with their kinds.  *)
CategoryCounts(fs) ==
    [g \in {f.category : f \in fs} |->
        LET group == {f \in fs : f.category = g}
        IN  [pairs |-> Cardinality(PairsOf(group)), cases |-> Cardinality(CasesOf(group))]]

EvaluatorCounts(fs) ==
    [e \in {f.evaluator : f \in fs} \ {"none"} |->
        LET group == {f \in fs : f.evaluator = e}
            count(kind) == Cardinality({f \in group : f.kind = kind})
        IN  [pairs        |-> Cardinality(PairsOf(group)), cases |-> Cardinality(CasesOf(group)),
             pass_to_fail |-> count("evaluator_pass_to_fail"),
             score_drop   |-> count("evaluator_score_drop")]]

(* Mutant: the first repeat of the case, whatever it found.                  *)
FirstRepeat(fs, case) == 0

(* The repeat with the most findings; the lowest one on a tie.               *)
Representative(fs, case) ==
    LET count(r) == Cardinality({f \in fs : f.case = case /\ f.repeat = r})
        found    == {f.repeat : f \in {f \in fs : f.case = case}}
    IN  CHOOSE r \in found : \A q \in found : count(q) < count(r) \/ (count(q) = count(r) /\ r <= q)

RegressingCases(fs) ==
    [case \in CasesOf(fs) |->
        LET group == {f \in fs : f.case = case}
        IN  [categories       |-> {f.category : f \in group},
             evaluators       |-> {f.evaluator : f \in group} \ {"none"},
             provider_failure |-> \E f \in group : f.kind = "provider_failure",
             finding_count    |-> Cardinality(group),
             representative   |-> <<case, Representative(fs, case)>>]]

Diagnose(rs) ==
    LET fs == Findings(rs)
    IN  [matched_pairs    |-> Cardinality(Matched(rs)),
         regressing_pairs |-> Cardinality(PairsOf(fs)),
         regressing_cases |-> Cardinality(CasesOf(fs)),
         categories       |-> CategoryCounts(fs),
         evaluators       |-> EvaluatorCounts(fs),
         cases            |-> RegressingCases(fs),
         available        |-> Matched(rs) # {}]

----------------------------------------------------------------------------
(* What the rates lost is in the counts: the candidate lost no more runs than*)
(* there are provider failures, and no more passes than failures and fails.  *)
LossCounted(report) ==
    LET lost(m) == SumFunction([k \in Matched(runs) |-> -Diff(runs, m, k)])
        Pairs(cat) == IF cat \in DOMAIN report.categories THEN report.categories[cat].pairs ELSE 0
        failures == Pairs("provider_execution_failure")
        fails == IF Evaluator \in DOMAIN report.evaluators
                   THEN report.evaluators[Evaluator].pass_to_fail ELSE 0
    IN  /\ lost("success_rate") <= failures
        /\ lost("ev.pass_rate") <= failures + fails

(* The pairs in which the gate's own series see the candidate worse: a run   *)
(* lost, a pass lost, or a score that dropped by more than MinScoreDrop.     *)
WorsePairs ==
    {k \in Matched(runs) : \/ Diff(runs, "success_rate", k) < 0
                           \/ Diff(runs, "ev.pass_rate", k) < 0
                           \/ Diff(runs, "ev.mean_score", k) < -MinScoreDrop}

(* A BLOCK on this rate is about changes that diagnostics can see: each lost *)
(* run or pass is one, a lower mean score only when the policy tolerates a   *)
(* drop of at least MinScoreDrop.                                            *)
Visible(m) ==
    m = "ev.mean_score" =>
        Scale * (MinScoreDrop * evidence[m].ref.den) <= thresholds[m] * evidence[m].ref.num

(* The report and the gate tell one story: the counts cover what the rates   *)
(* lost, the pairs with findings are exactly those the gate's series see     *)
(* worse, and a BLOCK on a rate points to such a pair that is worse in that  *)
(* rate, unless its policy tolerates less than a drop of MinScoreDrop.       *)
FindingsAccountForLoss ==
    Decided =>
        LET report == Diagnose(runs)
            found == PairsOf(Findings(runs))
        IN  /\ report.available
            /\ LossCounted(report)
            /\ found = WorsePairs
            /\ \A m \in reasons \cap Rates :
                   Visible(m) => \E k \in found : Diff(runs, m, k) < 0

(* Every case the report points to shows a regression there: in the pair it  *)
(* links to, the candidate is worse in a series the gate compares; and the   *)
(* cases' findings are those of the regressing pairs.                        *)
RepresentativeRegressed ==
    Decided =>
        LET report == Diagnose(runs)
            count == [case \in DOMAIN report.cases |-> report.cases[case].finding_count]
        IN  /\ \A case \in DOMAIN report.cases :
                   LET k == report.cases[case].representative
                   IN  /\ \E m \in Rates : Diff(runs, m, k) < 0
                       /\ report.cases[case].provider_failure
                            <=> \E r \in 0..plan.repeats - 1 : Diff(runs, "success_rate", <<case, r>>) < 0
            /\ SumFunction(count) >= report.regressing_pairs
=============================================================================
