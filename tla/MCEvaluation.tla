---------------------------- MODULE MCEvaluation ----------------------------
(* Plans for checking Evaluation, Diagnostics and StoredResult.             *)
EXTENDS StoredResult

Response(p, s, l, c) == [passed |-> p, score |-> s, latency |-> l, cost |-> c]

Good == Response(TRUE, 2, 1, 1)
Bad  == Response(FALSE, 1, 2, 2)
Slight == Response(TRUE, 1, 2, 2)    \* a drop of MinScoreDrop, no finding
Low  == Response(TRUE, 0, 2, 2)

(* One metric gated at a time, at a tolerated change of t / Scale; the last  *)
(* name is of a metric the evaluation does not produce.                      *)
Names == Metrics \cup {"other.pass_rate"}
Only(m, t) == [x \in Names |-> IF x = m THEN t ELSE Ungated]

Plan(who, n, r, p, a) ==
    [caller |-> who, cases |-> n, repeats |-> r, thresholds |-> p, responses |-> a]

Unknown(who) == Plan(who, 1, 1, Only("other.pass_rate", 0), {Good})

MCPlans ==
    {Plan("service", 3, 1, Only(m, t), {Good, Bad}) : m \in Metrics, t \in {0, 1}}
        \cup {Plan("service", 2, 1, Only("ev.mean_score", t), {Good, Slight, Low, Bad}) : t \in {1, 2}}
        \cup {Plan("cli", 2, 2, Only("success_rate", 0), {Good})}
        \cup {Unknown("cli"), Unknown("service")}
=============================================================================
