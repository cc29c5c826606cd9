------------------------------ MODULE RunConfig ------------------------------
(***************************************************************************)
(* A run from its configuration to its gate: load_run_plan of the CLI      *)
(* (config.py, datasets.py), or the request of the service                 *)
(* (execution_service.py), decide whether anything is executed; then the   *)
(* runner renders, calls and scores one run at a time, and any error but a *)
(* failed provider call ends it with everything paid so far lost.          *)
(*                                                                         *)
(* What the first step checks is written from the loaders, what ends a run *)
(* from the code that raises: the properties compare the two.              *)
(***************************************************************************)
EXTENDS Evaluators

CONSTANTS
    Configs,   \* the configurations tried
    Texts,     \* what a real model may answer
    Replies    \* what a judge may reply

IsSequence(s) == s \in Seq(Elements(s))

(* The configurations hold what the parsers build: lists, sets and numbers.  *)
ResponsesOf(mock) == {mock.default} \cup {mock.answers[t] : t \in DOMAIN mock.answers}

ASSUME ConfigsAssumption ==
    /\ \A c \in Configs :
          /\ c.caller \in {"cli", "service"} /\ c.repeats \in Int
          /\ IsSequence(c.lines) /\ IsSequence(c.evaluators)
          /\ \A l \in Elements(c.lines) : IsSequence(l.calls) /\ IsFiniteSet(l.relevant)
          /\ \A side \in {"baseline", "candidate"} :
                \A r \in ResponsesOf(c.version[side].mock) :
                    IsSequence(r.text) /\ IsSequence(r.context)
                    /\ IsSequence(r.retrieved) /\ IsSequence(r.calls)
    /\ \A t \in Texts : IsSequence(t)

VARIABLES
    config,    \* the configuration
    stage,     \* where it is: new, rejected, running, aborted or concluded
    cause,     \* of an abort
    runs       \* the runs executed, in order

vars == <<config, stage, cause, runs>>

Stages == {"new", "rejected", "running", "aborted", "concluded"}
Causes == {"none", "preflight", "template", "parameters", "credentials", "labels", "name",
           "judge", "policy", "transport"}

Backends == {"mock", "live"} \cup ProviderNames
Sides    == {"baseline", "candidate"}

Silence == [text |-> <<>>, context |-> <<>>, retrieved |-> <<>>, calls |-> <<>>]
NoReply == [verdict |-> "none", score |-> Absent]

CasesOf(c) == {l \in Elements(c.lines) : l.kind = "case"}

Cases == Kept(config.lines, CasesOf(config))

----------------------------------------------------------------------------
(* Loading.                                                                  *)

DatasetLoads(c) ==
    /\ \E i \in DOMAIN c.lines : c.lines[i].kind = "case"
    /\ \A i \in DOMAIN c.lines :
          /\ c.lines[i].kind \in {"case", "blank"}
          /\ c.lines[i].kind = "case" => Written(c.lines[i].id) /\ Written(c.lines[i].input)
    /\ \A i, j \in DOMAIN c.lines :
          c.lines[i].kind = "case" /\ c.lines[j].kind = "case" /\ c.lines[i].id # Null
          /\ c.lines[i].id = c.lines[j].id => i = j

VersionBuilds(v) ==
    /\ v.provider \in ProviderNames
    /\ Written(v.name) /\ Written(v.prompt_template)

Uses(c, types) == \E i \in DOMAIN c.evaluators : c.evaluators[i].type \in types

ReferencesPresent(c) ==
    Uses(c, {"exact_match", "contains"}) => \A l \in CasesOf(c) : l.expected_output # <<>>

RetrievalLabelled(c) ==
    Uses(c, {"retrieval_recall", "context_precision"}) => \A l \in CasesOf(c) : l.relevant # {}

(* Mutant: the labels of tool_arguments are checked like those of the others. *)
AnyToolLabel(c) ==
    Uses(c, AgentTypes \ {"tool_success"}) => \A l \in CasesOf(c) : l.calls # <<>>

ToolsLabelled(c) ==
    /\ Uses(c, {"tool_selection", "tool_trajectory"}) => \A l \in CasesOf(c) : l.calls # <<>>
    /\ Uses(c, {"tool_arguments"}) =>
          \A l \in CasesOf(c) : \E i \in DOMAIN l.calls : l.calls[i].arguments # Null

(* A metric is a pair, of an evaluator or of no evaluator.                   *)
expected_metric_names(specs) ==
    {<<Null, m>> : m \in {"success_rate", "latency_ms.mean", "latency_ms.p95", "cost_usd.total"}}
    \cup {<<NameOf(specs[i]), m>> : i \in DOMAIN specs, m \in {"pass_rate", "mean_score"}}

PolicyMetrics(c) == IF c.policy = <<>> THEN {} ELSE c.policy[1].metrics

PolicyBuilds(c) ==
    c.policy # <<>> =>
        /\ PolicyMetrics(c) \subseteq expected_metric_names(c.evaluators)
        /\ ~c.policy[1].negative

(* build_options and cloud_params: the mock's block is skipped, any other    *)
(* parameter is one the provider knows, with a usable value.                 *)
Known(provider) ==
    IF provider = "ollama" THEN {"temperature", "top_p", "num_predict", "seed"}
    ELSE {"temperature", "top_p", "max_tokens"}

Supported(v) ==
    \A p \in v.parameters : p.key = "mock" \/ (p.key \in Known(v.provider) /\ p.usable)

(* The providers a backend stands for, given the two versions.               *)
Used(c) ==
    IF c.backend \in ProviderNames THEN {c.backend}
    ELSE {c.version[side].provider : side \in Sides}

build_providers(c) ==
    c.backend # "mock" =>
        /\ c.timeout > 0
        /\ \A side \in Sides :
              /\ c.version[side].provider \in Used(c)
              /\ Supported(c.version[side])
        /\ Used(c) \cap Keyless = {}

LoadsPlan(c) ==
    /\ c.wellformed
    /\ DatasetLoads(c)
    /\ c.backend \in Backends
    /\ c.repeats >= 1
    /\ \A side \in Sides : VersionBuilds(c.version[side])
    /\ c.evaluators # <<>> /\ build_evaluators(c.evaluators)
    /\ ReferencesPresent(c) /\ RetrievalLabelled(c) /\ ToolsLabelled(c)
    /\ PolicyBuilds(c)
    /\ build_providers(c)

(* The service's experiment, dataset and versions are stored already.        *)
Storable(c) ==
    /\ DatasetLoads(c) /\ c.repeats >= 1
    /\ \A side \in Sides : VersionBuilds(c.version[side])
    /\ c.policy # <<>> => ~c.policy[1].negative

RequestAccepted(c) ==
    /\ c.wellformed /\ c.backend \in Backends /\ c.evaluators # <<>>
    /\ build_evaluators(c.evaluators)
    /\ build_providers(c)

Accepted(c) == IF c.caller = "cli" THEN LoadsPlan(c) ELSE RequestAccepted(c)

(* The runner's own _preflight.                                              *)
Preflight(c) ==
    /\ {c.version[side].provider : side \in Sides} \subseteq Used(c)
    /\ UniqueNames(c.evaluators)

Begin ==
    /\ stage = "new"
    /\ IF ~Accepted(config) THEN stage' = "rejected" /\ UNCHANGED cause
       ELSE IF ~Preflight(config) THEN stage' = "aborted" /\ cause' = "preflight"
       ELSE stage' = "running" /\ UNCHANGED cause
    /\ UNCHANGED <<config, runs>>

----------------------------------------------------------------------------
(* Running.                                                                  *)

PlanLength == 2 * Len(Cases) * config.repeats

(* Baseline before candidate, then by case, then by repeat.                  *)
Planned(k) ==
    LET side == Len(Cases) * config.repeats
    IN  [side   |-> IF k < side THEN "baseline" ELSE "candidate",
         case   |-> (k % side) \div config.repeats + 1,
         repeat |-> k % config.repeats]

Planning == Planned(Len(runs))
Version  == config.version[Planning.side]
Case     == Cases[Planning.case]
Mock     == config.backend = "mock"

Running == stage = "running" /\ Len(runs) < PlanLength

Abort(why) == stage' = "aborted" /\ cause' = why /\ UNCHANGED <<config, runs>>

(* render_prompt comes before the first repeat of each case; a provider      *)
(* looks at its parameters, and for its key, whenever it is called.          *)
Refusal ==
    CASE Planning.repeat = 0 /\ Version.prompt_template # "input" -> "template"
      [] Mock /\ ~Version.mock.wellformed                         -> "parameters"
      [] ~Mock /\ ~Supported(Version)                             -> "parameters"
      [] ~Mock /\ Version.provider \in Keyless                    -> "credentials"
      [] OTHER                                                    -> "none"

Refuse == Running /\ Refusal # "none" /\ Abort(Refusal)

Record(run) ==
    /\ runs' = Append(runs, run)
    /\ UNCHANGED <<config, stage, cause>>

(* MockProvider answers a prompt always in the same way.                     *)
MockAnswers ==
    LET mock == Version.mock
    IN  IF Case.input \in mock.fail_on THEN {}
        ELSE IF Case.input \in DOMAIN mock.answers THEN {mock.answers[Case.input]}
        ELSE {mock.default}

(* A hosted model answers as it likes, without retrieval or tool calls.      *)
ModelAnswers == {[Silence EXCEPT !.text = t] : t \in Texts}

Answers == IF Mock THEN MockAnswers ELSE ModelAnswers

(* A ProviderError, which an HTTP status, a timeout, a refused connection, a *)
(* body that is not JSON and an answer without text become, is a run like    *)
(* any other, without scores.                                                *)
CallFails ==
    /\ Running /\ Refusal = "none"
    /\ Mock => Case.input \in Version.mock.fail_on
    /\ Record([at |-> Planning, error |-> TRUE, response |-> Silence, scores |-> <<>>])

(* A connection the server drops once the request is sent raises from        *)
(* urlopen or read() as it is, a ConnectionResetError or an IncompleteRead:  *)
(* neither is a URLError, and the runner lets it pass.  So it does with the  *)
(* UnicodeDecodeError of json.loads when a body is not UTF-8, which is not a *)
(* JSONDecodeError: the same step.                                           *)
ConnectionDrops == Running /\ Refusal = "none" /\ ~Mock /\ Abort("transport")

Judges == {i \in DOMAIN config.evaluators : config.evaluators[i].type = "llm_judge"}

(* What the i-th evaluator raises: for want of labels, from its own judge,   *)
(* or because a score cannot have a blank name.                              *)
Raises(i, replies) ==
    LET spec == config.evaluators[i]
    IN  CASE LabelsMissing(spec.type, Case)                -> "labels"
          [] ~Written(NameOf(spec))                        -> "name"
          [] i \in Judges /\ JudgeFails(replies[i])        -> "judge"
          [] OTHER                                         -> "none"

Failing(replies) == {i \in DOMAIN config.evaluators : Raises(i, replies) # "none"}

Scores(response, replies) ==
    [i \in DOMAIN config.evaluators |->
        LET reply == IF i \in Judges THEN replies[i] ELSE NoReply
            score == Score(config.evaluators[i], Case, response, reply)
        IN  [score |-> score, passed |-> Passed(config.evaluators[i], score, reply)]]

ScoreRun ==
    /\ Running /\ Refusal = "none"
    /\ \E response \in Answers, replies \in [Judges -> Replies] :
          /\ Failing(replies) = {}
          /\ Record([at |-> Planning, error |-> FALSE, response |-> response,
                     scores |-> Scores(response, replies)])

(* Evaluators score in order; the first that raises ends everything.         *)
EvaluatorRaises ==
    /\ Running /\ Refusal = "none" /\ Answers # {}
    /\ \E replies \in [Judges -> Replies] :
          /\ Failing(replies) # {}
          /\ Abort(Raises(Min(Failing(replies)), replies))

(* The gate reads the policy when all runs are there.                        *)
Conclude ==
    /\ stage = "running" /\ Len(runs) = PlanLength
    /\ IF PolicyMetrics(config) \subseteq expected_metric_names(config.evaluators)
       THEN stage' = "concluded" /\ UNCHANGED <<config, cause, runs>>
       ELSE Abort("policy")

Init ==
    /\ config \in Configs
    /\ config.caller = "service" => Storable(config)
    /\ stage = "new" /\ cause = "none" /\ runs = <<>>

Next ==
    Begin \/ Refuse \/ CallFails \/ ConnectionDrops \/ ScoreRun \/ EvaluatorRaises \/ Conclude

Spec == Init /\ [][Next]_vars

----------------------------------------------------------------------------
(* Properties.                                                               *)

InUnit(score) == score.den > 0 /\ score.num \in 0..score.den

(* The variables keep their types; the runs are the plan's, in its order,    *)
(* and every score lies in [0, 1], as EvaluatorScore's constructor demands:  *)
(* an evaluator that computes another one ends the run.                      *)
TypeOK ==
    /\ config \in Configs /\ stage \in Stages /\ cause \in Causes
    /\ (stage = "aborted") = (cause # "none")
    /\ \A k \in DOMAIN runs :
          /\ runs[k].at = Planned(k - 1)
          /\ runs[k].error => runs[k].scores = <<>>
          /\ ~runs[k].error => Len(runs[k].scores) = Len(config.evaluators)
          /\ \A i \in DOMAIN runs[k].scores : InUnit(runs[k].scores[i].score)

(* Everything load_run_plan checks before the first call covers everything   *)
(* that raises after it: a loaded plan is never ended for want of labels, by *)
(* its policy, or by the runner's own preflight, and neither caller's is     *)
(* ended for a missing key or, on a real backend, by a parameter.  What is   *)
(* left to raise is a prompt template, the mock's parameters, a blank        *)
(* evaluator name, a dropped connection and the judge.                       *)
PreflightComplete ==
    stage = "aborted" =>
        /\ cause \notin {"preflight", "credentials"}
        /\ cause = "parameters" => Mock
        /\ config.caller = "cli" => cause \notin {"labels", "policy"}

(* The indices of a call sequence that hold a tool, with given arguments.    *)
CallsOf(calls, tool, arguments) ==
    {i \in DOMAIN calls : calls[i].name = tool /\ calls[i].arguments = arguments}

(* The reference definition: the largest set of indices of a whose names     *)
(* appear in b in the same order.                                            *)
CommonSubsequence(a, b) ==
    Max({Cardinality(I) : I \in {I \in SUBSET DOMAIN a :
        \E f \in [I -> DOMAIN b] :
            /\ \A i \in I : a[i] = b[f[i]]
            /\ \A i, j \in I : i < j => f[i] < f[j]}} \cup {0})

(* What the score of one evaluator claims of the run.                        *)
Claim(type, case, response, score) ==
    CASE type = "tool_trajectory" ->
             /\ score.num = 2 * CommonSubsequence(Names(case.calls), Names(response.calls))
             /\ (score.num = score.den) = (Names(case.calls) = Names(response.calls))
      [] type = "tool_arguments" ->
             score.num = score.den =>
                 \A k \in DOMAIN case.calls :
                     LET e == case.calls[k]
                     IN  e.arguments # Null =>
                             Cardinality(CallsOf(case.calls, e.name, e.arguments))
                                 <= Cardinality(CallsOf(response.calls, e.name, e.arguments))
      [] OTHER -> TRUE

(* Of one run: an exact trajectory has the exact tools, and perfect recall   *)
(* with perfect precision is exactly the relevant documents.                 *)
Consistent(types, scores, case, response) ==
    LET perfect(type) == \E i \in DOMAIN types : types[i] = type /\ scores[i].score.num = scores[i].score.den
        used(type)    == \E i \in DOMAIN types : types[i] = type
    IN  /\ perfect("tool_trajectory") /\ used("tool_selection") => perfect("tool_selection")
        /\ used("retrieval_recall") /\ used("context_precision") =>
              ((perfect("retrieval_recall") /\ perfect("context_precision"))
                  = (Elements(response.retrieved) = case.relevant))

(* Scores mean what the evaluators' documentation says, the longest common   *)
(* subsequence agrees with its definition, every labelled call of a perfect  *)
(* tool_arguments has a call of its own, and the evaluators of one run do    *)
(* not contradict each other (agent_evaluators.py, rag_evaluators.py).       *)
ScoresMeanWhatTheySay ==
    \A k \in DOMAIN runs :
        LET case  == Cases[runs[k].at.case]
            types == [i \in DOMAIN config.evaluators |-> config.evaluators[i].type]
        IN  ~runs[k].error =>
                /\ \A i \in DOMAIN types :
                      Claim(types[i], case, runs[k].response, runs[k].scores[i].score)
                /\ Consistent(types, runs[k].scores, case, runs[k].response)
=============================================================================
