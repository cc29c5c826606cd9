----------------------------- MODULE MCRunConfig -----------------------------
(***************************************************************************)
(* The configurations for TLC: a few that run, with every evaluator, and   *)
(* each with one thing changed.                                            *)
(***************************************************************************)
EXTENDS RunConfig, TLC

MCStopwords == {"the"}
MCLower == ("Paris" :> "paris") @@ ("paris" :> "paris") @@ ("the" :> "the") @@ (White :> White)
MCTexts == {<<>>, <<"the", "paris">>}
MCReplies ==
    {[verdict |-> "pass", score |-> Absent], [verdict |-> "fail", score |-> 1],
     [verdict |-> "other", score |-> Absent], [verdict |-> "pass", score |-> Unit + 1]}

Call(tool, arguments, ok) == [name |-> tool, arguments |-> arguments, ok |-> ok]
Expected(tool, arguments) == [name |-> tool, arguments |-> arguments]

Line(id, input) ==
    [kind |-> "case", id |-> id, input |-> input, expected_output |-> <<<<"paris">>>>,
     relevant |-> {"d1", "d2"},
     calls |-> <<Expected("search", "a"), Expected("search", "a"), Expected("read", Null)>>]

Blank     == [Line(Null, Empty) EXCEPT !.kind = "blank"]
Malformed == [Line(Null, "q1") EXCEPT !.kind = "malformed"]

(* Every sequence of at most three calls of two tools, and what else varies. *)
CallSequences ==
    UNION {[1..n -> {Call("search", "a", TRUE), Call("search", "b", FALSE), Call("read", "a", TRUE)}]
              : n \in 0..3}
Retrievals == {<<>>, <<"d1">>, <<"d1", "d2", "d1">>, <<"d2", "d3">>, <<"d3">>}

MockResponse(calls, retrieved) ==
    [text |-> <<White, "Paris">>, context |-> <<"the", "paris">>, retrieved |-> retrieved,
     calls |-> calls]

MockOf(response) ==
    [wellformed |-> TRUE, fail_on |-> {}, answers |-> ("q1" :> response),
     default |-> Silence]

Plain == MockResponse(<<Call("search", "a", TRUE)>>, <<"d1">>)

VersionOf(provider) ==
    [provider |-> provider, name |-> "v", prompt_template |-> "input",
     parameters |-> {[key |-> "mock", usable |-> FALSE], [key |-> "temperature", usable |-> TRUE]},
     mock |-> MockOf(Plain)]

Spec1(type) ==
    [type |-> type, name |-> Null, case_sensitive |-> (type = "exact_match"),
     pattern |-> IF type = "regex_match" THEN "Paris" ELSE Null, minimum |-> Absent,
     provider |-> "ollama", model |-> "m", temperature |-> Absent]

Specs(types) == [i \in DOMAIN types |-> Spec1(types[i])]

Offline ==
    [caller |-> "cli", wellformed |-> TRUE,
     lines |-> <<Line("c1", "q1"), Blank, Line(Null, "q2")>>,
     backend |-> "mock", timeout |-> 1, repeats |-> 1,
     version |-> [side \in Sides |-> VersionOf("ollama")],
     evaluators |-> Specs(<<"exact_match", "contains", "regex_match", "groundedness",
                            "retrieval_recall", "context_precision", "tool_selection",
                            "tool_arguments", "tool_success", "tool_trajectory">>),
     policy |-> <<[metrics |-> {<<Null, "success_rate">>, <<"contains", "pass_rate">>},
                   negative |-> FALSE]>>]

(* A local model against one with a key, judged.                             *)
Live ==
    [Offline EXCEPT !.backend = "live", !.lines = <<Line("c1", "q1")>>,
                    !.version.candidate = VersionOf("openai"),
                    !.evaluators = Specs(<<"contains", "llm_judge">>)]

(* The evaluations of one tool sequence or retrieval.                        *)
Observations ==
    {[Offline EXCEPT !.lines = <<Line("c1", "q1")>>, !.policy = <<>>,
                     !.version.baseline.mock = MockOf(MockResponse(calls, retrieved))]
        : calls \in CallSequences, retrieved \in Retrievals}

Unlabelled ==
    {[Line("c1", "q1") EXCEPT !.expected_output = <<>>],
     [Line("c1", "q1") EXCEPT !.relevant = {}],
     [Line("c1", "q1") EXCEPT !.calls = <<>>],
     [Line("c1", "q1") EXCEPT !.calls = <<Expected("search", Null)>>]}

LineChanges ==
    {<<>>, <<Blank>>, <<Malformed>>, <<Line(Empty, "q1")>>, <<Line("c1", White)>>,
     <<Line("c1", "q1"), Line("c1", "q2")>>, <<Line(Null, "q1"), Line(Null, "q1")>>}
    \cup {<<Line("c2", "q2"), l>> : l \in Unlabelled}

(* Each evaluator alone, so that each meets each missing label.              *)
Alone == {Specs(<<type>>) : type \in EvaluatorTypes}

SpecChanges ==
    {Specs(<<"bleu">>), Specs(<<"contains", "contains">>), <<>>}
    \cup {<<[Spec1("contains") EXCEPT !.name = n], Spec1("groundedness")>>
              : n \in {Empty, White, "c", "groundedness_lexical"}}
    \cup {<<[Spec1("regex_match") EXCEPT !.pattern = p]>> : p \in {Null, "("}}
    \cup {<<[Spec1("tool_success") EXCEPT !.minimum = m]>> : m \in {0, Unit, Unit + 1, Negative}}
    \cup {<<[Spec1("llm_judge") EXCEPT !.provider = p]>> : p \in {Null, "anthropic", "openai"}}
    \cup {<<[Spec1("llm_judge") EXCEPT !.model = White]>>,
          <<[Spec1("llm_judge") EXCEPT !.temperature = Negative]>>}

VersionChanges ==
    {[VersionOf("ollama") EXCEPT !.provider = p] : p \in ProviderNames \cup {"mistral"}}
    \cup {[VersionOf("ollama") EXCEPT !.name = White]}
    \cup {[VersionOf("ollama") EXCEPT !.prompt_template = t] : t \in {"other", "none", "malformed", White}}
    \cup {[VersionOf(p) EXCEPT !.parameters = {q}] : p \in {"ollama", "openai"},
            q \in {[key |-> "max_tokens", usable |-> TRUE], [key |-> "top_p", usable |-> FALSE]}}
    \cup {[VersionOf("ollama") EXCEPT !.mock.wellformed = FALSE],
          [VersionOf("ollama") EXCEPT !.mock.fail_on = {"q1"}],
          [VersionOf("ollama") EXCEPT !.mock.answers = <<>>]}

PolicyChanges ==
    {<<>>, <<[metrics |-> {}, negative |-> FALSE]>>,
     <<[metrics |-> {<<"groundedness", "mean_score">>}, negative |-> FALSE]>>,
     <<[metrics |-> {<<"contains", "mean_score">>, <<Null, "cost_usd.mean">>}, negative |-> FALSE]>>,
     <<[metrics |-> {<<Null, "cost_usd.total">>}, negative |-> TRUE]>>}

OneChange(c) ==
    {c, [c EXCEPT !.wellformed = FALSE], [c EXCEPT !.timeout = 0]}
    \cup {[c EXCEPT !.repeats = r] : r \in 0..2}
    \cup {[c EXCEPT !.lines = ls] : ls \in LineChanges}
    \cup {[c EXCEPT !.lines = ls, !.evaluators = es]
              : ls \in {<<l>> : l \in Unlabelled}, es \in Alone}
    \cup {[c EXCEPT !.evaluators = es] : es \in SpecChanges}
    \cup {[c EXCEPT !.version[side] = v] : side \in Sides, v \in VersionChanges}
    \cup {[c EXCEPT !.version = [side \in Sides |-> VersionOf(p)], !.backend = b]
              : p \in ProviderNames, b \in Backends \cup {"azure"}}
    \cup {[c EXCEPT !.policy = p] : p \in PolicyChanges}

Both(configs) == configs \cup {[c EXCEPT !.caller = "service"] : c \in configs}

MCConfigs == Observations \cup Both(OneChange(Offline) \cup OneChange(Live))
=============================================================================
