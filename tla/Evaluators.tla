----------------------------- MODULE Evaluators -----------------------------
(***************************************************************************)
(* The evaluators (evaluators.py, rag_evaluators.py, agent_evaluators.py,  *)
(* judge.py): how they are built from their specs, when one cannot score a *)
(* case, and the score of each.                                            *)
(*                                                                         *)
(* A text is a sequence of words, White among them, a pattern a word and a *)
(* document its id.  A score is a fraction; thresholds are whole numbers   *)
(* of 1/Unit.                                                              *)
(***************************************************************************)
EXTENDS Integers, Sequences, FiniteSets, FiniteSetsExt

CONSTANTS
    Unit,        \* 1.0, in the units of a threshold
    Stopwords,   \* _STOPWORDS, and the words of one letter
    Lower,       \* [word -> word]: casefold
    Keyless      \* the providers whose API key is not in the environment

ASSUME UnitAssumption == Unit \in Nat \ {0}

Null  == "null"     \* None
Empty == ""
White == " "        \* any other blank text

Absent   == -1      \* of an optional number
Negative == -2

Written(x) == x \notin {Empty, White}

Elements(s) == {s[i] : i \in DOMAIN s}

(* The elements of a sequence that are in a set, in their order.             *)
Kept(s, S) ==
    LET kept[n \in 0..Len(s)] ==
            IF n = 0 THEN <<>>
            ELSE IF s[n] \in S THEN Append(kept[n - 1], s[n])
            ELSE kept[n - 1]
    IN  kept[Len(s)]

ProviderNames == {"openai", "anthropic", "ollama"}

RagTypes   == {"retrieval_recall", "context_precision", "groundedness"}
AgentTypes == {"tool_selection", "tool_arguments", "tool_success", "tool_trajectory"}
EvaluatorTypes == {"exact_match", "contains", "regex_match", "llm_judge"} \cup RagTypes \cup AgentTypes

----------------------------------------------------------------------------
(* build_evaluators.  A spec is a record with every field; one that is not   *)
(* given is Null or Absent.                                                  *)

(* An empty name is replaced like a missing one, a blank one is kept.        *)
NameOf(spec) ==
    IF spec.name \notin {Null, Empty} THEN spec.name
    ELSE IF spec.type = "groundedness" THEN "groundedness_lexical"
    ELSE spec.type

Threshold(spec) ==
    IF spec.minimum # Absent THEN spec.minimum
    ELSE IF spec.type = "groundedness" THEN (8 * Unit) \div 10 ELSE Unit

JudgeBuilt(spec) ==
    /\ spec.provider \in ProviderNames \ Keyless
    /\ spec.model # Null /\ Written(spec.model)
    /\ spec.temperature # Negative

SpecAccepted(spec) ==
    /\ spec.type \in EvaluatorTypes
    /\ spec.type = "regex_match" => spec.pattern \in DOMAIN Lower
    /\ spec.type = "llm_judge" => JudgeBuilt(spec)
    /\ spec.type \in RagTypes \cup AgentTypes => Threshold(spec) \in 0..Unit

UniqueNames(specs) == \A i, j \in DOMAIN specs : NameOf(specs[i]) = NameOf(specs[j]) => i = j

build_evaluators(specs) == (\A i \in DOMAIN specs : SpecAccepted(specs[i])) /\ UniqueNames(specs)

----------------------------------------------------------------------------
(* What each evaluator needs of a case; without it evaluate raises.          *)

Labelled(calls) == Kept(calls, {e \in Elements(calls) : e.arguments # Null})

CallsTo(tool, calls) == Kept(calls, {c \in Elements(calls) : c.name = tool})

LabelsMissing(type, case) ==
    CASE type \in {"exact_match", "contains"}                   -> case.expected_output = <<>>
      [] type \in {"retrieval_recall", "context_precision"}     -> case.relevant = {}
      [] type \in {"tool_selection", "tool_trajectory"}         -> case.calls = <<>>
      [] type = "tool_arguments"                                -> Labelled(case.calls) = <<>>
      [] OTHER                                                  -> FALSE

(* parse_judge_verdict, and the judge's own provider.                        *)
JudgeFails(reply) == reply.verdict \notin {"pass", "fail"} \/ reply.score \notin Absent..Unit

----------------------------------------------------------------------------
(* The scores.                                                               *)

Ratio(a, b) == [num |-> a, den |-> b]
One  == Ratio(1, 1)
Zero == Ratio(0, 1)

AtLeast(score, t) == score.num * Unit >= t * score.den

Binary(passed) == IF passed THEN One ELSE Zero

Folded(spec, text) ==
    IF spec.case_sensitive THEN text ELSE [i \in DOMAIN text |-> Lower[text[i]]]

Strip(text) ==
    LET ink == {i \in DOMAIN text : text[i] # White}
    IN  IF ink = {} THEN <<>> ELSE SubSeq(text, Min(ink), Max(ink))

Within(needle, text) ==
    \E k \in 0..Len(text) - Len(needle) : \A i \in DOMAIN needle : text[k + i] = needle[i]

ContentWords(text) == {Lower[w] : w \in Elements(text)} \ (Stopwords \cup {White})

Overlap(a, b) == Cardinality(a \cap b)

Names(calls) == [i \in DOMAIN calls |-> calls[i].name]

ToolSelection(case, run) ==
    LET expected == Elements(Names(case.calls))
        observed == Elements(Names(run.calls))
    IN  Ratio(Overlap(expected, observed), Cardinality(expected \cup observed))

(* Mutant: every expectation of a tool is compared with its first call.      *)
FirstCallOnly(case, run) ==
    LET labelled == Labelled(case.calls)
        matches(k) ==
            LET candidates == CallsTo(labelled[k].name, run.calls)
            IN  candidates # <<>> /\ candidates[1].arguments = labelled[k].arguments
    IN  Ratio(Cardinality({k \in DOMAIN labelled : matches(k)}), Len(labelled))

(* The k-th labelled expectation of a tool with the k-th call of that tool.  *)
ToolArguments(case, run) ==
    LET labelled == Labelled(case.calls)
        matches(k) ==
            LET tool == labelled[k].name
                index == Cardinality({i \in 1..k : labelled[i].name = tool})
                candidates == CallsTo(tool, run.calls)
            IN  index <= Len(candidates) /\ candidates[index].arguments = labelled[k].arguments
    IN  Ratio(Cardinality({k \in DOMAIN labelled : matches(k)}), Len(labelled))

ToolSuccess(run) ==
    IF run.calls = <<>> THEN One
    ELSE Ratio(Cardinality({i \in DOMAIN run.calls : run.calls[i].ok}), Len(run.calls))

(* _lcs_len goes from row to row of a table; the next row, for one name:     *)
NextRow(x, b, prev) ==
    LET curr[j \in 0..Len(b)] ==
            IF j = 0 THEN 0
            ELSE IF x = b[j] THEN prev[j - 1] + 1
            ELSE IF prev[j] >= curr[j - 1] THEN prev[j] ELSE curr[j - 1]
    IN  curr

LcsLength(a, b) ==
    LET row[i \in 0..Len(a)] ==
            IF i = 0 THEN [j \in 0..Len(b) |-> 0] ELSE NextRow(a[i], b, row[i - 1])
    IN  row[Len(a)][Len(b)]

(* Mutant: repeated names collapse in the lengths, as in ToolSelection.      *)
NamesCollapsed(case, run) ==
    Ratio(2 * LcsLength(Names(case.calls), Names(run.calls)),
          Cardinality(Elements(Names(case.calls))) + Cardinality(Elements(Names(run.calls))))

ToolTrajectory(case, run) ==
    Ratio(2 * LcsLength(Names(case.calls), Names(run.calls)), Len(case.calls) + Len(run.calls))

RetrievalRecall(case, run) ==
    Ratio(Overlap(case.relevant, Elements(run.retrieved)), Cardinality(case.relevant))

ContextPrecision(case, run) ==
    IF run.retrieved = <<>> THEN Zero
    ELSE Ratio(Overlap(case.relevant, Elements(run.retrieved)), Cardinality(Elements(run.retrieved)))

Groundedness(run) ==
    LET words == ContentWords(run.text)
    IN  IF words = {} THEN One
        ELSE Ratio(Overlap(words, ContentWords(run.context)), Cardinality(words))

JudgeScore(reply) ==
    IF reply.score = Absent THEN Binary(reply.verdict = "pass") ELSE Ratio(reply.score, Unit)

Score(spec, case, run, reply) ==
    CASE spec.type = "exact_match" ->
             Binary(Folded(spec, Strip(run.text)) = Folded(spec, Strip(case.expected_output[1])))
      [] spec.type = "contains" ->
             Binary(Within(Folded(spec, case.expected_output[1]), Folded(spec, run.text)))
      [] spec.type = "regex_match"       -> Binary(spec.pattern \in Elements(run.text))
      [] spec.type = "llm_judge"         -> JudgeScore(reply)
      [] spec.type = "retrieval_recall"  -> RetrievalRecall(case, run)
      [] spec.type = "context_precision" -> ContextPrecision(case, run)
      [] spec.type = "groundedness"      -> Groundedness(run)
      [] spec.type = "tool_selection"    -> ToolSelection(case, run)
      [] spec.type = "tool_arguments"    -> ToolArguments(case, run)
      [] spec.type = "tool_success"      -> ToolSuccess(run)
      [] spec.type = "tool_trajectory"   -> ToolTrajectory(case, run)

Passed(spec, score, reply) ==
    IF spec.type = "llm_judge" THEN reply.verdict = "pass"
    ELSE IF spec.type \in RagTypes \cup AgentTypes THEN AtLeast(score, Threshold(spec))
    ELSE score = One
=============================================================================
