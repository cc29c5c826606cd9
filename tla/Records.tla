------------------------------ MODULE Records ------------------------------
(***************************************************************************)
(* What the catalogue keeps: for each kind of object the request and answer*)
(* schema (api/schemas.py), the domain object's own rules (domain/), the   *)
(* column each of its fields is stored in (db/mapping.py) and the row's    *)
(* constraints (db/models.py).                                             *)
(*                                                                         *)
(* An object is a record.  A text, a JSON document or a time is a string;  *)
(* None is Null; a text of white space only is Blank.  An optional number  *)
(* is only told negative or not.  Column lengths, and the checks of ids and *)
(* times, which the program generates itself, are left out.                *)
(***************************************************************************)
EXTENDS Integers, Sequences, FiniteSets, SequencesExt

Null  == "null"
Blank == ""

Written(x) == x # Blank
Unset(x) == x = Null
OptionallyWritten(x) == Unset(x) \/ Written(x)
Unsigned(x) == x # "negative"

IsSequence(s) == s \in Seq(Range(s))
IsRecord(v, fields) == DOMAIN v = fields /\ v = [f \in fields |-> v[f]]

(* A request body must name the required fields, may name those that have a  *)
(* default and nothing else; read is what an answer shows of an object.      *)
Schema(required, defaults, read) == [required |-> required, defaults |-> defaults, read |-> read]

WellFormed(schema, body) ==
    /\ schema.required \subseteq DOMAIN body
    /\ DOMAIN body \subseteq schema.required \cup DOMAIN schema.defaults

Parse(schema, body) ==
    [f \in schema.required \cup DOMAIN schema.defaults |->
        IF f \in DOMAIN body THEN body[f] ELSE schema.defaults[f]]

(* A record with further fields, where it does not have them already.        *)
Merge(record, more) ==
    [f \in DOMAIN record \cup DOMAIN more |-> IF f \in DOMAIN record THEN record[f] ELSE more[f]]

View(schema, v) == Restrict(v, schema.read)

(* Where each field is stored, and what it is read back from.                *)
Stored(to, from) == [to |-> to, from |-> from]
Same(fields) == [f \in fields |-> f]
InPlace(fields) == Stored(Same(fields), Same(fields))

ToRow(m, v) == [c \in Range(m.to) |-> v[CHOOSE f \in DOMAIN m.to : m.to[f] = c]]
FromRow(m, row) == [f \in DOMAIN m.from |-> row[m.from[f]]]

(* Children are stored with their position and loaded in its order.          *)
Numbered(rows) == {Merge([position |-> i - 1], rows[i]) : i \in DOMAIN rows}
ByPosition(rows) ==
    LET before(r) == {o \in rows : o.position < r.position}
    IN  [i \in 1..Cardinality(rows) |-> CHOOSE r \in rows : Cardinality(before(r)) = i - 1]

----------------------------------------------------------------------------
(* Project: names are not unique.                                            *)

ProjectFields == {"id", "name", "created_at"}

ProjectSchema == Schema({"name"}, <<>>, ProjectFields)

ValidProject(v) == Written(v.name)

ProjectMapping == InPlace(ProjectFields)

ProjectTable(row) == \A c \in ProjectFields : ~ Unset(row[c])

----------------------------------------------------------------------------
(* Dataset and its cases.                                                    *)

CaseOrigins == {"authored", "promoted_trace"}

ExpectedCallSchema ==
    Schema({"name"}, [arguments |-> Null], {"name", "arguments"})

CaseSchema ==
    Schema({"input"},
           [expected_output |-> Null, origin |-> "authored", source_trace_id |-> Null,
            expected_retrieval_ids |-> <<>>, expected_tool_calls |-> <<>>],
           {"id", "input", "expected_output", "origin", "source_trace_id",
            "expected_retrieval_ids", "expected_tool_calls"})

DatasetSchema ==
    Schema({"name", "version", "cases"}, <<>>,
           {"id", "project_id", "name", "version", "created_at", "cases"})

ValidExpectedCall(e) == Written(e.name)

ValidCase(v) ==
    /\ Written(v.input)
    /\ Blank \notin Range(v.expected_retrieval_ids)
    /\ \A e \in Range(v.expected_tool_calls) : ValidExpectedCall(e)
    /\ v.origin = "promoted_trace" => Written(v.source_trace_id) /\ ~ Unset(v.source_trace_id)
    /\ v.origin = "authored" => Unset(v.source_trace_id)

ValidDataset(v) ==
    /\ Written(v.project_id) /\ Written(v.name)
    /\ v.version >= 1
    /\ v.cases # <<>>
    /\ \A i, j \in DOMAIN v.cases : v.cases[i].id = v.cases[j].id => i = j

CaseMapping ==
    InPlace({"id", "input", "expected_output", "expected_retrieval_ids",
             "expected_tool_calls", "origin", "source_trace_id"})

(* Entries without a name are dropped on the way back.                       *)
ExpectedCallsFromJson(raw) ==
    LET kept[n \in 0..Len(raw)] ==
            IF n = 0 THEN <<>>
            ELSE IF Written(raw[n].name) THEN Append(kept[n - 1], raw[n])
            ELSE kept[n - 1]
    IN  kept[Len(raw)]

DatasetMapping == InPlace({"id", "project_id", "name", "version", "created_at"})

(* Mutant: positions count from the last case.                               *)
LastFirst(v) ==
    {Merge([dataset_id |-> v.id, position |-> Len(v.cases) - i], ToRow(CaseMapping, v.cases[i])) :
        i \in DOMAIN v.cases}

CaseRows(v) ==
    {Merge([dataset_id |-> v.id], row) :
        row \in Numbered([i \in DOMAIN v.cases |-> ToRow(CaseMapping, v.cases[i])])}

(* Mutant: a case is loaded without its source.                              *)
SourceForgotten(row) ==
    LET v == FromRow(CaseMapping, row)
    IN  [v EXCEPT !.expected_tool_calls = ExpectedCallsFromJson(@), !.source_trace_id = Null]

CaseFromRow(row) ==
    LET v == FromRow(CaseMapping, row)
    IN  [v EXCEPT !.expected_tool_calls = ExpectedCallsFromJson(@)]

DatasetFromRows(row, caseRows) ==
    LET rows == ByPosition({r \in caseRows : r.dataset_id = row.id})
    IN  Merge([cases |-> [i \in DOMAIN rows |-> CaseFromRow(rows[i])]],
              FromRow(DatasetMapping, row))

DatasetTable(row) ==
    /\ \A c \in {"id", "project_id", "name", "created_at"} : ~ Unset(row[c])
    /\ row.version >= 1

CaseTable(row) ==
    /\ ~ Unset(row.input)
    /\ row.origin = "promoted_trace" <=> ~ Unset(row.source_trace_id)

----------------------------------------------------------------------------
(* SystemVersion.                                                            *)

ProviderNames == {"openai", "anthropic", "ollama"}

SystemVersionFields ==
    {"id", "project_id", "name", "version", "provider", "model", "prompt_template",
     "parameters", "rag_config", "tool_policy", "created_at"}

SystemVersionSchema ==
    Schema({"name", "version", "provider", "model", "prompt_template"},
           [parameters |-> "{}", rag_config |-> Null, tool_policy |-> Null],
           SystemVersionFields)

ValidSystemVersion(v) ==
    /\ v.provider \in ProviderNames
    /\ \A f \in {"project_id", "name", "version", "model", "prompt_template"} : Written(v[f])

SystemVersionMapping == InPlace(SystemVersionFields)

SystemVersionTable(row) ==
    /\ \A c \in SystemVersionFields \ {"rag_config", "tool_policy"} : ~ Unset(row[c])
    /\ row.provider \in ProviderNames

----------------------------------------------------------------------------
(* ReleasePolicy: thresholds by metric name.                                 *)

ReleasePolicyFields == {"id", "name", "thresholds", "max_safety_violations"}

ReleasePolicySchema ==
    Schema({"name"}, [thresholds |-> <<>>, max_safety_violations |-> 0], ReleasePolicyFields)

ValidReleasePolicy(v) ==
    /\ Written(v.name)
    /\ v.max_safety_violations >= 0
    /\ \A metric \in DOMAIN v.thresholds : Written(metric) /\ v.thresholds[metric] >= 0

ReleasePolicyMapping == InPlace(ReleasePolicyFields)

ReleasePolicyTable(row) == ~ Unset(row.name) /\ row.max_safety_violations >= 0

----------------------------------------------------------------------------
(* Experiment: the policy is optional.                                       *)

ExperimentFields ==
    {"id", "project_id", "dataset_id", "baseline_version_id", "candidate_version_id",
     "repeats", "release_policy_id", "created_at"}

ExperimentSchema ==
    Schema({"dataset_id", "baseline_version_id", "candidate_version_id"},
           [repeats |-> 1, release_policy_id |-> Null], ExperimentFields)

ValidExperiment(v) ==
    /\ \A f \in {"project_id", "dataset_id", "baseline_version_id",
                 "candidate_version_id", "release_policy_id"} : Written(v[f])
    /\ v.baseline_version_id # v.candidate_version_id
    /\ v.repeats >= 1

ExperimentMapping == InPlace(ExperimentFields)

ExperimentTable(row) ==
    /\ \A c \in ExperimentFields \ {"release_policy_id", "repeats"} : ~ Unset(row[c])
    /\ row.repeats >= 1
    /\ row.baseline_version_id # row.candidate_version_id

----------------------------------------------------------------------------
(* ProductionTrace.                                                          *)

TraceFields ==
    {"id", "project_id", "system_version_id", "created_at", "input", "output",
     "reference_output", "metadata", "latency_ms", "cost_usd", "error", "origin"}

TraceSchema ==
    Schema({"system_version_id", "input"},
           [output |-> Blank, reference_output |-> Null, metadata |-> "{}",
            latency_ms |-> Null, cost_usd |-> Null, error |-> Null],
           TraceFields)

ValidTrace(v) ==
    /\ v.origin = "production"
    /\ \A f \in {"project_id", "system_version_id", "input"} : Written(v[f])
    /\ OptionallyWritten(v.error)
    /\ Unsigned(v.latency_ms) /\ Unsigned(v.cost_usd)

TraceMapping ==
    LET m == [f \in TraceFields |-> IF f = "metadata" THEN "trace_metadata" ELSE f]
    IN  Stored(m, m)

TraceTable(row) ==
    /\ \A c \in {"project_id", "system_version_id", "created_at", "input", "output"} : ~ Unset(row[c])
    /\ Unsigned(row.latency_ms) /\ Unsigned(row.cost_usd)
    /\ row.origin = "production"
=============================================================================
